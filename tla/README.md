# A TLA+ model of KidsChores

KidsChores is a household chore tracker: parents define tasks, teens complete
them or ask to be excused, parents review, and points are paid into a ledger.
The backend (`src/backend/app`) is a FastAPI service over PostgreSQL and Redis,
with Celery workers next to it. All file names below are relative to it.

This directory holds TLA+ modules of its core logic, TLC configurations that
check them on small instances, and TLAPS proofs of the most important
guarantees for any number of instances, requests, members and so on.
`PROJECT.json` maps each definition to the lines it models, and lists the
hazards of this code with the properties that watch them.

## 1. The system

| Component | State it keeps | Operations | Talks to | Module |
|---|---|---|---|---|
| State machine, `services/state_machine.py` | status and grace clock of a task instance | complete, submit_excuse, review, resolve_excuse, cancel, reverse_completion | the ledger, in the same transaction | TaskRows, TaskStateMachine |
| Ledger, `services/ledger.py` | append-only entries, unique per (instance, type) and per series window | awards, reversal, series bonus, claim debit, adjustment | every part that pays | PointsLedger, AwardLedger, Wallet |
| Task endpoints, `routers/tasks.py` | none; one session each | complete, excuse, review, cancel | idempotency, state machine, series, push | TaskRequests, KeyedRequests |
| Approvals, `routers/approvals.py` | none | inbox, bulk approval of many instances in one transaction | state machine | TaskRequests, Notices |
| Session, `db/database.py` | one transaction per request | commit at the end, rollback on an exception | PostgreSQL | all with sessions |
| Nightly job, `workers/generate_instances.py` | none | generate 14 days, pending to overdue, overdue to missed | writes the same rows as the requests | TaskRequests, TaskCalendar |
| Idempotency, `services/idempotency.py` | cached answers in Redis | GET, run the handler, SET NX | wraps the task endpoints | KeyedRequests |
| Series, `routers/series.py`, `services/series_completion.py` | series, their windows | create, edit, archive, evaluate | reads instances, writes a bonus | Wallet |
| Wallet, `routers/wallet.py` | claims, goals | adjust, submit and resolve a claim, goals | the ledger | Wallet |
| Definitions, `routers/definitions.py` | task definitions | create (and today's instance), edit, archive | the nightly job reads them | TaskCalendar |
| Household, `routers/household.py` | settings, members | edit, add, archive, PIN | settings are read by all others | Accounts, SignIn |
| Authentication, `routers/auth.py`, `auth/*`, `services/refresh_tokens.py` | credentials, redeemed refresh tokens | register, login, link, refresh | rate limiter, linking | Accounts, SignIn |
| Linking, `services/linking.py` | two Redis keys per code | create, redeem | authentication | Accounts |
| Rate limiter, `services/rate_limit.py` | a Redis counter per key | check | authentication | SignIn |
| Reminders and digest, `workers/reminders.py`, `workers/notify_digest.py` | reminder_sent_at | push what is due, nudge parents | push | Notices |
| Reports, `services/reports.py` | none | pure functions over a period | instances | Reports, Notices |

What is hard in it:

* **A request decides on a copy.** An endpoint loads an instance with a plain
  `SELECT`, awaits several times, and writes the columns it changed by primary
  key. There is no `FOR UPDATE`, no version column and no test of the old
  status, so requests (and the nightly job) overwrite each other's status.
  What remains is the unique index on ledger entries and the transaction.
* **A batch is one transaction over many rows**, in an order the client
  chooses: it can deadlock with another batch or with the nightly job, and one
  failing item can take the others with it.
* **The answer is stored before the effect is committed.** A key's answer is
  cached in Redis, and notifications are sent, before `get_db` commits; the key
  is not reserved while its handler runs.
* **A balance is read before the entry is inserted**, and claims have neither a
  status check nor a unique index.
* **Redis is used one command at a time**: INCR and EXPIRE, the two keys of a
  link code, and the record of a used refresh token are not atomic with what
  depends on them, and a request can be lost in between.
* **The grace clock** is two columns that are updated by pauses and resumes
  whose number and timing are up to the people.
* **The jobs** move instances along while requests are in progress, end as a
  whole when the data of one household makes them raise, and can overlap with
  their own next run.
* **Clocks**: days and weeks are those of a household's zone, whose clocks are
  put forward and back.

## 2. Modules

```
GraceClock <- TaskRows <- TaskStateMachine -- implements --> TaskPromise
                       <- TaskRequests     -- implements --> AwardLedger
KeyedRequests           keys, retries and the commit around one handler
PointsLedger <- TaskStateMachine, Wallet     the balance, a sum over the entries
Wallet                  claims, adjustments, series bonus on a member's ledger
TaskCalendar            definitions and the job over all households
Reports <- Notices      inbox, reminders, digest, weekly report
Accounts                members, subjects, link codes
SignIn                  attempt counters, refresh tokens

MC<Module>              the instance of <Module> for TLC
<Module>Proofs          theorems (TaskRowsProofs: lemmas about the patches;
                        LedgerProofs: TaskStateMachine and Wallet)
```

The modules share the system's row of an instance, but each of those below
TaskRequests keeps of it only what its own subject reads and says in its header
what it leaves to another.

### The task and its points

**GraceClock** is the arithmetic of `_suspend_grace` and `grace_remaining`.
Time is a natural number of an arbitrary unit. The code never uses the value of
`grace_paused_at`, only whether it is null, so it is a Boolean.

**TaskRows** has the row of an instance (`status`, `elapsed`, `paused`) and, for
each method of `StateMachineService`, the *patch* it leaves in the session: the
SET list of the UPDATE that will be issued. A column the method did not change
is not in it (`Keep`). The difference between a patch and a new row is what
makes lost updates come out as they do in the database: a stale denial sets the
status but does not touch a clock that somebody else paused.

**PointsLedger** has what both modules with a ledger of points use:
`current_balance` as a fold over the sequence of entries, and the entries of a
type, for which the unique indexes ask.

**TaskStateMachine** is the service for one instance served one call at a time.
Each action is a service call with its transaction: the guard of the method,
the patch applied, the ledger entry written. The nightly sweep is one action,
and leaves the instance alone once its definition is archived
(`ArchiveDefinition`), as the job selects definitions that are not.
Calls that raise change nothing and have no action. `openTime` is a history
variable: how long the instance was past due and open to the teen.

**TaskPromise** is what the household is promised: the status follows the
transition table (`_TRANSITIONS`), and the sum of the instance's ledger entries
is what the status is worth. `KeepsPromise` is the refinement.

**TaskRequests** is the same service under concurrency. A session walks through
`Begin`/`Load` (SELECT of the committed row), one decision action per
method (guard on the *loaded* copy), `Flush` (row lock, columns applied to the
row as it is *now*, INSERT of the award), again `Load` for the next item of a
batch, and `Commit`. It can be refused by the unique index (`DuplicateEntry`),
fail anywhere (`Crash`), or be the victim of PostgreSQL's deadlock detector.
`image[t]` holds the row versions that transaction `t` has written and not
committed; an image is the row lock. The nightly job is a transaction of its
own: `SweepStart`/`SweepRow` (one UPDATE, which re-tests a row it waited for),
`Scan` (its SELECT), `ExpireRow` (the flush, which does not), `WorkerCommit`.
Both statements keep to the definitions the job selected first (`wscope`), any
of which a parent may have archived before that.
PostgreSQL's READ COMMITTED rules, its locks, its lock queue and its deadlock
detector are external code and modelled from how the repository relies on them.

| Code | Action in TaskRequests |
|---|---|
| `_get_instance_or_404`, the SELECT of `bulk_approve` | `Begin`, `Load` |
| `sm.complete`, `submit_excuse`, `review`, `resolve_excuse`, `cancel` | `Complete`, `SubmitExcuse`, `ApproveCompletion`, `DenyCompletion`, `ApproveExcuse`, `DenyExcuse`, `Cancel` |
| InvalidTransitionError, ValueError, "not pending review" | `Reject` (a batch goes on with the next item) |
| autoflush before a SELECT, `_write`'s flush, the flush in commit | `Flush` |
| `DuplicateLedgerEntryError` | `DuplicateEntry` |
| `get_db` | `Commit`, `RollBack` |
| `_generate_for_household` | `SweepStart`, `SweepRow`, `Scan`, `ExpireRow`, `WorkerCommit`, `WorkerCrash` |

A rejected single request goes through `Commit` with nothing to commit, where
the code rolls back; both leave the database as it was. A batch that names one
instance twice is left out. `requires_review` and `excused_payout_policy` are
settings a parent can edit at any time, hence a choice at each call.

**AwardLedger** is the abstract ledger. A transaction asks for an entry and
inserts it, unless it is there or another transaction has it in hand; then it
can only abort. What it has inserted enters the ledger all at once when it
commits (`CommitAll`), and nothing of it does when it aborts (`Abort`). A step
that commits one item of a batch, or keeps part of a batch that failed, is no
step of it.

### Keys and retries

**KeyedRequests** puts one instance behind `run_idempotent`. A session is one
arrival of a request; a key is one action of a user, and its client sends it
again and again, before or after the first attempt has ended, until it hears
200 or 422.

| Code | Action in KeyedRequests |
|---|---|
| the endpoint's load, before `run_idempotent` | `Arrive` |
| GET of the key | `Lookup` (miss), `Replay` (hit) |
| the handler, on the loaded copy | `Decide`, `Refuse` (422) |
| flush (if the handler queries again), unique index, notification | `Finish`, `DuplicateEntry` (500) |
| SET NX of the answer | `Store` |
| `get_db`'s commit and the response, in either order | `Commit`, `Reply` |
| a crash or broken connection | `Fail` |
| the due time; the nightly job's UPDATE, SELECT and flush | `FallDue`, `JobSweep`, `JobRead`, `JobWrite`, `JobLost` |

`Outcomes` gives the transitions of the handler: completions with and without
review, excuses, cancellations, approvals and denials, which open the instance
again as pending or overdue (`Reopened`). An operation that neither awards nor
notifies does not query after its change, and so is flushed, and waits for the
row lock, only in `Commit` (`FlushesEarly`). The nightly job writes to the same
instance, also on what its SELECT returned before a request committed.
`applied`, `lost`, `sent` and
`client` record what became durable, which commits were lost after their answer
had been stored, what was pushed, and what a client knows.

### The wallet

**Wallet** is one member's ledger as a sequence of entries with the
`balance_after` that was computed for each. Sessions read SUM(delta)
(`CurrentBalance`), insert (`InsertEntry`, which waits on another transaction's entry
of the same unique key), evaluate the series in the same transaction
(`Evaluate`), and `Commit`. `ResolveClaim` loads a claim and does not ask for
its status, as the code does not. Requests about a task decide on the status they
loaded (`CompleteTask`, `AskVerdict`, `Review`, `Void`, the last also for the
nightly job) and write theirs by id at the commit (`Outcome`), so an accepted
task may be replaced by a stale excuse, denial or cancellation: acceptance is not
final. An approved excuse pays nothing, half or all. `alone` is a history variable of an entry: no
other commit fell between the session's first SUM and its own. Its `account`
is the ledger, and where TaskStateMachine has a name of its own for the same
idea Wallet's begins with `Wallet`: the proofs extend both.

In this commit nothing writes `TaskInstance.series_instance_id`; Wallet takes
the rows of a window as given and shows what `SeriesCompletionService` makes of
them once something does.

### The calendar

**TaskCalendar** has definitions with their schedule, instances identified by
(definition, `due_at`), and the nightly job as a loop: `JobRead` takes the next
household, its timezone, the local day and its definitions; `JobWrite` upserts
the days of the horizon, sweeps and expires in one commit. `CreateDefinition`
upserts the day's instance on demand; `UpdateDefinition`, `ArchiveDefinition` and
`UpdateHousehold` (which edits the timezone) leave instances alone.

What the API stores need not parse: a timezone is any string, `end_date` is any
string, and the pattern of `due_time` lets 99:99 through. `Raises` and `JobRaises`
say on which days such data raises; `JobFail` then ends the run for all
households that are still to come, and does so again on every later run.
`JobLost` is a run lost for another reason, at most `MaxFailures` times. `planned`,
`edited` and `moved` are history: days a committed run has looked at, definitions
edited since their creation, households whose timezone was. A timezone is a fixed
distance here; clock changes are the subject of Reports. One run of the job is
in progress at a time.

### Notices and reports

**Reports** is arithmetic: the household-local week of an instant, the range of
a report, and the counts of its weeks, in a zone whose clocks change once.
`Monday` is `tz.localize` with its default `is_dst=False`: of a midnight that
comes twice it takes the later, and one that is skipped it reads in standard
time.

**Notices** keeps what reads the rows that racing requests leave: the inbox
(`ListedBefore`, its two-column sort, with NULL first in the one column and last
in the other), reminder runs that overlap (`RemindStart`
is the SELECT, `RemindSend` one push, `RemindCommit` the one COMMIT that marks
them, `RemindFail` a run lost before that), the digest (`SendDigests`, whose
filter compares `completed_at`) and `Report`. Its requests load a status and
later write on it, so every order of stale writes occurs.

### Accounts and signing in

**Accounts** is concurrent: registrations and new teens (`Register`,
`CreateTeen`, then `Flush` against the unique index, `CommitInsert`), removal,
and link codes one Redis command per action (`GenerateCode`, `PreviousCode`,
`DropPrevious`, `SetCode`, `IndexCode`; `RedeemCode`, `ForgetCode`,
`ForgetIndex`, `Link`, then `Answer` and `CommitLink` in either order, or `Answer`
alone if the request is lost before its commit). `unsaved` are the links of which
a client was told and which are not committed. `contended` and `disturbed` are history:
teens two of whose redemptions, or any two of whose code requests, overlapped or
were lost. They name exactly the situations in which the guarantees below stop.

**SignIn** counts attempts (`CountFirst`, `Expire`, `CountNext`, `TooMany`,
`WindowEnds`) and rotates refresh tokens (`Refresh`, `Redeem` by SET NX,
`AlreadyUsed`, `Issue`), with requests lost in between (`Fail`). The record of a
used token lasts for the whole seconds its token has left, so `RecordExpires` may
come as soon as the token is near its exp (`NearsExpiry`), before `TokenExpires`.

## 3. What the runs check

| Run | Instance | Shows |
|---|---|---|
| `task_state_machine` | one task of value 3, due at 1, grace 3, time up to 7 | `KeepsPromise` (refinement of the table and of the points), `GraceNeverExtended`, `ExpiredIsClosed` (liveness), `TypeOK` |
| `task_requests` | one instance, two requests at a time (any number in sequence), the nightly job, grace 1, due at 1, time up to 2 | `AtMostOnce`, `CompleteIsPaid`, `CreditedOnAcceptance`, `TypeOK` |
| `batches` | two instances awaiting review, two sessions approving single items or batches in either order, the job in the middle of its flush | `ImplementsAwardLedger`, `RequestsEnd` (liveness) |
| `keyed_requests` | a completion and an approval of one instance, two requests at a time, one lost, the nightly job | `CommittedIsAnswered`, `OkIsApplied`, `ClientAnswered` (liveness), `TypeOK` |
| `denied_requests` | a completion, a denial and a second completion, two requests at a time, the nightly job | `ClientAnswered` (liveness) |
| `wallet` | a window of two tasks worth 1 and 2, a claim of 2, adjustments of 3, a bonus of 5, four entries, two sessions | `BalanceAfterExact`, `ClaimDebits`, `BonusWithWindow`, `WalletTypeOK` |
| `task_calendar` | two households, one definition of any of five forms (two that do not parse), two times of day, two timezones and one that does not exist, horizon 2 days, three instants, one edit, one lost run | `OneADay`, `HorizonFilled`, `PastDueIsSwept` (liveness), `TypeOK` |
| `notices` | two instances due at 1 and 2, one request at a time with the nightly sweep next to it, two reminder runs, one lost, two instants, weeks of two hours, clocks put forward, back, or left alone before, in or after them | `InboxHasTimes`, `RemindedOnce`, `ReportExact`, `ReviewIsNudged` (liveness), `TypeOK` |
| `accounts` | three members, two emails, one name, two codes, two requests at a time, one lost | `UniqueSubject`, `LinkedCanSignIn`, `OneCode`, `IdentityKept`, `TypeOK` |
| `sign_in` | limits 2 for an address and 1 for an email, two tokens, two requests at a time, one lost | `RotatedOnce`, `LockEnds` (liveness), `TypeOK` |

Bounds. Two sessions are enough for every pairwise overwrite, and sessions are
reused, so retries and later requests occur. Time up to `MaxTime` leaves
instants before, at and after the due time and the end of the grace period; in
the sequential model it is long enough for several excuses to be submitted and
denied inside and after the grace period. The value 3 is odd, so that half of it
is rounded. `MaxElapsed` stops the accumulated grace from growing through ever
more excuses. `batches` starts from a reachable situation (`InboxSpec`) instead
of searching for it: two instances are enough for opposite lock orders, and the
job adds a third party to the wait. `keyed_requests` has two actions that conflict
and of which one follows the other; one failure is enough for every "lost here"
because the retries of the key go on after it. `denied_requests` has a denial open
the instance again, long enough for a stale write to put a paid completion back
before the second completion; nothing is lost in it, so that its liveness can be
checked with three keys. In `wallet` the values are chosen so that different
sets of entries have different sums; four entries have room for both awards and
the bonus next to a claim's debit or an adjustment. In `task_calendar` the forms
are of every kind, with two times of day so that an edited due time moves within
a day, an end that the horizon crosses, and two that raise, one of which today's
creation raises on too and one that is stored and then stops the job; the
instants take the job into a second day, and the second household is there for a
run to stop in between. `accounts` has three members, so that a household has two
teens of one name, or there are two households, and two codes, so that a previous
one can stay valid; a parent and a teen use up its two emails, so that it links no
profile a second time (`MCLinkedOnce.cfg` has three emails, and does). The runs of Accounts and Wallet and `task_requests` use
symmetry, and none of them checks liveness. `notices` has two instants, so that
of two submissions one is older and one can be repeated later, and a week that
ends between them. In `sign_in` an address's counter lets through what the
email's does not, and a window may end between the two; a PIN's counter of its
own would be counted in the same way. `MaxFailures` bounds what is lost in each:
nothing bounds crashes in TaskRequests and Wallet, where they cost no state.

Deadlock checking is on where the system may always do something
(`task_requests`, `batches`). The other models stop when the clock is at its
bound, the ledger is full, or the supply of tokens, codes or keys has run out
and every client has its answer: their configurations say so.

Fairness.

* TaskStateMachine: time passes and the nightly job is run every night
  (`celery_app.py:28-33`), which is weak fairness of the sweep, in a household
  that the job reaches: TaskCalendar has those that it does not.
* TaskRequests: a handler that can go on does (weak fairness per session);
  PostgreSQL serves the waiters of a row lock in a queue, so a flush that is
  possible again and again happens (strong fairness per session and per row of
  the job); its deadlock detector acts.
* KeyedRequests: the same for handlers and locks, and each client sends its
  request again as long as it has no answer, which is what the API reference
  asks of it (strong fairness of its arrivals, since a session may be busy). A
  run of the nightly job that holds the row ends, with its commit or lost.
* TaskCalendar: beat starts the job again and again and its steps end; time
  passes. At most `MaxFailures` runs are lost, but any number of them raises, as
  long as the stored data makes them: `PastDueIsSwept` promises nothing while
  there is such data in any household.
* Notices: the daily digest is run, and time passes. Nothing is assumed of
  requests or of the reminder job.
* SignIn: Redis expires what has an expiry, and a request that is not lost goes
  on from INCR to EXPIRE.

Nothing is assumed of people, crashes or the arrival of other requests.
Accounts and Wallet have safety properties only and no fairness.

### Claims the code does not keep

Each of these quotes a comment or a document, and TLC finds a behaviour that
contradicts it. The first two are runs; the others have a configuration of
their own (`MC<Claim>.cfg`) outside the regular runs, and each ends in a
counterexample as well. All are in `findings` of `PROJECT.json`.

| Claim | What the counterexample shows |
|---|---|
| `MissedPaysNothing` (prd.md:240) | the nightly job overwrites a paid completion |
| `ClaimDebitedOnce` (`wallet.py:164-165`) | a claim resolved again is debited again, or declined after its debit |
| `WaitingIsFree` (`state_machine.py:8-11`) | `_resume_grace` clears the pause only, and `grace_remaining` then counts from the due time: the wait is charged. A completion under review does not pause the clock at all. |
| `SweptPerHousehold` (prd.md:355-357) | a timezone that does not parse stops the run of every night before it reaches another household |
| `OneInstanceADate` (`generate_instances.py:115-118`, prd.md:109) | after an edit of the due time the job gives days that have an instance a second one |
| `NeverRotatedAgain` (`refresh_tokens.py:5-9`) | the record of a used token ends in the last second of the token, which is accepted once more |
| `LinkedOnce` (`linking.py:12`, `auth.py:234-238`) | two redemptions of one code overlap; the second takes the profile over from the first |
| `InboxOldestFirst` (`approvals.py:8`, `:41`) | a completion comes before an older excuse, as its excuse time is NULL |
| `NeverMissedEarly` (prd.md:245) | a second pause adds the whole time since due to a sum that already holds the first part |
| `CompletedWithinGrace` (prd.md:213) | `complete` does not ask for remaining grace; it is open until the next nightly run |
| `ActionableCanBePaid` (prd.md:213, 224) | after a reversal the first award blocks the second. `reverse_completion` is not reachable through a router in this commit. |
| `CancelledPaysNothing` (prd.md:241) | a cancellation overwrites a paid completion |
| `OpenClockRuns` (prd.md:228) | a stale denial leaves the instance open with a stopped clock: it can never be missed |
| `BadItemFailsAlone` (`approvals.py:101-102`) | the duplicate award of one item rolls back the whole batch |
| `NotifiedOnce` (api-reference.md:797) | two attempts under one key miss the cache together, and each notifies |
| `ExcuseIsNudged` (`notify_digest.py:2`) | the digest asks for `completed_at`, which an excuse of a task never completed does not have |

Smaller divergences met while modelling, which the properties state around
rather than as runs: a reminder is repeated by overlapping runs and by a run lost
after its pushes; the range of a report ends an hour before its last week does
when the clocks are put back in that week, and starts an hour late if they
repeat the very midnight it starts with (`ClocksKept`); a link whose client was
told before the commit is lost with the commit (`unsaved`), a lost request can
leave a teen with two valid codes or none (`disturbed`), and a code is drawn without asking
whether it is in use; two teens of one name in a household collide in their
placeholder subject, which ends in 500; a counter whose first attempt is lost
between INCR and EXPIRE never ends (`orphaned`); a refresh lost after its token
was reserved signs the client out (`lost`); an instance can be put back before a
verdict or to open with its award already paid, by a stale denial, excuse or
sweep, and then every completion or approval is answered 500, for ever
(`AwardStranded`); a change that nothing in its handler flushes is written only by
the commit, on whatever the row holds by then; open instances of an archived
definition are never swept, so that they stay pending or overdue and can still be
completed; an edit of the timezone moves `due_at`, and the days ahead get a second
instance (`moved`).

## 4. What is proved

Each theorem holds for every value of the constants that satisfies the named
ASSUMEs of the module, which TLC evaluates on the instances of the runs. In
every module `TypesAlways` (of Wallet, `WalletTypesAlways`) is
`Spec => []TypeOK`, from an inductive type
invariant that also relates a session's step to what it holds.

**TaskRequestsProofs** (with TaskRowsProofs): `AwardedAtMostOnce`,
`CompleteAlwaysPaid`, `LedgerRefinement` (`Spec => ImplementsAwardLedger`) and
`CreditsOnlyOnAcceptance`. None is inductive: that a commit adds an entry that is not there depends on what
was true when the session inserted it. The inductive invariant `AwardInv` adds

* `HasItem`: a session that has loaded or decided has an item to work on;
* `OneWriter`: at most one transaction has an image of a row;
* `CreditHeld`: an entry a session has inserted belongs to a row it has an
  image of, and is not in the committed ledger;
* `CompleteWithAward`: a decision that says complete carries the award, an image
  that says complete belongs to a session that has inserted it, and the
  nightly job never writes complete.

So between the INSERT and the commit of an award the row lock keeps everyone
else from committing one of the same type, and the unique index is asked at the
right time. This is where status and award meet: the code writes the status
without any check, and the lock the UPDATE takes is what makes the index
sufficient. There is one lemma per action and one step per conjunct it can
disturb. For the refinement, what a session has asked for and what it has inserted
are the abstract transaction's (`AskedEntry`, `credit`): a decision with an award
maps to `Ask`, `Flush` to `Insert`, `Commit` to `CommitAll` of everything the
session holds, and a duplicate, a crash or a deadlock to `Abort`.

`CreditsOnlyOnAcceptance` is an action property of `Commit` alone, but what the
commit finds was written by a batch whose later items could have undone it.
`AcceptInv` says that a verdict with an award accepts, that the version of every
instance a session has credited is complete or excused, and that no item it has
still to do names such an instance again, because a request names each once.

**LedgerProofs** first makes sums provable. Induction over data is out of the
provers' reach as a rule about predicates; `SetInduction` states it of a *set*
of naturals, where it follows from a fact of the library: a map of a finite set
into itself that is one to one is onto. Applied to the lengths for which a
ledger has running sums (`FoldExists`, `BalanceRuns`), it gives what the proofs
cite: `BalanceAppend` (an entry adds its delta), `BalanceIsInt` and
`BalanceOfPrefix`.

* Of TaskStateMachine: `GraceAlwaysCharged`, where `GraceInv` adds that a paused
  clock means the instance waits for an answer, that what a pause found is in
  `elapsed` at least, and that time open to the teen is at most time since due;
  and `PromiseRefinement`: every step maps to one of the transition table with
  the points that go with it, or to a stutter. `Promised` adds the invariant
  that the table's step needs: the sum of the entries is zero unless the
  instance is accepted, and its value once it is complete.
* Of Wallet, each with an invariant that follows entries from the session that
  has inserted them into the account. `PlacedInv` says what a session holds at
  each of its steps, and `RoomLeft` that those in progress fit under the bound
  (types). `ExactInv`: while nobody else commits, a session's sum is the balance
  with its own entries (`BalanceAfterAlwaysExact`). `UniqueInv`: no two entries
  of one task or window and type, committed or not, which is what waiting for
  another's uncommitted entry achieves; with it `WindowInv` (the bonus is there
  exactly when the window is complete) gives `BonusAlwaysWithWindow`. That the
  bonus was earned is not claimed: a stale write may replace an accepted status
  before the bonus is committed or afterwards. `DebitInv` adds that who has
  loaded a claim as resolved is not the first to resolve it
  (`ClaimsAlwaysDebited`).

**KeyedRequestsProofs**: `CommittedAlwaysAnswered` and `OkAlwaysApplied`.
`KeyedInv` has three parts: a session that has come to store has an answer under
its key (`Answered`); an answer in the cache is backed by a commit, by a session
still to commit, or by a commit that was lost after it was stored
(`CacheBacked`); and a session that says it has committed has (`CommitApplied`).
It is the order "store, then commit" that carries the first theorem, and the
same order that makes the second one conditional.

**TaskCalendarProofs**: `AlwaysOneADay` and `HorizonAlwaysFilled`, both about
definitions that nobody has edited in households that kept their timezone
(`Settled`). The job's copies of the definition and of the timezone may be stale.
`CalendarInv` says that they are not for a settled definition (`SeenCurrent`), that
its instances are due at its own time of day (`OnDue`), and that a planned day is
filled at that time (`Filled`).

**AccountsProofs**: `SubjectsAlwaysUnique`, `LinkedAlwaysSignsIn`,
`IdentityAlwaysKept`, `OneCodeAlways`. `AccountsInv` follows a write from its SELECT to its
COMMIT: what a session works on (`Known`), who may work on a row that does not
exist yet (`Sole`), what its copy agrees with in the row (`Copies`), what has
passed the index and waits for its COMMIT (`Apart`, `Free`), and what two
redemptions of one teen record (`Contend`, `First`, `LinksKnown`).
`LinkedAlwaysSignsIn` is about links that are committed: a client told before the
commit is in `unsaved`, for good if the commit is lost. `CodesInv`
says that at most one session works on the codes of a teen whose requests did
not overlap, and that its valid code is the indexed one or the one that session
has in hand.

**SignInProofs**: `TokensRotatedOnce`. `RotationInv` says of each token that is
not near its exp that it has exactly one request on its way to a successor, or
exactly one successor, or neither, according to whether its jti is reserved and
its rotation was lost.

**NoticesProofs**: `InboxAlwaysHasTimes`, which is inductive as it stands, since
whoever makes an instance wait writes the time in the same UPDATE;
`AlwaysRemindedOnce` for any finite number of overlapping runs; and
`ReportAlwaysExact`. `RemindInv` counts: before an instance is marked each push about it is one of a run that has
yet to commit or of one that was lost; once it is marked only runs that had
selected it before can still push. The report rests on `DueKept` (no step
changes a due time) and on arithmetic: what the clocks show as after a Monday's
midnight is not before the instant `tz.localize` gives for it (`AfterMonday`),
and what they show as before the next is less than seven days later
(`BeforeNextMonday`), in each case unless an hour is repeated there. It assumes
of a zone that its clocks change by an hour (`NoticesAssumption`), at any
instant, as those of all but a few zones do: put forward by more, instants before
the one it gives for a skipped midnight would show the new week already.

Every invariant, every action property and both refinements that the passing
runs check are proved. Only model-checked are the six liveness properties
(`ExpiredIsClosed`, `RequestsEnd`, `ClientAnswered`, `PastDueIsSwept`,
`ReviewIsNudged`, `LockEnds`), as TLAPS does not reason about fairness or
ENABLED. The counterexamples of the claims above are TLC's as well.

## 5. Not modelled, and the plan

Left out, with the reason:

* savings goals, the household's settings but for the timezone, birthdates, Sign in with
  Apple and the registration of push tokens: single-row reads and writes that
  nothing else depends on, or whose values are chosen anew where they are read;
* the read endpoints (today, week, ledger, progress), serialisation, and points
  and rates in reports;
* the series-expiring reminder, which can find nothing in this commit;
* the connection pool and `run_and_dispose`, the wiring and the configuration;
* passwords, PINs and token signatures (library calls), and the delivery of
  pushes (best effort, never raises);
* the expiry of idempotency answers (24 hours) and of link codes: both outlive
  the behaviours modelled;
* the arithmetic of series windows beyond the first, which the code creates but
  never rolls over.

Next, in this order: the key of a batch composed with the batch (KeyedRequests
around TaskRequests' sessions, as `bulk_approve` stores one answer for many
items), with the proof that an item of a batch takes effect once per key; answers
and codes that expire.
