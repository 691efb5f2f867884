---------------------------- MODULE TaskRequests ----------------------------
(***************************************************************************)
(* The task endpoints (routers/tasks.py, routers/approvals.py) and the     *)
(* nightly worker as concurrent transactions over the same rows.           *)
(*                                                                         *)
(* A request is one database session and one transaction (get_db).  It     *)
(* loads an instance with a plain SELECT, decides on that copy, and writes *)
(* the columns it changed with UPDATE ... WHERE id = ... when the session  *)
(* flushes: before the next SELECT, with the ledger INSERT, or at COMMIT.  *)
(* Nothing checks that the row is still the one that was loaded.           *)
(* PostgreSQL runs at READ COMMITTED: a SELECT sees committed rows, an     *)
(* UPDATE waits for the transaction that last updated the row and applies  *)
(* its SET list to what that transaction left.                             *)
(***************************************************************************)
EXTENDS TaskRows, FiniteSets, Sequences

CONSTANTS
    Instances,      \* task instances
    Sessions,       \* requests that can be in progress at a time
    Worker,         \* the nightly job's transaction
    DueAt,          \* DueAt[i]: TaskInstance.due_at
    Offered,        \* bound: the operations that requests ask for
    MaxBatch,       \* bound: items of a bulk approval
    MaxTime,        \* bound: the clock stops here
    MaxElapsed      \* bound: excuses are not submitted beyond this much
                    \* accumulated grace

ASSUME RequestsAssumption ==
    /\ Worker \notin Sessions
    /\ DueAt \in [Instances -> Nat]
    /\ Offered \subseteq {"complete", "excuse", "approve", "deny", "cancel"}
    /\ MaxBatch \in Nat /\ MaxTime \in Nat /\ MaxElapsed \in Nat

VARIABLES
    \* what the database has committed
    rows,           \* task_instances
    entries,        \* entries[i][t]: ledger entries of type t for instance i
    \* one variable per part of a session's state
    pc,             \* where its handler is
    todo,           \* items of its request not yet processed
    loaded,         \* the row as the SELECT returned it
    patch,          \* the columns the service changed on that copy
    award,          \* the entry type the service is inserting, or "none"
    credit,         \* entries its transaction has inserted
    image,          \* image[t][i]: the version of row i transaction t has
                    \* written and not committed, or NoRow; it locks the row
    \* the nightly job
    wpc,            \* the statement it is at
    wscope,         \* the instances of the definitions it selected
    wtodo,          \* rows that statement has still to update
    now

sessionVars == <<pc, todo, loaded, patch, award, credit>>
workerVars  == <<wpc, wscope, wtodo>>
vars == <<rows, entries, sessionVars, image, workerVars, now>>

Txns == Sessions \cup {Worker}

(***************************************************************************)
(* A record of the shape of a row that is none.                            *)
(***************************************************************************)
NoRow == [status |-> "none", elapsed |-> 0, paused |-> FALSE]

Item == [inst : Instances, op : Offered]

(***************************************************************************)
(* A request names one instance, or is a bulk approval of several distinct *)
(* ones in any order.                                                      *)
(***************************************************************************)
IsBatch(items) ==
    /\ \A k \in DOMAIN items : items[k].op \in {"approve", "deny"}
    /\ \A j, k \in DOMAIN items : items[j].inst = items[k].inst => j = k

Requests ==
    {<<item>> : item \in Item} \cup
    {items \in UNION {[1..n -> Item] : n \in 2..MaxBatch} : IsBatch(items)}

TypeOK ==
    /\ rows \in [Instances -> Row]
    /\ entries \in [Instances -> [AwardType -> Nat]]
    /\ pc \in [Sessions -> {"idle", "next", "loaded", "decided"}]
    /\ todo \in [Sessions -> Seq(Item)]
    /\ loaded \in [Sessions -> Row]
    /\ patch \in [Sessions -> Patch]
    /\ award \in [Sessions -> AwardType \cup {"none"}]
    /\ credit \in [Sessions -> SUBSET (Instances \X AwardType)]
    /\ image \in [Txns -> [Instances -> Row \cup {NoRow}]]
    /\ wpc \in {"idle", "sweep", "expire"}
    /\ wscope \in SUBSET Instances
    /\ wtodo \in SUBSET Instances
    /\ now \in 0..MaxTime

-----------------------------------------------------------------------------
(***************************************************************************)
(* What loaded and patch hold while they mean nothing.                     *)
(***************************************************************************)
BlankRow == [status |-> "pending", elapsed |-> 0, paused |-> FALSE]
BlankPatch == SetStatus("pending")

NoImage == [i \in Instances |-> NoRow]

InitWith(start, time, statement, scope, rowsLeft) ==
    /\ now = time
    /\ rows = start
    /\ entries = [i \in Instances |-> [t \in AwardType |-> 0]]
    /\ pc = [s \in Sessions |-> "idle"]
    /\ todo = [s \in Sessions |-> << >>]
    /\ loaded = [s \in Sessions |-> BlankRow]
    /\ patch = [s \in Sessions |-> BlankPatch]
    /\ award = [s \in Sessions |-> "none"]
    /\ credit = [s \in Sessions |-> {}]
    /\ image = [t \in Txns |-> NoImage]
    /\ wpc = statement
    /\ wscope = scope
    /\ wtodo = rowsLeft

Init == InitWith([i \in Instances |-> NewRow(DueAt[i], 0)], 0, "idle", {}, {})

LockedByOther(t, i) == \E u \in Txns \ {t} : image[u][i] # NoRow

Target(s) == Head(todo[s]).inst

-----------------------------------------------------------------------------
(***************************************************************************)
(* A request arrives and its instance is loaded; a batch loads the next    *)
(* one when it comes to it.                                                *)
(***************************************************************************)
LoadFirst(s, items) ==
    /\ todo' = [todo EXCEPT ![s] = items]
    /\ loaded' = [loaded EXCEPT ![s] = rows[Head(items).inst]]
    /\ pc' = [pc EXCEPT ![s] = "loaded"]
    /\ UNCHANGED <<rows, entries, patch, award, credit, image, workerVars, now>>

Begin(s) ==
    /\ pc[s] = "idle"
    /\ \E items \in Requests : LoadFirst(s, items)

Load(s) ==
    /\ pc[s] = "next"
    /\ todo[s] # << >>
    /\ LoadFirst(s, todo[s])

(***************************************************************************)
(* The service has decided on the loaded copy: p is what it changed, a the *)
(* ledger entry that goes with it.                                         *)
(***************************************************************************)
Decide(s, p, a) ==
    /\ pc' = [pc EXCEPT ![s] = "decided"]
    /\ patch' = [patch EXCEPT ![s] = p]
    /\ award' = [award EXCEPT ![s] = a]
    /\ loaded' = [loaded EXCEPT ![s] = BlankRow]
    /\ UNCHANGED <<rows, entries, todo, credit, image, workerVars, now>>

Handling(s, op, statuses) ==
    /\ pc[s] = "loaded"
    /\ Head(todo[s]).op = op
    /\ loaded[s].status \in statuses

Due(s) == DueAt[Target(s)]

(***************************************************************************)
(* requires_review and excused_payout_policy are settings a parent may     *)
(* have edited before any request, hence the choices.                      *)
(***************************************************************************)
Complete(s) ==
    /\ Handling(s, "complete", Actionable)
    /\ \E requiresReview \in BOOLEAN :
          Decide(s, CompletePatch(requiresReview),
                 IF requiresReview THEN "none" ELSE "task_completed")

SubmitExcuse(s) ==
    /\ Handling(s, "excuse", Actionable)
    /\ ExcusePatch(loaded[s], Due(s), now).elapsed <= MaxElapsed
    /\ Decide(s, ExcusePatch(loaded[s], Due(s), now), "none")

Cancel(s) ==
    /\ Handling(s, "cancel", Actionable)
    /\ Decide(s, SetStatus("cancelled"), "none")

ApproveUnpaid(s) ==             \* a defect: no award goes with the approval
    /\ Handling(s, "approve", {"review_pending"})
    /\ Decide(s, SetStatus("complete"), "none")

ApproveCompletion(s) ==
    /\ Handling(s, "approve", {"review_pending"})
    /\ Decide(s, SetStatus("complete"), "task_completed")

DenyPaid(s) ==                  \* a defect: the award is made before the verdict
    /\ Handling(s, "deny", {"review_pending"})
    /\ Decide(s, DenyCompletionPatch(loaded[s], Due(s), now), "task_completed")

DenyCompletion(s) ==
    /\ Handling(s, "deny", {"review_pending"})
    /\ Decide(s, DenyCompletionPatch(loaded[s], Due(s), now), "none")

ApproveExcuse(s) ==
    /\ Handling(s, "approve", {"excuse_pending"})
    /\ \E policy \in PayoutPolicy :
          Decide(s, SetStatus("excused"), ExcuseAward(policy))

DenyExcuse(s) ==
    /\ Handling(s, "deny", {"excuse_pending"})
    /\ Decide(s, DenyExcusePatch(loaded[s], Due(s), now), "none")

(***************************************************************************)
(* The status does not allow the call, or a denial has no comment or an    *)
(* excuse too few characters: a single request is answered 422, a batch    *)
(* marks the item as failed and goes on.                                   *)
(***************************************************************************)
Allowed(op) == IF op \in {"approve", "deny"}
               THEN {"review_pending", "excuse_pending"} ELSE Actionable

RejectAgain(s) ==               \* a defect: the failed item is not skipped
    /\ pc[s] = "loaded"
    /\ loaded[s].status \notin Allowed(Head(todo[s]).op)
    /\ pc' = [pc EXCEPT ![s] = "next"]
    /\ loaded' = [loaded EXCEPT ![s] = BlankRow]
    /\ UNCHANGED <<rows, entries, todo, patch, award, credit, image, workerVars,
                   now>>

Reject(s) ==
    /\ pc[s] = "loaded"
    /\ \/ loaded[s].status \notin Allowed(Head(todo[s]).op)
       \/ Head(todo[s]).op \in {"excuse", "deny"}
    /\ pc' = [pc EXCEPT ![s] = "next"]
    /\ todo' = [todo EXCEPT ![s] = Tail(todo[s])]
    /\ loaded' = [loaded EXCEPT ![s] = BlankRow]
    /\ UNCHANGED <<rows, entries, patch, award, credit, image, workerVars,
                   now>>

(***************************************************************************)
(* The session flushes: its UPDATE takes the row lock and its columns land *)
(* on whatever the row holds by then; the INSERT of an award follows.      *)
(***************************************************************************)
CanLock(t, i) == ~ LockedByOther(t, i)

NeverRecorded(i, type) == FALSE \* a defect: no unique index

Recorded(i, type) == entries[i][type] > 0

Flush(s) ==
    /\ pc[s] = "decided"
    /\ CanLock(s, Target(s))
    /\ award[s] # "none" => ~ Recorded(Target(s), award[s])
    /\ image' = [image EXCEPT ![s][Target(s)] = Apply(rows[Target(s)], patch[s])]
    /\ credit' = [credit EXCEPT ![s] =
          @ \cup (IF award[s] = "none" THEN {} ELSE {<<Target(s), award[s]>>})]
    /\ todo' = [todo EXCEPT ![s] = Tail(todo[s])]
    /\ pc' = [pc EXCEPT ![s] = "next"]
    /\ patch' = [patch EXCEPT ![s] = BlankPatch]
    /\ award' = [award EXCEPT ![s] = "none"]
    /\ UNCHANGED <<rows, entries, loaded, workerVars, now>>

(***************************************************************************)
(* get_db commits what the session flushed, and its entries with it.       *)
(***************************************************************************)
Close(s) ==
    /\ pc' = [pc EXCEPT ![s] = "idle"]
    /\ todo' = [todo EXCEPT ![s] = << >>]
    /\ loaded' = [loaded EXCEPT ![s] = BlankRow]
    /\ patch' = [patch EXCEPT ![s] = BlankPatch]
    /\ award' = [award EXCEPT ![s] = "none"]
    /\ credit' = [credit EXCEPT ![s] = {}]
    /\ image' = [image EXCEPT ![s] = NoImage]
    /\ UNCHANGED workerVars

WithImage(t) == [i \in Instances |->
                    IF image[t][i] # NoRow THEN image[t][i] ELSE rows[i]]

WithCredit(s) == [i \in Instances |-> [t \in AwardType |->
    entries[i][t] + IF <<i, t>> \in credit[s] THEN 1 ELSE 0]]

Commit(s) ==
    /\ pc[s] = "next"
    /\ todo[s] = << >>
    /\ rows' = WithImage(s)
    /\ entries' = WithCredit(s)
    /\ Close(s)
    /\ UNCHANGED now

RollBack(s) ==
    /\ Close(s)
    /\ UNCHANGED <<rows, entries, now>>

(***************************************************************************)
(* A defect: what the failed request had inserted is committed after all.  *)
(***************************************************************************)
DuplicateCommits(s) ==
    /\ pc[s] = "decided"
    /\ CanLock(s, Target(s))
    /\ award[s] # "none"
    /\ Recorded(Target(s), award[s])
    /\ rows' = WithImage(s)
    /\ entries' = WithCredit(s)
    /\ Close(s)
    /\ UNCHANGED now

(***************************************************************************)
(* The unique index refuses the award.  _write rolls the transaction back  *)
(* and raises DuplicateLedgerEntryError, which no caller catches: the      *)
(* request ends with 500, a batch with everything it did.                  *)
(***************************************************************************)
DuplicateEntry(s) ==
    /\ pc[s] = "decided"
    /\ CanLock(s, Target(s))
    /\ award[s] # "none"
    /\ Recorded(Target(s), award[s])
    /\ RollBack(s)

Crash(s) ==
    /\ pc[s] # "idle"
    /\ RollBack(s)

-----------------------------------------------------------------------------
(***************************************************************************)
(* The nightly job for a household, one transaction.  Both updates are     *)
(* confined to the definitions its first SELECT returned, those no parent  *)
(* had archived by then: any of them, since a parent archives at will.     *)
(* The UPDATE from pending to overdue repeats its test on a row it had to  *)
(* wait for; the update from overdue to missed is decided on the rows its  *)
(* SELECT returned and flushed row by row.                                 *)
(***************************************************************************)
SweepStart ==
    /\ wpc = "idle"
    /\ wpc' = "sweep"
    /\ \E scope \in SUBSET Instances :
          /\ wscope' = scope
          /\ wtodo' = {i \in scope : rows[i].status = "pending" /\ DueAt[i] <= now}
    /\ UNCHANGED <<rows, entries, sessionVars, image, now>>

SweepRow(i) ==
    /\ wpc = "sweep"
    /\ i \in wtodo
    /\ CanLock(Worker, i)
    /\ wtodo' = wtodo \ {i}
    /\ image' = IF rows[i].status = "pending"
                THEN [image EXCEPT ![Worker][i] =
                         Apply(rows[i], SetStatus("overdue"))]
                ELSE image
    /\ UNCHANGED <<rows, entries, sessionVars, wpc, wscope, now>>

Expired(i) == LET row == WithImage(Worker)[i]
              IN  row.status = "overdue" /\ RemainingOf(row, DueAt[i], now) <= 0

Scan ==
    /\ wpc = "sweep"
    /\ wtodo = {}
    /\ wpc' = "expire"
    /\ wtodo' = {i \in wscope : Expired(i)}
    /\ UNCHANGED <<rows, entries, sessionVars, image, wscope, now>>

ExpireRow(i) ==
    /\ wpc = "expire"
    /\ i \in wtodo
    /\ CanLock(Worker, i)
    /\ wtodo' = wtodo \ {i}
    /\ image' = [image EXCEPT ![Worker][i] =
                    Apply(WithImage(Worker)[i], SetStatus("missed"))]
    /\ UNCHANGED <<rows, entries, sessionVars, wpc, wscope, now>>

WorkerClose ==
    /\ wpc' = "idle"
    /\ wscope' = {}
    /\ wtodo' = {}
    /\ image' = [image EXCEPT ![Worker] = NoImage]
    /\ UNCHANGED <<entries, sessionVars, now>>

WorkerCommit ==
    /\ wpc = "expire"
    /\ wtodo = {}
    /\ rows' = WithImage(Worker)
    /\ WorkerClose

WorkerCrash ==
    /\ wpc # "idle"
    /\ WorkerClose
    /\ UNCHANGED rows

-----------------------------------------------------------------------------
(***************************************************************************)
(* Transactions that wait for each other in a cycle: each wants a row, and *)
(* every row it wants is locked by one of them.  PostgreSQL aborts one; a  *)
(* transaction that only waits for one in the cycle is not aborted.        *)
(***************************************************************************)
Wanted(t) == IF t = Worker THEN wtodo
             ELSE IF pc[t] = "decided" THEN {Target(t)} ELSE {}

Deadlocked(D) ==
    \A t \in D : /\ Wanted(t) # {}
                 /\ \A i \in Wanted(t) : \E u \in D \ {t} : image[u][i] # NoRow

IsCycle(D) == /\ Deadlocked(D)
              /\ \A E \in (SUBSET D) \ {{}, D} : ~ Deadlocked(E)

InDeadlock(t) == \E D \in SUBSET Txns : t \in D /\ IsCycle(D)

DeadlockVictim(t) ==
    /\ InDeadlock(t)
    /\ IF t = Worker THEN WorkerClose /\ UNCHANGED rows ELSE RollBack(t)

Tick ==
    /\ now < MaxTime
    /\ now' = now + 1
    /\ UNCHANGED <<rows, entries, sessionVars, image, workerVars>>

-----------------------------------------------------------------------------
Handle(s) ==
    \/ Complete(s) \/ SubmitExcuse(s) \/ Cancel(s)
    \/ ApproveCompletion(s) \/ DenyCompletion(s)
    \/ ApproveExcuse(s) \/ DenyExcuse(s)
    \/ Reject(s)

Nightly ==
    \/ SweepStart \/ Scan \/ WorkerCommit
    \/ \E i \in Instances : SweepRow(i) \/ ExpireRow(i)

Next ==
    \/ \E s \in Sessions :
          \/ Begin(s) \/ Load(s) \/ Handle(s) \/ Flush(s) \/ DuplicateEntry(s)
          \/ Commit(s) \/ Crash(s)
    \/ Nightly \/ WorkerCrash
    \/ \E t \in Txns : DeadlockVictim(t)
    \/ Tick

(***************************************************************************)
(* A handler that can run does; PostgreSQL queues waiters for a row lock,  *)
(* so one is not overtaken forever (strong fairness), and its deadlock     *)
(* detector runs; Celery beat starts the nightly job again and again.      *)
(* Nobody has to send a request, and nothing has to crash.                 *)
(***************************************************************************)
Fairness ==
    /\ \A s \in Sessions : /\ WF_vars(Load(s) \/ Handle(s) \/ Commit(s))
                            /\ SF_vars(Flush(s) \/ DuplicateEntry(s))
    /\ WF_vars(SweepStart \/ Scan \/ WorkerCommit)
    /\ \A i \in Instances : SF_vars(SweepRow(i) \/ ExpireRow(i))
    /\ WF_vars(\E t \in Txns : DeadlockVictim(t))
    /\ WF_vars(Tick)

Spec == Init /\ [][Next]_vars /\ Fairness

-----------------------------------------------------------------------------
(***************************************************************************)
(* However requests, retries and the nightly job interleave, and whatever  *)
(* crashes, an instance has at most one ledger entry of a type: the unique *)
(* index, row locks and rollback of LedgerService._write together.         *)
(***************************************************************************)
AtMostOnce == \A i \in Instances, t \in AwardType : entries[i][t] <= 1

(***************************************************************************)
(* An instance that shows as complete has been paid for: the status and    *)
(* the award become visible in one commit, also when requests overwrite    *)
(* each other's status or a batch is rolled back.                          *)
(***************************************************************************)
CompleteIsPaid ==
    \A i \in Instances :
        rows[i].status = "complete" => entries[i]["task_completed"] = 1

(***************************************************************************)
(* Points are credited only by a commit that leaves the instance accepted, *)
(* as complete or excused: a denial or a cancellation never credits.       *)
(***************************************************************************)
CreditedOnAcceptance ==
    [][\A i \in Instances, t \in AwardType :
          entries'[i][t] > entries[i][t]
              => rows'[i].status \in {"complete", "excused"}]_vars

(***************************************************************************)
(* The concurrent sessions implement the promise of AwardLedger: entries   *)
(* are only ever added, each once; the awards of a batch enter the ledger  *)
(* together, at its commit, and none of them does if one is refused.       *)
(***************************************************************************)
AskedEntry == [s \in Sessions |->
    IF award[s] = "none" THEN {} ELSE {<<Target(s), award[s]>>}]

Awards == INSTANCE AwardLedger
          WITH Types <- AwardType, Writers <- Sessions,
               credited <- entries, asked <- AskedEntry, pending <- credit

ImplementsAwardLedger == Awards!LedgerSpec

(***************************************************************************)
(* Every request ends, committed or rolled back, also when two batches, or *)
(* a batch and the nightly job, lock the same rows in opposite orders.     *)
(***************************************************************************)
RequestsEnd == \A s \in Sessions : (pc[s] # "idle") ~> (pc[s] = "idle")

(***************************************************************************)
(* Claim of docs/prd.md:241: a cancelled instance pays no points.          *)
(***************************************************************************)
CancelledPaysNothing ==
    \A i \in Instances, t \in AwardType :
        rows[i].status = "cancelled" => entries[i][t] = 0

(***************************************************************************)
(* Claim of docs/prd.md:240: a missed instance pays no points.             *)
(***************************************************************************)
MissedPaysNothing ==
    \A i \in Instances, t \in AwardType :
        rows[i].status = "missed" => entries[i][t] = 0

(***************************************************************************)
(* Claim of docs/prd.md:228: a denial resumes the clock, so an instance    *)
(* that is open to the teen has a running one (a stopped clock would keep  *)
(* it from ever being missed).                                             *)
(***************************************************************************)
OpenClockRuns ==
    \A i \in Instances : rows[i].status \in Actionable => ~ rows[i].paused

(***************************************************************************)
(* Claim of approvals.py:101-102: a bad item of a batch fails alone, so    *)
(* the rollback on a duplicate award discards no other item's work.        *)
(***************************************************************************)
BadItemFailsAlone ==
    [][\A s \in Sessions :
          DuplicateEntry(s) => \A i \in Instances : image[s][i] = NoRow]_vars
=============================================================================
