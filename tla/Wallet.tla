------------------------------- MODULE Wallet -------------------------------
(***************************************************************************)
(* One member's points: the ledger, the claims against it (wallet.py), the *)
(* parents' adjustments, and the series window that pays a bonus when its  *)
(* last task completes (series.py, SeriesCompletionService), as concurrent *)
(* sessions.                                                               *)
(*                                                                         *)
(* Each ledger method first selects SUM(delta), which sees what others     *)
(* have committed and what its own transaction has inserted, and then      *)
(* inserts an entry whose balance_after it computes from that sum.  Only   *)
(* entries of a task or of a series window have a unique index.            *)
(*                                                                         *)
(* Tasks are the instances whose series_instance_id is the window.  No     *)
(* code of this repository writes that column: the rows are taken as given *)
(* by whatever does.  A request about a task decides on the row it loaded  *)
(* and writes the status by id when it commits, whatever the row holds by  *)
(* then (TaskRequests has the row locks and the order of the flushes).     *)
(***************************************************************************)
EXTENDS PointsLedger, FiniteSets

CONSTANTS
    Sessions,       \* requests that can be in progress at a time
    Tasks,          \* the window's task instances
    PointValue,     \* PointValue[t]: point_value
    Claims,
    Price,          \* Price[c]: the points of the claim
    Deltas,         \* manual adjustments a parent may make
    Bonuses,        \* values of Series.bonus_points
    Window,         \* the ref of a series_bonus entry
    NoRef,          \* the ref of a manual adjustment
    MaxEntries      \* bound: entries of the account, requests in progress included

ASSUME WalletAssumption ==
    /\ PointValue \in [Tasks -> Nat] /\ Price \in [Claims -> Nat \ {0}]
    /\ Deltas \subseteq Int /\ Bonuses \subseteq Nat /\ MaxEntries \in Nat
    /\ IsFiniteSet(Tasks)

VARIABLES
    account,        \* committed entries, in the order of their commits
    tasks, claims,  \* committed statuses
    window,         \* SeriesInstance.status, "none" before the series exists
    series,         \* the settings of the series
    pc, op, ref,    \* where a session is, and what it was asked to do
    seen,           \* the status its SELECT returned
    payout,         \* the points of the entry it is about to write
    base, since,    \* the SUM it has read, and the account's length at its first
    own             \* entries it has inserted and not committed

sessionVars == <<pc, op, ref, seen, payout, base, since, own>>
walletVars == <<account, tasks, claims, window, series, sessionVars>>

Modes == {"individual_plus_bonus", "all_or_nothing"}
Series == [mode : Modes, bonus : Bonuses, archived : BOOLEAN]
Refs == Tasks \cup Claims \cup {Window, NoRef}

TaskStatus == {"open", "review_pending", "excuse_pending", "complete", "excused",
               "closed"}        \* open: pending or overdue; closed: missed or cancelled
ClaimStatus == {"none", "pending", "fulfilled", "declined"}

(***************************************************************************)
(* What an operation inserts, and to what it sets its task.                *)
(***************************************************************************)
TypeWritten == [complete |-> "task_completed", approve |-> "task_completed",
                excuse_full |-> "task_completed", excuse_half |-> "excused_partial",
                bonus |-> "series_bonus", fulfil |-> "claim_fulfilled",
                adjust |-> "manual_adjustment"]

Outcome == [complete |-> "complete", bonus |-> "complete", approve |-> "complete",
            excuse_full |-> "excused", excuse_half |-> "excused", excuse |-> "excused",
            submit |-> "review_pending", explain |-> "excuse_pending",
            deny |-> "open", void |-> "closed"]

Ops == DOMAIN TypeWritten \cup DOMAIN Outcome \cup {"none", "decline"}

Entry == [type : Range(TypeWritten), ref : Refs, delta : Int, after : Int,
          alone : BOOLEAN]      \* history: no other commit since the first SUM

Of(entries, type, r) == {k \in Posted(entries, type) : entries[k].ref = r}

WalletTypeOK ==
    /\ account \in Seq(Entry) /\ Len(account) <= MaxEntries
    /\ tasks \in [Tasks -> TaskStatus]
    /\ claims \in [Claims -> ClaimStatus]
    /\ window \in {"none", "active", "complete"}
    /\ series \in Series
    /\ pc \in [Sessions -> {"idle", "sum", "write", "evaluate", "commit"}]
    /\ op \in [Sessions -> Ops]
    /\ ref \in [Sessions -> Refs]
    /\ seen \in [Sessions -> TaskStatus \cup ClaimStatus]
    /\ payout \in [Sessions -> Int]
    /\ base \in [Sessions -> Int]
    /\ since \in [Sessions -> 0..MaxEntries]
    /\ own \in [Sessions -> Seq(Entry)]

WalletInit ==
    /\ account = << >>
    /\ tasks = [t \in Tasks |-> "open"]
    /\ claims = [c \in Claims |-> "none"]
    /\ window = "none"
    /\ series \in Series /\ ~ series.archived
    /\ pc = [s \in Sessions |-> "idle"]
    /\ op = [s \in Sessions |-> "none"]
    /\ ref = [s \in Sessions |-> NoRef]
    /\ seen = [s \in Sessions |-> "none"]
    /\ payout = [s \in Sessions |-> 0]
    /\ base = [s \in Sessions |-> 0]
    /\ since = [s \in Sessions |-> 0]
    /\ own = [s \in Sessions |-> << >>]

-----------------------------------------------------------------------------
(***************************************************************************)
(* Calls that are one statement.  A claim debits nothing when submitted; a *)
(* series is created with its first and only window, edited, and archived, *)
(* which the payout does not ask for.                                      *)
(***************************************************************************)
SubmitClaim(c) ==
    /\ claims[c] = "none"
    /\ claims' = [claims EXCEPT ![c] = "pending"]
    /\ UNCHANGED <<account, tasks, window, series, sessionVars>>

CreateSeries ==
    /\ window = "none"
    /\ window' = "active"
    /\ UNCHANGED <<account, tasks, claims, series, sessionVars>>

UpdateSeries ==
    /\ window # "none"
    /\ \E mode \in Modes, bonus \in Bonuses :
          series' = [series EXCEPT !.mode = mode, !.bonus = bonus]
    /\ UNCHANGED <<account, tasks, claims, window, sessionVars>>

ArchiveSeries ==
    /\ window # "none"
    /\ series' = [series EXCEPT !.archived = TRUE]
    /\ UNCHANGED <<account, tasks, claims, window, sessionVars>>

-----------------------------------------------------------------------------
InProgress == Cardinality({s \in Sessions : pc[s] # "idle"})

(***************************************************************************)
(* A request arrives; r is loaded with a plain SELECT.  One that writes no *)
(* entry goes straight to its commit.                                      *)
(***************************************************************************)
Begin(s, what, r, status, points) ==
    /\ pc[s] = "idle"
    /\ Len(account) + 2 * InProgress + 2 <= MaxEntries
    /\ pc' = [pc EXCEPT ![s] = IF what \in DOMAIN TypeWritten THEN "sum" ELSE "commit"]
    /\ op' = [op EXCEPT ![s] = what]
    /\ ref' = [ref EXCEPT ![s] = r]
    /\ seen' = [seen EXCEPT ![s] = status]
    /\ payout' = [payout EXCEPT ![s] = points]
    /\ since' = [since EXCEPT ![s] = Len(account)]
    /\ UNCHANGED <<account, tasks, claims, window, series, base, own>>

CompleteTask(s, t) ==
    tasks[t] = "open" /\ Begin(s, "complete", t, tasks[t], PointValue[t])

AskVerdict(s, t) ==
    /\ tasks[t] = "open"
    /\ \E what \in {"submit", "explain"} : Begin(s, what, t, tasks[t], 0)

(***************************************************************************)
(* An approved excuse pays nothing, half or all, as the household has it.  *)
(***************************************************************************)
Review(s, t) ==
    \/ /\ tasks[t] = "review_pending"
       /\ \/ Begin(s, "approve", t, tasks[t], PointValue[t])
          \/ Begin(s, "deny", t, tasks[t], 0)
    \/ /\ tasks[t] = "excuse_pending"
       /\ \/ Begin(s, "excuse", t, tasks[t], 0)
          \/ Begin(s, "excuse_half", t, tasks[t], PointValue[t] \div 2)
          \/ Begin(s, "excuse_full", t, tasks[t], PointValue[t])
          \/ Begin(s, "deny", t, tasks[t], 0)
          \/ Begin(s, "void", t, tasks[t], 0)      \* no grace is left: missed

(***************************************************************************)
(* A parent's cancellation, or the nightly job marking a task missed.      *)
(***************************************************************************)
Void(s, t) == tasks[t] = "open" /\ Begin(s, "void", t, tasks[t], 0)

(***************************************************************************)
(* resolve_claim does not look at the status of the claim.                 *)
(***************************************************************************)
ResolveClaim(s, c) ==
    /\ claims[c] # "none"
    /\ \/ Begin(s, "fulfil", c, claims[c], - Price[c])
       \/ Begin(s, "decline", c, claims[c], 0)

ManualAdjust(s) == \E d \in Deltas : Begin(s, "adjust", NoRef, "none", d)

-----------------------------------------------------------------------------
ReadCommitted(s) ==     \* a defect: the sum leaves out the session's own entries
    /\ pc[s] = "sum"
    /\ pc' = [pc EXCEPT ![s] = "write"]
    /\ base' = [base EXCEPT ![s] = Balance(account)]
    /\ UNCHANGED <<account, tasks, claims, window, series, op, ref, seen, payout,
                   since, own>>

CurrentBalance(s) ==
    /\ pc[s] = "sum"
    /\ pc' = [pc EXCEPT ![s] = "write"]
    /\ base' = [base EXCEPT ![s] = Balance(account) + Balance(own[s])]
    /\ UNCHANGED <<account, tasks, claims, window, series, op, ref, seen, payout,
                   since, own>>

(***************************************************************************)
(* The INSERT waits for another session's uncommitted entry with the same  *)
(* unique key, and fails on a committed one.                               *)
(***************************************************************************)
NewEntry(s) == [type |-> TypeWritten[op[s]],
                ref |-> IF op[s] = "bonus" THEN Window ELSE ref[s],
                delta |-> payout[s], after |-> base[s] + payout[s], alone |-> FALSE]

Conflicts(s, entries) ==
    /\ NewEntry(s).ref \in Tasks \cup {Window}
    /\ Of(entries, NewEntry(s).type, NewEntry(s).ref) # {}

Awaited(s) == \E u \in Sessions \ {s} : Conflicts(s, own[u])

Exists(s) == Conflicts(s, account)

InsertEntry(s) ==
    /\ pc[s] = "write"
    /\ ~ Awaited(s) /\ ~ Exists(s)
    /\ own' = [own EXCEPT ![s] = Append(@, NewEntry(s))]
    /\ pc' = [pc EXCEPT ![s] = IF op[s] = "complete" THEN "evaluate" ELSE "commit"]
    /\ UNCHANGED <<account, tasks, claims, window, series, op, ref, seen, payout,
                   base, since>>

(***************************************************************************)
(* SeriesCompletionService.evaluate, in the transaction that completed     *)
(* ref[s]: it sees that completion and what others have committed.         *)
(***************************************************************************)
Visible(s, t) == IF t = ref[s] THEN "complete" ELSE tasks[t]

Settled == {"complete", "excused"}

Completed(s) == {t \in Tasks : Visible(s, t) = "complete"}

Points(S) == FoldSet(LAMBDA t, sum : sum + PointValue[t], 0, S)

SeriesPayout(s) ==
    IF series.mode = "individual_plus_bonus" THEN series.bonus
    ELSE Points(Completed(s)) + series.bonus

MayPayOut(s) == window = "active" /\ \A t \in Tasks : Visible(s, t) \in Settled

Evaluate(s) ==
    /\ pc[s] = "evaluate"
    /\ IF MayPayOut(s)
       THEN /\ pc' = [pc EXCEPT ![s] = "sum"]
            /\ op' = [op EXCEPT ![s] = "bonus"]
            /\ payout' = [payout EXCEPT ![s] = SeriesPayout(s)]
       ELSE pc' = [pc EXCEPT ![s] = "commit"] /\ UNCHANGED <<op, payout>>
    /\ UNCHANGED <<account, tasks, claims, window, series, ref, seen, base, since, own>>

-----------------------------------------------------------------------------
Close(s) ==
    /\ pc' = [pc EXCEPT ![s] = "idle"]
    /\ op' = [op EXCEPT ![s] = "none"]
    /\ ref' = [ref EXCEPT ![s] = NoRef]
    /\ seen' = [seen EXCEPT ![s] = "none"]
    /\ payout' = [payout EXCEPT ![s] = 0]
    /\ base' = [base EXCEPT ![s] = 0]
    /\ since' = [since EXCEPT ![s] = 0]
    /\ own' = [own EXCEPT ![s] = << >>]

(***************************************************************************)
(* get_db commits.  A claim's status is in the UPDATE only if it differs   *)
(* from the one that was loaded.                                           *)
(***************************************************************************)
VerdictSwapped == [fulfil |-> "declined", decline |-> "fulfilled"]  \* a defect
VerdictUnknown == [fulfil |-> "fulfilled", decline |-> "refused"]  \* a defect

Verdict == [fulfil |-> "fulfilled", decline |-> "declined"]

WindowLeftOpen(s) == window     \* a defect: the window is not marked complete

WindowAfter(s) == IF op[s] = "bonus" THEN "complete" ELSE window

Commit(s) ==
    /\ pc[s] = "commit"
    /\ account' = account \o [k \in DOMAIN own[s] |->
                     [own[s][k] EXCEPT !.alone = since[s] = Len(account)]]
    /\ tasks' = IF op[s] \in DOMAIN Outcome
                THEN [tasks EXCEPT ![ref[s]] = Outcome[op[s]]] ELSE tasks
    /\ claims' = IF op[s] \in DOMAIN Verdict /\ Verdict[op[s]] # seen[s]
                 THEN [claims EXCEPT ![ref[s]] = Verdict[op[s]]] ELSE claims
    /\ window' = WindowAfter(s)
    /\ Close(s)
    /\ UNCHANGED series

(***************************************************************************)
(* DuplicateLedgerEntryError, or a crash: the transaction is rolled back.  *)
(***************************************************************************)
DuplicateEntry(s) ==
    /\ pc[s] = "write"
    /\ ~ Awaited(s) /\ Exists(s)
    /\ Close(s)
    /\ UNCHANGED <<account, tasks, claims, window, series>>

Crash(s) ==
    /\ pc[s] # "idle"
    /\ Close(s)
    /\ UNCHANGED <<account, tasks, claims, window, series>>

WalletNext ==
    \/ \E c \in Claims : SubmitClaim(c)
    \/ CreateSeries \/ UpdateSeries \/ ArchiveSeries
    \/ \E s \in Sessions :
          \/ \E t \in Tasks : \/ CompleteTask(s, t) \/ AskVerdict(s, t)
                               \/ Review(s, t) \/ Void(s, t)
          \/ \E c \in Claims : ResolveClaim(s, c)
          \/ ManualAdjust(s)
          \/ CurrentBalance(s) \/ InsertEntry(s) \/ Evaluate(s)
          \/ Commit(s) \/ DuplicateEntry(s) \/ Crash(s)

WalletSpec == WalletInit /\ [][WalletNext]_walletVars

-----------------------------------------------------------------------------
Paid(type, r) == Cardinality(Of(account, type, r))

(***************************************************************************)
(* balance_after is the running sum for every entry of a session that no   *)
(* other session's commit overlapped, its second entry included: only      *)
(* concurrency makes the two differ.                                       *)
(***************************************************************************)
BalanceAfterExact ==
    \A k \in DOMAIN account :
        account[k].alone => account[k].after = Balance(SubSeq(account, 1, k))

(***************************************************************************)
(* "Points are NOT debited here - only on fulfilment": a fulfilled claim   *)
(* has been debited and one that nobody resolved has not, whatever         *)
(* resolutions overlap.                                                    *)
(***************************************************************************)
ClaimDebits ==
    \A c \in Claims :
        /\ claims[c] = "fulfilled" => Paid("claim_fulfilled", c) > 0
        /\ claims[c] \in {"none", "pending"} => Paid("claim_fulfilled", c) = 0

(***************************************************************************)
(* The bonus and the window's status are one commit, and there is one      *)
(* bonus, also when several sessions complete the last tasks together or   *)
(* the series is edited or archived meanwhile.                             *)
(***************************************************************************)
BonusWithWindow ==
    Paid("series_bonus", Window) = IF window = "complete" THEN 1 ELSE 0

(***************************************************************************)
(* Claim of wallet.py:164-165 ("Points are debited only on fulfilment"):   *)
(* a fulfilled claim has one debit, any other claim none.                  *)
(***************************************************************************)
ClaimDebitedOnce ==
    \A c \in Claims : Paid("claim_fulfilled", c)
                          = IF claims[c] = "fulfilled" THEN 1 ELSE 0
=============================================================================
