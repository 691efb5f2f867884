-------------------------- MODULE TaskStateMachine --------------------------
(***************************************************************************)
(* StateMachineService and the part of LedgerService it drives, for one    *)
(* task instance whose operations are never concurrent: every action is a  *)
(* whole service call with its transaction.  A call that raises            *)
(* (InvalidTransitionError, ValueError, DuplicateLedgerEntryError) is      *)
(* rolled back and is a step that changes nothing, so it has no action.    *)
(***************************************************************************)
EXTENDS TaskRows, PointsLedger

CONSTANTS Due, Value, MaxTime

ASSUME TaskAssumption == /\ Due \in Nat /\ Value \in Nat \ {0}
                         /\ MaxTime \in Nat /\ Due <= MaxTime

VARIABLES
    row,        \* the instance
    ledger,     \* its ledger entries, oldest first
    archived,   \* its definition's archived_at is set
    now,
    openTime    \* history: how long the instance has been past its due time
                \* and not waiting for a parent
vars == <<row, ledger, archived, now, openTime>>

EntryType == AwardType \cup {"reversal"}

TypeOK == /\ row \in Row
          /\ ledger \in Seq([type : EntryType, delta : Int])
          /\ archived \in BOOLEAN
          /\ now \in 0..MaxTime
          /\ openTime \in 0..MaxTime

Written(type) == Posted(ledger, type) # {}

Net == Balance(ledger)

-----------------------------------------------------------------------------
(***************************************************************************)
(* The instance is created, by the nightly job or on demand.               *)
(***************************************************************************)
Init == /\ now \in 0..MaxTime
        /\ row = NewRow(Due, now)
        /\ ledger = << >>
        /\ archived = FALSE
        /\ openTime = AtLeastZero(now - Due)

Becomes(p) == /\ row' = Apply(row, p)
              /\ UNCHANGED <<archived, now, openTime>>

(***************************************************************************)
(* LedgerService._write: the unique index on (task_instance_id,            *)
(* entry_type) refuses a second entry of a type.                           *)
(***************************************************************************)
Write(type, delta) == /\ ~ Written(type)
                      /\ ledger' = Append(ledger, [type |-> type, delta |-> delta])

AwardTaskCompletion == Write("task_completed", Value)

AwardExcuse(policy) ==
    CASE ExcuseAward(policy) = "none"            -> UNCHANGED ledger
      [] ExcuseAward(policy) = "excused_partial" -> Write("excused_partial", Value \div 2)
      [] ExcuseAward(policy) = "task_completed"  -> Write("task_completed", Value)

-----------------------------------------------------------------------------
Complete ==
    \E requiresReview \in BOOLEAN :
        /\ row.status \in Actionable
        /\ Becomes(CompletePatch(requiresReview))
        /\ IF requiresReview THEN UNCHANGED ledger ELSE AwardTaskCompletion

SubmitExcuse == /\ row.status \in Actionable
                /\ Becomes(ExcusePatch(row, Due, now))
                /\ UNCHANGED ledger

ApproveCompletion == /\ row.status = "review_pending"
                     /\ Becomes(SetStatus("complete"))
                     /\ AwardTaskCompletion

DenyCompletion == /\ row.status = "review_pending"
                  /\ Becomes(DenyCompletionPatch(row, Due, now))
                  /\ UNCHANGED ledger

ApproveExcuse == \E policy \in PayoutPolicy :
                    /\ row.status = "excuse_pending"
                    /\ Becomes(SetStatus("excused"))
                    /\ AwardExcuse(policy)

DenyExcuse == /\ row.status = "excuse_pending"
              /\ Becomes(DenyExcusePatch(row, Due, now))
              /\ UNCHANGED ledger

Cancel == /\ row.status \in Actionable
          /\ Becomes(SetStatus("cancelled"))
          /\ UNCHANGED ledger

(***************************************************************************)
(* reverse_completion is part of the service but no router calls it yet.   *)
(***************************************************************************)
ReverseCompletion == /\ row.status = "complete"
                     /\ Becomes(ReversePatch(Due, now))
                     /\ Write("reversal", -Value)

(***************************************************************************)
(* A parent archives the definition; nothing un-archives one.  Its open    *)
(* instances stay as they are: people may still act on them.               *)
(***************************************************************************)
ArchiveDefinition == /\ archived' = TRUE
                     /\ UNCHANGED <<row, ledger, now, openTime>>

(***************************************************************************)
(* The nightly transaction, for definitions that are not archived: pending *)
(* becomes overdue once due, then overdue (also what just became so)       *)
(* becomes missed once no grace remains.                                   *)
(***************************************************************************)
SweptNothing(status) == status      \* a defect: the UPDATE is left out

Swept(status) == IF status = "pending" /\ Due <= now THEN "overdue" ELSE status

NightlySweep ==
    LET status == Swept(row.status)
        final  == IF status = "overdue" /\ RemainingOf(row, Due, now) <= 0
                  THEN "missed" ELSE status
    IN  /\ ~ archived
        /\ final # row.status
        /\ Becomes(SetStatus(final))
        /\ UNCHANGED ledger

Tick == /\ now < MaxTime
        /\ now' = now + 1
        /\ openTime' = IF now >= Due /\ row.status \in Actionable
                       THEN openTime + 1 ELSE openTime
        /\ UNCHANGED <<row, ledger, archived>>

Next == \/ Complete \/ SubmitExcuse \/ Cancel
        \/ ApproveCompletion \/ DenyCompletion
        \/ ApproveExcuse \/ DenyExcuse
        \/ ReverseCompletion
        \/ ArchiveDefinition \/ NightlySweep \/ Tick

(***************************************************************************)
(* Celery beat runs the job every night, so a sweep that has work to do is *)
(* not put off forever, in a household the job reaches (TaskCalendar has   *)
(* those it does not reach); nothing obliges the people.                   *)
(***************************************************************************)
Spec == Init /\ [][Next]_vars /\ WF_vars(NightlySweep) /\ WF_vars(Tick)

-----------------------------------------------------------------------------
Promise == INSTANCE TaskPromise WITH status <- row.status, net <- Net

(***************************************************************************)
(* Served one call at a time, the service keeps the promise of TaskPromise *)
(* for every history of completions, excuses, denials, reversals, nightly  *)
(* sweeps and changes of the payout policy: each committed step follows    *)
(* the table, and the ledger adds up to what the status is worth.          *)
(***************************************************************************)
KeepsPromise == Promise!PromiseSpec

(***************************************************************************)
(* Pausing and resuming the clock never gives a teen more grace than the   *)
(* household set: the time the instance was overdue and open to the teen   *)
(* is always charged (_suspend_grace, _resume_grace, grace_remaining).     *)
(***************************************************************************)
GraceNeverExtended == RemainingOf(row, Due, now) <= GracePeriod - openTime

(***************************************************************************)
(* The nightly job hard-locks an instance without grace left, whatever was *)
(* submitted and denied before: none stays actionable forever, unless its  *)
(* definition is archived, which takes it out of the job's reach.          *)
(***************************************************************************)
ExpiredIsClosed ==
    (row.status \in Actionable /\ RemainingOf(row, Due, now) <= 0)
        ~> (row.status \notin Actionable \/ archived)

(***************************************************************************)
(* Claim of state_machine.py:8-11 and of the transition table's note: a    *)
(* teen is not penalised for a parent's slow response, so a missed task    *)
(* was open to the teen for the whole grace period.                        *)
(***************************************************************************)
WaitingIsFree ==
    row.status = "missed" /\ ~ Written("reversal") => openTime >= GracePeriod

(***************************************************************************)
(* Claim of docs/prd.md:245: an overdue instance remains actionable for    *)
(* the grace period, so none is missed while the wall clock is within it.  *)
(***************************************************************************)
NeverMissedEarly ==
    row.status = "missed" /\ ~ Written("reversal") => now - Due >= GracePeriod

(***************************************************************************)
(* Claim of the transition table (docs/prd.md:213-214): an overdue task is *)
(* completed only within its grace period.                                 *)
(***************************************************************************)
CompletedWithinGrace ==
    [][row.status = "overdue" /\ row'.status \in {"complete", "review_pending"}
          => RemainingOf(row, Due, now) > 0]_vars

(***************************************************************************)
(* Claim of docs/prd.md:224 with 213: a reversed completion may go back to *)
(* overdue, from where the teen may complete it; so an actionable instance *)
(* has no task_completed entry the unique index would refuse to repeat.    *)
(***************************************************************************)
ActionableCanBePaid == row.status \in Actionable => ~ Written("task_completed")
=============================================================================
