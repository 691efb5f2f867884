------------------------------ MODULE TaskRows ------------------------------
(***************************************************************************)
(* A row of task_instances and what each method of StateMachineService     *)
(* writes to it.  A method works on the copy its session loaded and the    *)
(* session later issues an UPDATE whose SET list holds the columns that    *)
(* changed: a Patch is that SET list.  Keeping the patch apart from the    *)
(* row it is applied to is what lets TaskRequests apply it to a row that   *)
(* has meanwhile been changed by somebody else.                            *)
(***************************************************************************)
EXTENDS GraceClock

CONSTANT GracePeriod        \* Household.grace_period_hours

ASSUME GracePeriodAssumption == GracePeriod \in Nat \ {0}

Status == {"pending", "review_pending", "complete", "overdue",
           "excuse_pending", "excused", "missed", "cancelled"}

Actionable == {"pending", "overdue"}

Row == [status : Status, elapsed : Nat, paused : BOOLEAN]

(***************************************************************************)
(* A row as upsert_instance_for_date inserts it: one created after its due *)
(* time (on demand, for today) starts out overdue.                         *)
(***************************************************************************)
NewRow(due, now) == [status  |-> IF due <= now THEN "overdue" ELSE "pending",
                     elapsed |-> 0, paused |-> FALSE]

(***************************************************************************)
(* Keep stands for a column that is not in the SET list.                   *)
(***************************************************************************)
Keep == -1

Patch == [status : Status, elapsed : Nat \cup {Keep},
          clock : {"keep", "suspend", "resume"}]

Apply(row, p) ==
    [status  |-> p.status,
     elapsed |-> IF p.elapsed = Keep THEN row.elapsed ELSE p.elapsed,
     paused  |-> IF p.clock = "keep" THEN row.paused ELSE p.clock = "suspend"]

SetStatus(status) == [status |-> status, elapsed |-> Keep, clock |-> "keep"]

(***************************************************************************)
(* The status may change and the clock resume; resuming a clock that the   *)
(* session loaded as running changes no column.                            *)
(***************************************************************************)
Resumed(row, status) ==
    [SetStatus(status) EXCEPT !.clock = IF row.paused THEN "resume" ELSE "keep"]

RemainingOf(row, due, now) ==
    GraceRemaining(row.elapsed, row.paused, due, now, GracePeriod)

(***************************************************************************)
(* A defect: complete() ignores requires_review.                           *)
(***************************************************************************)
CompleteUnreviewed(requiresReview) == SetStatus("complete")

CompletePatch(requiresReview) ==
    SetStatus(IF requiresReview THEN "review_pending" ELSE "complete")

(***************************************************************************)
(* submit_excuse suspends the clock only of an instance that is overdue.   *)
(***************************************************************************)
ExcusePatch(row, due, now) ==
    LET elapsed == SuspendedElapsed(row.elapsed, row.paused, due, now)
    IN  IF row.status = "overdue"
        THEN [status  |-> "excuse_pending",
              elapsed |-> IF elapsed = row.elapsed THEN Keep ELSE elapsed,
              clock   |-> "suspend"]
        ELSE SetStatus("excuse_pending")

DenyCompletionPatch(row, due, now) ==
    IF now < due THEN SetStatus("pending") ELSE Resumed(row, "overdue")

DenyExcusePatch(row, due, now) ==
    LET remaining == GraceRemaining(row.elapsed, FALSE, due, now, GracePeriod)
    IN  Resumed(row, IF remaining > 0 THEN "overdue" ELSE "missed")

ReversePatch(due, now) ==
    SetStatus(IF now < due THEN "overdue" ELSE "missed")

(***************************************************************************)
(* Ledger entry types that carry a task_instance_id and what award_excuse_ *)
(* if_policy writes under each excused_payout_policy ("none": no entry).   *)
(***************************************************************************)
AwardType == {"task_completed", "excused_partial"}

PayoutPolicy == {"excused_pays_nothing", "excused_pays_partial",
                 "excused_pays_full"}

UnknownAward(policy) ==         \* a defect: an entry type the enum lacks
    CASE policy = "excused_pays_nothing" -> "none"
      [] policy = "excused_pays_partial" -> "excused_partial"
      [] policy = "excused_pays_full"    -> "excused_full"

ExcuseAward(policy) ==
    CASE policy = "excused_pays_nothing" -> "none"
      [] policy = "excused_pays_partial" -> "excused_partial"
      [] policy = "excused_pays_full"    -> "task_completed"
=============================================================================
