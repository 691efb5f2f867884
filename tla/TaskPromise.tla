---------------------------- MODULE TaskPromise -----------------------------
(***************************************************************************)
(* What a household is promised about one task: its status moves only      *)
(* along the transition table of state_machine.py, and the points it is    *)
(* worth on the assignee's account (net, the sum of its ledger deltas)     *)
(* follow the status: nothing before it is accepted, its value once it is, *)
(* nothing again after a reversal.                                         *)
(***************************************************************************)
EXTENDS Integers

CONSTANT Value              \* TaskInstance.point_value, frozen at creation

VARIABLES status, net

(***************************************************************************)
(* _TRANSITIONS, as triples <<from, trigger, to>>.                         *)
(***************************************************************************)
Transitions == {
    <<"pending", "complete_auto", "complete">>,
    <<"pending", "complete_review", "review_pending">>,
    <<"pending", "excuse", "excuse_pending">>,
    <<"pending", "due_passes", "overdue">>,
    <<"pending", "cancel", "cancelled">>,
    <<"overdue", "complete_auto", "complete">>,
    <<"overdue", "complete_review", "review_pending">>,
    <<"overdue", "excuse", "excuse_pending">>,
    <<"overdue", "grace_expires", "missed">>,
    <<"overdue", "cancel", "cancelled">>,
    <<"review_pending", "approve", "complete">>,
    <<"review_pending", "deny_before_due", "pending">>,
    <<"review_pending", "deny_after_due", "overdue">>,
    <<"excuse_pending", "approve", "excused">>,
    <<"excuse_pending", "deny_grace_remaining", "overdue">>,
    <<"excuse_pending", "deny_grace_expired", "missed">>,
    <<"complete", "parent_reverses_before_due", "overdue">>,
    <<"complete", "parent_reverses_after_due", "missed">> }

(***************************************************************************)
(* What the task may be worth in a status it has just reached.             *)
(***************************************************************************)
Worth(s) ==
    CASE s = "complete" -> {Value}
      [] s = "excused"  -> {0, Value \div 2, Value}
      [] OTHER          -> {0}

PromiseInit == /\ status \in {"pending", "overdue"}
               /\ net = 0

Move == \E tr \in Transitions : /\ status = tr[1]
                                /\ status' = tr[3]
                                /\ net' \in Worth(tr[3])

(***************************************************************************)
(* The nightly job takes an instance through due_passes and grace_expires  *)
(* in one transaction when it comes to it late.                            *)
(***************************************************************************)
MoveTwice == \E t1, t2 \in Transitions :
                /\ t1[2] = "due_passes" /\ t2[2] = "grace_expires"
                /\ status = t1[1] /\ t1[3] = t2[1] /\ status' = t2[3]
                /\ net' \in Worth(t2[3])

PromiseSpec == PromiseInit /\ [][Move \/ MoveTwice]_<<status, net>>
=============================================================================
