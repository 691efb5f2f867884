--------------------------- MODULE MCTaskRequests ---------------------------
(***************************************************************************)
(* TaskRequests for TLC: all instances due at the same time, one tick      *)
(* after the start.  A run that gives the clock fewer ticks than that      *)
(* keeps the nightly job out of its way.                                   *)
(***************************************************************************)
EXTENDS TaskRequests, TLC

MCDueAt == [i \in Instances |-> 1]
MCDueNow == [i \in Instances |-> 0]

AllOps == {"complete", "excuse", "approve", "deny", "cancel"}
ReviewOps == {"complete", "approve", "deny"}
CompleteOnly == {"complete"}
ApproveOnly == {"approve"}

SymmetricSessions == Permutations(Sessions)

(***************************************************************************)
(* Two parents in front of an inbox while the nightly job runs: it has     *)
(* selected every instance as expired, and the teen has completed them all *)
(* since then.                                                             *)
(***************************************************************************)
InboxRow == [status |-> "review_pending", elapsed |-> 0, paused |-> FALSE]

InboxSpec ==
    /\ InitWith([i \in Instances |-> InboxRow], 1, "expire", Instances, Instances)
    /\ [][Next]_vars
    /\ Fairness
=============================================================================
