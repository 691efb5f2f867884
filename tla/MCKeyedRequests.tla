-------------------------- MODULE MCKeyedRequests ---------------------------
(***************************************************************************)
(* KeyedRequests for TLC.  The keys of a run are actions on one instance,  *)
(* each with its retries: the teen's excuses and completions, the parents' *)
(* verdicts.                                                               *)
(***************************************************************************)
EXTENDS KeyedRequests, TLC

CONSTANTS k1, k2, k3

ExcuseOnly == k1 :> "excuse"
CompleteApprove == k1 :> "complete" @@ k2 :> "approve"
CompleteDenyComplete == k1 :> "complete" @@ k2 :> "deny" @@ k3 :> "complete"

(***************************************************************************)
(* The instance is past its due time from the start.                       *)
(***************************************************************************)
LateInit == Init /\ late = TRUE

LateSpec == LateInit /\ [][Next]_vars /\ Fairness
=============================================================================
