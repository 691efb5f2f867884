---------------------------- MODULE PointsLedger ----------------------------
(***************************************************************************)
(* What TaskStateMachine and Wallet share of LedgerService, for entries    *)
(* [type, delta, ...] in the order in which they were added.               *)
(***************************************************************************)
EXTENDS Integers, SequencesExt

(***************************************************************************)
(* The positions of the entries of a type: the unique indexes ask for the  *)
(* type together with what the entry is for.                               *)
(***************************************************************************)
Posted(entries, type) == {k \in DOMAIN entries : entries[k].type = type}

(***************************************************************************)
(* current_balance: SUM(delta), and 0 where there is no entry.             *)
(***************************************************************************)
Balance(entries) == FoldLeft(LAMBDA sum, e : sum + e.delta, 0, entries)
=============================================================================
