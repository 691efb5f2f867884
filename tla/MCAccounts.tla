----------------------------- MODULE MCAccounts -----------------------------
(***************************************************************************)
(* Accounts for TLC: three members, so that a household has two teens or   *)
(* there are two households; two codes, so that a previous one can stay    *)
(* valid; two requests at a time, of which one may be lost.                *)
(***************************************************************************)
EXTENDS Accounts, TLC

Symmetric == Permutations(Members) \cup Permutations(Emails) \cup
             Permutations(Codes) \cup Permutations(Sessions)
=============================================================================
