------------------------------ MODULE MCWallet ------------------------------
(***************************************************************************)
(* Wallet for TLC: a window of two tasks of different values, and claims.  *)
(***************************************************************************)
EXTENDS Wallet, TLC

CONSTANTS t1, t2

TwoValues == [t \in Tasks |-> IF t = t1 THEN 1 ELSE 2]
EachCostsTwo == [c \in Claims |-> 2]

SymmetricSessions == Permutations(Sessions)
=============================================================================
