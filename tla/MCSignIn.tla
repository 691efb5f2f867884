------------------------------ MODULE MCSignIn ------------------------------
(***************************************************************************)
(* SignIn for TLC: two people behind one address log in under one email,   *)
(* whose limit is lower than the address's; two tokens; two requests at a  *)
(* time, of which one may be lost.                                         *)
(***************************************************************************)
EXTENDS SignIn, TLC

CONSTANTS address, email

Limits == address :> 2 @@ email :> 1

LoginChecks == {<<address, email>>}
=============================================================================
