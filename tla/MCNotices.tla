------------------------------ MODULE MCNotices -----------------------------
(***************************************************************************)
(* Notices for TLC: two instances, one of them past due from the start,    *)
(* a request and two runs of the reminder job at a time, weeks of two      *)
(* hours, and clocks put forward, back, or left alone.                     *)
(***************************************************************************)
EXTENDS Notices, TLC

CONSTANTS i1, i2

DueOne == i2 :> 3
DueInTurn == i1 :> 1 @@ i2 :> 2

SomeZones == [at : {1, 2, 4}, by : {-1, 0, 1}]
=============================================================================
