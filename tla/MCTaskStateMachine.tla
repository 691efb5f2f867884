------------------------- MODULE MCTaskStateMachine -------------------------
(***************************************************************************)
(* TaskStateMachine for TLC: an odd value, so that half of it is rounded;  *)
(* a due time with instants before it; time for several excuses to be      *)
(* submitted and denied within a grace period and after it.                *)
(***************************************************************************)
EXTENDS TaskStateMachine

MCGracePeriod == 3
MCDue == 1
MCValue == 3
MCMaxTime == 7
=============================================================================
