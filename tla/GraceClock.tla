----------------------------- MODULE GraceClock -----------------------------
(***************************************************************************)
(* The grace-period arithmetic of services/state_machine.py.  A clock is   *)
(* the two columns grace_elapsed_seconds and grace_paused_at of a task     *)
(* instance; of the second the code only ever asks whether it is NULL, so  *)
(* it is the Boolean "paused" here.  Times and durations are natural       *)
(* numbers of an arbitrary unit (the code truncates to whole seconds).     *)
(***************************************************************************)
EXTENDS Integers

AtLeastZero(n) == IF n > 0 THEN n ELSE 0

(***************************************************************************)
(* Two defects of _suspend_grace that the properties must notice: nothing  *)
(* is charged, and the operands are the wrong way round.                   *)
(***************************************************************************)
SuspendedUncharged(elapsed, paused, due, now) == elapsed

SuspendedBackwards(elapsed, paused, due, now) ==
    IF paused THEN elapsed ELSE elapsed + (due - now)

(***************************************************************************)
(* _suspend_grace: pausing a running clock adds the whole time since the   *)
(* due date to what had been accumulated; a paused clock is left as it is. *)
(***************************************************************************)
SuspendedElapsed(elapsed, paused, due, now) ==
    IF paused THEN elapsed ELSE elapsed + AtLeastZero(now - due)

(***************************************************************************)
(* grace_remaining: a paused clock charges what was accumulated, a running *)
(* one charges at least the time since the due date.                       *)
(***************************************************************************)
GraceUsed(elapsed, paused, due, now) ==
    IF paused THEN elapsed ELSE elapsed + AtLeastZero(now - due - elapsed)

GraceRemaining(elapsed, paused, due, now, total) ==
    total - GraceUsed(elapsed, paused, due, now)
=============================================================================
