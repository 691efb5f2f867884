--------------------------- MODULE MCTaskCalendar ---------------------------
(***************************************************************************)
(* TaskCalendar for TLC: two households, one of them with a definition,    *)
(* two times of day, two timezones, a horizon of two days.                 *)
(***************************************************************************)
EXTENDS TaskCalendar, TLC

CONSTANTS h1, h2, d1

InFirst == d1 :> h1

Daily(slot, value) == [kind |-> "daily", start |-> 0, end |-> 1, mask |-> {},
                       slot |-> slot, value |-> value, garbled |-> "nothing"]

SomeForms == {Daily(1, 1),
              [Daily(0, 2) EXCEPT !.kind = "one_time", !.start = 1],
              [Daily(0, 1) EXCEPT !.kind = "weekdays", !.mask = {1}],
              [Daily(1, 1) EXCEPT !.kind = "weekly", !.garbled = "due_time"],
              [Daily(1, 1) EXCEPT !.start = 1, !.garbled = "end_date"]}
=============================================================================
