------------------------------- MODULE Reports ------------------------------
(***************************************************************************)
(* The weekly report of a member (routers/reports.py, services/reports.py) *)
(* in a time zone whose clocks change.                                     *)
(*                                                                         *)
(* Instants are hours of UTC and a week has WeekLength of them.  A zone    *)
(* [at, by] is the household's: its clocks show UTC until the instant at,  *)
(* and are by hours ahead from then on.                                    *)
(***************************************************************************)
EXTENDS Integers, FiniteSets

CONSTANTS
    WeekLength,
    Weeks           \* how many weeks a report goes back, the current one included

ASSUME ReportsAssumption == WeekLength \in Nat \ {0} /\ Weeks \in Nat \ {0}

Local(zone, t) == IF t >= zone.at THEN t + zone.by ELSE t

(***************************************************************************)
(* The household-local week of an instant, Monday first.                   *)
(***************************************************************************)
WeekOfUtc(zone, t) == t \div WeekLength     \* a defect: of the wrong clock
WeekOf(zone, t) == Local(zone, t) \div WeekLength

(***************************************************************************)
(* tz.localize: the instant of local midnight on the Monday of a week.  Of *)
(* a midnight that comes twice it takes the second, and a midnight that    *)
(* the clocks skip it reads as if they had not been put forward yet.       *)
(***************************************************************************)
Midnight(week) == week * WeekLength

ComesTwice(zone, week) ==
    zone.at + zone.by <= Midnight(week) /\ Midnight(week) < zone.at

Monday(zone, week) ==
    IF Midnight(week) < zone.at + zone.by THEN Midnight(week) ELSE Midnight(week) - zone.by

InRange(zone, now, t) ==
    LET this == WeekOf(zone, now)
    IN  /\ Monday(zone, this - (Weeks - 1)) <= t
        /\ t < Monday(zone, this) + WeekLength

Buckets(zone, now) == (WeekOf(zone, now) - (Weeks - 1))..WeekOf(zone, now)

(***************************************************************************)
(* rows[i] has the due instant, the status, and the instant of the excuse  *)
(* (0 for NULL) of an instance.                                            *)
(***************************************************************************)
Report(rows, zone, now) ==
    LET scoped == {i \in DOMAIN rows : InRange(zone, now, rows[i].due)}
        due(week, status) ==
            {i \in scoped : WeekOf(zone, rows[i].due) = week /\ rows[i].status = status}
    IN  [week \in Buckets(zone, now) |->
            [completed |-> Cardinality(due(week, "complete")),
             missed |-> Cardinality(due(week, "missed")),
             excuses |-> Cardinality({i \in scoped :
                            /\ rows[i].excusedAt # 0
                            /\ WeekOf(zone, rows[i].excusedAt) = week})]]
=============================================================================
