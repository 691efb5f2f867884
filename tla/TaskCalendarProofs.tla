------------------------- MODULE TaskCalendarProofs -------------------------
(***************************************************************************)
(* Proofs about TaskCalendar for any households, definitions and forms,    *)
(* any length of a day and of the horizon, and any number of edits and     *)
(* failures.                                                               *)
(***************************************************************************)
EXTENDS TaskCalendar, Integers, TLAPS

-----------------------------------------------------------------------------
(***************************************************************************)
(* Arithmetic of days and times of day.                                    *)
(***************************************************************************)

(***************************************************************************)
(* Multiplication is monotonic.                                            *)
(***************************************************************************)
LEMMA TimesMonotonic ==
    ASSUME NEW a \in Int, NEW b \in Int, NEW n \in Nat, a <= b
    PROVE  a * n <= b * n
<1>1. (b - a) * n >= 0
  BY Z3
<1> QED  BY <1>1, Z3

(***************************************************************************)
(* Division gives the one quotient there is.                               *)
(***************************************************************************)
LEMMA QuotientUnique ==
    ASSUME NEW q \in Int, NEW p \in Int, NEW n \in Nat \ {0},
           NEW r \in 0..(n - 1), NEW s \in 0..(n - 1),
           q * n + r = p * n + s
    PROVE  q = p
<1>1. CASE q < p
  <2>1. (q + 1) * n <= p * n
    BY <1>1, TimesMonotonic
  <2>2. (q + 1) * n = q * n + n
    BY Z3
  <2>3. q * n \in Int /\ p * n \in Int
    OBVIOUS
  <2> QED  BY <2>1, <2>2, <2>3
<1>2. CASE p < q
  <2>1. (p + 1) * n <= q * n
    BY <1>2, TimesMonotonic
  <2>2. (p + 1) * n = p * n + n
    BY Z3
  <2>3. q * n \in Int /\ p * n \in Int
    OBVIOUS
  <2> QED  BY <2>1, <2>2, <2>3
<1> QED  BY <1>1, <1>2

(***************************************************************************)
(* An instant lies in its day.                                             *)
(***************************************************************************)
LEMMA DayBounds ==
    ASSUME NEW t \in Nat, NEW z \in Nat, z <= t
    PROVE  /\ DayOf(t, z) \in Nat
           /\ t - z - DayOf(t, z) * SlotsPerDay \in 0..(SlotsPerDay - 1)
<1> DEFINE u == t - z
<1>1. u \in Nat /\ SlotsPerDay \in Nat \ {0}
  BY CalendarAssumption
<1> HIDE DEF u
<1>2. u \div SlotsPerDay \in Nat /\ u - (u \div SlotsPerDay) * SlotsPerDay \in 0..(SlotsPerDay - 1)
  BY <1>1, Z3
<1> QED  BY <1>2 DEF DayOf, u

(***************************************************************************)
(* The due time of a form on a day is in that day.                         *)
(***************************************************************************)
LEMMA DueInDay ==
    ASSUME NEW f \in Forms, NEW day \in Nat, NEW z \in Nat
    PROVE  DueAt(f, day, z) \in Nat /\ DayOf(DueAt(f, day, z), z) = day
<1>1. SlotsPerDay \in Nat \ {0} /\ f.slot \in 0..(SlotsPerDay - 1)
  BY CalendarAssumption DEF Form
<1>2. day * SlotsPerDay \in Nat
  BY <1>1, Z3
<1>3. DueAt(f, day, z) \in Nat /\ z <= DueAt(f, day, z)
  BY <1>1, <1>2 DEF DueAt
<1> DEFINE due == DueAt(f, day, z)
           q == DayOf(due, z)
<1>4. q \in Nat /\ due - z - q * SlotsPerDay \in 0..(SlotsPerDay - 1)
  BY <1>3, DayBounds
<1>5. q * SlotsPerDay \in Int
  BY <1>1, <1>4, Z3
<1>6. q * SlotsPerDay + (due - z - q * SlotsPerDay) = day * SlotsPerDay + f.slot
  BY <1>1, <1>2, <1>3, <1>5 DEF DueAt
<1> HIDE DEF q, due
<1>7. q = day
  BY <1>1, <1>4, <1>6, QuotientUnique
<1> QED  BY <1>3, <1>7 DEF q, due

(***************************************************************************)
(* No timezone's day is later than the last one.                           *)
(***************************************************************************)
LEMMA TodayBounds ==
    ASSUME now \in West..MaxTime, NEW z \in Zone
    PROVE  Today(z) \in 0..LastDay
<1>1. SlotsPerDay \in Nat \ {0} /\ MaxTime \in Nat /\ West \in Nat
  BY CalendarAssumption
<1>2. z \in Nat /\ z <= now /\ now \in Nat /\ now <= MaxTime
  BY <1>1 DEF Zone
<1>3. Today(z) \in Nat /\ now - z - Today(z) * SlotsPerDay \in 0..(SlotsPerDay - 1)
  BY <1>2, DayBounds DEF Today
<1>4. LastDay \in Nat /\ MaxTime - LastDay * SlotsPerDay \in 0..(SlotsPerDay - 1)
  BY <1>1, Z3 DEF LastDay
<1>5. ASSUME LastDay + 1 <= Today(z)  PROVE FALSE
  <2>1. (LastDay + 1) * SlotsPerDay <= Today(z) * SlotsPerDay
    BY <1>1, <1>3, <1>4, <1>5, TimesMonotonic
  <2>2. (LastDay + 1) * SlotsPerDay = LastDay * SlotsPerDay + SlotsPerDay
    BY <1>1, <1>4, Z3
  <2>3. Today(z) * SlotsPerDay \in Int /\ LastDay * SlotsPerDay \in Int
    BY <1>1, <1>3, <1>4, Z3
  <2> QED  BY <1>1, <1>2, <1>3, <1>4, <2>1, <2>2, <2>3
<1> QED  BY <1>3, <1>4, <1>5

(***************************************************************************)
(* The days a run fills, and what is due in them, are in the calendar.     *)
(***************************************************************************)
LEMMA DaysBounds ==
    ASSUME TypeOK
    PROVE  /\ TargetDays \subseteq Days /\ Days \subseteq Nat /\ Dues \subseteq Nat
           /\ \A f \in Forms, day \in Days, z \in Zone : DueAt(f, day, z) \in Dues
<1>1. SlotsPerDay \in Nat \ {0} /\ Horizon \in Nat \ {0} /\ MaxTime \in Nat /\ West \in Nat
  BY CalendarAssumption
<1>2. LastDay \in Nat
  BY <1>1, Z3 DEF LastDay
<1>3. jtoday \in 0..LastDay
  BY DEF TypeOK
<1>4. TargetDays \subseteq Days /\ Days \subseteq Nat
  BY <1>1, <1>2, <1>3 DEF TargetDays, Days
<1>5. Dues \subseteq Nat
  BY DEF Dues
<1>6. ASSUME NEW f \in Forms, NEW day \in Days, NEW z \in Zone
      PROVE  DueAt(f, day, z) \in Dues
  <2> DEFINE last == LastDay + Horizon
  <2>1. day \in Int /\ last \in Int /\ day <= last /\ z \in Nat /\ z <= West
    BY <1>1, <1>2 DEF Days, Zone
  <2>2. day * SlotsPerDay <= last * SlotsPerDay
    BY <1>1, <2>1, TimesMonotonic
  <2>3. SlotsPerDay * (last + 1) = last * SlotsPerDay + SlotsPerDay
    BY <1>1, <2>1, Z3
  <2>4. f.slot \in Nat /\ f.slot < SlotsPerDay
    BY CalendarAssumption DEF Form
  <2>5. day * SlotsPerDay \in Int /\ last * SlotsPerDay \in Int
    BY <1>1, <2>1, Z3
  <2>6. DueAt(f, day, z) \in Nat
    BY <1>4, <1>6, <2>1, DueInDay
  <2>7. DueAt(f, day, z) <= SlotsPerDay * (last + 1) - 1 + West
    <3> HIDE DEF last
    <3> QED  BY <1>1, <2>1, <2>2, <2>3, <2>4, <2>5 DEF DueAt
  <2>8. SlotsPerDay * (last + 1) - 1 + West \in Int
    <3> HIDE DEF last
    <3> QED  BY <1>1, <2>3, <2>5
  <2> QED  BY <2>6, <2>7, <2>8 DEF Dues
<1> QED  BY <1>4, <1>5, <1>6

-----------------------------------------------------------------------------
(***************************************************************************)
(* What the job writes.                                                    *)
(***************************************************************************)
InstanceRow == Instance \cup {NoInstance}

(***************************************************************************)
(* Neither kind of blank is mistaken for the real thing.                   *)
(***************************************************************************)
LEMMA Blanks == NoInstance \notin Instance /\ NoForm \notin Forms
BY CalendarAssumption DEF NoInstance, Instance, NoForm, Form, Kind

(***************************************************************************)
(* An INSERT adds instances on the due times of its days, and keeps what   *)
(* there is.                                                               *)
(***************************************************************************)
LEMMA UpsertedRows ==
    ASSUME NEW rows \in [Dues -> InstanceRow], NEW f \in Forms, NEW days, NEW z
    PROVE  /\ Upserted(rows, f, days, z) \in [Dues -> InstanceRow]
           /\ \A due \in Dues :
                 Upserted(rows, f, days, z)[due] # NoInstance <=>
                    \/ rows[due] # NoInstance
                    \/ \E day \in days : ShouldGenerate(f, day) /\ due = DueAt(f, day, z)
<1>1. \A due \in Dues : NewInstance(f, due) \in Instance
  BY CalendarAssumption DEF NewInstance, Instance, Form
<1> QED  BY <1>1, Blanks DEF Upserted, InstanceRow

(***************************************************************************)
(* Sweeping and expiring change the status of an instance and no more.     *)
(***************************************************************************)
LEMMA SweptRows ==
    ASSUME NEW r \in InstanceRow, NEW due \in Dues
    PROVE  /\ Expired(Swept(r, due), due) \in InstanceRow
           /\ Expired(Swept(r, due), due) # NoInstance <=> r # NoInstance
<1>1. CASE r = NoInstance
  BY <1>1 DEF Expired, Swept, NoInstance, InstanceRow
<1>2. CASE r \in Instance
  <2>1. Swept(r, due) \in Instance
    BY <1>2 DEF Swept, Instance
  <2>2. Expired(Swept(r, due), due) \in Instance
    BY <2>1 DEF Expired, Instance
  <2> QED  BY <1>2, <2>2, Blanks DEF InstanceRow
<1> QED  BY <1>1, <1>2 DEF InstanceRow

(***************************************************************************)
(* So a run of the job, for one definition.                                *)
(***************************************************************************)
LEMMA GeneratedRows ==
    ASSUME TypeOK, NEW d \in Definitions, jdefs[d] # NoForm
    PROVE  /\ Generated(d) \in [Dues -> InstanceRow]
           /\ \A due \in Dues :
                 Generated(d)[due] # NoInstance <=>
                    \/ inst[d][due] # NoInstance
                    \/ \E day \in TargetDays :
                          ShouldGenerate(jdefs[d], day)
                          /\ due = DueAt(jdefs[d], day, jzone)
<1> DEFINE rows == Upserted(inst[d], jdefs[d], TargetDays, jzone)
<1>1. jdefs[d] \in Forms /\ inst[d] \in [Dues -> InstanceRow]
  BY DEF TypeOK, InstanceRow
<1>2. /\ rows \in [Dues -> InstanceRow]
      /\ \A due \in Dues :
            rows[due] # NoInstance <=>
                \/ inst[d][due] # NoInstance
                \/ \E day \in TargetDays :
                      ShouldGenerate(jdefs[d], day)
                          /\ due = DueAt(jdefs[d], day, jzone)
  BY <1>1, UpsertedRows
<1>3. Generated(d) = [due \in Dues |-> Expired(Swept(rows[due], due), due)]
  BY DEF Generated
<1> HIDE DEF rows
<1>4. \A due \in Dues : rows[due] \in InstanceRow
  BY <1>2
<1>5. Generated(d) \in [Dues -> InstanceRow]
  BY <1>3, <1>4, SweptRows
<1>6. \A due \in Dues : Generated(d)[due] # NoInstance <=> rows[due] # NoInstance
  BY <1>3, <1>4, SweptRows
<1> QED  BY <1>2, <1>5, <1>6

-----------------------------------------------------------------------------
(***************************************************************************)
(* Type correctness.                                                       *)
(***************************************************************************)

(***************************************************************************)
(* The calendar is empty at first.                                         *)
(***************************************************************************)
LEMMA TypeInit == Init => TypeOK
<1> SUFFICES ASSUME Init  PROVE TypeOK
  OBVIOUS
<1>1. AnyHouse \in Households
  BY CalendarAssumption DEF AnyHouse
<1>2. now \in West..MaxTime /\ edits \in 0..MaxEdits /\ failures \in 0..MaxFailures
  BY CalendarAssumption DEF Init
<1>3. 0 \in Zone /\ 0 \in 0..LastDay
  BY CalendarAssumption, Z3 DEF Zone, LastDay
<1> QED  BY <1>1, <1>2, <1>3 DEF Init, TypeOK, NoForms

(***************************************************************************)
(* Every step preserves the types.                                         *)
(***************************************************************************)
LEMMA TypeStep ==
    ASSUME TypeOK, [Next]_vars
    PROVE  TypeOK'
<1>0. /\ AnyHouse \in Households /\ NoForms \in [Definitions -> Forms \cup {NoForm}]
      /\ 0 \in Zone /\ 0 \in 0..LastDay
  BY CalendarAssumption, Z3 DEF AnyHouse, NoForms, Zone, LastDay
<1>1. ASSUME NEW d \in Definitions, CreateDefinition(d)  PROVE TypeOK'
  <2> DEFINE z == zone[HouseOf[d]]
  <2>1. PICK f \in Forms :
          /\ defs' = [defs EXCEPT ![d] = f]
          /\ inst' = [inst EXCEPT ![d] = Upserted(@, f, {FirstDay(f, z)}, z)]
    BY <1>1 DEF CreateDefinition
  <2>2. inst[d] \in [Dues -> InstanceRow]
    BY DEF TypeOK, InstanceRow
  <2>3. Upserted(inst[d], f, {FirstDay(f, z)}, z) \in [Dues -> InstanceRow]
    BY <2>2, UpsertedRows
  <2>4. inst' \in [Definitions -> [Dues -> Instance \cup {NoInstance}]]
    BY <2>1, <2>3 DEF TypeOK, InstanceRow
  <2> QED  BY <1>1, <2>1, <2>4 DEF TypeOK, CreateDefinition, jobVars
<1>2. ASSUME NEW d \in Definitions, UpdateDefinition(d)  PROVE TypeOK'
  <2>1. edits' \in 0..MaxEdits
    BY <1>2, CalendarAssumption DEF TypeOK, UpdateDefinition
  <2> QED  BY <1>2, <2>1 DEF TypeOK, UpdateDefinition, jobVars
<1>3. ASSUME NEW d \in Definitions, ArchiveDefinition(d)  PROVE TypeOK'
  BY <1>3 DEF TypeOK, ArchiveDefinition, jobVars
<1>4. ASSUME NEW h \in Households, UpdateHousehold(h)  PROVE TypeOK'
  <2>1. edits' \in 0..MaxEdits
    BY <1>4, CalendarAssumption DEF TypeOK, UpdateHousehold
  <2> QED  BY <1>4, <2>1 DEF TypeOK, UpdateHousehold, jobVars
<1>5. CASE JobStart
  BY <1>5 DEF TypeOK, JobStart, defVars
<1>6. ASSUME NEW h \in Households, JobRead(h)  PROVE TypeOK'
  <2>1. jtoday' \in 0..LastDay
    <3>1. CASE zone[h] = BadZone
      BY <1>0, <1>6, <3>1 DEF JobRead
    <3>2. CASE zone[h] # BadZone
      BY <1>6, <3>2, TodayBounds DEF TypeOK, JobRead
    <3> QED  BY <3>1, <3>2
  <2> QED  BY <1>6, <2>1 DEF TypeOK, JobRead, defVars
<1>7. CASE JobWrite
  <2>1. inst' \in [Definitions -> [Dues -> Instance \cup {NoInstance}]]
    BY <1>7, GeneratedRows DEF TypeOK, JobWrite, InstanceRow
  <2>2. jtoday..(jtoday + Horizon - 1) \subseteq Days
    BY DaysBounds DEF TargetDays
  <2>3. planned' \in [Definitions -> SUBSET Days]
    BY <1>7, <2>2 DEF TypeOK, JobWrite
  <2> QED  BY <1>0, <1>7, <2>1, <2>3 DEF TypeOK, JobWrite, JobEnd, defVars
<1>8. CASE JobDone
  BY <1>8 DEF TypeOK, JobDone, defVars
<1>9. CASE JobFail \/ JobLost
  <2>1. failures' \in 0..MaxFailures
    BY <1>9, CalendarAssumption DEF TypeOK, JobFail, JobLost
  <2> QED  BY <1>0, <1>9, <2>1 DEF TypeOK, JobFail, JobLost, JobStop, JobEnd, defVars
<1>10. CASE Finish
  <2>1. PICK d \in Definitions, due \in Dues :
            /\ inst[d][due] # NoInstance
            /\ inst' = [inst EXCEPT ![d][due].status = "done"]
    BY <1>10 DEF Finish
  <2>2. inst[d][due] \in Instance
    BY <2>1 DEF TypeOK
  <2>3. [inst[d][due] EXCEPT !.status = "done"] \in Instance
    BY <2>2 DEF Instance
  <2>4. inst' \in [Definitions -> [Dues -> Instance \cup {NoInstance}]]
    BY <2>1, <2>3 DEF TypeOK
  <2> QED  BY <1>10, <2>4 DEF TypeOK, Finish, defVars, jobVars
<1>11. CASE Tick
  <2>1. now' \in West..MaxTime
    BY <1>11, CalendarAssumption DEF TypeOK, Tick
  <2> QED  BY <1>11, <2>1 DEF TypeOK, Tick, defVars, jobVars
<1>12. CASE UNCHANGED vars
  BY <1>12 DEF TypeOK, vars, defVars, jobVars
<1> QED
  BY <1>1, <1>2, <1>3, <1>4, <1>5, <1>6, <1>7, <1>8, <1>9, <1>10, <1>11, <1>12
  DEF Next

(***************************************************************************)
(* Every reachable state is well typed.                                    *)
(***************************************************************************)
THEOREM TypesAlways == Spec => []TypeOK
BY TypeInit, TypeStep, PTL DEF Spec

-----------------------------------------------------------------------------
(***************************************************************************)
(* As long as a definition and its household's timezone are not edited,    *)
(* what the job has read of them is what there is; its instances are due   *)
(* when it says; and the days that were planned have theirs.               *)
(***************************************************************************)
ZoneKnown == \A h \in Households \ moved : zone[h] \in Zone

SeenCurrent == \A d \in Settled :
    jdefs[d] # NoForm => jdefs[d] = defs[d] /\ jzone = zone[HouseOf[d]]

OnDue == \A d \in Settled : \A due \in Dues :
    inst[d][due] # NoInstance =>
        /\ defs[d] # NoForm
        /\ due = DueAt(defs[d], DayOf(due, zone[HouseOf[d]]), zone[HouseOf[d]])

Filled == \A d \in Settled : \A day \in planned[d] :
    /\ defs[d] # NoForm
    /\ ShouldGenerate(defs[d], day) =>
          inst[d][DueAt(defs[d], day, zone[HouseOf[d]])] # NoInstance

CalendarInv == TypeOK /\ ZoneKnown /\ SeenCurrent /\ OnDue /\ Filled

(***************************************************************************)
(* The invariant holds of the empty calendar.                              *)
(***************************************************************************)
LEMMA CalendarInit == Init => CalendarInv
BY TypeInit
DEF Init, CalendarInv, ZoneKnown, SeenCurrent, OnDue, Filled, NoForms, Settled

(***************************************************************************)
(* A settled definition's household has a timezone that exists.            *)
(***************************************************************************)
LEMMA SettledZone ==
    ASSUME ZoneKnown, NEW d \in Settled
    PROVE  /\ d \in Definitions /\ zone[HouseOf[d]] \in Zone
           /\ zone[HouseOf[d]] \in Nat /\ zone[HouseOf[d]] # BadZone
<1>1. HouseOf[d] \in Households \ moved
  BY CalendarAssumption DEF Settled
<1> QED  BY <1>1, CalendarAssumption DEF ZoneKnown, Settled, Zone, BadZone

(***************************************************************************)
(* A household that is not moved keeps its timezone.                       *)
(***************************************************************************)
LEMMA ZonesKept ==
    ASSUME TypeOK, [Next]_vars, NEW h \in Households, h \notin moved'
    PROVE  h \notin moved /\ zone'[h] = zone[h]
<1>1. ASSUME NEW g \in Households, UpdateHousehold(g)
      PROVE  h \notin moved /\ zone'[h] = zone[h]
  BY <1>1 DEF TypeOK, UpdateHousehold
<1>2. (\E g \in Households : UpdateHousehold(g)) \/ (zone' = zone /\ moved' = moved)
  BY DEF Next, CreateDefinition, UpdateDefinition, ArchiveDefinition, JobStart, JobRead,
         JobWrite, JobDone, JobFail, JobLost, JobStop, Finish, Tick, vars, defVars
<1> QED  BY <1>1, <1>2

(***************************************************************************)
(* A household that has kept its timezone has one that exists.             *)
(***************************************************************************)
LEMMA ZoneStep ==
    ASSUME TypeOK, ZoneKnown, [Next]_vars
    PROVE  ZoneKnown'
BY ZonesKept DEF ZoneKnown

(***************************************************************************)
(* An instance was added where a form of its definition says, in the       *)
(* timezone that its writer has read.                                      *)
(***************************************************************************)
Added(d, due) ==
    \/ /\ CreateDefinition(d) /\ defs'[d] \in Forms
       /\ zone[HouseOf[d]] # BadZone
       /\ \E day \in Nat : due = DueAt(defs'[d], day, zone[HouseOf[d]])
    \/ /\ JobWrite /\ jdefs[d] # NoForm
       /\ \E day \in Nat : due = DueAt(jdefs[d], day, jzone)

(***************************************************************************)
(* Instances are never deleted, and only those are added.                  *)
(***************************************************************************)
LEMMA InstancesAdded ==
    ASSUME TypeOK, [Next]_vars, NEW d \in Definitions, NEW due \in Dues
    PROVE  /\ inst[d][due] # NoInstance => inst'[d][due] # NoInstance
           /\ inst[d][due] = NoInstance /\ inst'[d][due] # NoInstance => Added(d, due)
<1> DEFINE Goal == /\ inst[d][due] # NoInstance => inst'[d][due] # NoInstance
                   /\ inst[d][due] = NoInstance /\ inst'[d][due] # NoInstance
                        => Added(d, due)
<1>1. TargetDays \subseteq Nat
  BY DaysBounds
<1>2. CASE inst' = inst
  BY <1>2
<1>3. ASSUME NEW e \in Definitions, CreateDefinition(e)  PROVE Goal
  <2> DEFINE z == zone[HouseOf[e]]
  <2>1. PICK f \in Forms :
          /\ defs' = [defs EXCEPT ![e] = f]
          /\ inst' = [inst EXCEPT ![e] = Upserted(@, f, {FirstDay(f, z)}, z)]
    BY <1>3 DEF CreateDefinition
  <2> DEFINE day == FirstDay(f, z)
  <2>2. z # BadZone /\ z \in Zone
    BY <1>3, CalendarAssumption DEF CreateDefinition, TypeOK
  <2>3. Today(z) \in Nat
    BY <2>2, TodayBounds DEF TypeOK
  <2>4. day \in Nat
    BY <2>3, CalendarAssumption DEF Form, FirstDay
  <2>5. CASE e # d
    BY <2>1, <2>5 DEF TypeOK
  <2>6. CASE e = d
    <3>1. defs'[d] = f /\ inst'[d] = Upserted(inst[d], f, {day}, z)
      BY <2>1, <2>6 DEF TypeOK
    <3>2. inst[d] \in [Dues -> InstanceRow]
      BY DEF TypeOK, InstanceRow
    <3>3. /\ inst[d][due] # NoInstance => inst'[d][due] # NoInstance
          /\ inst[d][due] = NoInstance /\ inst'[d][due] # NoInstance =>
                due = DueAt(f, day, z)
      BY <3>1, <3>2, UpsertedRows
    <3>4. zone[HouseOf[d]] = z
      BY <2>6
    <3> HIDE DEF day, z
    <3>5. ASSUME due = DueAt(f, day, z)  PROVE Added(d, due)
      BY <1>3, <2>2, <2>4, <2>6, <3>1, <3>4, <3>5 DEF Added
    <3> QED  BY <3>3, <3>5
  <2> QED  BY <2>5, <2>6
<1>4. CASE JobWrite
  <2>1. inst'[d] = IF jdefs[d] = NoForm THEN inst[d] ELSE Generated(d)
    BY <1>4 DEF JobWrite
  <2>2. CASE jdefs[d] = NoForm
    BY <2>1, <2>2
  <2>3. CASE jdefs[d] # NoForm
    BY <1>1, <1>4, <2>1, <2>3, GeneratedRows DEF Added
  <2> QED  BY <2>2, <2>3
<1>5. CASE Finish
  <2>1. PICK e \in Definitions, other \in Dues :
            /\ inst[e][other] # NoInstance
            /\ inst' = [inst EXCEPT ![e][other].status = "done"]
    BY <1>5 DEF Finish
  <2>2. CASE e = d /\ other = due
    <3>1. inst[d][due] \in Instance
      BY <2>1, <2>2 DEF TypeOK
    <3>2. [inst[d][due] EXCEPT !.status = "done"] \in Instance
      BY <3>1 DEF Instance
    <3>3. inst'[d][due] = [inst[d][due] EXCEPT !.status = "done"]
      BY <2>1, <2>2 DEF TypeOK
    <3> QED  BY <2>1, <2>2, <3>2, <3>3, Blanks
  <2>3. CASE ~ (e = d /\ other = due)
    <3>1. inst'[d][due] = inst[d][due]
      BY <2>1, <2>3 DEF TypeOK
    <3> QED  BY <3>1
  <2> QED  BY <2>2, <2>3
<1>6. inst' = inst \/ (\E e \in Definitions : CreateDefinition(e)) \/ JobWrite \/ Finish
  BY DEF Next, UpdateDefinition, ArchiveDefinition, UpdateHousehold, JobStart, JobRead,
         JobDone, JobFail, JobLost, JobStop, Tick, vars
<1> QED  BY <1>2, <1>3, <1>4, <1>5, <1>6

(***************************************************************************)
(* A settled definition stays what it is once it is created, and so does   *)
(* the timezone of its household.                                          *)
(***************************************************************************)
LEMMA DefinitionsKept ==
    ASSUME TypeOK, [Next]_vars, NEW d \in Settled'
    PROVE  /\ d \in Settled /\ zone'[HouseOf[d]] = zone[HouseOf[d]]
           /\ defs'[d] = defs[d]
              \/ (CreateDefinition(d) /\ defs[d] = NoForm /\ defs'[d] \in Forms)
<1>0. d \in Definitions /\ d \notin edited' /\ HouseOf[d] \notin moved'
  BY DEF Settled
<1>1. ASSUME NEW e \in Definitions, CreateDefinition(e)
      PROVE  /\ edited' = edited
             /\ defs'[d] = defs[d] \/ (e = d /\ defs[d] = NoForm /\ defs'[d] \in Forms)
  BY <1>0, <1>1 DEF TypeOK, CreateDefinition
<1>2. ASSUME NEW e \in Definitions, UpdateDefinition(e)
      PROVE  d \notin edited /\ defs'[d] = defs[d]
  BY <1>0, <1>2 DEF TypeOK, UpdateDefinition
<1>3. \/ \E e \in Definitions : CreateDefinition(e) \/ UpdateDefinition(e)
      \/ defs' = defs /\ edited' = edited
  BY DEF Next, ArchiveDefinition, UpdateHousehold, JobStart, JobRead, JobWrite, JobDone,
         JobFail, JobLost, JobStop, Finish, Tick, vars, defVars
<1>4. HouseOf[d] \in Households
  BY <1>0, CalendarAssumption
<1>5. HouseOf[d] \notin moved /\ zone'[HouseOf[d]] = zone[HouseOf[d]]
  BY <1>0, <1>4, ZonesKept
<1>6. d \notin edited
  BY <1>0, <1>1, <1>2, <1>3
<1>7. defs'[d] = defs[d] \/ (CreateDefinition(d) /\ defs[d] = NoForm /\ defs'[d] \in Forms)
  BY <1>1, <1>2, <1>3
<1> QED  BY <1>0, <1>5, <1>6, <1>7 DEF Settled

(***************************************************************************)
(* What the job has read stays current.                                    *)
(***************************************************************************)
LEMMA SeenStep ==
    ASSUME TypeOK, SeenCurrent, [Next]_vars
    PROVE  SeenCurrent'
<1> SUFFICES ASSUME NEW d \in Settled', jdefs'[d] # NoForm
             PROVE  jdefs'[d] = defs'[d] /\ jzone' = zone'[HouseOf[d]]
  BY DEF SeenCurrent
<1>1. d \in Settled /\ d \in Definitions
  BY DefinitionsKept DEF Settled
<1>2. CASE jdefs' = jdefs /\ jzone' = jzone
  <2>1. jdefs[d] = defs[d] /\ jzone = zone[HouseOf[d]]
    BY <1>1, <1>2 DEF SeenCurrent
  <2> QED  BY <1>2, <2>1, DefinitionsKept
<1>3. ASSUME NEW h \in Households, JobRead(h)
      PROVE  jdefs'[d] = defs'[d] /\ jzone' = zone'[HouseOf[d]]
  BY <1>1, <1>3 DEF JobRead, defVars
<1>4. JobWrite \/ JobFail \/ JobLost => jdefs'[d] = NoForm
  BY <1>1 DEF JobWrite, JobFail, JobLost, JobStop, JobEnd, NoForms
<1>5. \/ jdefs' = jdefs /\ jzone' = jzone
      \/ \E h \in Households : JobRead(h)
      \/ JobWrite \/ JobFail \/ JobLost
  BY DEF Next, CreateDefinition, UpdateDefinition, ArchiveDefinition, UpdateHousehold,
         JobStart, JobDone, Finish, Tick, vars, jobVars
<1> QED  BY <1>2, <1>3, <1>4, <1>5

(***************************************************************************)
(* Instances go on to be due when their definition says.                   *)
(***************************************************************************)
LEMMA OnDueStep ==
    ASSUME TypeOK, ZoneKnown, SeenCurrent, OnDue, [Next]_vars
    PROVE  OnDue'
<1> SUFFICES ASSUME NEW d \in Settled', NEW due \in Dues, inst'[d][due] # NoInstance
             PROVE  /\ defs'[d] # NoForm
                    /\ due = DueAt(defs'[d], DayOf(due, zone'[HouseOf[d]]),
                                   zone'[HouseOf[d]])
  BY DEF OnDue
<1> DEFINE z == zone[HouseOf[d]]
<1>1. d \in Settled /\ d \in Definitions /\ z \in Nat /\ zone'[HouseOf[d]] = z
  BY DefinitionsKept, SettledZone
<1>2. CASE inst[d][due] # NoInstance
  <2>1. defs[d] # NoForm /\ due = DueAt(defs[d], DayOf(due, z), z)
    BY <1>1, <1>2 DEF OnDue
  <2>2. defs'[d] = defs[d]
    BY <2>1, DefinitionsKept
  <2> QED  BY <1>1, <2>1, <2>2
<1>3. ASSUME NEW f \in Forms, NEW day \in Nat, due = DueAt(f, day, z), defs'[d] = f
      PROVE  defs'[d] # NoForm /\ due = DueAt(defs'[d], DayOf(due, z), z)
  BY <1>1, <1>3, DueInDay, Blanks
<1>4. ASSUME inst[d][due] = NoInstance
      PROVE  defs'[d] # NoForm /\ due = DueAt(defs'[d], DayOf(due, z), z)
  <2>1. Added(d, due)
    BY <1>1, <1>4, InstancesAdded
  <2>2. CASE CreateDefinition(d) /\ defs'[d] \in Forms
             /\ \E day \in Nat : due = DueAt(defs'[d], day, z)
    BY <1>3, <2>2
  <2>3. CASE JobWrite /\ jdefs[d] # NoForm
             /\ \E day \in Nat : due = DueAt(jdefs[d], day, jzone)
    <3>1. jdefs[d] \in Forms /\ defs[d] = jdefs[d] /\ defs' = defs /\ jzone = z
      BY <1>1, <2>3 DEF TypeOK, SeenCurrent, JobWrite, defVars
    <3> QED  BY <1>3, <2>3, <3>1
  <2> QED  BY <2>1, <2>2, <2>3 DEF Added
<1> QED  BY <1>1, <1>2, <1>4

(***************************************************************************)
(* Days that were planned keep their instances.                            *)
(***************************************************************************)
LEMMA FilledStep ==
    ASSUME TypeOK, ZoneKnown, SeenCurrent, Filled, [Next]_vars
    PROVE  Filled'
<1> SUFFICES ASSUME NEW d \in Settled', NEW day \in planned'[d]
             PROVE  /\ defs'[d] # NoForm
                    /\ ShouldGenerate(defs'[d], day) =>
                          inst'[d][DueAt(defs'[d], day, zone'[HouseOf[d]])] # NoInstance
  BY DEF Filled
<1> DEFINE z == zone[HouseOf[d]]
<1>1. d \in Settled /\ d \in Definitions /\ z \in Zone /\ zone'[HouseOf[d]] = z
  BY DefinitionsKept, SettledZone
<1>2. CASE day \in planned[d]
  <2>1. defs[d] # NoForm /\ defs[d] \in Forms /\ day \in Days
    BY <1>1, <1>2 DEF Filled, TypeOK
  <2>2. defs'[d] = defs[d]
    BY <2>1, DefinitionsKept
  <2>3. DueAt(defs[d], day, z) \in Dues
    BY <1>1, <2>1, DaysBounds
  <2>4. ShouldGenerate(defs[d], day) => inst[d][DueAt(defs[d], day, z)] # NoInstance
    BY <1>1, <1>2 DEF Filled
  <2> QED  BY <1>1, <2>1, <2>2, <2>3, <2>4, InstancesAdded
<1>3. CASE day \notin planned[d]
  <2>1. planned' = planned \/ JobWrite
    BY DEF Next, CreateDefinition, UpdateDefinition, ArchiveDefinition, UpdateHousehold,
           JobStart, JobRead, JobDone, JobFail, JobLost, JobStop, Finish, Tick, vars
  <2>2. JobWrite /\ jdefs[d] # NoForm /\ day \in TargetDays
    BY <1>1, <1>3, <2>1 DEF JobWrite, TargetDays, TypeOK
  <2>3. /\ jdefs[d] \in Forms /\ defs'[d] = jdefs[d] /\ jzone = z
        /\ inst'[d] = Generated(d)
    BY <1>1, <2>2 DEF TypeOK, SeenCurrent, JobWrite, defVars
  <2>4. DueAt(jdefs[d], day, z) \in Dues
    BY <1>1, <2>2, <2>3, DaysBounds
  <2> QED  BY <1>1, <2>2, <2>3, <2>4, GeneratedRows, Blanks
<1> QED  BY <1>2, <1>3

(***************************************************************************)
(* The invariant holds in every reachable state.                           *)
(***************************************************************************)
LEMMA CalendarInvAlways == Spec => []CalendarInv
<1>1. CalendarInv /\ [Next]_vars => CalendarInv'
  BY TypeStep, ZoneStep, SeenStep, OnDueStep, FilledStep DEF CalendarInv
<1> QED  BY <1>1, CalendarInit, PTL DEF Spec

(***************************************************************************)
(* A definition that is not edited, of a household that keeps its          *)
(* timezone, has one instance a day at most: a day has one due time.       *)
(***************************************************************************)
THEOREM AlwaysOneADay == Spec => []OneADay
<1>1. CalendarInv => OneADay
  BY DEF CalendarInv, OnDue, OneADay
<1> QED  BY <1>1, CalendarInvAlways, PTL

(***************************************************************************)
(* The horizon that a finished run has planned has its instances.          *)
(***************************************************************************)
THEOREM HorizonAlwaysFilled == Spec => []HorizonFilled
<1>1. CalendarInv => HorizonFilled
  <2> SUFFICES ASSUME CalendarInv, NEW d \in Settled, NEW day \in planned[d],
                      ShouldGenerate(defs[d], day)
               PROVE  \E due \in Dues : /\ DayOf(due, zone[HouseOf[d]]) = day
                                        /\ inst[d][due] # NoInstance
    BY DEF HorizonFilled
  <2> DEFINE z == zone[HouseOf[d]]
  <2>1. d \in Definitions /\ z \in Zone /\ z \in Nat
    BY SettledZone DEF CalendarInv
  <2>2. defs[d] \in Forms /\ inst[d][DueAt(defs[d], day, z)] # NoInstance /\ day \in Days
    BY <2>1 DEF CalendarInv, Filled, TypeOK
  <2>3. day \in Nat /\ DueAt(defs[d], day, z) \in Dues
    BY <2>1, <2>2, DaysBounds DEF CalendarInv
  <2>4. DayOf(DueAt(defs[d], day, z), z) = day
    BY <2>1, <2>2, <2>3, DueInDay
  <2> QED  BY <2>2, <2>3, <2>4
<1> QED  BY <1>1, CalendarInvAlways, PTL
=============================================================================
