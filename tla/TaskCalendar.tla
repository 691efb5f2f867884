---------------------------- MODULE TaskCalendar ----------------------------
(***************************************************************************)
(* Where task instances come from: definitions that parents create, edit   *)
(* and archive (definitions.py), and the nightly job that fills the days   *)
(* ahead, household by household (generate_instances.py).                  *)
(*                                                                         *)
(* A day has SlotsPerDay times of day; now and due_at count them from the  *)
(* first of day 0 in the easternmost timezone, and a household's timezone  *)
(* is how many of them it is behind (clocks do not change here).  The job  *)
(* runs at any time of a household's day, one run after the other: beat    *)
(* starts it daily.  An instance is identified by its definition and       *)
(* due_at, which is what uq_instance_def_due makes of it.                  *)
(* What happens to an open instance otherwise is TaskRequests' subject:    *)
(* here it may be done at any time, or expires without a pause.            *)
(***************************************************************************)
EXTENDS Naturals, FiniteSets

CONSTANTS
    Households, Definitions,
    HouseOf,        \* HouseOf[d]: the household of a definition
    Forms,          \* what a parent may fill in: see Form
    SlotsPerDay,
    West,           \* the westernmost timezone
    Horizon,        \* GENERATION_HORIZON_DAYS
    GracePeriod,    \* grace_period_hours
    MaxTime,        \* bound: the clock stops here
    MaxEdits,       \* bound: edits of definitions and of timezones
    MaxFailures     \* bound: runs of the job that are lost

Kind == {"one_time", "daily", "weekdays", "weekly"}

(***************************************************************************)
(* garbled says what of the form does not parse: neither end_date nor the  *)
(* hours of due_time are validated when they are stored.                   *)
(***************************************************************************)
Form == [kind : Kind, start : Nat, end : Nat, mask : SUBSET (0..6), slot : Nat,
         value : Nat, garbled : {"nothing", "end_date", "due_time"}]

(***************************************************************************)
(* A timezone, or a name that pytz does not know: it is not validated.     *)
(***************************************************************************)
Zone == 0..West
BadZone == West + 1

ASSUME CalendarAssumption ==
    /\ Households # {} /\ HouseOf \in [Definitions -> Households]
    /\ Forms \subseteq Form /\ \A f \in Forms : f.slot < SlotsPerDay
    /\ SlotsPerDay \in Nat \ {0} /\ Horizon \in Nat \ {0}
    /\ West \in Nat /\ West <= MaxTime
    /\ GracePeriod \in Nat /\ MaxTime \in Nat /\ MaxEdits \in Nat /\ MaxFailures \in Nat

VARIABLES
    defs,           \* defs[d]: the committed definition, or NoForm
    archived,       \* definitions with archived_at set
    zone,           \* zone[h]: Household.timezone
    inst,           \* inst[d][due]: the instance, or NoInstance
    now,
    jpc, jtodo,     \* the nightly job: its step, the households still to come
    jhouse, jzone,  \* the household it works on, its timezone
    jtoday, jdefs,  \* the local day it began on, the definitions it has read
    edited,         \* definitions edited since their creation
    moved,          \* households whose timezone has been edited
    planned,        \* planned[d]: days a finished run has looked at for d
    edits, failures

defVars == <<defs, archived, zone, edited, moved, edits>>
jobVars == <<jpc, jtodo, jhouse, jzone, jtoday, jdefs>>
vars == <<defVars, inst, now, jobVars, planned, failures>>

LastDay == MaxTime \div SlotsPerDay
Days == 0..(LastDay + Horizon)
Dues == 0..(SlotsPerDay * (LastDay + Horizon + 1) - 1 + West)

NoForm == [kind |-> "none"]
NoInstance == [status |-> "none"]

Instance == [status : {"pending", "overdue", "missed", "done"}, value : Nat]

TypeOK ==
    /\ defs \in [Definitions -> Forms \cup {NoForm}]
    /\ archived \in SUBSET Definitions
    /\ zone \in [Households -> Zone \cup {BadZone}]
    /\ inst \in [Definitions -> [Dues -> Instance \cup {NoInstance}]]
    /\ now \in West..MaxTime
    /\ jpc \in {"idle", "next", "read"}
    /\ jtodo \in SUBSET Households
    /\ jhouse \in Households
    /\ jzone \in Zone \cup {BadZone}
    /\ jtoday \in 0..LastDay
    /\ jdefs \in [Definitions -> Forms \cup {NoForm}]
    /\ edited \in SUBSET Definitions
    /\ moved \in SUBSET Households
    /\ planned \in [Definitions -> SUBSET Days]
    /\ edits \in 0..MaxEdits /\ failures \in 0..MaxFailures

NoForms == [d \in Definitions |-> NoForm]
AnyHouse == CHOOSE h \in Households : TRUE

Init ==
    /\ defs = NoForms
    /\ archived = {}
    /\ zone \in [Households -> Zone]
    /\ inst = [d \in Definitions |-> [due \in Dues |-> NoInstance]]
    /\ now = West
    /\ jpc = "idle" /\ jtodo = {}
    /\ jhouse = AnyHouse /\ jzone = 0 /\ jtoday = 0 /\ jdefs = NoForms
    /\ edited = {} /\ moved = {}
    /\ planned = [d \in Definitions |-> {}]
    /\ edits = 0 /\ failures = 0

-----------------------------------------------------------------------------
DayOf(t, z) == (t - z) \div SlotsPerDay
Today(z) == DayOf(now, z)

DueNow(f, day, z) == now        \* a defect: due when it is generated
DueAt(f, day, z) == day * SlotsPerDay + f.slot + z

(***************************************************************************)
(* Day 0 is a Monday.  A mask of no days stands for weekday_mask NULL too. *)
(***************************************************************************)
ShouldGenerate(f, day) ==
    /\ f.start <= day /\ day <= f.end
    /\ \/ f.kind = "one_time" /\ day = f.start
       \/ f.kind = "daily"
       \/ f.kind = "weekdays" /\ (day % 7) \in f.mask
       \/ f.kind = "weekly" /\ day % 7 = f.start % 7

NewInstance(f, due) ==
    [status |-> IF due <= now THEN "overdue" ELSE "pending", value |-> f.value]

(***************************************************************************)
(* What makes upsert_instance_for_date raise: end_date is parsed from the  *)
(* first day on, due_time on a scheduled day.                              *)
(***************************************************************************)
Raises(f, days) ==
    \E day \in days :
        \/ f.garbled = "end_date" /\ f.start <= day
        \/ f.garbled = "due_time" /\ ShouldGenerate(f, day)

(***************************************************************************)
(* INSERT ... ON CONFLICT DO NOTHING for each of some days.                *)
(***************************************************************************)
Upserted(rows, f, days, z) ==
    [due \in Dues |->
        IF /\ rows[due] = NoInstance
           /\ \E day \in days : ShouldGenerate(f, day) /\ due = DueAt(f, day, z)
        THEN NewInstance(f, due) ELSE rows[due]]

-----------------------------------------------------------------------------
(***************************************************************************)
(* A one-time task gets its instance at once, others the one of today.     *)
(* What raises there is rolled back; what does not is stored.              *)
(***************************************************************************)
FirstDay(f, z) == IF f.kind = "one_time" THEN f.start ELSE Today(z)

CreateDefinition(d) ==
    LET z == zone[HouseOf[d]] IN
    /\ defs[d] = NoForm
    /\ z # BadZone
    /\ \E f \in Forms :
          /\ ~ Raises(f, {FirstDay(f, z)})
          /\ defs' = [defs EXCEPT ![d] = f]
          /\ inst' = [inst EXCEPT ![d] = Upserted(@, f, {FirstDay(f, z)}, z)]
    /\ UNCHANGED <<archived, zone, edited, moved, edits, now, jobVars, planned,
                   failures>>

(***************************************************************************)
(* Everything but start_date may be edited.  Instances are left alone.     *)
(***************************************************************************)
UpdateDefinition(d) ==
    /\ edits < MaxEdits
    /\ defs[d] # NoForm
    /\ \E f \in Forms \ {defs[d]} :
          f.start = defs[d].start /\ defs' = [defs EXCEPT ![d] = f]
    /\ edited' = edited \cup {d}
    /\ edits' = edits + 1
    /\ UNCHANGED <<archived, zone, moved, inst, now, jobVars, planned, failures>>

ArchiveDefinition(d) ==
    /\ defs[d] # NoForm /\ d \notin archived
    /\ archived' = archived \cup {d}
    /\ UNCHANGED <<defs, zone, edited, moved, edits, inst, now, jobVars, planned,
                   failures>>

(***************************************************************************)
(* A parent edits the household's timezone.  Instances are left alone.     *)
(***************************************************************************)
UpdateHousehold(h) ==
    /\ edits < MaxEdits
    /\ \E z \in (Zone \cup {BadZone}) \ {zone[h]} : zone' = [zone EXCEPT ![h] = z]
    /\ moved' = moved \cup {h}
    /\ edits' = edits + 1
    /\ UNCHANGED <<defs, archived, edited, inst, now, jobVars, planned, failures>>

-----------------------------------------------------------------------------
JobStart ==
    /\ jpc = "idle"
    /\ jpc' = "next"
    /\ jtodo' = Households
    /\ UNCHANGED <<defVars, inst, now, jhouse, jzone, jtoday, jdefs, planned,
                   failures>>

(***************************************************************************)
(* A household's transaction reads the household, looks at the clock and   *)
(* reads the definitions; edits made after that are not seen.  Households  *)
(* come in no particular order.                                            *)
(***************************************************************************)
JobRead(h) ==
    /\ jpc = "next"
    /\ h \in jtodo
    /\ jpc' = "read"
    /\ jtodo' = jtodo \ {h}
    /\ jhouse' = h
    /\ jzone' = zone[h]
    /\ jtoday' = IF zone[h] = BadZone THEN 0 ELSE Today(zone[h])
    /\ jdefs' = [d \in Definitions |->
                    IF HouseOf[d] = h /\ d \notin archived THEN defs[d] ELSE NoForm]
    /\ UNCHANGED <<defVars, inst, now, planned, failures>>

ShortTargetDays == jtoday..(jtoday + Horizon - 2)   \* a defect
TargetDays == jtoday..(jtoday + Horizon - 1)

LateSwept(row, due) ==          \* a defect: < where the code has <=
    IF row.status = "pending" /\ due < now THEN [row EXCEPT !.status = "overdue"]
    ELSE row

Swept(row, due) ==
    IF row.status = "pending" /\ due <= now THEN [row EXCEPT !.status = "overdue"]
    ELSE row

ExpiredUnknown(row, due) ==     \* a defect: a status the schema does not have
    IF row.status = "overdue" /\ due + GracePeriod <= now
    THEN [row EXCEPT !.status = "expired"] ELSE row

Expired(row, due) ==
    IF row.status = "overdue" /\ due + GracePeriod <= now
    THEN [row EXCEPT !.status = "missed"] ELSE row

Generated(d) ==
    LET rows == Upserted(inst[d], jdefs[d], TargetDays, jzone)
    IN  [due \in Dues |-> Expired(Swept(rows[due], due), due)]

(***************************************************************************)
(* It generates, sweeps, expires and commits, and goes on; unless the      *)
(* timezone, an end_date or a due_time does not parse.                     *)
(***************************************************************************)
JobRaises ==
    \/ jzone = BadZone
    \/ \E d \in Definitions : jdefs[d] # NoForm /\ Raises(jdefs[d], TargetDays)

JobEnd == jhouse' = AnyHouse /\ jzone' = 0 /\ jtoday' = 0 /\ jdefs' = NoForms

JobWrite ==
    /\ jpc = "read"
    /\ ~ JobRaises
    /\ inst' = [d \in Definitions |-> IF jdefs[d] = NoForm THEN inst[d] ELSE Generated(d)]
    /\ planned' = [d \in Definitions |-> planned[d] \cup
                      IF jdefs[d] = NoForm THEN {} ELSE jtoday..(jtoday + Horizon - 1)]
    /\ jpc' = "next"
    /\ JobEnd
    /\ UNCHANGED <<defVars, now, jtodo, failures>>

JobDone ==
    /\ jpc = "next" /\ jtodo = {}
    /\ jpc' = "idle"
    /\ UNCHANGED <<defVars, inst, now, jtodo, jhouse, jzone, jtoday, jdefs, planned,
                   failures>>

(***************************************************************************)
(* An exception in one household's transaction ends the whole run, every   *)
(* night anew.  A run may also be lost.                                    *)
(***************************************************************************)
JobStop ==
    /\ jpc = "read"
    /\ jpc' = "idle" /\ jtodo' = {}
    /\ JobEnd
    /\ UNCHANGED <<defVars, inst, now, planned>>

JobFail == JobRaises /\ JobStop /\ UNCHANGED failures

JobLost == failures < MaxFailures /\ failures' = failures + 1 /\ JobStop

-----------------------------------------------------------------------------
(***************************************************************************)
(* The teen, at any time, finishes an open instance.                       *)
(***************************************************************************)
Finish ==
    /\ \E d \in Definitions, due \in Dues :
          /\ inst[d][due] # NoInstance
          /\ inst[d][due].status \in {"pending", "overdue"}
          /\ inst' = [inst EXCEPT ![d][due].status = "done"]
    /\ UNCHANGED <<defVars, now, jobVars, planned, failures>>

Tick ==
    /\ now < MaxTime
    /\ now' = now + 1
    /\ UNCHANGED <<defVars, inst, jobVars, planned, failures>>

Next ==
    \/ \E d \in Definitions :
          CreateDefinition(d) \/ UpdateDefinition(d) \/ ArchiveDefinition(d)
    \/ \E h \in Households : UpdateHousehold(h) \/ JobRead(h)
    \/ JobStart \/ JobWrite \/ JobDone \/ JobFail \/ JobLost
    \/ Finish \/ Tick

(***************************************************************************)
(* Celery beat starts the job again and again, and its steps end.          *)
(***************************************************************************)
Fairness ==
    /\ WF_vars(\/ JobStart \/ JobWrite \/ JobDone \/ JobFail
               \/ \E h \in Households : JobRead(h))
    /\ WF_vars(Tick)

Spec == Init /\ [][Next]_vars /\ Fairness

-----------------------------------------------------------------------------
(***************************************************************************)
(* Definitions that nobody has edited, in households that have kept their  *)
(* timezone.  (An edited due time, and an edited timezone, give a day a    *)
(* second due_at, and with it a second instance.)                          *)
(***************************************************************************)
Settled == {d \in Definitions \ edited : HouseOf[d] \notin moved}

(***************************************************************************)
(* A settled definition has one instance a day at most: what is created on *)
(* demand while the nightly job runs, and what runs that follow a lost one *)
(* generate again, meets the unique index.                                 *)
(***************************************************************************)
OneADay ==
    \A d \in Settled : \A a, b \in Dues :
        a # b /\ inst[d][a] # NoInstance /\ inst[d][b] # NoInstance
            => DayOf(a, zone[HouseOf[d]]) # DayOf(b, zone[HouseOf[d]])

(***************************************************************************)
(* A run that has seen a settled definition has provided for the whole     *)
(* horizon: as long as that reaches, nights that fail lose no scheduled    *)
(* day.                                                                    *)
(***************************************************************************)
HorizonFilled ==
    \A d \in Settled : \A day \in planned[d] :
        ShouldGenerate(defs[d], day) =>
            \E due \in Dues :
                DayOf(due, zone[HouseOf[d]]) = day /\ inst[d][due] # NoInstance

(***************************************************************************)
(* Stored data on which a run for the household raises, now or on a later  *)
(* day.                                                                    *)
(***************************************************************************)
Broken(h) ==
    \/ zone[h] = BadZone
    \/ \E d \in Definitions \ archived :
          HouseOf[d] = h /\ defs[d] # NoForm /\ defs[d].garbled # "nothing"

(***************************************************************************)
(* What is past due does not stay pending, though runs are lost and edits  *)
(* come between a run's SELECT and its UPDATE, unless its definition has   *)
(* been archived (the job then leaves it as it is), or the data of some    *)
(* household, its own or another, makes the run raise: that ends it for    *)
(* the households still to come, night after night.                        *)
(***************************************************************************)
PastDueIsSwept ==
    \A d \in Definitions, due \in Dues :
        (inst[d][due].status = "pending" /\ due <= now)
            ~> \/ inst[d][due].status # "pending" \/ d \in archived
               \/ \E h \in Households : Broken(h)

(***************************************************************************)
(* Claim of docs/prd.md:355-357: the job runs per household, and takes     *)
(* what is past due to overdue; the data of another household is no        *)
(* exception.                                                              *)
(***************************************************************************)
SweptPerHousehold ==
    \A d \in Definitions, due \in Dues :
        (inst[d][due].status = "pending" /\ due <= now)
            ~> \/ inst[d][due].status # "pending" \/ d \in archived
               \/ Broken(HouseOf[d])

(***************************************************************************)
(* Claim of generate_instances.py:115-118 (a date that already has an      *)
(* instance can safely be generated again) and of docs/prd.md:109 (an edit *)
(* applies to what is not yet generated): a definition has one instance a  *)
(* day, edited or not.                                                     *)
(***************************************************************************)
OneInstanceADate ==
    \A d \in Definitions : HouseOf[d] \notin moved =>
        \A a, b \in Dues :
            a # b /\ inst[d][a] # NoInstance /\ inst[d][b] # NoInstance
                => DayOf(a, zone[HouseOf[d]]) # DayOf(b, zone[HouseOf[d]])
=============================================================================
