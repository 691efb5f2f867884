---------------------------- MODULE NoticesProofs ---------------------------
(***************************************************************************)
(* Proofs about Notices for any instances, due times, sessions and runs of *)
(* the reminder job, and any bound on time and failures.                   *)
(***************************************************************************)
EXTENDS Notices, FiniteSetTheorems, TLAPS

-----------------------------------------------------------------------------
(***************************************************************************)
(* What a session has loaded, and the row it is about.                     *)
(***************************************************************************)
LEMMA ServedTypes ==
    ASSUME TypeOK, NEW s \in Sessions, serving[s].status \in Status
    PROVE  serving[s].inst \in Instances /\ Served(s) \in Row
<1>1. serving[s] \in [inst : Instances, status : Status]
  BY DEF TypeOK, Idle, Status
<1> QED  BY <1>1 DEF TypeOK, Served

(***************************************************************************)
(* Nothing has been sent, and every instance is pending, at first.         *)
(***************************************************************************)
LEMMA TypeInit == Init => TypeOK
<1> SUFFICES ASSUME Init  PROVE TypeOK
  OBVIOUS
<1>1. now \in Times /\ failures \in 0..MaxFailures
  BY NoticesAssumption DEF Init, Times
<1>2. rows \in [Instances -> Row]
  BY NoticesAssumption DEF Init, Row, Status
<1> QED  BY <1>1, <1>2 DEF Init, TypeOK

(***************************************************************************)
(* Writing a row: it stays counted only while it waits.                    *)
(***************************************************************************)
LEMMA WriteTypes ==
    ASSUME TypeOK, NEW i \in Instances, NEW row \in Row, WriteRow(i, row)
    PROVE  /\ rows' \in [Instances -> Row]
           /\ nudged' \in SUBSET {j \in Instances : rows'[j].status \in Waiting}
BY DEF TypeOK, WriteRow

(***************************************************************************)
(* The rows the handlers and the sweep write are rows.                     *)
(***************************************************************************)
Writes(s) == Complete(s) \/ SubmitExcuse(s) \/ Review(s) \/ ResolveExcuse(s)
                \/ Cancel(s) \/ ReverseCompletion(s)

(***************************************************************************)
(* A handler's answer writes one row and frees its session.                *)
(***************************************************************************)
LEMMA AnswerTypes ==
    ASSUME TypeOK, NEW s \in Sessions, NEW row \in Row, serving[s].status \in Status,
           Answer(s, row)
    PROVE  TypeOK'
<1>1. serving[s].inst \in Instances
  BY ServedTypes
<1>2. PICK i \in Instances : i = serving[s].inst
  BY <1>1
<1>3. /\ rows' \in [Instances -> Row]
      /\ nudged' \in SUBSET {j \in Instances : rows'[j].status \in Waiting}
  BY <1>2, WriteTypes DEF Answer
<1>4. serving' \in [Sessions -> [inst : Instances, status : Status] \cup {Idle}]
  BY DEF TypeOK, Answer
<1> QED  BY <1>3, <1>4 DEF TypeOK, Answer, jobVars

(***************************************************************************)
(* Each of the handlers that write keeps the types.                        *)
(***************************************************************************)
LEMMA WritesTypes ==
    ASSUME TypeOK, NEW s \in Sessions, Writes(s)
    PROVE  TypeOK'
<1>1. serving[s].status \in Status
  BY DEF Writes, Complete, SubmitExcuse, Review, ResolveExcuse, Cancel, ReverseCompletion,
         Open, Status
<1>2. PICK old \in Row : old = Served(s)
  BY <1>1, ServedTypes
<1>3. now \in Times /\ old.due \in Times
  BY DEF TypeOK, Row
<1>4. \E row \in Row : Answer(s, row)
  <2>1. ASSUME NEW to \in Status  PROVE [old EXCEPT !.status = to] \in Row
    BY <2>1 DEF Row
  <2>2. ASSUME NEW to \in Status
        PROVE  /\ [old EXCEPT !.status = to, !.completedAt = now] \in Row
               /\ [old EXCEPT !.status = to, !.excusedAt = now] \in Row
    BY <1>3, <2>2 DEF Row
  <2>3. CASE Complete(s)
    <3>1. PICK to \in Status :
              Answer(s, [old EXCEPT !.status = to, !.completedAt = now])
      BY <1>2, <2>3 DEF Complete, Status
    <3> QED  BY <2>2, <3>1
  <2>4. CASE SubmitExcuse(s)
    <3>1. Answer(s, [old EXCEPT !.status = "excuse_pending", !.excusedAt = now])
      BY <1>2, <2>4 DEF SubmitExcuse
    <3>2. "excuse_pending" \in Status
      BY DEF Status
    <3> QED  BY <2>2, <3>1, <3>2
  <2>5. CASE Review(s) \/ ResolveExcuse(s) \/ Cancel(s) \/ ReverseCompletion(s)
    <3>1. PICK to \in Status : Answer(s, [old EXCEPT !.status = to])
      <4>1. CASE Review(s)
        BY <1>2, <4>1 DEF Review, Status
      <4>2. CASE ResolveExcuse(s)
        BY <1>2, <4>2 DEF ResolveExcuse, Status
      <4>3. CASE Cancel(s)
        BY <1>2, <4>3 DEF Cancel, Status
      <4>4. CASE ReverseCompletion(s)
        <5>1. (IF now < old.due THEN "overdue" ELSE "missed") \in Status
          BY DEF Status
        <5> QED  BY <1>2, <4>4, <5>1 DEF ReverseCompletion
      <4> QED  BY <2>5, <4>1, <4>2, <4>3, <4>4
    <3> QED  BY <2>1, <3>1
  <2> QED  BY <2>3, <2>4, <2>5 DEF Writes
<1> QED  BY <1>1, <1>4, AnswerTypes

(***************************************************************************)
(* Every step preserves the types.                                         *)
(***************************************************************************)
LEMMA TypeStep ==
    ASSUME TypeOK, [Next]_vars
    PROVE  TypeOK'
<1>1. ASSUME NEW s \in Sessions, Writes(s)  PROVE TypeOK'
  BY <1>1, WritesTypes
<1>2. ASSUME NEW s \in Sessions, NEW i \in Instances, Load(s, i)  PROVE TypeOK'
  <2>1. rows[i].status \in Status
    BY DEF TypeOK, Row
  <2>2. serving' \in [Sessions -> [inst : Instances, status : Status] \cup {Idle}]
    BY <1>2, <2>1 DEF TypeOK, Load
  <2> QED  BY <1>2, <2>2 DEF TypeOK, Load, jobVars
<1>3. ASSUME NEW s \in Sessions, Refuse(s)  PROVE TypeOK'
  BY <1>3 DEF TypeOK, Refuse, jobVars
<1>4. ASSUME NEW i \in Instances, Sweep(i)  PROVE TypeOK'
  <2>1. \E row \in Row : WriteRow(i, row)
    BY <1>4 DEF TypeOK, Sweep, Row, Status
  <2>2. /\ rows' \in [Instances -> Row]
        /\ nudged' \in SUBSET {j \in Instances : rows'[j].status \in Waiting}
    BY <2>1, WriteTypes
  <2> QED  BY <1>4, <2>2 DEF TypeOK, Sweep, jobVars
<1>5. ASSUME NEW r \in Runs, RemindStart(r) \/ RemindSend(r) \/ RemindCommit(r)
      PROVE  TypeOK'
  <2>1. todo' \in [Runs -> SUBSET Instances] /\ marks' \in [Runs -> SUBSET Instances]
    BY <1>5 DEF TypeOK, RemindStart, RemindSend, RemindCommit, DueSoon
  <2>2. pushes' \in [Instances -> Nat] /\ reminded' \in SUBSET Instances
    BY <1>5 DEF TypeOK, RemindStart, RemindSend, RemindCommit
  <2> QED  BY <1>5, <2>1, <2>2 DEF TypeOK, RemindStart, RemindSend, RemindCommit
<1>6. ASSUME NEW r \in Runs, RemindFail(r)  PROVE TypeOK'
  <2>1. todo' \in [Runs -> SUBSET Instances] /\ marks' \in [Runs -> SUBSET Instances]
    BY <1>6 DEF TypeOK, RemindFail
  <2>2. failures' \in 0..MaxFailures
    BY <1>6, NoticesAssumption DEF TypeOK, RemindFail
  <2> QED  BY <1>6, <2>1, <2>2 DEF TypeOK, RemindFail
<1>7. CASE SendDigests
  BY <1>7 DEF TypeOK, SendDigests, LongWaiting, jobVars
<1>8. CASE Tick
  <2>1. now' \in Times
    BY <1>8, NoticesAssumption DEF TypeOK, Tick, Times
  <2> QED  BY <1>8, <2>1 DEF TypeOK, Tick, jobVars
<1>9. CASE UNCHANGED vars
  BY <1>9 DEF TypeOK, vars, jobVars
<1> QED
  BY <1>1, <1>2, <1>3, <1>4, <1>5, <1>6, <1>7, <1>8, <1>9 DEF Next, Writes

(***************************************************************************)
(* Type correctness of every state that can be reached.                    *)
(***************************************************************************)
THEOREM TypesAlways == Spec => []TypeOK
BY TypeInit, TypeStep, PTL DEF Spec

-----------------------------------------------------------------------------
(***************************************************************************)
(* The inbox.  It is inductive as it stands: a handler that makes an       *)
(* instance wait writes, in the same UPDATE, the time it does so.          *)
(***************************************************************************)
Timed(row) ==
    /\ row.status = "review_pending" => row.completedAt # 0
    /\ row.status = "excuse_pending" => row.excusedAt # 0

TimesInv == \A i \in Instances : Timed(rows[i])

(***************************************************************************)
(* No step leaves an instance waiting since no time.                       *)
(***************************************************************************)
LEMMA TimesStep ==
    ASSUME TypeOK, TimesInv, [Next]_vars
    PROVE  TimesInv'
<1>1. ASSUME NEW i \in Instances, NEW row \in Row, Timed(row), WriteRow(i, row)
      PROVE  TimesInv'
  BY <1>1 DEF TypeOK, TimesInv, WriteRow
<1>2. ASSUME NEW s \in Sessions, Writes(s)  PROVE TimesInv'
  <2>1. serving[s].status \in Status
    BY <1>2 DEF Writes, Complete, SubmitExcuse, Review, ResolveExcuse, Cancel,
                ReverseCompletion, Open, Status
  <2>2. PICK i \in Instances : i = serving[s].inst
    BY <2>1, ServedTypes
  <2>3. PICK old \in Row : old = rows[i]
    BY DEF TypeOK
  <2>4. now \in Times /\ now # 0
    BY DEF TypeOK, Times
  <2>5. CASE Complete(s)
    <3>1. PICK to \in {"complete", "review_pending"} :
              WriteRow(i, [old EXCEPT !.status = to, !.completedAt = now])
      BY <2>2, <2>3, <2>5 DEF Complete, Answer, Served
    <3>2. [old EXCEPT !.status = to, !.completedAt = now] \in Row
      BY <2>4 DEF Row, Status
    <3>3. Timed([old EXCEPT !.status = to, !.completedAt = now])
      BY <2>4 DEF Timed, Row
    <3> QED  BY <1>1, <3>1, <3>2, <3>3
  <2>6. CASE SubmitExcuse(s)
    <3> DEFINE new == [old EXCEPT !.status = "excuse_pending", !.excusedAt = now]
    <3>1. WriteRow(i, new)
      BY <2>2, <2>3, <2>6 DEF SubmitExcuse, Answer, Served
    <3>2. new \in Row
      BY <2>4 DEF Row, Status
    <3>3. Timed(new)
      BY <2>4 DEF Timed, Row
    <3> QED  BY <1>1, <3>1, <3>2, <3>3
  <2>7. CASE Review(s) \/ ResolveExcuse(s) \/ Cancel(s) \/ ReverseCompletion(s)
    <3>1. \E to \in Status \ Waiting : WriteRow(i, [old EXCEPT !.status = to])
      <4>1. CASE Review(s)
        BY <2>2, <2>3, <4>1 DEF Review, Answer, Served, Status, Waiting
      <4>2. CASE ResolveExcuse(s)
        BY <2>2, <2>3, <4>2 DEF ResolveExcuse, Answer, Served, Status, Waiting
      <4>3. CASE Cancel(s)
        BY <2>2, <2>3, <4>3 DEF Cancel, Answer, Served, Status, Waiting
      <4>4. CASE ReverseCompletion(s)
        <5>1. (IF now < old.due THEN "overdue" ELSE "missed") \in Status \ Waiting
          BY DEF Status, Waiting
        <5> QED
          BY <2>2, <2>3, <4>4, <5>1 DEF ReverseCompletion, Answer, Served
      <4> QED  BY <2>7, <4>1, <4>2, <4>3, <4>4
    <3>2. PICK to \in Status \ Waiting : WriteRow(i, [old EXCEPT !.status = to])
      BY <3>1
    <3>3. [old EXCEPT !.status = to] \in Row /\ Timed([old EXCEPT !.status = to])
      BY DEF Row, Timed, Waiting
    <3> QED  BY <1>1, <3>2, <3>3
  <2> QED  BY <1>2, <2>5, <2>6, <2>7 DEF Writes
<1>3. ASSUME NEW i \in Instances, Sweep(i)  PROVE TimesInv'
  <2>1. PICK to \in {"overdue", "missed"} : WriteRow(i, [rows[i] EXCEPT !.status = to])
    BY <1>3 DEF Sweep
  <2>2. PICK old \in Row : old = rows[i]
    BY DEF TypeOK
  <2>3. [old EXCEPT !.status = to] \in Row /\ Timed([old EXCEPT !.status = to])
    BY DEF Row, Timed, Status
  <2> QED  BY <1>1, <2>1, <2>2, <2>3
<1>4. CASE rows' = rows
  BY <1>4 DEF TimesInv
<1> QED
  BY <1>2, <1>3, <1>4
  DEF Next, Writes, Load, Refuse, RemindStart, RemindSend, RemindCommit, RemindFail,
      SendDigests, Tick, vars

(***************************************************************************)
(* Every item of the inbox has the time it was submitted, whatever         *)
(* requests raced: the assertion of get_approval_inbox does not fail.      *)
(***************************************************************************)
THEOREM InboxAlwaysHasTimes == Spec => []InboxHasTimes
<1>1. Init => TimesInv
  BY DEF Init, TimesInv, Timed
<1>2. Spec => [](TypeOK /\ TimesInv)
  BY <1>1, TypeInit, TypeStep, TimesStep, PTL DEF Spec
<1>3. TypeOK /\ TimesInv => InboxHasTimes
  BY DEF TimesInv, Timed, InboxHasTimes, Inbox, SubmittedAt, Waiting
<1> QED  BY <1>2, <1>3, PTL

-----------------------------------------------------------------------------
(***************************************************************************)
(* Reminders.  Before an instance is marked, each push about it is one of  *)
(* a run that has yet to commit or of one that was lost; once it is        *)
(* marked, only runs that had selected it can add to its pushes.           *)
(***************************************************************************)
Marking(i) == {r \in Runs : i \in marks[r]}
Sending(i) == {r \in Runs : i \in todo[r]}

Pushed(i) ==
    /\ i \notin reminded => pushes[i] <= Cardinality(Marking(i)) + failures
    /\ i \in reminded => pushes[i] + Cardinality(Sending(i)) <= Cardinality(Runs) + failures
    /\ (i \in reminded \/ Marking(i) # {}) => pushes[i] > 0

Apart == \A r \in Runs : todo[r] \cap marks[r] = {}

RemindInv == Apart /\ \A i \in Instances : Pushed(i)

(***************************************************************************)
(* Sets of runs, and what a run more or less makes of their size.          *)
(***************************************************************************)
LEMMA RunSets ==
    ASSUME NEW S \in SUBSET Runs
    PROVE  /\ IsFiniteSet(S) /\ Cardinality(S) \in Nat /\ Cardinality(Runs) \in Nat
           /\ Cardinality(S) <= Cardinality(Runs)
           /\ \A r \in S : Cardinality(S \ {r}) = Cardinality(S) - 1
           /\ \A r \in Runs \ S : Cardinality(S \cup {r}) = Cardinality(S) + 1
<1>1. IsFiniteSet(Runs) /\ Cardinality(Runs) \in Nat
  BY NoticesAssumption, FS_CardinalityType
<1>2. IsFiniteSet(S) /\ Cardinality(S) <= Cardinality(Runs)
  BY <1>1, FS_Subset
<1>3. Cardinality(S) \in Nat
  BY <1>2, FS_CardinalityType
<1>4. ASSUME NEW r \in S  PROVE Cardinality(S \ {r}) = Cardinality(S) - 1
  BY <1>2, FS_RemoveElement
<1>5. ASSUME NEW r \in Runs \ S  PROVE Cardinality(S \cup {r}) = Cardinality(S) + 1
  BY <1>2, FS_AddElement
<1> QED  BY <1>1, <1>2, <1>3, <1>4, <1>5

(***************************************************************************)
(* Disjoint sets of runs are together no more than the runs.               *)
(***************************************************************************)
LEMMA RunsShared ==
    ASSUME NEW S \in SUBSET Runs, NEW T \in SUBSET Runs, S \cap T = {}
    PROVE  Cardinality(S) + Cardinality(T) <= Cardinality(Runs)
<1>1. IsFiniteSet(S) /\ IsFiniteSet(T)
  BY RunSets
<1>2. Cardinality(S \cup T) = Cardinality(S) + Cardinality(T) - Cardinality({})
  BY <1>1, FS_Union
<1>3. Cardinality({}) = 0
  BY FS_EmptySet
<1>4. S \cup T \in SUBSET Runs
  OBVIOUS
<1>5. Cardinality(S \cup T) <= Cardinality(Runs)
  BY <1>4, RunSets
<1> QED  BY <1>2, <1>3, <1>5, RunSets

(***************************************************************************)
(* No run, and no two that overlap, push more than that.                   *)
(***************************************************************************)
LEMMA RemindStep ==
    ASSUME TypeOK, RemindInv, [Next]_vars
    PROVE  RemindInv'
<1>0. /\ todo \in [Runs -> SUBSET Instances] /\ marks \in [Runs -> SUBSET Instances]
      /\ pushes \in [Instances -> Nat] /\ failures \in Nat
  BY NoticesAssumption DEF TypeOK
<1>1. ASSUME NEW r \in Runs, RemindStart(r)  PROVE RemindInv'
  <2>1. /\ todo' = [todo EXCEPT ![r] = DueSoon] /\ marks[r] = {} /\ marks' = marks
        /\ reminded' = reminded /\ pushes' = pushes /\ failures' = failures
    BY <1>1 DEF RemindStart
  <2>2. Apart'
    BY <1>0, <2>1 DEF RemindInv, Apart
  <2>3. ASSUME NEW i \in Instances  PROVE Pushed(i)'
    <3>1. Pushed(i) /\ Marking(i)' = Marking(i)
      BY <2>1 DEF RemindInv, Marking
    <3>2. i \in reminded => Sending(i)' = Sending(i)
      <4>1. SUFFICES ASSUME i \in reminded  PROVE Sending(i)' = Sending(i)
        OBVIOUS
      <4>2. todo[r] = {} /\ i \notin DueSoon
        BY <1>1, <4>1 DEF RemindStart, DueSoon
      <4> QED  BY <1>0, <2>1, <4>2 DEF Sending
    <3> QED  BY <2>1, <3>1, <3>2 DEF Pushed
  <2> QED  BY <2>2, <2>3 DEF RemindInv
<1>2. ASSUME NEW r \in Runs, RemindSend(r)  PROVE RemindInv'
  <2>1. PICK j \in todo[r] :
            /\ todo' = [todo EXCEPT ![r] = @ \ {j}]
            /\ pushes' = [pushes EXCEPT ![j] = @ + 1]
            /\ marks' = [marks EXCEPT ![r] = @ \cup {j}]
    BY <1>2 DEF RemindSend
  <2>2. reminded' = reminded /\ failures' = failures
    BY <1>2 DEF RemindSend
  <2>3. Apart'
    BY <1>0, <2>1 DEF RemindInv, Apart
  <2>4. ASSUME NEW i \in Instances, i # j  PROVE Pushed(i)'
    <3>1. Marking(i)' = Marking(i) /\ Sending(i)' = Sending(i) /\ pushes'[i] = pushes[i]
      BY <1>0, <2>1, <2>4 DEF Marking, Sending
    <3> QED  BY <2>2, <3>1 DEF RemindInv, Pushed
  <2>5. Pushed(j)'
    <3>1. j \in Instances /\ j \notin marks[r] /\ Pushed(j) /\ pushes'[j] = pushes[j] + 1
      BY <1>0, <2>1 DEF RemindInv, Apart
    <3>2. Marking(j)' = Marking(j) \cup {r} /\ r \in Runs \ Marking(j)
      BY <1>0, <2>1, <3>1 DEF Marking
    <3>3. Sending(j)' = Sending(j) \ {r} /\ r \in Sending(j)
      BY <1>0, <2>1 DEF Sending
    <3>4. Cardinality(Marking(j)') = Cardinality(Marking(j)) + 1
          /\ Cardinality(Marking(j)) \in Nat
      <4>1. Marking(j) \in SUBSET Runs
        BY DEF Marking
      <4> QED  BY <3>2, <4>1, RunSets
    <3>5. Cardinality(Sending(j)') = Cardinality(Sending(j)) - 1
          /\ Cardinality(Sending(j)) \in Nat
      <4>1. Sending(j) \in SUBSET Runs
        BY DEF Sending
      <4> QED  BY <3>3, <4>1, RunSets
    <3>6. Cardinality(Runs) \in Nat /\ pushes[j] \in Nat
      BY <1>0, <3>1, RunSets
    <3> QED  BY <1>0, <2>2, <3>1, <3>4, <3>5, <3>6 DEF Pushed
  <2> QED  BY <2>3, <2>4, <2>5 DEF RemindInv
<1>3. ASSUME NEW r \in Runs, RemindCommit(r)  PROVE RemindInv'
  <2>1. /\ todo[r] = {} /\ todo' = todo /\ pushes' = pushes /\ failures' = failures
        /\ reminded' = reminded \cup marks[r] /\ marks' = [marks EXCEPT ![r] = {}]
    BY <1>3 DEF RemindCommit
  <2>2. Apart'
    BY <1>0, <2>1 DEF RemindInv, Apart
  <2>3. ASSUME NEW i \in Instances  PROVE Pushed(i)'
    <3>1. Pushed(i) /\ Sending(i)' = Sending(i)
      BY <2>1 DEF RemindInv, Sending
    <3>2. CASE i \in reminded
      BY <2>1, <3>1, <3>2 DEF Pushed
    <3>3. CASE i \notin reminded /\ i \notin marks[r]
      <4>1. Marking(i)' = Marking(i) /\ i \notin reminded'
        BY <1>0, <2>1, <3>3 DEF Marking
      <4> QED  BY <2>1, <3>1, <4>1 DEF Pushed
    <3>4. CASE i \notin reminded /\ i \in marks[r]
      <4>1. i \in reminded' /\ Marking(i) # {} /\ pushes[i] > 0
        BY <2>1, <3>1, <3>4 DEF Marking, Pushed
      <4>2. Marking(i) \cap Sending(i) = {}
        BY DEF RemindInv, Apart, Marking, Sending
      <4>3. /\ Cardinality(Marking(i)) + Cardinality(Sending(i)) <= Cardinality(Runs)
            /\ Cardinality(Marking(i)) \in Nat /\ Cardinality(Sending(i)) \in Nat
            /\ Cardinality(Runs) \in Nat
        <5>1. Marking(i) \in SUBSET Runs /\ Sending(i) \in SUBSET Runs
          BY DEF Marking, Sending
        <5> QED  BY <4>2, <5>1, RunSets, RunsShared
      <4>4. pushes[i] <= Cardinality(Marking(i)) + failures /\ pushes[i] \in Nat
        BY <1>0, <3>1, <3>4 DEF Pushed
      <4>5. pushes[i] + Cardinality(Sending(i)) <= Cardinality(Runs) + failures
        BY <1>0, <4>3, <4>4
      <4> QED  BY <2>1, <3>1, <4>1, <4>5 DEF Pushed
    <3> QED  BY <3>2, <3>3, <3>4
  <2> QED  BY <2>2, <2>3 DEF RemindInv
<1>4. ASSUME NEW r \in Runs, RemindFail(r)  PROVE RemindInv'
  <2>1. /\ todo' = [todo EXCEPT ![r] = {}] /\ marks' = [marks EXCEPT ![r] = {}]
        /\ pushes' = pushes /\ reminded' = reminded /\ failures' = failures + 1
    BY <1>4 DEF RemindFail
  <2>2. Apart'
    BY <1>0, <2>1 DEF RemindInv, Apart
  <2>3. ASSUME NEW i \in Instances  PROVE Pushed(i)'
    <3>1. Marking(i)' = Marking(i) \ {r} /\ Sending(i)' = Sending(i) \ {r}
      BY <1>0, <2>1 DEF Marking, Sending
    <3>2. \A S \in SUBSET Runs :
              /\ Cardinality(S) \in Nat /\ Cardinality(S \ {r}) \in Nat
              /\ Cardinality(S \ {r}) \in {Cardinality(S), Cardinality(S) - 1}
      <4>1. SUFFICES ASSUME NEW S \in SUBSET Runs
                     PROVE  /\ Cardinality(S) \in Nat /\ Cardinality(S \ {r}) \in Nat
                            /\ Cardinality(S \ {r}) \in {Cardinality(S), Cardinality(S) - 1}
        OBVIOUS
      <4>2. r \notin S => S \ {r} = S
        OBVIOUS
      <4>3. S \ {r} \in SUBSET Runs
        OBVIOUS
      <4> QED  BY <4>2, <4>3, RunSets
    <3>3. Marking(i) \in SUBSET Runs /\ Sending(i) \in SUBSET Runs
      BY DEF Marking, Sending
    <3>4. /\ Cardinality(Marking(i)) \in Nat /\ Cardinality(Marking(i)') \in Nat
          /\ Cardinality(Marking(i)') >= Cardinality(Marking(i)) - 1
          /\ Cardinality(Sending(i)) \in Nat /\ Cardinality(Sending(i)') \in Nat
          /\ Cardinality(Sending(i)') <= Cardinality(Sending(i))
          /\ Cardinality(Runs) \in Nat
      <4>1. Cardinality(Runs) \in Nat
        BY <3>3, RunSets
      <4>2. /\ Cardinality(Marking(i)) \in Nat /\ Cardinality(Marking(i) \ {r}) \in Nat
            /\ Cardinality(Marking(i) \ {r}) >= Cardinality(Marking(i)) - 1
        BY <3>2, <3>3
      <4>3. /\ Cardinality(Sending(i)) \in Nat /\ Cardinality(Sending(i) \ {r}) \in Nat
            /\ Cardinality(Sending(i) \ {r}) <= Cardinality(Sending(i))
        BY <3>2, <3>3
      <4> QED  BY <3>1, <4>1, <4>2, <4>3
    <3>5. Pushed(i) /\ pushes[i] \in Nat /\ (Marking(i)' # {} => Marking(i) # {})
      BY <1>0, <3>1 DEF RemindInv
    <3> QED  BY <1>0, <2>1, <3>4, <3>5 DEF Pushed
  <2> QED  BY <2>2, <2>3 DEF RemindInv
<1>5. CASE UNCHANGED <<jobVars, failures>>
  BY <1>5 DEF jobVars, RemindInv, Apart, Pushed, Marking, Sending
<1>6. ASSUME NEW s \in Sessions, Writes(s)  PROVE RemindInv'
  <2>1. UNCHANGED <<jobVars, failures>>
    BY <1>6 DEF Writes, Complete, SubmitExcuse, Review, ResolveExcuse, Cancel,
                ReverseCompletion, Answer
  <2> QED  BY <1>5, <2>1
<1> QED
  BY <1>1, <1>2, <1>3, <1>4, <1>5, <1>6
  DEF Next, Writes, Load, Refuse, Sweep, SendDigests, Tick, vars

(***************************************************************************)
(* However many runs of the reminder job overlap, an instance is pushed no *)
(* more often than that and once for each run that was lost, and at least  *)
(* once when it is marked as reminded.                                     *)
(***************************************************************************)
THEOREM AlwaysRemindedOnce == Spec => []RemindedOnce
<1>1. Init => RemindInv
  <2> SUFFICES ASSUME Init  PROVE RemindInv
    OBVIOUS
  <2>1. ASSUME NEW i \in Instances  PROVE Pushed(i)
    <3>1. Marking(i) = {} /\ i \notin reminded /\ pushes[i] = 0 /\ failures = 0
      BY DEF Init, Marking
    <3>2. Cardinality(Marking(i)) = 0
      BY <3>1, FS_EmptySet
    <3> QED  BY <3>1, <3>2 DEF Pushed
  <2> QED  BY <2>1 DEF Init, RemindInv, Apart
<1>2. Spec => [](TypeOK /\ RemindInv)
  BY <1>1, TypeInit, TypeStep, RemindStep, PTL DEF Spec
<1>3. TypeOK /\ RemindInv => RemindedOnce
  <2> SUFFICES ASSUME TypeOK, RemindInv, NEW i \in Instances
               PROVE  (i \in reminded => pushes[i] > 0)
                      /\ pushes[i] <= Cardinality(Runs) + failures
    BY DEF RemindedOnce
  <2>1. Pushed(i) /\ pushes[i] \in Nat /\ failures \in Nat
    BY NoticesAssumption DEF RemindInv, TypeOK
  <2>2. Marking(i) \in SUBSET Runs /\ Sending(i) \in SUBSET Runs
    BY DEF Marking, Sending
  <2>3. /\ Cardinality(Marking(i)) \in Nat /\ Cardinality(Sending(i)) \in Nat
        /\ Cardinality(Marking(i)) <= Cardinality(Runs) /\ Cardinality(Runs) \in Nat
    BY <2>2, RunSets
  <2> QED  BY <2>1, <2>3 DEF Pushed
<1> QED  BY <1>2, <1>3, PTL
-----------------------------------------------------------------------------
(***************************************************************************)
(* The report.  Its range is made of instants and its weeks of what the    *)
(* clocks show.  The two agree unless the clocks repeat an hour at either  *)
(* end, and a due time never changes, so that nothing is lost between.     *)
(***************************************************************************)
DueKept == \A i \in Instances : rows[i].due = Due[i]

(***************************************************************************)
(* A handler or the sweep assigns other columns than due_at.               *)
(***************************************************************************)
LEMMA DueStep ==
    ASSUME TypeOK, DueKept, [Next]_vars
    PROVE  DueKept'
<1>1. ASSUME NEW i \in Instances, NEW row \in Row, row.due = rows[i].due, WriteRow(i, row)
      PROVE  DueKept'
  BY <1>1 DEF TypeOK, DueKept, WriteRow
<1>2. ASSUME NEW s \in Sessions, Writes(s)  PROVE DueKept'
  <2>1. serving[s].status \in Status
    BY <1>2 DEF Writes, Complete, SubmitExcuse, Review, ResolveExcuse, Cancel,
                ReverseCompletion, Open, Status
  <2>2. PICK i \in Instances : i = serving[s].inst
    BY <2>1, ServedTypes
  <2>3. PICK old \in Row : old = rows[i]
    BY DEF TypeOK
  <2>4. now \in Times
    BY DEF TypeOK
  <2>5. \E row \in Row : row.due = old.due /\ WriteRow(i, row)
    <3>1. CASE Complete(s)
      <4>1. PICK to \in Status :
                WriteRow(i, [old EXCEPT !.status = to, !.completedAt = now])
        BY <2>2, <2>3, <3>1 DEF Complete, Answer, Served, Status
      <4> QED  BY <2>4, <4>1 DEF Row
    <3>2. CASE SubmitExcuse(s)
      <4>1. WriteRow(i, [old EXCEPT !.status = "excuse_pending", !.excusedAt = now])
        BY <2>2, <2>3, <3>2 DEF SubmitExcuse, Answer, Served
      <4> QED  BY <2>4, <4>1 DEF Row, Status
    <3>3. CASE \E to \in Status : WriteRow(i, [old EXCEPT !.status = to])
      BY <3>3 DEF Row
    <3>4. CASE Review(s)
      <4>1. PICK to \in Status : WriteRow(i, [old EXCEPT !.status = to])
        BY <2>2, <2>3, <3>4 DEF Review, Answer, Served, Status
      <4> QED  BY <3>3, <4>1
    <3>5. CASE ResolveExcuse(s)
      <4>1. PICK to \in Status : WriteRow(i, [old EXCEPT !.status = to])
        BY <2>2, <2>3, <3>5 DEF ResolveExcuse, Answer, Served, Status
      <4> QED  BY <3>3, <4>1
    <3>6. CASE Cancel(s)
      <4>1. PICK to \in Status : WriteRow(i, [old EXCEPT !.status = to])
        BY <2>2, <2>3, <3>6 DEF Cancel, Answer, Served, Status
      <4> QED  BY <3>3, <4>1
    <3>7. CASE ReverseCompletion(s)
      <4>1. (IF now < old.due THEN "overdue" ELSE "missed") \in Status
        BY DEF Status
      <4>2. WriteRow(i, [old EXCEPT !.status = IF now < old.due THEN "overdue" ELSE "missed"])
        BY <2>2, <2>3, <3>7 DEF ReverseCompletion, Answer, Served
      <4> QED  BY <3>3, <4>1, <4>2
    <3> QED  BY <1>2, <3>1, <3>2, <3>4, <3>5, <3>6, <3>7 DEF Writes
  <2> QED  BY <1>1, <2>3, <2>5
<1>3. ASSUME NEW i \in Instances, Sweep(i)  PROVE DueKept'
  <2>1. PICK to \in Status : WriteRow(i, [rows[i] EXCEPT !.status = to])
    BY <1>3 DEF Sweep, Status
  <2>2. PICK old \in Row : old = rows[i]
    BY DEF TypeOK
  <2>3. [old EXCEPT !.status = to] \in Row /\ [old EXCEPT !.status = to].due = old.due
    BY DEF Row
  <2> QED  BY <1>1, <2>1, <2>2, <2>3
<1>4. CASE rows' = rows
  BY <1>4 DEF DueKept
<1> QED
  BY <1>2, <1>3, <1>4
  DEF Next, Writes, Load, Refuse, RemindStart, RemindSend, RemindCommit, RemindFail,
      SendDigests, Tick, vars

(***************************************************************************)
(* What a week is to an instant that the clocks show in it.                *)
(***************************************************************************)
LEMMA WeekBounds ==
    ASSUME NEW t \in Int
    PROVE  /\ t \div WeekLength \in Int
           /\ Midnight(t \div WeekLength) <= t
           /\ t < Midnight(t \div WeekLength + 1)
<1>1. ASSUME NEW b \in Nat \ {0}
      PROVE  t \div b \in Int /\ (t \div b) * b <= t /\ t < (t \div b + 1) * b
  OBVIOUS
<1> QED  BY <1>1, ReportsAssumption DEF Midnight

(***************************************************************************)
(* Midnights are instants, a week apart and in the order of their weeks.   *)
(***************************************************************************)
LEMMA Midnights ==
    ASSUME NEW v \in Int, NEW w \in Int
    PROVE  /\ Midnight(w) \in Int
           /\ Midnight(w + 1) = Midnight(w) + WeekLength
           /\ v <= w => Midnight(v) <= Midnight(w)
<1>1. ASSUME NEW b \in Nat \ {0}
      PROVE  v * b \in Int /\ w * b \in Int /\ (w + 1) * b = w * b + b
             /\ (v <= w => v * b <= w * b)
  OBVIOUS
<1> QED  BY <1>1, ReportsAssumption DEF Midnight

(***************************************************************************)
(* An instant at which the clocks show a time after midnight is not before *)
(* that midnight, unless midnight comes twice.                             *)
(***************************************************************************)
LEMMA AfterMonday ==
    ASSUME NEW zone \in Zones, NEW t \in Int, NEW week \in Int,
           ~ComesTwice(zone, week), Midnight(week) <= Local(zone, t)
    PROVE  Monday(zone, week) <= t
<1>1. zone.at \in Int /\ zone.by \in {-1, 0, 1} /\ Midnight(week) \in Int
  BY NoticesAssumption, Midnights
<1>2. CASE Midnight(week) < zone.at + zone.by
  BY <1>1, <1>2 DEF Local, Monday
<1>3. CASE ~(Midnight(week) < zone.at + zone.by)
  BY <1>1, <1>3 DEF Local, Monday, ComesTwice
<1> QED  BY <1>2, <1>3

(***************************************************************************)
(* An instant at which the clocks show a time before the next midnight is  *)
(* less than seven days after this one, unless they are put back between.  *)
(***************************************************************************)
LEMMA BeforeNextMonday ==
    ASSUME NEW zone \in Zones, NEW t \in Int, NEW week \in Int,
           Monday(zone, week + 1) <= Monday(zone, week) + WeekLength,
           Local(zone, t) < Midnight(week + 1)
    PROVE  t < Monday(zone, week) + WeekLength
<1>1. /\ zone.at \in Int /\ zone.by \in {-1, 0, 1} /\ WeekLength \in Nat \ {0}
      /\ Midnight(week) \in Int /\ Midnight(week + 1) = Midnight(week) + WeekLength
  BY NoticesAssumption, ReportsAssumption, Midnights
<1>2. CASE Midnight(week + 1) < zone.at + zone.by
  BY <1>1, <1>2 DEF Local, Monday
<1>3. CASE Midnight(week) >= zone.at + zone.by
  BY <1>1, <1>3 DEF Local, Monday
<1>4. CASE Midnight(week) < zone.at + zone.by /\ ~(Midnight(week + 1) < zone.at + zone.by)
  BY <1>1, <1>4 DEF Local, Monday
<1> QED  BY <1>1, <1>2, <1>3, <1>4

(***************************************************************************)
(* What is due in a week of the report is in the report's range.           *)
(***************************************************************************)
LEMMA BucketsInRange ==
    ASSUME NEW zone \in Zones, NEW time \in Int, NEW t \in Int,
           ClocksKept(zone, WeekOf(zone, time)),
           WeekOf(zone, t) \in Buckets(zone, time)
    PROVE  InRange(zone, time, t)
<1>1. zone.at \in Int /\ zone.by \in {-1, 0, 1} /\ Weeks \in Nat \ {0}
  BY NoticesAssumption, ReportsAssumption
<1>2. Local(zone, time) \in Int /\ Local(zone, t) \in Int
  BY <1>1 DEF Local
<1>3. PICK this \in Int : this = WeekOf(zone, time)
  BY <1>2, WeekBounds DEF WeekOf
<1>4. PICK week \in Int : week = WeekOf(zone, t)
  BY <1>2, WeekBounds DEF WeekOf
<1>5. PICK first \in Int : first = this - (Weeks - 1)
  BY <1>1
<1>6. first <= week /\ week <= this
  BY <1>3, <1>4, <1>5 DEF Buckets
<1>7. Midnight(week) <= Local(zone, t) /\ Local(zone, t) < Midnight(week + 1)
  BY <1>2, <1>4, WeekBounds DEF WeekOf
<1>8. Monday(zone, first) <= t
  <2>1. /\ Midnight(first) \in Int /\ Midnight(week) \in Int
        /\ Midnight(first) <= Midnight(week)
    BY <1>6, Midnights
  <2>2. Midnight(first) <= Local(zone, t)
    BY <1>2, <1>7, <2>1
  <2>3. ~ComesTwice(zone, first)
    BY <1>3, <1>5 DEF ClocksKept
  <2> QED  BY <2>2, <2>3, AfterMonday
<1>9. t < Monday(zone, this) + WeekLength
  <2>1. PICK next \in Int, after \in Int : next = week + 1 /\ after = this + 1
    OBVIOUS
  <2>2. Midnight(next) \in Int /\ Midnight(after) \in Int /\ Midnight(next) <= Midnight(after)
    BY <1>6, <2>1, Midnights
  <2>3. Local(zone, t) < Midnight(this + 1)
    BY <1>2, <1>7, <2>1, <2>2
  <2>4. Monday(zone, this + 1) <= Monday(zone, this) + WeekLength
    BY <1>3 DEF ClocksKept
  <2> QED  BY <2>3, <2>4, BeforeNextMonday
<1> QED  BY <1>3, <1>5, <1>8, <1>9 DEF InRange

(***************************************************************************)
(* For any zone whose clocks change by an hour at any instant, any length  *)
(* of the report and any races of the requests: unless an hour is repeated *)
(* in the current week, or at the midnight the report starts with, each    *)
(* completed and each missed instance is counted in the week it was due.   *)
(***************************************************************************)
THEOREM ReportAlwaysExact == Spec => []ReportExact
<1>1. Init => DueKept
  BY DEF Init, DueKept
<1>2. Spec => [](TypeOK /\ DueKept)
  BY <1>1, TypeInit, TypeStep, DueStep, PTL DEF Spec
<1>3. TypeOK /\ DueKept => ReportExact
  <2> SUFFICES ASSUME TypeOK, DueKept, NEW zone \in Zones,
                      ClocksKept(zone, WeekOf(zone, now)), NEW week \in Buckets(zone, now)
               PROVE  /\ Report(rows, zone, now)[week].completed
                            = Cardinality(DueIn(zone, week, "complete"))
                      /\ Report(rows, zone, now)[week].missed
                            = Cardinality(DueIn(zone, week, "missed"))
    BY DEF ReportExact
  <2> DEFINE scoped == {i \in DOMAIN rows : InRange(zone, now, rows[i].due)}
             due(status) ==
                 {i \in scoped : WeekOf(zone, rows[i].due) = week /\ rows[i].status = status}
  <2>1. DOMAIN rows = Instances /\ now \in Int
    BY NoticesAssumption DEF TypeOK, Times
  <2>2. ASSUME NEW i \in Instances
        PROVE  rows[i].due = Due[i] /\ Due[i] \in Int
    BY NoticesAssumption DEF DueKept, Times
  <2>3. ASSUME NEW status  PROVE due(status) = DueIn(zone, week, status)
    <3>1. ASSUME NEW i \in Instances, WeekOf(zone, Due[i]) = week
          PROVE  InRange(zone, now, Due[i])
      BY <2>1, <2>2, <3>1, BucketsInRange
    <3> QED  BY <2>1, <2>2, <3>1 DEF DueIn, WeekOf
  <2>4. /\ Report(rows, zone, now)[week].completed = Cardinality(due("complete"))
        /\ Report(rows, zone, now)[week].missed = Cardinality(due("missed"))
    BY DEF Report
  <2> QED
    <3>1. due("complete") = DueIn(zone, week, "complete")
          /\ due("missed") = DueIn(zone, week, "missed")
      BY <2>3
    <3> HIDE DEF due
    <3> QED  BY <2>4, <3>1
<1> QED  BY <1>2, <1>3, PTL
=============================================================================
