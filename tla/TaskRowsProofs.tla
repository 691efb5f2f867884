--------------------------- MODULE TaskRowsProofs ---------------------------
(***************************************************************************)
(* Lemmas about TaskRows and GraceClock: the shape of what each method of  *)
(* the service writes.                                                     *)
(***************************************************************************)
EXTENDS TaskRows, TLAPS

(***************************************************************************)
(* _suspend_grace never makes the accumulated grace negative.              *)
(***************************************************************************)
LEMMA SuspendedIsNat ==
    ASSUME NEW elapsed \in Nat, NEW paused \in BOOLEAN,
           NEW due \in Nat, NEW time \in Nat
    PROVE  SuspendedElapsed(elapsed, paused, due, time) \in Nat
BY DEF SuspendedElapsed, AtLeastZero

(***************************************************************************)
(* Setting the status alone is a patch.                                    *)
(***************************************************************************)
LEMMA SetStatusIsPatch ==
    ASSUME NEW status \in Status
    PROVE  SetStatus(status) \in Patch
BY DEF SetStatus, Patch

(***************************************************************************)
(* _resume_grace changes the clock only as a patch can.                    *)
(***************************************************************************)
LEMMA ResumedIsPatch ==
    ASSUME NEW row \in Row, NEW status \in Status
    PROVE  Resumed(row, status) \in Patch
BY DEF Resumed, SetStatus, Patch

(***************************************************************************)
(* What each method of the service writes has the type of its columns.     *)
(***************************************************************************)
LEMMA ServicePatches ==
    ASSUME NEW row \in Row, NEW due \in Nat, NEW time \in Nat,
           NEW requiresReview \in BOOLEAN
    PROVE  /\ CompletePatch(requiresReview) \in Patch
           /\ ExcusePatch(row, due, time) \in Patch
           /\ DenyCompletionPatch(row, due, time) \in Patch
           /\ DenyExcusePatch(row, due, time) \in Patch
           /\ ReversePatch(due, time) \in Patch
<1>1. CompletePatch(requiresReview) \in Patch
  BY SetStatusIsPatch DEF CompletePatch, Status
<1>2. ExcusePatch(row, due, time) \in Patch
  <2>1. SuspendedElapsed(row.elapsed, row.paused, due, time) \in Nat
    BY SuspendedIsNat DEF Row
  <2>2. CASE row.status = "overdue"
    BY <2>1, <2>2 DEF ExcusePatch, Patch, Status
  <2>3. CASE row.status # "overdue"
    BY <2>3, SetStatusIsPatch DEF ExcusePatch, Status
  <2> QED  BY <2>2, <2>3
<1>3. DenyCompletionPatch(row, due, time) \in Patch
  BY SetStatusIsPatch, ResumedIsPatch DEF DenyCompletionPatch, Status
<1>4. DenyExcusePatch(row, due, time) \in Patch
  BY ResumedIsPatch DEF DenyExcusePatch, Status
<1>5. ReversePatch(due, time) \in Patch
  BY SetStatusIsPatch DEF ReversePatch, Status
<1> QED  BY <1>1, <1>2, <1>3, <1>4, <1>5

(***************************************************************************)
(* Applying a patch to a row gives a row.                                  *)
(***************************************************************************)
LEMMA ApplyIsRow ==
    ASSUME NEW row \in Row, NEW p \in Patch
    PROVE  Apply(row, p) \in Row
BY DEF Apply, Row, Patch

(***************************************************************************)
(* An instance is created as a row.                                        *)
(***************************************************************************)
LEMMA NewRowIsRow ==
    ASSUME NEW due \in Nat, NEW time \in Nat
    PROVE  NewRow(due, time) \in Row
BY DEF NewRow, Row, Status

(***************************************************************************)
(* Every policy leads to an entry type of task awards, or to none.         *)
(***************************************************************************)
LEMMA ExcuseAwardType ==
    ASSUME NEW policy \in PayoutPolicy
    PROVE  ExcuseAward(policy) \in AwardType \cup {"none"}
BY DEF ExcuseAward, PayoutPolicy, AwardType
=============================================================================
