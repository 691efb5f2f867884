------------------------- MODULE TaskRequestsProofs -------------------------
(***************************************************************************)
(* Proofs about TaskRequests for any number of instances and sessions, any *)
(* due times, any grace period and batches of any length.                  *)
(***************************************************************************)
EXTENDS TaskRequests, TaskRowsProofs, TLAPS

-----------------------------------------------------------------------------
(***************************************************************************)
(* NoRow is no row; a session begins with a blank row and a blank patch.   *)
(***************************************************************************)
LEMMA RowShapes ==
    /\ NoRow \notin Row
    /\ BlankRow \in Row
    /\ BlankPatch \in Patch
BY DEF NoRow, BlankRow, BlankPatch, Row, Status, Patch, SetStatus

(***************************************************************************)
(* A request is a non-empty sequence of items.                             *)
(***************************************************************************)
LEMMA RequestsAreSequences ==
    ASSUME NEW items \in Requests
    PROVE  items \in Seq(Item) /\ items # << >>
<1>1. CASE \E item \in Item : items = <<item>>
  BY <1>1
<1>2. CASE \E n \in 2..MaxBatch : items \in [1..n -> Item]
  <2>1. PICK n \in 2..MaxBatch : items \in [1..n -> Item]
    BY <1>2
  <2>2. n \in Nat /\ 1 \in 1..n
    BY RequestsAssumption
  <2>3. items \in Seq(Item)
    BY <2>1, <2>2, SMT
  <2>4. items # << >>
    BY <2>1, <2>2, SMT
  <2> QED  BY <2>3, <2>4
<1> QED  BY <1>1, <1>2 DEF Requests

-----------------------------------------------------------------------------
(***************************************************************************)
(* Type correctness.  A session that holds a loaded row, or a decision,    *)
(* still has the item these belong to; without that Head(todo[s]) need not *)
(* be an item.                                                             *)
(***************************************************************************)
HasItem == \A s \in Sessions :
              pc[s] \in {"loaded", "decided"} => todo[s] # << >>

TypeInv == TypeOK /\ HasItem

(***************************************************************************)
(* The target of a session that has an item is an instance with a due      *)
(* time, and what remains of the request is a sequence of items.           *)
(***************************************************************************)
LEMMA ItemTypes ==
    ASSUME TypeOK, NEW s \in Sessions, todo[s] # << >>
    PROVE  /\ Head(todo[s]) \in Item
           /\ Target(s) \in Instances
           /\ Due(s) \in Nat
           /\ Tail(todo[s]) \in Seq(Item)
<1>1. todo[s] \in Seq(Item)
  BY DEF TypeOK
<1>2. Head(todo[s]) \in Item /\ Tail(todo[s]) \in Seq(Item)
  BY <1>1
<1>3. Target(s) \in Instances
  BY <1>2 DEF Target, Item
<1> QED  BY <1>2, <1>3, RequestsAssumption DEF Due

(***************************************************************************)
(* A decision keeps the types when the patch and the award have theirs.    *)
(***************************************************************************)
LEMMA DecideKeepsTypes ==
    ASSUME TypeInv, NEW s \in Sessions, pc[s] = "loaded",
           NEW p \in Patch, NEW a \in AwardType \cup {"none"},
           Decide(s, p, a)
    PROVE  TypeInv'
<1>1. TypeOK'
  BY RowShapes DEF TypeInv, TypeOK, Decide, workerVars
<1>2. HasItem'
  BY DEF TypeInv, TypeOK, HasItem, Decide
<1> QED  BY <1>1, <1>2 DEF TypeInv

(***************************************************************************)
(* Every method of the service decides with the right types.               *)
(***************************************************************************)
LEMMA HandleKeepsTypes ==
    ASSUME TypeInv, NEW s \in Sessions, Handle(s)
    PROVE  TypeInv'
<1>1. CASE Reject(s)
  <2>1. todo[s] # << >> /\ Tail(todo[s]) \in Seq(Item)
    BY <1>1, ItemTypes DEF Reject, TypeInv, HasItem
  <2>2. TypeOK'
    BY <1>1, <2>1, RowShapes DEF TypeInv, TypeOK, Reject, workerVars
  <2>3. HasItem'
    BY <1>1 DEF TypeInv, TypeOK, HasItem, Reject
  <2> QED  BY <2>2, <2>3 DEF TypeInv
<1>2. CASE ~ Reject(s)
  <2> DEFINE row == loaded[s]
  <2>1. pc[s] = "loaded"
    BY <1>2 DEF Handle, Handling, Complete, SubmitExcuse, Cancel,
       ApproveCompletion, DenyCompletion, ApproveExcuse, DenyExcuse
  <2>2. row \in Row /\ now \in Nat /\ Due(s) \in Nat
    BY <2>1, ItemTypes DEF TypeInv, TypeOK, HasItem
  <2> HIDE DEF row
  <2>3. CASE Complete(s)
    <3>1. PICK requiresReview \in BOOLEAN :
            Decide(s, CompletePatch(requiresReview),
                   IF requiresReview THEN "none" ELSE "task_completed")
      BY <2>3 DEF Complete
    <3>2. CompletePatch(requiresReview) \in Patch
      BY <2>2, ServicePatches
    <3> QED  BY <2>1, <3>1, <3>2, DecideKeepsTypes DEF AwardType
  <2>4. CASE SubmitExcuse(s)
    <3>1. ExcusePatch(row, Due(s), now) \in Patch
      BY <2>2, ServicePatches
    <3> QED  BY <2>1, <2>4, <3>1, DecideKeepsTypes DEF SubmitExcuse, row
  <2>5. CASE Cancel(s)
    <3>1. SetStatus("cancelled") \in Patch
      BY SetStatusIsPatch DEF Status
    <3> QED  BY <2>1, <2>5, <3>1, DecideKeepsTypes DEF Cancel
  <2>6. CASE ApproveCompletion(s)
    <3>1. SetStatus("complete") \in Patch
      BY SetStatusIsPatch DEF Status
    <3> QED  BY <2>1, <2>6, <3>1, DecideKeepsTypes DEF ApproveCompletion, AwardType
  <2>7. CASE DenyCompletion(s)
    <3>1. DenyCompletionPatch(row, Due(s), now) \in Patch
      BY <2>2, ServicePatches
    <3> QED  BY <2>1, <2>7, <3>1, DecideKeepsTypes DEF DenyCompletion, row
  <2>8. CASE ApproveExcuse(s)
    <3>1. SetStatus("excused") \in Patch
      BY SetStatusIsPatch DEF Status
    <3> QED  BY <2>1, <2>8, <3>1, ExcuseAwardType, DecideKeepsTypes DEF ApproveExcuse
  <2>9. CASE DenyExcuse(s)
    <3>1. DenyExcusePatch(row, Due(s), now) \in Patch
      BY <2>2, ServicePatches
    <3> QED  BY <2>1, <2>9, <3>1, DecideKeepsTypes DEF DenyExcuse, row
  <2> QED  BY <1>2, <2>3, <2>4, <2>5, <2>6, <2>7, <2>8, <2>9 DEF Handle
<1> QED  BY <1>1, <1>2

(***************************************************************************)
(* The versions a transaction would leave if it committed are rows.        *)
(***************************************************************************)
LEMMA WithImageIsRows ==
    ASSUME TypeOK, NEW t \in Txns
    PROVE  WithImage(t) \in [Instances -> Row]
BY DEF TypeOK, WithImage

(***************************************************************************)
(* Setting a status on a row gives a row.                                  *)
(***************************************************************************)
LEMMA StatusOnRow ==
    ASSUME NEW row \in Row, NEW status \in Status
    PROVE  Apply(row, SetStatus(status)) \in Row
BY ApplyIsRow, SetStatusIsPatch

(***************************************************************************)
(* Loading keeps the types when what is loaded is a request's items.       *)
(***************************************************************************)
LEMMA LoadKeepsTypes ==
    ASSUME TypeInv, NEW s \in Sessions, NEW items \in Seq(Item),
           items # << >>, LoadFirst(s, items)
    PROVE  TypeInv'
<1>1. Head(items).inst \in Instances
  <2>1. Head(items) \in Item
    OBVIOUS
  <2> QED  BY <2>1 DEF Item
<1>2. TypeOK'
  BY <1>1 DEF TypeInv, TypeOK, LoadFirst, workerVars
<1>3. HasItem'
  BY DEF TypeInv, TypeOK, HasItem, LoadFirst
<1> QED  BY <1>2, <1>3 DEF TypeInv

(***************************************************************************)
(* A flush writes a row version and records an award of the right type.    *)
(***************************************************************************)
LEMMA FlushKeepsTypes ==
    ASSUME TypeInv, NEW s \in Sessions, Flush(s)
    PROVE  TypeInv'
<1> DEFINE i == Target(s)
           p == patch[s]
           new == Apply(rows[i], p)
           due == IF award[s] = "none" THEN {} ELSE {<<i, award[s]>>}
<1>1. i \in Instances /\ Tail(todo[s]) \in Seq(Item)
  BY ItemTypes DEF TypeInv, HasItem, Flush
<1>2. new \in Row
  BY <1>1, ApplyIsRow DEF TypeInv, TypeOK
<1>3. due \in SUBSET (Instances \X AwardType)
  BY <1>1 DEF TypeInv, TypeOK
<1>4. /\ image' = [image EXCEPT ![s][i] = new]
      /\ credit' = [credit EXCEPT ![s] = @ \cup due]
  BY DEF Flush
<1> HIDE DEF i, p, new, due
<1>5. TypeOK'
  <2>1. image' \in [Txns -> [Instances -> Row \cup {NoRow}]]
    BY <1>1, <1>2, <1>4 DEF TypeInv, TypeOK, Txns
  <2>2. credit' \in [Sessions -> SUBSET (Instances \X AwardType)]
    BY <1>3, <1>4 DEF TypeInv, TypeOK
  <2> QED  BY <1>1, <2>1, <2>2, RowShapes DEF TypeInv, TypeOK, Flush, workerVars
<1>6. HasItem'
  BY DEF TypeInv, TypeOK, HasItem, Flush
<1> QED  BY <1>5, <1>6 DEF TypeInv

(***************************************************************************)
(* Ending a transaction clears what its session holds.                     *)
(***************************************************************************)
LEMMA CloseKeepsTypes ==
    ASSUME TypeInv, NEW s \in Sessions, Close(s),
           rows' \in [Instances -> Row],
           entries' \in [Instances -> [AwardType -> Nat]],
           now' = now
    PROVE  TypeInv'
<1>1. NoImage \in [Instances -> Row \cup {NoRow}]
  BY DEF NoImage
<1>2. image' \in [Txns -> [Instances -> Row \cup {NoRow}]]
  BY <1>1 DEF TypeInv, TypeOK, Close, Txns
<1>3. << >> \in Seq(Item)
  OBVIOUS
<1>4. TypeOK'
  BY <1>2, <1>3, RowShapes DEF TypeInv, TypeOK, Close, workerVars
<1>5. HasItem'
  BY DEF TypeInv, TypeOK, HasItem, Close
<1> QED  BY <1>4, <1>5 DEF TypeInv

(***************************************************************************)
(* A commit replaces rows by versions that are rows, and counts one entry  *)
(* for each credit.                                                        *)
(***************************************************************************)
LEMMA CommitKeepsTypes ==
    ASSUME TypeInv, NEW s \in Sessions, Commit(s)
    PROVE  TypeInv'
<1>1. rows' \in [Instances -> Row]
  BY WithImageIsRows DEF TypeInv, Commit, Txns
<1>2. entries' \in [Instances -> [AwardType -> Nat]]
  BY DEF TypeInv, TypeOK, Commit, WithCredit
<1> QED  BY <1>1, <1>2, CloseKeepsTypes DEF Commit

(***************************************************************************)
(* A rollback discards the versions of its session and clears it.          *)
(***************************************************************************)
LEMMA RollBackKeepsTypes ==
    ASSUME TypeInv, NEW s \in Sessions, RollBack(s)
    PROVE  TypeInv'
BY CloseKeepsTypes DEF RollBack, TypeInv, TypeOK

(***************************************************************************)
(* The nightly job and its end keep the types.                             *)
(***************************************************************************)
LEMMA WorkerCloseKeepsTypes ==
    ASSUME TypeInv, WorkerClose, rows' \in [Instances -> Row]
    PROVE  TypeInv'
<1>1. NoImage \in [Instances -> Row \cup {NoRow}]
  BY DEF NoImage
<1>2. image' \in [Txns -> [Instances -> Row \cup {NoRow}]]
  BY <1>1 DEF TypeInv, TypeOK, WorkerClose, Txns
<1>3. TypeOK'
  BY <1>2 DEF TypeInv, TypeOK, WorkerClose, sessionVars
<1>4. HasItem'
  BY DEF TypeInv, HasItem, WorkerClose, sessionVars
<1> QED  BY <1>3, <1>4 DEF TypeInv

(***************************************************************************)
(* Each step of the nightly job keeps the types.                           *)
(***************************************************************************)
LEMMA NightlyKeepsTypes ==
    ASSUME TypeInv, Nightly
    PROVE  TypeInv'
<1>1. CASE SweepStart
  BY <1>1 DEF TypeInv, TypeOK, HasItem, SweepStart, sessionVars
<1>2. CASE Scan
  BY <1>2 DEF TypeInv, TypeOK, HasItem, Scan, sessionVars
<1>3. CASE WorkerCommit
  <2>1. rows' \in [Instances -> Row]
    BY <1>3, WithImageIsRows DEF TypeInv, WorkerCommit, Txns
  <2> QED  BY <1>3, <2>1, WorkerCloseKeepsTypes DEF WorkerCommit
<1>4. ASSUME NEW i \in Instances, SweepRow(i)  PROVE TypeInv'
  <2>1. Apply(rows[i], SetStatus("overdue")) \in Row
    BY StatusOnRow DEF TypeInv, TypeOK, Status
  <2>2. image' \in [Txns -> [Instances -> Row \cup {NoRow}]]
    BY <1>4, <2>1 DEF TypeInv, TypeOK, SweepRow, Txns
  <2> QED  BY <1>4, <2>2 DEF TypeInv, TypeOK, HasItem, SweepRow, sessionVars
<1>5. ASSUME NEW i \in Instances, ExpireRow(i)  PROVE TypeInv'
  <2>1. WithImage(Worker)[i] \in Row
    BY WithImageIsRows DEF TypeInv, Txns
  <2>2. Apply(WithImage(Worker)[i], SetStatus("missed")) \in Row
    BY <2>1, StatusOnRow DEF Status
  <2>3. image' \in [Txns -> [Instances -> Row \cup {NoRow}]]
    BY <1>5, <2>2 DEF TypeInv, TypeOK, ExpireRow, Txns
  <2> QED  BY <1>5, <2>3 DEF TypeInv, TypeOK, HasItem, ExpireRow, sessionVars
<1> QED  BY <1>1, <1>2, <1>3, <1>4, <1>5 DEF Nightly

(***************************************************************************)
(* At first every row is a new instance and no session holds anything.     *)
(***************************************************************************)
LEMMA InitHasTypes == Init => TypeInv
<1> SUFFICES ASSUME Init PROVE TypeInv
  OBVIOUS
<1>1. rows \in [Instances -> Row]
  BY RowShapes, NewRowIsRow, RequestsAssumption DEF Init, InitWith
<1>2. TypeOK
  BY <1>1, RowShapes, RequestsAssumption
     DEF Init, InitWith, TypeOK, NoImage, AwardType
<1>3. HasItem
  BY DEF Init, InitWith, HasItem
<1> QED  BY <1>2, <1>3 DEF TypeInv

(***************************************************************************)
(* Every step keeps the types and the items that sessions rely on.         *)
(***************************************************************************)
LEMMA NextKeepsTypes == TypeInv /\ [Next]_vars => TypeInv'
<1> SUFFICES ASSUME TypeInv, [Next]_vars PROVE TypeInv'
  OBVIOUS
<1>1. ASSUME NEW s \in Sessions, Begin(s)  PROVE TypeInv'
  BY <1>1, RequestsAreSequences, LoadKeepsTypes DEF Begin
<1>2. ASSUME NEW s \in Sessions, Load(s)  PROVE TypeInv'
  BY <1>2, LoadKeepsTypes DEF Load, TypeInv, TypeOK
<1>3. ASSUME NEW s \in Sessions, Handle(s)  PROVE TypeInv'
  BY <1>3, HandleKeepsTypes
<1>4. ASSUME NEW s \in Sessions, Flush(s)  PROVE TypeInv'
  BY <1>4, FlushKeepsTypes
<1>5. ASSUME NEW s \in Sessions, DuplicateEntry(s)  PROVE TypeInv'
  BY <1>5, RollBackKeepsTypes DEF DuplicateEntry
<1>6. ASSUME NEW s \in Sessions, Commit(s)  PROVE TypeInv'
  BY <1>6, CommitKeepsTypes
<1>7. ASSUME NEW s \in Sessions, Crash(s)  PROVE TypeInv'
  BY <1>7, RollBackKeepsTypes DEF Crash
<1>8. CASE Nightly
  BY <1>8, NightlyKeepsTypes
<1>9. CASE WorkerCrash
  BY <1>9, WorkerCloseKeepsTypes DEF WorkerCrash, TypeInv, TypeOK
<1>10. ASSUME NEW t \in Txns, DeadlockVictim(t)  PROVE TypeInv'
  <2>1. CASE t = Worker
    BY <1>10, <2>1, WorkerCloseKeepsTypes DEF DeadlockVictim, TypeInv, TypeOK
  <2>2. CASE t # Worker
    BY <1>10, <2>2, RollBackKeepsTypes DEF DeadlockVictim, Txns
  <2> QED  BY <2>1, <2>2
<1>11. CASE Tick
  BY <1>11, RequestsAssumption
     DEF Tick, TypeInv, TypeOK, HasItem, sessionVars, workerVars
<1>12. CASE UNCHANGED vars
  BY <1>12 DEF vars, TypeInv, TypeOK, HasItem, sessionVars, workerVars
<1> QED  BY <1>1, <1>2, <1>3, <1>4, <1>5, <1>6, <1>7, <1>8, <1>9, <1>10, <1>11,
            <1>12 DEF Next

(***************************************************************************)
(* However requests and the nightly job interleave, the database, every    *)
(* session and every uncommitted row version keep their types.             *)
(***************************************************************************)
THEOREM TypesAlways == Spec => []TypeOK
<1>1. Spec => []TypeInv
  BY InitHasTypes, NextKeepsTypes, PTL DEF Spec
<1>2. TypeInv => TypeOK
  BY DEF TypeInv
<1> QED  BY <1>1, <1>2, PTL

-----------------------------------------------------------------------------
(***************************************************************************)
(* Awards.  AtMostOnce and CompleteIsPaid are not inductive: what keeps    *)
(* them is what transactions hold before they commit.                      *)
(***************************************************************************)

(***************************************************************************)
(* A row has at most one uncommitted version.                              *)
(***************************************************************************)
OneWriter == \A t, u \in Txns, i \in Instances :
                image[t][i] # NoRow /\ image[u][i] # NoRow => t = u

(***************************************************************************)
(* Whoever is about to credit an instance holds its row, and the credit is *)
(* not in the ledger yet.                                                  *)
(***************************************************************************)
CreditHeld == \A s \in Sessions, i \in Instances, type \in AwardType :
                 <<i, type>> \in credit[s]
                     => image[s][i] # NoRow /\ entries[i][type] = 0

(***************************************************************************)
(* A version that says complete goes with its award, in the decision and   *)
(* in the transaction; the nightly job never says complete.                *)
(***************************************************************************)
CompleteWithAward ==
    /\ \A s \in Sessions : pc[s] = "decided" /\ patch[s].status = "complete"
                             => award[s] = "task_completed"
    /\ \A s \in Sessions, i \in Instances :
          image[s][i].status = "complete" => <<i, "task_completed">> \in credit[s]
    /\ \A i \in Instances : image[Worker][i].status # "complete"

AwardInv == /\ TypeInv /\ OneWriter /\ CreditHeld /\ CompleteWithAward
            /\ AtMostOnce /\ CompleteIsPaid

(***************************************************************************)
(* Steps that leave committed rows, entries, versions and credits alone    *)
(* keep the invariant if they keep that complete comes with its award.     *)
(***************************************************************************)
LEMMA QuietStep ==
    ASSUME AwardInv, TypeInv', UNCHANGED <<rows, entries, image, credit>>,
           \A s \in Sessions : pc'[s] = "decided" /\ patch'[s].status = "complete"
                                => award'[s] = "task_completed"
    PROVE  AwardInv'
BY DEF AwardInv, OneWriter, CreditHeld, CompleteWithAward, AtMostOnce, CompleteIsPaid

(***************************************************************************)
(* A decision commits nothing: it keeps the invariant if whoever decides   *)
(* on complete decides on the award as well.                               *)
(***************************************************************************)
LEMMA DecideKeepsAwards ==
    ASSUME AwardInv, TypeInv', NEW s \in Sessions, NEW p, NEW a, Decide(s, p, a),
           p.status = "complete" => a = "task_completed"
    PROVE  AwardInv'
<1>1. ASSUME NEW u \in Sessions, pc'[u] = "decided", patch'[u].status = "complete"
      PROVE  award'[u] = "task_completed"
  BY <1>1 DEF Decide, AwardInv, TypeInv, TypeOK, CompleteWithAward
<1> QED  BY <1>1, QuietStep DEF Decide

(***************************************************************************)
(* Only an approval and an unreviewed completion say complete, and both    *)
(* award it.                                                               *)
(***************************************************************************)
LEMMA HandleKeepsAwards ==
    ASSUME AwardInv, TypeInv', NEW s \in Sessions, Handle(s)
    PROVE  AwardInv'
<1>1. CASE Complete(s)
  <2>1. PICK requiresReview \in BOOLEAN :
          Decide(s, CompletePatch(requiresReview),
                 IF requiresReview THEN "none" ELSE "task_completed")
    BY <1>1 DEF Complete
  <2>2. CompletePatch(requiresReview).status = "complete" => ~ requiresReview
    BY DEF CompletePatch, SetStatus
  <2> QED  BY <2>1, <2>2, DecideKeepsAwards
<1>2. CASE SubmitExcuse(s)
  <2>1. ExcusePatch(loaded[s], Due(s), now).status # "complete"
    BY DEF ExcusePatch, SetStatus
  <2> QED  BY <1>2, <2>1, DecideKeepsAwards DEF SubmitExcuse
<1>3. CASE Cancel(s)
  <2>1. SetStatus("cancelled").status # "complete"
    BY DEF SetStatus
  <2> QED  BY <1>3, <2>1, DecideKeepsAwards DEF Cancel
<1>4. CASE ApproveCompletion(s)
  BY <1>4, DecideKeepsAwards DEF ApproveCompletion
<1>5. CASE DenyCompletion(s)
  <2>1. DenyCompletionPatch(loaded[s], Due(s), now).status # "complete"
    BY DEF DenyCompletionPatch, Resumed, SetStatus
  <2> QED  BY <1>5, <2>1, DecideKeepsAwards DEF DenyCompletion
<1>6. CASE ApproveExcuse(s)
  <2>1. SetStatus("excused").status # "complete"
    BY DEF SetStatus
  <2> QED  BY <1>6, <2>1, DecideKeepsAwards DEF ApproveExcuse
<1>7. CASE DenyExcuse(s)
  <2>1. DenyExcusePatch(loaded[s], Due(s), now).status # "complete"
    BY DEF DenyExcusePatch, Resumed, SetStatus
  <2> QED  BY <1>7, <2>1, DecideKeepsAwards DEF DenyExcuse
<1>8. CASE Reject(s)
  <2>1. \A u \in Sessions : pc'[u] = "decided" => pc[u] = "decided"
    BY <1>8 DEF Reject, AwardInv, TypeInv, TypeOK
  <2> QED  BY <1>8, <2>1, QuietStep DEF Reject, AwardInv, CompleteWithAward
<1> QED  BY <1>1, <1>2, <1>3, <1>4, <1>5, <1>6, <1>7, <1>8 DEF Handle

(***************************************************************************)
(* A flush takes the row's lock, and the unique index has refused any      *)
(* credit that the ledger holds already.                                   *)
(***************************************************************************)
LEMMA FlushKeepsAwards ==
    ASSUME AwardInv, TypeInv', NEW s \in Sessions, Flush(s)
    PROVE  AwardInv'
<1> DEFINE i == Target(s)
           new == Apply(rows[i], patch[s])
           due == IF award[s] = "none" THEN {} ELSE {<<i, award[s]>>}
<1>1. i \in Instances
  BY ItemTypes DEF AwardInv, TypeInv, HasItem, Flush
<1>2. new \in Row /\ new # NoRow /\ new.status = patch[s].status
  <2>1. new \in Row
    BY <1>1, ApplyIsRow DEF AwardInv, TypeInv, TypeOK
  <2> QED  BY <2>1, RowShapes DEF Apply
<1>3. /\ image' = [image EXCEPT ![s][i] = new]
      /\ credit' = [credit EXCEPT ![s] = @ \cup due]
      /\ pc[s] = "decided"
      /\ award[s] # "none" => ~ Recorded(i, award[s])
      /\ \A u \in Txns \ {s} : image[u][i] = NoRow
      /\ UNCHANGED <<rows, entries>>
  BY DEF Flush, CanLock, LockedByOther
<1>4. s \in Txns /\ s # Worker
  BY RequestsAssumption DEF Txns
<1> HIDE DEF i, new
<1>5. \A t \in Txns, j \in Instances :
         image'[t][j] = IF t = s /\ j = i THEN new ELSE image[t][j]
  BY <1>1, <1>3, <1>4 DEF AwardInv, TypeInv, TypeOK
<1>6. \A u \in Sessions :
         credit'[u] = IF u = s THEN credit[s] \cup due ELSE credit[u]
  BY <1>3 DEF AwardInv, TypeInv, TypeOK
<1>7. OneWriter'
  BY <1>3, <1>4, <1>5 DEF AwardInv, OneWriter
<1>8. CreditHeld'
  <2> SUFFICES ASSUME NEW u \in Sessions, NEW j \in Instances, NEW type \in AwardType,
                      <<j, type>> \in credit'[u]
               PROVE  image'[u][j] # NoRow /\ entries'[j][type] = 0
    BY DEF CreditHeld
  <2>1. u \in Txns
    BY DEF Txns
  <2>2. CASE <<j, type>> \in credit[u]
    BY <2>1, <2>2, <1>2, <1>3, <1>5 DEF AwardInv, CreditHeld
  <2>3. CASE <<j, type>> \notin credit[u]
    <3>1. u = s /\ award[s] # "none" /\ j = i /\ type = award[s]
      BY <2>3, <1>6
    <3>2. entries[i][type] = 0
      BY <3>1, <1>1, <1>3 DEF Recorded, AwardInv, TypeInv, TypeOK
    <3> QED  BY <2>1, <3>1, <3>2, <1>2, <1>3, <1>5
  <2> QED  BY <2>2, <2>3
<1>9. CompleteWithAward'
  <2>1. \A u \in Sessions : pc'[u] = "decided" =>
           pc[u] = "decided" /\ patch'[u] = patch[u] /\ award'[u] = award[u]
    BY DEF Flush, AwardInv, TypeInv, TypeOK
  <2>2. ASSUME NEW u \in Sessions, NEW j \in Instances,
               image'[u][j].status = "complete"
        PROVE  <<j, "task_completed">> \in credit'[u]
    <3>1. u \in Txns
      BY DEF Txns
    <3>2. CASE u = s /\ j = i
      BY <2>2, <3>1, <3>2, <1>2, <1>3, <1>5, <1>6 DEF AwardInv, CompleteWithAward
    <3>3. CASE ~ (u = s /\ j = i)
      BY <2>2, <3>1, <3>3, <1>5, <1>6 DEF AwardInv, CompleteWithAward
    <3> QED  BY <3>2, <3>3
  <2>3. \A j \in Instances : image'[Worker][j].status # "complete"
    BY <1>4, <1>5 DEF AwardInv, CompleteWithAward, Txns
  <2> QED  BY <2>1, <2>2, <2>3 DEF AwardInv, CompleteWithAward
<1> QED  BY <1>3, <1>7, <1>8, <1>9 DEF AwardInv, AtMostOnce, CompleteIsPaid

(***************************************************************************)
(* A session that ends holds no version and no credit, the others are as   *)
(* they were.                                                              *)
(***************************************************************************)
LEMMA ClosedSession ==
    ASSUME TypeOK, NEW s \in Sessions, Close(s)
    PROVE  /\ \A t \in Txns, i \in Instances :
                 image'[t][i] = IF t = s THEN NoRow ELSE image[t][i]
           /\ \A u \in Sessions : credit'[u] = IF u = s THEN {} ELSE credit[u]
           /\ \A u \in Sessions : pc'[u] = "decided" =>
                 u # s /\ pc[u] = "decided" /\ patch'[u] = patch[u]
                       /\ award'[u] = award[u]
BY DEF TypeOK, Close, NoImage

(***************************************************************************)
(* Closing keeps what transactions hold if the committed entries do not    *)
(* come in the way of another session's credit.                            *)
(***************************************************************************)
LEMMA CloseKeepsHeld ==
    ASSUME AwardInv, NEW s \in Sessions, Close(s),
           \A u \in Sessions \ {s}, i \in Instances, type \in AwardType :
              <<i, type>> \in credit[u] => entries'[i][type] = 0
    PROVE  OneWriter' /\ CreditHeld' /\ CompleteWithAward'
<1>1. TypeOK /\ s # Worker
  BY RequestsAssumption DEF AwardInv, TypeInv
<1>2. OneWriter'
  BY <1>1, ClosedSession DEF AwardInv, OneWriter
<1>3. CreditHeld'
  BY <1>1, ClosedSession DEF AwardInv, CreditHeld, Txns
<1>4. CompleteWithAward'
  <2>1. NoRow.status # "complete"
    BY DEF NoRow
  <2> QED  BY <2>1, <1>1, ClosedSession DEF AwardInv, CompleteWithAward, Txns
<1> QED  BY <1>2, <1>3, <1>4

(***************************************************************************)
(* What a rolled back session held had not been committed.                 *)
(***************************************************************************)
LEMMA RollBackKeepsAwards ==
    ASSUME AwardInv, TypeInv', NEW s \in Sessions, RollBack(s)
    PROVE  AwardInv'
<1>1. OneWriter' /\ CreditHeld' /\ CompleteWithAward'
  BY CloseKeepsHeld DEF RollBack, AwardInv, CreditHeld
<1> QED  BY <1>1 DEF RollBack, AwardInv, AtMostOnce, CompleteIsPaid

(***************************************************************************)
(* What a commit adds to the ledger: one entry for each credit.            *)
(***************************************************************************)
LEMMA CommittedEntries ==
    ASSUME AwardInv, NEW s \in Sessions, Commit(s),
           NEW i \in Instances, NEW type \in AwardType
    PROVE  entries'[i][type] = IF <<i, type>> \in credit[s] THEN 1
                                                            ELSE entries[i][type]
<1>1. entries'[i][type] = entries[i][type] + IF <<i, type>> \in credit[s] THEN 1 ELSE 0
  BY DEF Commit, WithCredit
<1>2. entries[i][type] \in Nat
  BY DEF AwardInv, TypeInv, TypeOK
<1>3. <<i, type>> \in credit[s] => entries[i][type] = 0
  BY DEF AwardInv, CreditHeld
<1> QED  BY <1>1, <1>2, <1>3

(***************************************************************************)
(* A commit adds credits that were not in the ledger, and with every       *)
(* version that says complete its award.                                   *)
(***************************************************************************)
LEMMA CommitKeepsAwards ==
    ASSUME AwardInv, TypeInv', NEW s \in Sessions, Commit(s)
    PROVE  AwardInv'
<1>0. \A i \in Instances, type \in AwardType :
         entries'[i][type] = IF <<i, type>> \in credit[s] THEN 1 ELSE entries[i][type]
  BY CommittedEntries
<1>1. ASSUME NEW u \in Sessions \ {s}, NEW i \in Instances, NEW type \in AwardType,
             <<i, type>> \in credit[u]
      PROVE  entries'[i][type] = 0
  <2>1. image[u][i] # NoRow /\ entries[i][type] = 0
    BY <1>1 DEF AwardInv, CreditHeld
  <2>2. image[s][i] = NoRow
    BY <2>1 DEF AwardInv, OneWriter, Txns
  <2>3. <<i, type>> \notin credit[s]
    BY <2>2 DEF AwardInv, CreditHeld
  <2> QED  BY <1>0, <2>1, <2>3
<1>2. OneWriter' /\ CreditHeld' /\ CompleteWithAward'
  BY <1>1, CloseKeepsHeld DEF Commit
<1>3. AtMostOnce'
  <2> SUFFICES ASSUME NEW i \in Instances, NEW type \in AwardType
               PROVE  entries'[i][type] <= 1
    BY DEF AtMostOnce
  <2>1. entries[i][type] <= 1
    BY DEF AwardInv, AtMostOnce
  <2>2. CASE <<i, type>> \in credit[s]
    BY <1>0, <2>2
  <2>3. CASE <<i, type>> \notin credit[s]
    BY <1>0, <2>1, <2>3
  <2> QED  BY <2>2, <2>3
<1>4. CompleteIsPaid'
  <2> SUFFICES ASSUME NEW i \in Instances, rows'[i].status = "complete"
               PROVE  entries'[i]["task_completed"] = 1
    BY DEF CompleteIsPaid
  <2>1. "task_completed" \in AwardType
    BY DEF AwardType
  <2>2. rows'[i] = IF image[s][i] # NoRow THEN image[s][i] ELSE rows[i]
    BY DEF Commit, WithImage
  <2>3. CASE image[s][i] # NoRow
    BY <1>0, <2>1, <2>2, <2>3 DEF AwardInv, CompleteWithAward
  <2>4. CASE image[s][i] = NoRow
    <3>1. entries[i]["task_completed"] = 1
      BY <2>2, <2>4 DEF AwardInv, CompleteIsPaid
    <3>2. entries'[i]["task_completed"] =
            IF <<i, "task_completed">> \in credit[s] THEN 1
                                                     ELSE entries[i]["task_completed"]
      BY <1>0, <2>1
    <3> QED  BY <3>1, <3>2
  <2> QED  BY <2>3, <2>4
<1> QED  BY <1>2, <1>3, <1>4 DEF AwardInv

(***************************************************************************)
(* The nightly job writes versions that are not complete, of rows nobody   *)
(* else has locked.                                                        *)
(***************************************************************************)
LEMMA WorkerWriteKeepsAwards ==
    ASSUME AwardInv, TypeInv', NEW i \in Instances, NEW new,
           CanLock(Worker, i), new.status # "complete",
           image' = [image EXCEPT ![Worker][i] = new],
           UNCHANGED <<rows, entries, sessionVars>>
    PROVE  AwardInv'
<1>1. \A u \in Txns \ {Worker} : image[u][i] = NoRow
  BY DEF CanLock, LockedByOther
<1>2. \A t \in Txns, j \in Instances :
         image'[t][j] = IF t = Worker /\ j = i THEN new ELSE image[t][j]
  BY DEF AwardInv, TypeInv, TypeOK, Txns
<1>3. \A s \in Sessions : s \in Txns /\ s # Worker
  BY RequestsAssumption DEF Txns
<1>4. OneWriter'
  BY <1>1, <1>2 DEF AwardInv, OneWriter
<1>5. CreditHeld'
  BY <1>2, <1>3 DEF AwardInv, CreditHeld, sessionVars
<1>6. CompleteWithAward'
  <2>1. Worker \in Txns
    BY DEF Txns
  <2>2. \A j \in Instances : image'[Worker][j].status # "complete"
    BY <1>2, <2>1 DEF AwardInv, CompleteWithAward
  <2> QED  BY <1>2, <1>3, <2>2 DEF AwardInv, CompleteWithAward, sessionVars
<1> QED  BY <1>4, <1>5, <1>6 DEF AwardInv, AtMostOnce, CompleteIsPaid

(***************************************************************************)
(* The end of the nightly job's transaction takes nothing from a session.  *)
(***************************************************************************)
LEMMA WorkerCloseKeepsHeld ==
    ASSUME AwardInv, WorkerClose
    PROVE  OneWriter' /\ CreditHeld' /\ CompleteWithAward' /\ AtMostOnce'
<1>1. \A t \in Txns, j \in Instances :
         image'[t][j] = IF t = Worker THEN NoRow ELSE image[t][j]
  BY DEF AwardInv, TypeInv, TypeOK, WorkerClose, NoImage
<1>2. \A s \in Sessions : s \in Txns /\ s # Worker
  BY RequestsAssumption DEF Txns
<1>3. OneWriter'
  BY <1>1 DEF AwardInv, OneWriter
<1>4. CreditHeld'
  BY <1>1, <1>2 DEF AwardInv, CreditHeld, WorkerClose, sessionVars
<1>5. CompleteWithAward'
  <2>1. NoRow.status # "complete" /\ Worker \in Txns
    BY DEF NoRow, Txns
  <2>2. \A j \in Instances : image'[Worker][j].status # "complete"
    BY <1>1, <2>1
  <2> QED  BY <1>1, <1>2, <2>2
           DEF AwardInv, CompleteWithAward, WorkerClose, sessionVars
<1> QED  BY <1>3, <1>4, <1>5 DEF AwardInv, AtMostOnce, WorkerClose

(***************************************************************************)
(* The nightly job overwrites completions, and never writes one.           *)
(***************************************************************************)
LEMMA NightlyKeepsAwards ==
    ASSUME AwardInv, TypeInv', Nightly
    PROVE  AwardInv'
<1>1. CASE SweepStart
  BY <1>1, QuietStep DEF SweepStart, sessionVars, AwardInv, CompleteWithAward
<1>2. CASE Scan
  BY <1>2, QuietStep DEF Scan, sessionVars, AwardInv, CompleteWithAward
<1>3. CASE WorkerCommit
  <2>1. OneWriter' /\ CreditHeld' /\ CompleteWithAward' /\ AtMostOnce'
    BY <1>3, WorkerCloseKeepsHeld DEF WorkerCommit
  <2>2. CompleteIsPaid'
    <3>1. \A i \in Instances : rows'[i].status = "complete" => rows'[i] = rows[i]
      BY <1>3 DEF WorkerCommit, WithImage, AwardInv, CompleteWithAward
    <3>2. entries' = entries
      BY <1>3 DEF WorkerCommit, WorkerClose
    <3> QED  BY <3>1, <3>2 DEF AwardInv, CompleteIsPaid
  <2> QED  BY <2>1, <2>2 DEF AwardInv
<1>4. ASSUME NEW i \in Instances, SweepRow(i)  PROVE AwardInv'
  <2>1. CASE rows[i].status = "pending"
    <3>1. Apply(rows[i], SetStatus("overdue")).status # "complete"
      BY DEF Apply, SetStatus
    <3> QED  BY <1>4, <2>1, <3>1, WorkerWriteKeepsAwards DEF SweepRow
  <2>2. CASE rows[i].status # "pending"
    BY <1>4, <2>2, QuietStep DEF SweepRow, sessionVars, AwardInv, CompleteWithAward
  <2> QED  BY <2>1, <2>2
<1>5. ASSUME NEW i \in Instances, ExpireRow(i)  PROVE AwardInv'
  <2>1. Apply(WithImage(Worker)[i], SetStatus("missed")).status # "complete"
    BY DEF Apply, SetStatus
  <2> QED  BY <1>5, <2>1, WorkerWriteKeepsAwards DEF ExpireRow
<1> QED  BY <1>1, <1>2, <1>3, <1>4, <1>5 DEF Nightly

(***************************************************************************)
(* At first no instance is complete and the ledger is empty.               *)
(***************************************************************************)
LEMMA InitHasAwards == Init => AwardInv
<1> SUFFICES ASSUME Init PROVE AwardInv
  OBVIOUS
<1>1. TypeInv
  BY InitHasTypes
<1>2. OneWriter /\ CreditHeld
  BY DEF Init, InitWith, NoImage, OneWriter, CreditHeld
<1>3. CompleteWithAward
  <2>1. NoRow.status # "complete"
    BY DEF NoRow
  <2> QED  BY <2>1 DEF Init, InitWith, NoImage, CompleteWithAward, Txns
<1>4. AtMostOnce /\ CompleteIsPaid
  <2>1. \A i \in Instances : rows[i].status # "complete"
    BY DEF Init, InitWith, NewRow
  <2> QED  BY <2>1 DEF Init, InitWith, AtMostOnce, CompleteIsPaid
<1> QED  BY <1>1, <1>2, <1>3, <1>4 DEF AwardInv

(***************************************************************************)
(* Every step keeps what the awards rest on.                               *)
(***************************************************************************)
LEMMA NextKeepsAwards == AwardInv /\ [Next]_vars => AwardInv'
<1> SUFFICES ASSUME AwardInv, [Next]_vars PROVE AwardInv'
  OBVIOUS
<1>0. TypeInv'
  BY NextKeepsTypes DEF AwardInv
<1>1. ASSUME NEW s \in Sessions, Begin(s) \/ Load(s)  PROVE AwardInv'
  <2>1. PICK items : LoadFirst(s, items)
    BY <1>1 DEF Begin, Load
  <2>2. \A u \in Sessions : pc'[u] = "decided" => pc[u] = "decided"
    BY <2>1 DEF LoadFirst, AwardInv, TypeInv, TypeOK
  <2> QED  BY <1>0, <2>1, <2>2, QuietStep DEF LoadFirst, AwardInv, CompleteWithAward
<1>2. ASSUME NEW s \in Sessions, Handle(s)  PROVE AwardInv'
  BY <1>0, <1>2, HandleKeepsAwards
<1>3. ASSUME NEW s \in Sessions, Flush(s)  PROVE AwardInv'
  BY <1>0, <1>3, FlushKeepsAwards
<1>4. ASSUME NEW s \in Sessions, DuplicateEntry(s)  PROVE AwardInv'
  BY <1>0, <1>4, RollBackKeepsAwards DEF DuplicateEntry
<1>5. ASSUME NEW s \in Sessions, Commit(s)  PROVE AwardInv'
  BY <1>0, <1>5, CommitKeepsAwards
<1>6. ASSUME NEW s \in Sessions, Crash(s)  PROVE AwardInv'
  BY <1>0, <1>6, RollBackKeepsAwards DEF Crash
<1>7. CASE Nightly
  BY <1>0, <1>7, NightlyKeepsAwards
<1>8. ASSUME WorkerClose, UNCHANGED rows  PROVE AwardInv'
  <2>1. CompleteIsPaid'
    BY <1>8 DEF WorkerClose, AwardInv, CompleteIsPaid
  <2> QED  BY <1>0, <1>8, <2>1, WorkerCloseKeepsHeld DEF AwardInv
<1>9. ASSUME NEW t \in Txns, DeadlockVictim(t)  PROVE AwardInv'
  <2>1. CASE t = Worker
    BY <1>8, <1>9, <2>1 DEF DeadlockVictim
  <2>2. CASE t # Worker
    BY <1>0, <1>9, <2>2, RollBackKeepsAwards DEF DeadlockVictim, Txns
  <2> QED  BY <2>1, <2>2
<1>10. CASE Tick \/ UNCHANGED vars
  BY <1>0, <1>10, QuietStep
     DEF Tick, vars, sessionVars, workerVars, AwardInv, CompleteWithAward
<1> QED  BY <1>1, <1>2, <1>3, <1>4, <1>5, <1>6, <1>7, <1>8, <1>9, <1>10
         DEF Next, WorkerCrash

(***************************************************************************)
(* The invariant of the awards holds in every reachable state.             *)
(***************************************************************************)
LEMMA AwardsAlways == Spec => []AwardInv
BY InitHasAwards, NextKeepsAwards, PTL DEF Spec

(***************************************************************************)
(* However requests, batches, crashes and the nightly job interleave, an   *)
(* instance never has two ledger entries of the same type.                 *)
(***************************************************************************)
THEOREM AwardedAtMostOnce == Spec => []AtMostOnce
<1>1. AwardInv => AtMostOnce
  BY DEF AwardInv
<1> QED  BY <1>1, AwardsAlways, PTL

(***************************************************************************)
(* An instance that shows as complete has its task_completed entry, even   *)
(* when requests overwrite each other's status.                            *)
(***************************************************************************)
THEOREM CompleteAlwaysPaid == Spec => []CompleteIsPaid
<1>1. AwardInv => CompleteIsPaid
  BY DEF AwardInv
<1> QED  BY <1>1, AwardsAlways, PTL

-----------------------------------------------------------------------------
(***************************************************************************)
(* The ledger changes by commits alone.                                    *)
(***************************************************************************)
LEMMA OtherStepsKeepEntries ==
    ASSUME [Next]_vars, ~ \E s \in Sessions : Commit(s)
    PROVE  UNCHANGED entries
BY DEF Next, vars, sessionVars, workerVars, Begin, Load, LoadFirst, Handle, Complete,
       SubmitExcuse, Cancel, ApproveCompletion, DenyCompletion, ApproveExcuse,
       DenyExcuse, Decide, Reject, Flush, DuplicateEntry, Crash, RollBack, Nightly,
       SweepStart, SweepRow, Scan, ExpireRow, WorkerCommit, WorkerCrash, WorkerClose,
       DeadlockVictim, Tick

-----------------------------------------------------------------------------
(***************************************************************************)
(* Acceptance.  CreditedOnAcceptance needs to know what a session holds:   *)
(* the instances it has credited it leaves accepted, and none of them is   *)
(* among the items it has still to do, which could change that again.      *)
(***************************************************************************)
Accepted == {"complete", "excused"}

Distinct(items) ==
    \A j, k \in DOMAIN items : items[j].inst = items[k].inst => j = k

CreditsAccepted(s) ==
    /\ pc[s] = "idle" => credit[s] = {}
    /\ pc[s] = "decided" /\ award[s] # "none" => patch[s].status \in Accepted
    /\ \A e \in credit[s] : image[s][e[1]].status \in Accepted
    /\ \A k \in DOMAIN todo[s], e \in credit[s] : e[1] # todo[s][k].inst
    /\ Distinct(todo[s])

AcceptInv == \A s \in Sessions : CreditsAccepted(s)

(***************************************************************************)
(* A request names an instance once; what is left of it still does.        *)
(***************************************************************************)
LEMMA RequestsAreDistinct ==
    ASSUME NEW items \in Requests
    PROVE  Distinct(items)
<1>1. CASE \E item \in Item : items = <<item>>
  BY <1>1 DEF Distinct
<1>2. CASE IsBatch(items)
  BY <1>2 DEF IsBatch, Distinct
<1> QED  BY <1>1, <1>2 DEF Requests

(***************************************************************************)
(* The head of a request's items is its target, and the rest comes after   *)
(* it.                                                                     *)
(***************************************************************************)
LEMMA RestOfItems ==
    ASSUME TypeInv, NEW s \in Sessions, todo[s] # << >>
    PROVE  /\ 1 \in DOMAIN todo[s] /\ Target(s) = todo[s][1].inst
           /\ \A k \in DOMAIN Tail(todo[s]) :
                 /\ k + 1 \in DOMAIN todo[s] /\ k + 1 # 1
                 /\ Tail(todo[s])[k] = todo[s][k + 1]
           /\ Distinct(todo[s]) => Distinct(Tail(todo[s]))
<1>1. todo[s] \in Seq(Item)
  BY DEF TypeInv, TypeOK
<1>2. 1 \in DOMAIN todo[s] /\ Target(s) = todo[s][1].inst
  BY <1>1 DEF Target
<1>3. ASSUME NEW k \in DOMAIN Tail(todo[s])
      PROVE  /\ k + 1 \in DOMAIN todo[s] /\ k + 1 # 1 /\ k \in Nat
             /\ Tail(todo[s])[k] = todo[s][k + 1]
  BY <1>1
<1>4. ASSUME Distinct(todo[s]), NEW j \in DOMAIN Tail(todo[s]),
             NEW k \in DOMAIN Tail(todo[s]),
             Tail(todo[s])[j].inst = Tail(todo[s])[k].inst
      PROVE  j = k
  <2>1. j + 1 = k + 1
    BY <1>3, <1>4 DEF Distinct
  <2> QED  BY <1>3, <2>1
<1> QED  BY <1>2, <1>3, <1>4 DEF Distinct

(***************************************************************************)
(* A session that a step leaves alone still leaves accepted what it has    *)
(* credited; one that ends holds nothing.                                  *)
(***************************************************************************)
LEMMA OthersAccepted ==
    ASSUME NEW u \in Sessions, CreditsAccepted(u),
           pc'[u] = pc[u], todo'[u] = todo[u], patch'[u] = patch[u],
           award'[u] = award[u], credit'[u] = credit[u], image'[u] = image[u]
    PROVE  CreditsAccepted(u)'
BY DEF CreditsAccepted, Distinct

(***************************************************************************)
(* A session that ends holds no credit, and takes none from another.       *)
(***************************************************************************)
LEMMA CloseAccepted ==
    ASSUME TypeInv, AcceptInv, NEW s \in Sessions, Close(s)
    PROVE  AcceptInv'
<1>1. s \in Txns /\ \A u \in Sessions : u \in Txns
  BY DEF Txns
<1>2. CreditsAccepted(s)'
  <2>1. pc'[s] = "idle" /\ credit'[s] = {} /\ todo'[s] = << >>
    BY DEF Close, TypeInv, TypeOK
  <2> QED  BY <2>1 DEF CreditsAccepted, Distinct
<1>3. ASSUME NEW u \in Sessions, u # s  PROVE CreditsAccepted(u)'
  <2>1. /\ pc'[u] = pc[u] /\ todo'[u] = todo[u] /\ patch'[u] = patch[u]
        /\ award'[u] = award[u] /\ credit'[u] = credit[u] /\ image'[u] = image[u]
    BY <1>1, <1>3 DEF Close, TypeInv, TypeOK
  <2> QED  BY <2>1, OthersAccepted DEF AcceptInv
<1> QED  BY <1>2, <1>3 DEF AcceptInv

(***************************************************************************)
(* Only a verdict that accepts comes with an award.                        *)
(***************************************************************************)
LEMMA DecideAccepted ==
    ASSUME TypeInv, AcceptInv, NEW s \in Sessions, NEW p, NEW a, Decide(s, p, a),
           pc[s] = "loaded", a # "none" => p.status \in Accepted
    PROVE  AcceptInv'
<1>1. CreditsAccepted(s)'
  <2>1. /\ pc'[s] = "decided" /\ patch'[s] = p /\ award'[s] = a
        /\ todo' = todo /\ credit' = credit /\ image' = image
    BY DEF Decide, TypeInv, TypeOK
  <2> QED  BY <2>1 DEF AcceptInv, CreditsAccepted, Distinct
<1>2. ASSUME NEW u \in Sessions, u # s  PROVE CreditsAccepted(u)'
  <2>1. /\ pc'[u] = pc[u] /\ todo'[u] = todo[u] /\ patch'[u] = patch[u]
        /\ award'[u] = award[u] /\ credit'[u] = credit[u] /\ image'[u] = image[u]
    BY <1>2 DEF Decide, TypeInv, TypeOK
  <2> QED  BY <2>1, OthersAccepted DEF AcceptInv
<1> QED  BY <1>1, <1>2 DEF AcceptInv

(***************************************************************************)
(* A handler decides on an award only with a status that accepts.          *)
(***************************************************************************)
LEMMA HandleAccepted ==
    ASSUME TypeInv, AcceptInv, NEW s \in Sessions, Handle(s)
    PROVE  AcceptInv'
<1>1. CASE Complete(s)
  <2>1. PICK requiresReview \in BOOLEAN :
          Decide(s, CompletePatch(requiresReview),
                 IF requiresReview THEN "none" ELSE "task_completed")
    BY <1>1 DEF Complete
  <2>2. ~ requiresReview => CompletePatch(requiresReview).status = "complete"
    BY DEF CompletePatch, SetStatus
  <2> QED  BY <1>1, <2>1, <2>2, DecideAccepted DEF Complete, Handling, Accepted
<1>2. CASE ApproveCompletion(s)
  <2>1. SetStatus("complete").status = "complete"
    BY DEF SetStatus
  <2> QED  BY <1>2, <2>1, DecideAccepted DEF ApproveCompletion, Handling, Accepted
<1>3. CASE ApproveExcuse(s)
  <2>1. SetStatus("excused").status = "excused"
    BY DEF SetStatus
  <2> QED  BY <1>3, <2>1, DecideAccepted DEF ApproveExcuse, Handling, Accepted
<1>4. CASE SubmitExcuse(s)
  BY <1>4, DecideAccepted DEF SubmitExcuse, Handling
<1>5. CASE Cancel(s)
  BY <1>5, DecideAccepted DEF Cancel, Handling
<1>6. CASE DenyCompletion(s)
  BY <1>6, DecideAccepted DEF DenyCompletion, Handling
<1>7. CASE DenyExcuse(s)
  BY <1>7, DecideAccepted DEF DenyExcuse, Handling
<1>8. CASE Reject(s)
  <2>1. todo[s] # << >>
    BY <1>8 DEF Reject, TypeInv, HasItem
  <2>2. /\ pc'[s] = "next" /\ todo'[s] = Tail(todo[s]) /\ credit' = credit
        /\ image' = image /\ patch' = patch /\ award' = award
    BY <1>8 DEF Reject, TypeInv, TypeOK
  <2>3. CreditsAccepted(s)'
    BY <2>1, <2>2, RestOfItems DEF AcceptInv, CreditsAccepted
  <2>4. ASSUME NEW u \in Sessions, u # s  PROVE CreditsAccepted(u)'
    <3>1. pc'[u] = pc[u] /\ todo'[u] = todo[u]
      BY <1>8, <2>4 DEF Reject, TypeInv, TypeOK
    <3> QED  BY <2>2, <3>1, OthersAccepted DEF AcceptInv
  <2> QED  BY <2>3, <2>4 DEF AcceptInv
<1> QED  BY <1>1, <1>2, <1>3, <1>4, <1>5, <1>6, <1>7, <1>8 DEF Handle

(***************************************************************************)
(* A flush writes the version that goes with its award, and no item is     *)
(* left that could write another.                                          *)
(***************************************************************************)
LEMMA FlushAccepted ==
    ASSUME TypeInv, AcceptInv, NEW s \in Sessions, Flush(s)
    PROVE  AcceptInv'
<1> DEFINE i == Target(s)
           due == IF award[s] = "none" THEN {} ELSE {<<i, award[s]>>}
<1>1. todo[s] # << >> /\ i \in Instances /\ s \in Txns /\ \A u \in Sessions : u \in Txns
  BY ItemTypes DEF TypeInv, HasItem, Flush, Txns
<1>2. i = todo[s][1].inst /\ 1 \in DOMAIN todo[s]
  BY <1>1, RestOfItems
<1>3. /\ image' = [image EXCEPT ![s][i] = Apply(rows[i], patch[s])]
      /\ credit' = [credit EXCEPT ![s] = @ \cup due]
      /\ pc[s] = "decided" /\ pc'[s] = "next" /\ todo'[s] = Tail(todo[s])
  BY DEF Flush, TypeInv, TypeOK
<1>4. Apply(rows[i], patch[s]).status = patch[s].status
  BY DEF Apply
<1> HIDE DEF i
<1>5. /\ image'[s][i].status = patch[s].status
      /\ \A j \in Instances : j # i => image'[s][j] = image[s][j]
      /\ credit'[s] = credit[s] \cup due
  BY <1>1, <1>3, <1>4 DEF TypeInv, TypeOK
<1>6. ASSUME NEW e \in credit'[s]  PROVE image'[s][e[1]].status \in Accepted
  <2>1. CASE e \in credit[s]
    <3>1. e[1] # i /\ e[1] \in Instances
      BY <1>2, <2>1 DEF AcceptInv, CreditsAccepted, TypeInv, TypeOK
    <3> QED  BY <1>5, <2>1, <3>1 DEF AcceptInv, CreditsAccepted
  <2>2. CASE e \notin credit[s]
    <3>1. award[s] # "none" /\ e[1] = i
      BY <1>5, <2>2
    <3> QED  BY <1>3, <1>5, <3>1 DEF AcceptInv, CreditsAccepted
  <2> QED  BY <2>1, <2>2
<1>7. ASSUME NEW k \in DOMAIN Tail(todo[s]), NEW e \in credit'[s]
      PROVE  e[1] # Tail(todo[s])[k].inst
  <2>1. k + 1 \in DOMAIN todo[s] /\ k + 1 # 1 /\ Tail(todo[s])[k] = todo[s][k + 1]
    BY <1>1, RestOfItems
  <2>2. CASE e \in credit[s]
    BY <2>1, <2>2 DEF AcceptInv, CreditsAccepted
  <2>3. CASE e \notin credit[s]
    <3>1. e[1] = todo[s][1].inst
      BY <1>2, <1>5, <2>3
    <3>2. Distinct(todo[s])
      BY DEF AcceptInv, CreditsAccepted
    <3> QED  BY <1>2, <2>1, <3>1, <3>2 DEF Distinct
  <2> QED  BY <2>2, <2>3
<1>8. Distinct(Tail(todo[s]))
  BY <1>1, RestOfItems DEF AcceptInv, CreditsAccepted
<1>9. CreditsAccepted(s)'
  BY <1>3, <1>6, <1>7, <1>8 DEF CreditsAccepted, Distinct
<1>10. ASSUME NEW u \in Sessions, u # s  PROVE CreditsAccepted(u)'
  <2>1. /\ pc'[u] = pc[u] /\ todo'[u] = todo[u] /\ patch'[u] = patch[u]
        /\ award'[u] = award[u] /\ credit'[u] = credit[u] /\ image'[u] = image[u]
    BY <1>1, <1>3, <1>10 DEF Flush, TypeInv, TypeOK
  <2> QED  BY <2>1, OthersAccepted DEF AcceptInv
<1> QED  BY <1>9, <1>10 DEF AcceptInv

(***************************************************************************)
(* The nightly job touches no session.                                     *)
(***************************************************************************)
LEMMA WorkerAccepted ==
    ASSUME TypeInv, AcceptInv, Nightly \/ WorkerClose
    PROVE  AcceptInv'
<1>1. \A u \in Sessions : u \in Txns /\ u # Worker
  BY RequestsAssumption DEF Txns
<1>2. UNCHANGED sessionVars /\ \A u \in Sessions : image'[u] = image[u]
  BY <1>1 DEF Nightly, WorkerClose, SweepStart, SweepRow, Scan, ExpireRow,
     WorkerCommit, TypeInv, TypeOK
<1>3. ASSUME NEW u \in Sessions  PROVE CreditsAccepted(u)'
  BY <1>2, OthersAccepted DEF AcceptInv, sessionVars
<1> QED  BY <1>3 DEF AcceptInv

(***************************************************************************)
(* A request that begins names an instance once, and the next item of a    *)
(* batch is not one that has been credited.                                *)
(***************************************************************************)
LEMMA LoadAccepted ==
    ASSUME TypeInv, AcceptInv, NEW s \in Sessions, Begin(s) \/ Load(s)
    PROVE  AcceptInv'
<1>1. PICK items : /\ LoadFirst(s, items) /\ Distinct(items)
                   /\ credit[s] = {} \/ items = todo[s]
  BY RequestsAreDistinct DEF Begin, Load, AcceptInv, CreditsAccepted
<1>2. CreditsAccepted(s)'
  <2>1. /\ pc'[s] = "loaded" /\ todo'[s] = items
        /\ credit' = credit /\ image' = image
    BY <1>1 DEF LoadFirst, TypeInv, TypeOK
  <2> QED  BY <1>1, <2>1 DEF AcceptInv, CreditsAccepted, Distinct
<1>3. ASSUME NEW u \in Sessions, u # s  PROVE CreditsAccepted(u)'
  <2>1. /\ pc'[u] = pc[u] /\ todo'[u] = todo[u] /\ patch'[u] = patch[u]
        /\ award'[u] = award[u] /\ credit'[u] = credit[u] /\ image'[u] = image[u]
    BY <1>1, <1>3 DEF LoadFirst, TypeInv, TypeOK
  <2> QED  BY <2>1, OthersAccepted DEF AcceptInv
<1> QED  BY <1>2, <1>3 DEF AcceptInv

(***************************************************************************)
(* Every step leaves what a session has credited accepted in its version.  *)
(***************************************************************************)
LEMMA NextAccepted == TypeInv /\ AcceptInv /\ [Next]_vars => AcceptInv'
<1> SUFFICES ASSUME TypeInv, AcceptInv, [Next]_vars PROVE AcceptInv'
  OBVIOUS
<1>1. ASSUME NEW s \in Sessions, Begin(s) \/ Load(s)  PROVE AcceptInv'
  BY <1>1, LoadAccepted
<1>2. ASSUME NEW s \in Sessions, Handle(s)  PROVE AcceptInv'
  BY <1>2, HandleAccepted
<1>3. ASSUME NEW s \in Sessions, Flush(s)  PROVE AcceptInv'
  BY <1>3, FlushAccepted
<1>4. ASSUME NEW s \in Sessions, DuplicateEntry(s) \/ Commit(s) \/ Crash(s)
      PROVE  AcceptInv'
  BY <1>4, CloseAccepted DEF DuplicateEntry, Commit, Crash, RollBack
<1>5. CASE Nightly \/ WorkerCrash
  BY <1>5, WorkerAccepted DEF WorkerCrash
<1>6. ASSUME NEW t \in Txns, DeadlockVictim(t)  PROVE AcceptInv'
  BY <1>6, WorkerAccepted, CloseAccepted DEF DeadlockVictim, RollBack, Txns
<1>7. CASE Tick \/ UNCHANGED vars
  <2>1. UNCHANGED <<sessionVars, image>>
    BY <1>7 DEF Tick, vars
  <2> QED  BY <2>1, OthersAccepted DEF AcceptInv, sessionVars
<1> QED  BY <1>1, <1>2, <1>3, <1>4, <1>5, <1>6, <1>7 DEF Next

(***************************************************************************)
(* At first no session holds a credit.                                     *)
(***************************************************************************)
LEMMA InitAccepted == Init => AcceptInv
BY DEF Init, InitWith, AcceptInv, CreditsAccepted, Distinct

(***************************************************************************)
(* For any number of requests, batches of any length and whatever the      *)
(* nightly job does: the commit that credits points for an instance leaves *)
(* it complete or excused.                                                 *)
(***************************************************************************)
THEOREM CreditsOnlyOnAcceptance == Spec => CreditedOnAcceptance
<1>1. AwardInv /\ AcceptInv /\ [Next]_vars
         => [\A i \in Instances, t \in AwardType :
                entries'[i][t] > entries[i][t]
                    => rows'[i].status \in {"complete", "excused"}]_vars
  <2> SUFFICES ASSUME AwardInv, AcceptInv, [Next]_vars,
                      NEW i \in Instances, NEW t \in AwardType,
                      entries'[i][t] > entries[i][t]
               PROVE  rows'[i].status \in {"complete", "excused"}
    OBVIOUS
  <2>1. entries[i][t] \in Nat
    BY DEF AwardInv, TypeInv, TypeOK
  <2>2. entries' # entries
    BY <2>1
  <2>3. PICK s \in Sessions : Commit(s)
    BY <2>2, OtherStepsKeepEntries
  <2>4. <<i, t>> \in credit[s]
    BY <2>1, <2>3, CommittedEntries
  <2>5. image[s][i] # NoRow
    BY <2>4 DEF AwardInv, CreditHeld
  <2>6. rows'[i] = image[s][i]
    BY <2>3, <2>5 DEF Commit, WithImage
  <2>7. <<i, t>>[1] = i
    OBVIOUS
  <2>8. image[s][i].status \in Accepted
    BY <2>4, <2>7 DEF AcceptInv, CreditsAccepted
  <2> QED  BY <2>6, <2>8 DEF Accepted
<1>2. AwardInv => TypeInv
  BY DEF AwardInv
<1> QED  BY <1>1, <1>2, InitAccepted, NextAccepted, AwardsAlways, PTL
         DEF Spec, CreditedOnAcceptance
-----------------------------------------------------------------------------
(***************************************************************************)
(* Refinement of AwardLedger.  An award that a service has decided on is   *)
(* asked of the ledger; it is inserted with the flush, and enters the      *)
(* ledger with the commit.  A session asks only between its decision and   *)
(* its flush.                                                              *)
(***************************************************************************)
AskedWhenDecided == \A s \in Sessions : award[s] # "none" => pc[s] = "decided"

LedgerInv == AwardInv /\ AcceptInv /\ AskedWhenDecided

(***************************************************************************)
(* Only a decision brings an award, and the session that has it does       *)
(* nothing else with it but flush it or roll back.                         *)
(***************************************************************************)
LEMMA NextAsksWhenDecided ==
    ASSUME TypeInv, AskedWhenDecided, [Next]_vars
    PROVE  AskedWhenDecided'
<1>1. ASSUME NEW s \in Sessions, Begin(s) \/ Load(s)  PROVE AskedWhenDecided'
  BY <1>1 DEF Begin, Load, LoadFirst, AskedWhenDecided, TypeInv, TypeOK
<1>2. ASSUME NEW s \in Sessions, Handle(s)  PROVE AskedWhenDecided'
  <2>1. \/ Reject(s)
        \/ \E p, a : Decide(s, p, a)
    BY <1>2 DEF Handle, Complete, SubmitExcuse, Cancel, ApproveCompletion,
       DenyCompletion, ApproveExcuse, DenyExcuse
  <2>2. CASE Reject(s)
    BY <2>2 DEF Reject, AskedWhenDecided, TypeInv, TypeOK
  <2>3. CASE \E p, a : Decide(s, p, a)
    BY <2>3 DEF Decide, AskedWhenDecided, TypeInv, TypeOK
  <2> QED  BY <2>1, <2>2, <2>3
<1>3. ASSUME NEW s \in Sessions, Flush(s)  PROVE AskedWhenDecided'
  BY <1>3 DEF Flush, AskedWhenDecided, TypeInv, TypeOK
<1>4. ASSUME NEW s \in Sessions, Close(s)  PROVE AskedWhenDecided'
  BY <1>4 DEF Close, AskedWhenDecided, TypeInv, TypeOK
<1>5. CASE UNCHANGED sessionVars
  BY <1>5 DEF sessionVars, AskedWhenDecided
<1>6. Nightly \/ WorkerClose \/ Tick \/ UNCHANGED vars => UNCHANGED sessionVars
  BY DEF Nightly, WorkerClose, SweepStart, SweepRow, Scan, ExpireRow, WorkerCommit,
     Tick, vars
<1>7. ASSUME NEW t \in Txns, DeadlockVictim(t)  PROVE AskedWhenDecided'
  BY <1>4, <1>5, <1>6, <1>7 DEF DeadlockVictim, RollBack, Txns
<1> QED  BY <1>1, <1>2, <1>3, <1>4, <1>5, <1>6, <1>7
         DEF Next, DuplicateEntry, Commit, Crash, RollBack, WorkerCrash

(***************************************************************************)
(* A session that a step leaves alone asks for the same entry.             *)
(***************************************************************************)
LEMMA AsksTheSame ==
    ASSUME NEW u \in Sessions, award'[u] = award[u],
           award[u] # "none" => todo'[u] = todo[u]
    PROVE  AskedEntry'[u] = AskedEntry[u]
<1>1. CASE award[u] = "none"
  BY <1>1 DEF AskedEntry
<1>2. CASE award[u] # "none"
  BY <1>2 DEF AskedEntry, Target
<1> QED  BY <1>1, <1>2

(***************************************************************************)
(* A step that leaves every award, and the items of every session that has *)
(* one, asks for nothing new.                                              *)
(***************************************************************************)
LEMMA AsksNothingNew ==
    ASSUME \A u \in Sessions : award'[u] = award[u],
           \A u \in Sessions : award[u] # "none" => todo'[u] = todo[u]
    PROVE  UNCHANGED AskedEntry
<1>1. \A u \in Sessions : AskedEntry'[u] = AskedEntry[u]
  BY AsksTheSame
<1>2. /\ AskedEntry = [u \in Sessions |-> AskedEntry[u]]
      /\ AskedEntry' = [u \in Sessions |-> AskedEntry'[u]]
  BY DEF AskedEntry
<1> HIDE DEF AskedEntry
<1> QED  BY <1>1, <1>2

(***************************************************************************)
(* A step of session s that leaves the others alone changes what is asked  *)
(* at s alone.                                                             *)
(***************************************************************************)
LEMMA AskedExcept ==
    ASSUME NEW s \in Sessions, NEW new, AskedEntry'[s] = new,
           \A u \in Sessions \ {s} : award'[u] = award[u] /\ todo'[u] = todo[u]
    PROVE  AskedEntry' = [AskedEntry EXCEPT ![s] = new]
<1>1. \A u \in Sessions \ {s} : AskedEntry'[u] = AskedEntry[u]
  BY AsksTheSame
<1>2. /\ AskedEntry = [u \in Sessions |-> AskedEntry[u]]
      /\ AskedEntry' = [u \in Sessions |-> AskedEntry'[u]]
  BY DEF AskedEntry
<1> HIDE DEF AskedEntry
<1> QED  BY <1>1, <1>2

(***************************************************************************)
(* A decision asks for the award that goes with it, if there is one.       *)
(***************************************************************************)
LEMMA DecideAsks ==
    ASSUME LedgerInv, NEW s \in Sessions, NEW p, NEW a \in AwardType \cup {"none"},
           pc[s] = "loaded", Decide(s, p, a)
    PROVE  [Awards!LedgerNext]_<<entries, AskedEntry, credit>>
<1>1. /\ award' = [award EXCEPT ![s] = a] /\ award \in [Sessions -> AwardType \cup {"none"}]
      /\ UNCHANGED <<entries, todo, credit>>
  BY DEF Decide, LedgerInv, AwardInv, TypeInv, TypeOK
<1>2. award[s] = "none" /\ Target(s) \in Instances
  BY ItemTypes DEF LedgerInv, AskedWhenDecided, AwardInv, TypeInv, HasItem
<1>3. CASE a = "none"
  <2>1. \A u \in Sessions : award'[u] = award[u] /\ todo'[u] = todo[u]
    BY <1>1, <1>2, <1>3
  <2> QED  BY <1>1, <2>1, AsksNothingNew
<1>4. CASE a # "none"
  <2> DEFINE e == <<Target(s), a>>
  <2>1. e \in Awards!Entries
    BY <1>2, <1>4 DEF Awards!Entries
  <2>2. AskedEntry[s] = {}
    BY <1>2 DEF AskedEntry
  <2>3. AskedEntry'[s] = {e}
    BY <1>1, <1>4 DEF AskedEntry, Target
  <2>4. \A u \in Sessions \ {s} : award'[u] = award[u] /\ todo'[u] = todo[u]
    BY <1>1
  <2>5. AskedEntry' = [AskedEntry EXCEPT ![s] = {e}]
    BY <2>3, <2>4, AskedExcept
  <2> HIDE DEF e
  <2>6. Awards!Ask(s, e)
    BY <1>1, <2>2, <2>5 DEF Awards!Ask
  <2> QED  BY <2>1, <2>6 DEF Awards!LedgerNext
<1> QED  BY <1>3, <1>4

(***************************************************************************)
(* Every method of the service asks for an award or for nothing; what is   *)
(* rejected had not asked.                                                 *)
(***************************************************************************)
LEMMA HandleAsks ==
    ASSUME LedgerInv, NEW s \in Sessions, Handle(s)
    PROVE  [Awards!LedgerNext]_<<entries, AskedEntry, credit>>
<1>1. CASE Reject(s)
  <2>1. award[s] = "none" /\ UNCHANGED <<entries, award, credit>>
    BY <1>1 DEF Reject, LedgerInv, AskedWhenDecided
  <2>2. \A u \in Sessions : u # s => todo'[u] = todo[u]
    BY <1>1 DEF Reject, LedgerInv, AwardInv, TypeInv, TypeOK
  <2> QED  BY <2>1, <2>2, AsksNothingNew
<1>2. CASE ~ Reject(s)
  <2>1. pc[s] = "loaded" /\ \E p : \E a \in AwardType \cup {"none"} : Decide(s, p, a)
    <3>1. CASE Complete(s)
      BY <3>1 DEF Complete, Handling, AwardType
    <3>2. CASE ApproveCompletion(s)
      BY <3>2 DEF ApproveCompletion, Handling, AwardType
    <3>3. CASE ApproveExcuse(s)
      BY <3>3, ExcuseAwardType DEF ApproveExcuse, Handling
    <3>4. CASE SubmitExcuse(s) \/ Cancel(s) \/ DenyCompletion(s) \/ DenyExcuse(s)
      BY <3>4 DEF SubmitExcuse, Cancel, DenyCompletion, DenyExcuse, Handling
    <3> QED  BY <1>2, <3>1, <3>2, <3>3, <3>4 DEF Handle
  <2> QED  BY <2>1, DecideAsks
<1> QED  BY <1>1, <1>2

(***************************************************************************)
(* A flush with an award inserts what its session asked for: nobody has    *)
(* inserted it and the ledger does not hold it.                            *)
(***************************************************************************)
LEMMA FlushInserts ==
    ASSUME LedgerInv, NEW s \in Sessions, Flush(s)
    PROVE  [Awards!LedgerNext]_<<entries, AskedEntry, credit>>
<1> DEFINE i == Target(s)
           e == <<i, award[s]>>
<1>1. /\ todo[s] # << >> /\ i \in Instances /\ 1 \in DOMAIN todo[s]
      /\ i = todo[s][1].inst
  BY ItemTypes, RestOfItems DEF LedgerInv, AwardInv, TypeInv, HasItem, Flush
<1>2. /\ award' = [award EXCEPT ![s] = "none"]
      /\ award \in [Sessions -> AwardType \cup {"none"}]
      /\ credit \in [Sessions -> SUBSET (Instances \X AwardType)]
      /\ credit' = [credit EXCEPT ![s] =
            @ \cup (IF award[s] = "none" THEN {} ELSE {e})]
      /\ award[s] # "none" => ~ Recorded(i, award[s])
      /\ \A u \in Txns \ {s} : image[u][i] = NoRow
      /\ entries' = entries
      /\ \A u \in Sessions \ {s} : todo'[u] = todo[u]
  BY DEF Flush, LedgerInv, AwardInv, TypeInv, TypeOK, CanLock, LockedByOther
<1>3. \A u \in Sessions \ {s} : award'[u] = award[u] /\ todo'[u] = todo[u]
  BY <1>2
<1>4. CASE award[s] = "none"
  <2>1. UNCHANGED AskedEntry
    BY <1>2, <1>3, <1>4, AsksNothingNew
  <2>2. UNCHANGED credit
    BY <1>2, <1>4
  <2> QED  BY <1>2, <2>1, <2>2
<1>5. CASE award[s] # "none"
  <2>1. award[s] \in AwardType
    BY <1>2, <1>5
  <2>2. AskedEntry[s] = {e}
    BY <1>5 DEF AskedEntry
  <2>3. AskedEntry'[s] = {}
    BY <1>2 DEF AskedEntry
  <2>4. AskedEntry' = [AskedEntry EXCEPT ![s] = {}]
    BY <1>3, <2>3, AskedExcept
  <2>5. e \notin credit[s]
    <3>1. \A f \in credit[s] : f[1] # i
      BY <1>1 DEF LedgerInv, AcceptInv, CreditsAccepted
    <3> QED  BY <3>1
  <2>6. ASSUME NEW v \in Sessions, e \in credit[v]  PROVE FALSE
    <3>1. v \in Txns
      BY DEF Txns
    <3>2. image[v][i] # NoRow
      BY <1>1, <2>1, <2>6 DEF LedgerInv, AwardInv, CreditHeld
    <3> QED  BY <1>2, <2>5, <2>6, <3>1, <3>2
  <2>7. entries[i][award[s]] = 0
    BY <1>1, <1>2, <1>5, <2>1 DEF Recorded, LedgerInv, AwardInv, TypeInv, TypeOK
  <2>8. e \in Awards!Entries /\ entries[e[1]][e[2]] = 0
    BY <1>1, <2>1, <2>7 DEF Awards!Entries
  <2>9. credit' = [credit EXCEPT ![s] = @ \cup {e}]
    BY <1>2, <1>5
  <2> HIDE DEF e, i
  <2>10. Awards!Insert(s, e)
    BY <1>2, <2>2, <2>4, <2>6, <2>8, <2>9 DEF Awards!Insert
  <2> QED  BY <2>8, <2>10 DEF Awards!LedgerNext
<1> QED  BY <1>4, <1>5

(***************************************************************************)
(* A session that ends asks for nothing, and holds no credit.              *)
(***************************************************************************)
LEMMA CloseDropsAsked ==
    ASSUME LedgerInv, NEW s \in Sessions, Close(s)
    PROVE  /\ AskedEntry' = [AskedEntry EXCEPT ![s] = {}]
           /\ credit' = [credit EXCEPT ![s] = {}]
<1>1. award'[s] = "none"
      /\ \A u \in Sessions \ {s} : award'[u] = award[u] /\ todo'[u] = todo[u]
  BY DEF Close, LedgerInv, AwardInv, TypeInv, TypeOK
<1>2. AskedEntry'[s] = {}
  BY <1>1 DEF AskedEntry
<1> QED  BY <1>1, <1>2, AskedExcept DEF Close

(***************************************************************************)
(* A commit enters all that its session inserted, and nothing else.        *)
(***************************************************************************)
LEMMA CommitEnters ==
    ASSUME LedgerInv, NEW s \in Sessions, Commit(s)
    PROVE  Awards!LedgerNext
<1>1. award[s] = "none"
  BY DEF Commit, LedgerInv, AskedWhenDecided
<1>2. AskedEntry[s] = {}
  BY <1>1 DEF AskedEntry
<1>3. AskedEntry' = [AskedEntry EXCEPT ![s] = {}] /\ credit' = [credit EXCEPT ![s] = {}]
  BY CloseDropsAsked DEF Commit
<1>4. UNCHANGED AskedEntry
  BY <1>2, <1>3 DEF AskedEntry
<1>5. entries' = [i \in Instances |-> [t \in AwardType |->
                     IF <<i, t>> \in credit[s] THEN 1 ELSE entries[i][t]]]
  <2>1. \A i \in Instances, type \in AwardType :
           entries[i][type] + (IF <<i, type>> \in credit[s] THEN 1 ELSE 0) =
           IF <<i, type>> \in credit[s] THEN 1 ELSE entries[i][type]
    <3> TAKE i \in Instances, type \in AwardType
    <3>1. entries[i][type] \in Nat
      BY DEF LedgerInv, AwardInv, TypeInv, TypeOK
    <3>2. <<i, type>> \in credit[s] => entries[i][type] = 0
      BY DEF LedgerInv, AwardInv, CreditHeld
    <3> QED  BY <3>1, <3>2
  <2>2. entries' = WithCredit(s)
    BY DEF Commit
  <2> QED  BY <2>1, <2>2 DEF WithCredit
<1>6. Awards!CommitAll(s)
  BY <1>2, <1>3, <1>4, <1>5 DEF Awards!CommitAll
<1> QED  BY <1>6 DEF Awards!LedgerNext

(***************************************************************************)
(* A rollback leaves the ledger as it was, and drops what its session had  *)
(* inserted.                                                               *)
(***************************************************************************)
LEMMA RollBackAborts ==
    ASSUME LedgerInv, NEW s \in Sessions, RollBack(s)
    PROVE  Awards!LedgerNext
BY CloseDropsAsked DEF RollBack, Awards!Abort, Awards!LedgerNext

(***************************************************************************)
(* Every step of the sessions is one of the ledger's transactions, or      *)
(* leaves them alone.                                                      *)
(***************************************************************************)
LEMMA NextImplementsLedger ==
    ASSUME LedgerInv, [Next]_vars
    PROVE  [Awards!LedgerNext]_<<entries, AskedEntry, credit>>
<1>1. ASSUME NEW s \in Sessions, Begin(s) \/ Load(s)
      PROVE  UNCHANGED <<entries, AskedEntry, credit>>
  <2>1. award[s] = "none"
    BY <1>1 DEF Begin, Load, LedgerInv, AskedWhenDecided
  <2>2. UNCHANGED <<entries, award, credit>> /\ \A u \in Sessions \ {s} : todo'[u] = todo[u]
    BY <1>1 DEF Begin, Load, LoadFirst, LedgerInv, AwardInv, TypeInv, TypeOK
  <2>3. \A u \in Sessions : award'[u] = award[u]
    BY <2>2
  <2>4. \A u \in Sessions : award[u] # "none" => todo'[u] = todo[u]
    BY <2>1, <2>2
  <2> QED  BY <2>2, <2>3, <2>4, AsksNothingNew
<1>2. ASSUME NEW s \in Sessions, Handle(s)
      PROVE  [Awards!LedgerNext]_<<entries, AskedEntry, credit>>
  BY <1>2, HandleAsks
<1>3. ASSUME NEW s \in Sessions, Flush(s)
      PROVE  [Awards!LedgerNext]_<<entries, AskedEntry, credit>>
  BY <1>3, FlushInserts
<1>4. ASSUME NEW s \in Sessions, RollBack(s)  PROVE Awards!LedgerNext
  BY <1>4, RollBackAborts
<1>5. ASSUME NEW s \in Sessions, Commit(s)  PROVE Awards!LedgerNext
  BY <1>5, CommitEnters
<1>6. Nightly \/ WorkerClose \/ Tick \/ UNCHANGED vars
         => UNCHANGED <<entries, sessionVars>>
  BY DEF Nightly, WorkerClose, SweepStart, SweepRow, Scan, ExpireRow, WorkerCommit,
     Tick, vars
<1>7. ASSUME UNCHANGED <<entries, sessionVars>>
      PROVE  UNCHANGED <<entries, AskedEntry, credit>>
  BY <1>7, AsksNothingNew DEF sessionVars
<1>8. ASSUME NEW t \in Txns, DeadlockVictim(t)
      PROVE  Awards!LedgerNext \/ UNCHANGED <<entries, AskedEntry, credit>>
  BY <1>4, <1>6, <1>7, <1>8 DEF DeadlockVictim, Txns
<1> QED  BY <1>1, <1>2, <1>3, <1>4, <1>5, <1>6, <1>7, <1>8
         DEF Next, DuplicateEntry, Crash, WorkerCrash

(***************************************************************************)
(* The concurrent sessions implement the ledger's promise: append-only,    *)
(* every award once, the awards of a batch together at its commit, and     *)
(* none of them when one is refused.                                       *)
(***************************************************************************)
THEOREM LedgerRefinement == Spec => ImplementsAwardLedger
<1>1. Init => Awards!LedgerInit
  BY DEF Init, InitWith, AskedEntry, Awards!LedgerInit
<1>2. LedgerInv /\ [Next]_vars => [Awards!LedgerNext]_Awards!ledgerVars
  BY NextImplementsLedger DEF Awards!ledgerVars
<1>3. Init => LedgerInv
  <2>1. Init => AskedWhenDecided
    BY DEF Init, InitWith, AskedWhenDecided
  <2> QED  BY <2>1, InitHasAwards, InitAccepted DEF LedgerInv
<1>4. LedgerInv /\ [Next]_vars => LedgerInv'
  BY NextKeepsAwards, NextAccepted, NextAsksWhenDecided DEF LedgerInv, AwardInv
<1>5. Spec => []LedgerInv
  BY <1>3, <1>4, PTL DEF Spec
<1> QED  BY <1>1, <1>2, <1>5, PTL DEF Spec, Awards!LedgerSpec, ImplementsAwardLedger
=============================================================================
