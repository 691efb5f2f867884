--------------------------- MODULE AccountsProofs ---------------------------
(***************************************************************************)
(* Proofs about Accounts for any members, emails, names, codes and         *)
(* sessions, and any number of failures.                                   *)
(***************************************************************************)
EXTENDS Accounts, FiniteSetTheorems, TLAPS

-----------------------------------------------------------------------------
(***************************************************************************)
(* Type correctness.  What a session writes depends on where it is: an     *)
(* INSERT has a whole row, and a redemption has an email.                  *)
(***************************************************************************)
Busy(s) == pc[s] # "idle"
Writing(s) == pc[s] \in {"inserted", "updated", "told"}

CallTypes == \A s \in Sessions :
    /\ Busy(s) => call[s].member \in Members
    /\ pc[s] \in RedeemSteps => call[s].email \in Emails
    /\ pc[s] \in RedeemSteps \cup {"index"} => call[s].code \in Codes
    /\ pc[s] \in InsertSteps \cup {"update", "updated", "told"} => copy[s] \in Row

TypeInv == TypeOK /\ CallTypes

(***************************************************************************)
(* The initial state is well typed.                                        *)
(***************************************************************************)
LEMMA TypeInit == Init => TypeInv
<1> SUFFICES ASSUME Init  PROVE TypeInv
  OBVIOUS
<1>1. call \in [Sessions -> [member : Members \cup {None}, email : Emails \cup {None},
                             code : Codes \cup {None}]]
  BY DEF Init, NoCall
<1>2. failures \in 0..MaxFailures
  BY AccountsAssumption DEF Init
<1>3. TypeOK
  BY <1>1, <1>2 DEF Init, TypeOK
<1>4. CallTypes
  BY DEF Init, CallTypes, Busy, RedeemSteps, InsertSteps
<1> QED  BY <1>3, <1>4 DEF TypeInv

(***************************************************************************)
(* The calls that sessions work on.                                        *)
(***************************************************************************)
Call == [member : Members \cup {None}, email : Emails \cup {None},
         code : Codes \cup {None}]

Label == {"idle", "remove"} \cup CodeSteps \cup RedeemSteps \cup InsertSteps

SessionTypes ==
    /\ pc \in [Sessions -> Label]
    /\ call \in [Sessions -> Call]
    /\ copy \in [Sessions -> Row \cup {NoRow}]
    /\ CallTypes

(***************************************************************************)
(* A session that opens or closes keeps the types.                         *)
(***************************************************************************)
LEMMA OpenTypes ==
    ASSUME TypeInv, NEW s \in Sessions, NEW label \in Label, NEW c \in Call,
           NEW new \in Row \cup {NoRow}, Open(s, label, c, new),
           c.member \in Members,
           label \in RedeemSteps => c.email \in Emails,
           label \in RedeemSteps \cup {"index"} => c.code \in Codes,
           label \in InsertSteps \cup {"update", "updated", "told"} => new \in Row
    PROVE  SessionTypes'
<1>1. /\ pc' \in [Sessions -> Label] /\ call' \in [Sessions -> Call]
      /\ copy' \in [Sessions -> Row \cup {NoRow}]
  BY DEF TypeInv, TypeOK, Open, Goto, Label, Call
<1>2. CallTypes'
  BY <1>1 DEF TypeInv, TypeOK, CallTypes, Busy, Open, Goto
<1> QED  BY <1>1, <1>2 DEF SessionTypes

(***************************************************************************)
(* Closing a session keeps the types.                                      *)
(***************************************************************************)
LEMMA CloseTypes ==
    ASSUME TypeInv, NEW s \in Sessions, Close(s)
    PROVE  SessionTypes'
<1>1. NoCall \in Call
  BY DEF NoCall, Call
<1>2. /\ pc' \in [Sessions -> Label] /\ call' \in [Sessions -> Call]
      /\ copy' \in [Sessions -> Row \cup {NoRow}]
  BY <1>1 DEF TypeInv, TypeOK, Close, Goto, Label, Call
<1>3. CallTypes'
  BY <1>2 DEF TypeInv, TypeOK, CallTypes, Busy, Close, Goto, RedeemSteps, InsertSteps
<1> QED  BY <1>2, <1>3 DEF SessionTypes

(***************************************************************************)
(* Types of what is not a session's own.                                   *)
(***************************************************************************)
SharedTypes ==
    /\ row \in [Members -> Row \cup {NoRow}]
    /\ codeMember \in [Codes -> Members \cup {None}]
    /\ memberCode \in [Members -> Codes \cup {None}]
    /\ linked \in SUBSET (Members \X Emails) /\ unsaved \in SUBSET linked
    /\ contended \in SUBSET Members /\ disturbed \in SUBSET Members
    /\ failures \in 0..MaxFailures

(***************************************************************************)
(* The two kinds of types make up the type invariant.                      *)
(***************************************************************************)
LEMMA TypesAreBoth ==
    /\ TypeInv <=> SharedTypes /\ SessionTypes
    /\ TypeInv' <=> SharedTypes' /\ SessionTypes'
BY DEF TypeInv, TypeOK, SharedTypes, SessionTypes, Label, Call

(***************************************************************************)
(* Whom a session works on, but for INSERTs, exists; so does whom a code   *)
(* is for.                                                                 *)
(***************************************************************************)
Known ==
    /\ \A s \in Sessions :
          pc[s] \in {"remove"} \cup CodeSteps \cup RedeemSteps => Exists(call[s].member)
    /\ \A c \in Codes : codeMember[c] # None => Exists(codeMember[c])

(***************************************************************************)
(* Every step preserves the types.                                         *)
(***************************************************************************)
LEMMA TypeStep ==
    ASSUME TypeInv, Known, [Next]_vars
    PROVE  TypeInv'
<1>0. SharedTypes /\ SessionTypes
  BY TypesAreBoth
<1>1. ASSUME NEW s \in Sessions, NEW m \in Members, NEW e \in Emails, Register(s, m, e)
      PROVE  TypeInv'
  <2>1. [NoCall EXCEPT !.member = m] \in Call /\ [NoCall EXCEPT !.member = m].member = m
    BY DEF NoCall, Call
  <2>2. [house |-> m, role |-> "parent", subject |-> e, archived |-> FALSE] \in Row
    BY DEF Row
  <2>3. SessionTypes'
    BY <1>1, <2>1, <2>2, OpenTypes DEF Register, Label, InsertSteps, RedeemSteps
  <2>4. SharedTypes'
    BY <1>0, <1>1 DEF SharedTypes, Register, Open, redis
  <2> QED  BY <2>3, <2>4, TypesAreBoth
<1>2. ASSUME NEW s \in Sessions, NEW m \in Members, NEW parent \in Members, NEW n \in Names,
             CreateTeen(s, parent, m, n)
      PROVE  TypeInv'
  <2>1. [NoCall EXCEPT !.member = m] \in Call /\ [NoCall EXCEPT !.member = m].member = m
    BY DEF NoCall, Call
  <2>2. [house |-> parent, name |-> n] \in Placeholder
    BY DEF Placeholder
  <2>3. [house |-> parent, role |-> "teen", archived |-> FALSE,
         subject |-> [house |-> parent, name |-> n]] \in Row
    BY <2>2 DEF Row
  <2> DEFINE c == [NoCall EXCEPT !.member = m]
             new == [house |-> parent, role |-> "teen", archived |-> FALSE,
                     subject |-> [house |-> parent, name |-> n]]
  <2>a. Open(s, "insert", c, new)
    BY <1>2 DEF CreateTeen
  <2>b. c \in Call /\ c.member \in Members /\ new \in Row
    BY <2>1, <2>3
  <2>4. SessionTypes'
    <3> HIDE DEF c, new
    <3> QED  BY <2>a, <2>b, OpenTypes DEF Label, InsertSteps, RedeemSteps
  <2>5. SharedTypes'
    BY <1>0, <1>2 DEF SharedTypes, CreateTeen, Open, redis
  <2> QED  BY <2>4, <2>5, TypesAreBoth
<1>3. ASSUME NEW s \in Sessions, NEW m \in Members, Remove(s, m)  PROVE TypeInv'
  <2>1. [NoCall EXCEPT !.member = m] \in Call /\ [NoCall EXCEPT !.member = m].member = m
    BY DEF NoCall, Call
  <2>2. row[m] \in Row
    BY <1>0, <1>3 DEF SharedTypes, Remove, Exists
  <2>3. [row[m] EXCEPT !.archived = TRUE] \in Row
    BY <2>2 DEF Row
  <2>4. SessionTypes'
    BY <1>3, <2>1, <2>3, OpenTypes DEF Remove, Label, InsertSteps, RedeemSteps
  <2>5. SharedTypes'
    BY <1>0, <1>3 DEF SharedTypes, Remove, Open, redis
  <2> QED  BY <2>4, <2>5, TypesAreBoth
<1>4. ASSUME NEW s \in Sessions, NEW m \in Members, GenerateCode(s, m)  PROVE TypeInv'
  <2>1. [NoCall EXCEPT !.member = m] \in Call /\ [NoCall EXCEPT !.member = m].member = m
    BY DEF NoCall, Call
  <2>2. SessionTypes'
    BY <1>4, <2>1, OpenTypes
    DEF GenerateCode, Label, CodeSteps, InsertSteps, RedeemSteps
  <2>3. SharedTypes'
    BY <1>0, <1>4 DEF SharedTypes, GenerateCode, Open, redis
  <2> QED  BY <2>2, <2>3, TypesAreBoth
<1>5. ASSUME NEW s \in Sessions, NEW c \in Codes, NEW e \in Emails, RedeemCode(s, c, e)
      PROVE  TypeInv'
  <2> DEFINE m == codeMember[c]
  <2>1. m \in Members
    BY <1>0, <1>5 DEF SharedTypes, RedeemCode
  <2>2. [member |-> m, email |-> e, code |-> c] \in Call
    BY <2>1 DEF Call
  <2>3. Open(s, "redeem", [member |-> m, email |-> e, code |-> c], NoRow)
    BY <1>5 DEF RedeemCode
  <2>4. SessionTypes'
    BY <2>1, <2>2, <2>3, OpenTypes DEF Label, InsertSteps, RedeemSteps
  <2>5. SharedTypes'
    BY <1>0, <1>5, <2>1 DEF SharedTypes, RedeemCode, Open, redis
  <2> QED  BY <2>4, <2>5, TypesAreBoth
<1>6. ASSUME NEW s \in Sessions, Flush(s)  PROVE TypeInv'
  <2>1. SharedTypes'
    BY <1>0, <1>6 DEF SharedTypes, Flush, redis, history
  <2>2. SessionTypes'
    BY <1>0, <1>6
    DEF SessionTypes, CallTypes, Busy, Flush, Goto, Label, InsertSteps, RedeemSteps
  <2> QED  BY <2>1, <2>2, TypesAreBoth
<1>7. ASSUME NEW s \in Sessions, Conflict(s) \/ Refuse(s)  PROVE TypeInv'
  <2>1. SharedTypes' /\ Close(s)
    BY <1>0, <1>7 DEF SharedTypes, Conflict, Refuse, redis, history
  <2> QED  BY <2>1, CloseTypes, TypesAreBoth
<1>8. ASSUME NEW s \in Sessions, CommitInsert(s)  PROVE TypeInv'
  <2>1. call[s].member \in Members /\ copy[s] \in Row
    BY <1>0, <1>8 DEF SessionTypes, CallTypes, Busy, InsertSteps, CommitInsert
  <2>2. SharedTypes' /\ Close(s)
    BY <1>0, <1>8, <2>1 DEF SharedTypes, CommitInsert, redis, history
  <2> QED  BY <2>2, CloseTypes, TypesAreBoth
<1>9. ASSUME NEW m \in Members,
             \/ row' = [row EXCEPT ![m].archived = TRUE]
             \/ \E e \in Emails : row' = [row EXCEPT ![m].subject = e],
             Exists(m)
      PROVE  row' \in [Members -> Row \cup {NoRow}]
  <2>1. row[m] \in Row
    BY <1>0, <1>9 DEF SharedTypes, Exists
  <2>2. [row[m] EXCEPT !.archived = TRUE] \in Row
    BY <2>1 DEF Row
  <2>3. \A e \in Emails : [row[m] EXCEPT !.subject = e] \in Row
    BY <2>1 DEF Row
  <2> QED  BY <1>0, <1>9, <2>2, <2>3 DEF SharedTypes
<1>10. ASSUME NEW s \in Sessions, Archive(s)  PROVE TypeInv'
  <2>1. call[s].member \in Members /\ Exists(call[s].member)
    BY <1>0, <1>10 DEF SessionTypes, CallTypes, Busy, Known, Archive
  <2>2. SharedTypes' /\ Close(s)
    BY <1>0, <1>9, <1>10, <2>1 DEF SharedTypes, Archive, redis, history
  <2> QED  BY <2>2, CloseTypes, TypesAreBoth
<1>11. ASSUME NEW s \in Sessions,
              PreviousCode(s) \/ DropPrevious(s) \/ SetCode(s)
              \/ ForgetCode(s) \/ ForgetIndex(s)
       PROVE  TypeInv'
  <2>1. call[s].member \in Members
    BY <1>0, <1>11 DEF SessionTypes, CallTypes, Busy, PreviousCode, DropPrevious, SetCode,
                       ForgetCode, ForgetIndex
  <2>2. codeMember' \in [Codes -> Members \cup {None}]
    BY <1>0, <1>11, <2>1 DEF SharedTypes, PreviousCode, DropPrevious, SetCode,
                             ForgetCode, ForgetIndex, redis
  <2>3. memberCode' \in [Members -> Codes \cup {None}]
    BY <1>0, <1>11, <2>1 DEF SharedTypes, PreviousCode, DropPrevious, SetCode,
                             ForgetCode, ForgetIndex, redis
  <2>4. SharedTypes'
    BY <1>0, <1>11, <2>2, <2>3 DEF SharedTypes, PreviousCode, DropPrevious, SetCode,
                                   ForgetCode, ForgetIndex, history
  <2>5. ASSUME NEW c \in Codes \cup {None}, call' = [call EXCEPT ![s].code = c]
        PROVE  call' \in [Sessions -> Call]
    BY <1>0, <2>5 DEF SessionTypes, Call
  <2>6. call' \in [Sessions -> Call]
    <3>1. CASE PreviousCode(s)
      <4>1. memberCode[call[s].member] \in Codes \cup {None}
        BY <1>0, <2>1 DEF SharedTypes
      <4> QED  BY <2>5, <3>1, <4>1 DEF PreviousCode
    <3>2. CASE DropPrevious(s)
      BY <2>5, <3>2 DEF DropPrevious
    <3>3. CASE SetCode(s)
      <4>1. PICK c \in Codes : call' = [call EXCEPT ![s].code = c]
        BY <3>3 DEF SetCode
      <4> QED  BY <2>5, <4>1
    <3>4. CASE ForgetCode(s) \/ ForgetIndex(s)
      BY <1>0, <3>4 DEF SessionTypes, ForgetCode, ForgetIndex
    <3> QED  BY <1>11, <3>1, <3>2, <3>3, <3>4
  <2>7. pc' \in [Sessions -> Label] /\ copy' = copy
    BY <1>0, <1>11 DEF SessionTypes, PreviousCode, DropPrevious, SetCode, ForgetCode,
                       ForgetIndex, Goto, Label, CodeSteps, RedeemSteps
  <2>8. CallTypes'
    BY <1>0, <1>11, <2>6 DEF SessionTypes, CallTypes, Busy, Call, PreviousCode,
        DropPrevious, SetCode, ForgetCode, ForgetIndex, Goto, RedeemSteps, InsertSteps
  <2> QED  BY <1>0, <2>4, <2>6, <2>7, <2>8, TypesAreBoth DEF SessionTypes
<1>12. ASSUME NEW s \in Sessions, IndexCode(s)  PROVE TypeInv'
  <2>1. call[s].member \in Members /\ call[s].code \in Codes
    BY <1>0, <1>12 DEF SessionTypes, CallTypes, Busy, IndexCode
  <2>2. SharedTypes' /\ Close(s)
    BY <1>0, <1>12, <2>1 DEF SharedTypes, IndexCode, history
  <2> QED  BY <2>2, CloseTypes, TypesAreBoth
<1>13. ASSUME NEW s \in Sessions, Link(s)  PROVE TypeInv'
  <2> DEFINE new == [row[call[s].member] EXCEPT !.subject = call[s].email]
  <2>1. call[s].member \in Members /\ call[s].email \in Emails
    BY <1>0, <1>13 DEF SessionTypes, CallTypes, Busy, RedeemSteps, Link
  <2>2. row[call[s].member] \in Row
    BY <1>0, <1>13, <2>1 DEF SharedTypes, Link, Unlinked, Exists
  <2>3. new \in Row
    BY <2>1, <2>2 DEF Row
  <2>4. SharedTypes'
    BY <1>0, <1>13 DEF SharedTypes, Link, redis, history
  <2>5. pc[s] = "check" /\ pc' = [pc EXCEPT ![s] = "update"] /\ call' = call
        /\ copy' = [copy EXCEPT ![s] = new]
    BY <1>13 DEF Link, Goto
  <2>6. SessionTypes'
    <3> HIDE DEF new
    <3> QED  BY <1>0, <2>3, <2>5
             DEF SessionTypes, CallTypes, Busy, Label, RedeemSteps, InsertSteps
  <2> QED  BY <2>4, <2>6, TypesAreBoth
<1>14. ASSUME NEW s \in Sessions, CommitLink(s)  PROVE TypeInv'
  <2>1. /\ call[s].member \in Members /\ Exists(call[s].member)
        /\ call[s].email \in Emails
    BY <1>0, <1>14 DEF SessionTypes, CallTypes, Busy, Known, RedeemSteps, CommitLink
  <2>a. row' \in [Members -> Row \cup {NoRow}]
    BY <1>9, <1>14, <2>1 DEF CommitLink
  <2>b. linked' \in SUBSET (Members \X Emails) /\ unsaved' \in SUBSET linked'
    BY <1>0, <1>14, <2>1 DEF SharedTypes, CommitLink, NewLink
  <2>2. SharedTypes' /\ Close(s)
    BY <1>0, <1>14, <2>a, <2>b DEF SharedTypes, CommitLink, redis
  <2> QED  BY <2>2, CloseTypes, TypesAreBoth
<1>15. ASSUME NEW s \in Sessions, Fail(s)  PROVE TypeInv'
  <2>1. call[s].member \in Members
    BY <1>0, <1>15 DEF SessionTypes, CallTypes, Busy, Fail
  <2>2. failures' \in 0..MaxFailures
    BY <1>0, <1>15, AccountsAssumption DEF SharedTypes, Fail
  <2>3. SharedTypes' /\ Close(s)
    BY <1>0, <1>15, <2>1, <2>2 DEF SharedTypes, Fail, redis
  <2> QED  BY <2>3, CloseTypes, TypesAreBoth
<1>16. ASSUME NEW s \in Sessions, Answer(s)  PROVE TypeInv'
  <2>1. call[s].member \in Members /\ call[s].email \in Emails
    BY <1>0, <1>16 DEF SessionTypes, CallTypes, Busy, RedeemSteps, Answer
  <2>2. SharedTypes'
    BY <1>0, <1>16, <2>1 DEF SharedTypes, Answer, NewLink, redis
  <2>3. SessionTypes'
    BY <1>0, <1>16
    DEF SessionTypes, CallTypes, Busy, Answer, Goto, Label, InsertSteps, RedeemSteps
  <2> QED  BY <2>2, <2>3, TypesAreBoth
<1>17. CASE UNCHANGED vars
  BY <1>17 DEF TypeInv, TypeOK, CallTypes, Busy, vars, redis, sessionVars, history
<1> QED
  BY <1>1, <1>2, <1>3, <1>4, <1>5, <1>6, <1>7, <1>8, <1>10, <1>11, <1>12, <1>13, <1>14,
     <1>15, <1>16, <1>17
  DEF Next

-----------------------------------------------------------------------------
(***************************************************************************)
(* A step moves one session; the others stay where they are.               *)
(***************************************************************************)
Alone(s) == \A t \in Sessions \ {s} :
    pc'[t] = pc[t] /\ call'[t] = call[t] /\ copy'[t] = copy[t]

(***************************************************************************)
(* Opening a session changes no row and nothing of Redis.                  *)
(***************************************************************************)
LEMMA Opened ==
    ASSUME TypeInv, NEW s \in Sessions, NEW label, NEW c, NEW new, Open(s, label, c, new)
    PROVE  /\ Alone(s) /\ row' = row /\ codeMember' = codeMember
           /\ linked' = linked /\ unsaved' = unsaved
           /\ pc[s] = "idle" /\ pc'[s] = label /\ call'[s] = c /\ copy'[s] = new
BY DEF TypeInv, TypeOK, Open, Goto, Alone, redis

(***************************************************************************)
(* Closing a session moves no other.                                       *)
(***************************************************************************)
LEMMA Closed ==
    ASSUME TypeInv, NEW s \in Sessions, Close(s)
    PROVE  Alone(s) /\ pc'[s] = "idle"
BY DEF TypeInv, TypeOK, Close, Goto, Alone

(***************************************************************************)
(* Archiving changes nothing of any member but the mark.                   *)
(***************************************************************************)
LEMMA Archived ==
    ASSUME TypeInv, Known, NEW s \in Sessions, Archive(s), NEW n \in Members
    PROVE  /\ Exists(n)' <=> Exists(n)
           /\ row'[n].house = row[n].house /\ row'[n].role = row[n].role
           /\ row'[n].subject = row[n].subject
<1> DEFINE m == call[s].member
<1>1. m \in Members /\ Exists(m)
  BY DEF TypeInv, CallTypes, Busy, Known, Archive
<1>2. row[m] \in Row
  BY <1>1 DEF TypeInv, TypeOK, Exists
<1>3. row'[m] = [row[m] EXCEPT !.archived = TRUE]
  BY <1>1 DEF TypeInv, TypeOK, Archive
<1>4. /\ row'[m].house = row[m].house /\ row'[m].role = row[m].role
      /\ row'[m].subject = row[m].subject /\ row'[m].role # "none"
  BY <1>2, <1>3 DEF Row
<1>5. CASE n = m
  BY <1>1, <1>4, <1>5 DEF Exists, NoRow
<1>6. CASE n # m
  <2>1. row'[n] = row[n]
    BY <1>6 DEF TypeInv, TypeOK, Archive
  <2> QED  BY <2>1 DEF Exists
<1> QED  BY <1>5, <1>6

(***************************************************************************)
(* A link changes the subject of its member.                               *)
(***************************************************************************)
LEMMA LinkCommitted ==
    ASSUME TypeInv, Known, NEW s \in Sessions, CommitLink(s), NEW n \in Members
    PROVE  /\ Exists(n)' <=> Exists(n)
           /\ row'[n].house = row[n].house /\ row'[n].role = row[n].role
           /\ row'[n].subject = IF n = call[s].member THEN call[s].email
                                ELSE row[n].subject
<1> DEFINE m == call[s].member
<1>1. m \in Members /\ Exists(m)
  BY DEF TypeInv, CallTypes, Busy, Known, CommitLink, RedeemSteps
<1>2. row[m] \in Row
  BY <1>1 DEF TypeInv, TypeOK, Exists
<1>3. row'[m] = [row[m] EXCEPT !.subject = call[s].email]
  BY <1>1 DEF TypeInv, TypeOK, CommitLink
<1>4. /\ row'[m].house = row[m].house /\ row'[m].role = row[m].role
      /\ row'[m].subject = call[s].email /\ row'[m].role # "none"
  BY <1>2, <1>3 DEF Row
<1>5. CASE n = m
  BY <1>1, <1>4, <1>5 DEF Exists, NoRow
<1>6. CASE n # m
  <2>1. row'[n] = row[n]
    BY <1>6 DEF TypeInv, TypeOK, CommitLink
  <2> QED  BY <1>6, <2>1 DEF Exists
<1> QED  BY <1>5, <1>6

(***************************************************************************)
(* A member who is inserted is new, and nobody else works on them.         *)
(***************************************************************************)
Sole == \A s \in Sessions : pc[s] \in InsertSteps =>
    /\ ~ Exists(call[s].member)
    /\ \A t \in Sessions \ {s} : Busy(t) => call[t].member # call[s].member

(***************************************************************************)
(* An INSERT that commits adds a member.                                   *)
(***************************************************************************)
LEMMA InsertCommitted ==
    ASSUME TypeInv, Sole, NEW s \in Sessions, CommitInsert(s), NEW n \in Members
    PROVE  /\ ~ Exists(call[s].member)
           /\ Exists(n)' <=> Exists(n) \/ n = call[s].member
           /\ row'[n] = IF n = call[s].member THEN copy[s] ELSE row[n]
<1>1. call[s].member \in Members /\ ~ Exists(call[s].member) /\ copy[s] \in Row
  BY DEF TypeInv, CallTypes, Busy, Sole, CommitInsert, InsertSteps
<1>2. copy[s] # NoRow
  BY <1>1 DEF Row, NoRow
<1> QED  BY <1>1, <1>2 DEF TypeInv, TypeOK, CommitInsert, Exists

(***************************************************************************)
(* Every step other than a commit leaves the rows as they are.             *)
(***************************************************************************)
Commits(s) == CommitInsert(s) \/ Archive(s) \/ CommitLink(s)

LEMMA RowsChange ==
    ASSUME [Next]_vars
    PROVE  row' = row \/ \E s \in Sessions : Commits(s)
BY DEF Next, vars, Commits, Register, CreateTeen, Remove, GenerateCode, RedeemCode, Open,
       Flush, Conflict, PreviousCode, DropPrevious, SetCode, IndexCode, ForgetCode,
       ForgetIndex, Link, Refuse, Answer, Fail

(***************************************************************************)
(* No member is ever deleted, or moved to another household or role, and   *)
(* an email is only replaced by an email.                                  *)
(***************************************************************************)
LEMMA RowsKept ==
    ASSUME TypeInv, Known, Sole, [Next]_vars, NEW m \in Members, Exists(m)
    PROVE  /\ Exists(m)'
           /\ row'[m].house = row[m].house /\ row'[m].role = row[m].role
           /\ row[m].subject \in Emails => row'[m].subject \in Emails
<1>1. CASE row' = row
  BY <1>1 DEF Exists
<1>2. ASSUME NEW s \in Sessions, CommitInsert(s)  PROVE Exists(m)' /\ row'[m] = row[m]
  BY <1>2, InsertCommitted
<1>3. ASSUME NEW s \in Sessions, CommitLink(s)  PROVE call[s].email \in Emails
  BY <1>3 DEF TypeInv, CallTypes, CommitLink, RedeemSteps
<1> QED  BY <1>1, <1>2, <1>3, RowsChange, Archived, LinkCommitted DEF Commits

(***************************************************************************)
(* The steps of a session between its first and its last keep its member,  *)
(* and change no row.                                                      *)
(***************************************************************************)
Advances(s) ==
    \/ Flush(s) \/ PreviousCode(s) \/ DropPrevious(s) \/ SetCode(s)
    \/ ForgetCode(s) \/ ForgetIndex(s) \/ Link(s) \/ Answer(s)

Ends(s) == Conflict(s) \/ Refuse(s) \/ IndexCode(s) \/ Fail(s)

Begins(s) ==
    \/ \E m \in Members :
          \/ \E e \in Emails : Register(s, m, e)
          \/ \E parent \in Members, n \in Names : CreateTeen(s, parent, m, n)
          \/ Remove(s, m) \/ GenerateCode(s, m)
    \/ \E c \in Codes, e \in Emails : RedeemCode(s, c, e)

LEMMA StepKinds ==
    ASSUME [Next]_vars
    PROVE  \/ \E s \in Sessions : Begins(s) \/ Advances(s) \/ Ends(s) \/ Commits(s)
           \/ UNCHANGED vars
BY DEF Next, Begins, Advances, Ends, Commits

(***************************************************************************)
(* What an advance changes of its session.                                 *)
(***************************************************************************)
LEMMA Advanced ==
    ASSUME TypeInv, NEW s \in Sessions, Advances(s)
    PROVE  /\ Alone(s) /\ row' = row /\ contended' = contended
           /\ call'[s].member = call[s].member /\ call'[s].email = call[s].email
           /\ Busy(s)
           /\ \/ pc[s] = "insert" /\ pc'[s] = "inserted" /\ copy'[s] = copy[s]
              \/ pc[s] = "update" /\ pc'[s] = "updated" /\ copy'[s] = copy[s]
              \/ pc[s] = "updated" /\ pc'[s] = "told" /\ copy'[s] = copy[s]
              \/ pc[s] = "check" /\ pc'[s] = "update"
              \/ pc[s] \in CodeSteps /\ pc'[s] \in CodeSteps
              \/ pc[s] \in {"redeem", "forget"} /\ pc'[s] \in {"forget", "check"}
<1>1. CASE Flush(s)
  BY <1>1 DEF TypeInv, TypeOK, Flush, Alone, Goto, Busy, history
<1>2. CASE PreviousCode(s)
  BY <1>2 DEF TypeInv, TypeOK, PreviousCode, Alone, Goto, Busy, history, CodeSteps
<1>3. CASE DropPrevious(s)
  BY <1>3 DEF TypeInv, TypeOK, DropPrevious, Alone, Goto, Busy, history, CodeSteps
<1>4. CASE SetCode(s)
  BY <1>4 DEF TypeInv, TypeOK, SetCode, Alone, Goto, Busy, history, CodeSteps
<1>5. CASE ForgetCode(s) \/ ForgetIndex(s)
  BY <1>5 DEF TypeInv, TypeOK, ForgetCode, ForgetIndex, Alone, Goto, Busy, history
<1>6. CASE Link(s)
  BY <1>6 DEF TypeInv, TypeOK, Link, Alone, Goto, Busy, history
<1>7. CASE Answer(s)
  BY <1>7 DEF TypeInv, TypeOK, Answer, Alone, Goto, Busy
<1> QED  BY <1>1, <1>2, <1>3, <1>4, <1>5, <1>6, <1>7 DEF Advances

(***************************************************************************)
(* What the end of a session without a commit changes.                     *)
(***************************************************************************)
LEMMA Ended ==
    ASSUME TypeInv, NEW s \in Sessions, Ends(s)
    PROVE  /\ Alone(s) /\ pc'[s] = "idle" /\ row' = row /\ codeMember' = codeMember
           /\ linked' = linked /\ unsaved' = unsaved /\ contended' = contended
<1>1. Close(s)
  BY DEF Ends, Conflict, Refuse, IndexCode, Fail
<1> QED  BY <1>1, Closed DEF Ends, Conflict, Refuse, IndexCode, Fail, redis, history

(***************************************************************************)
(* What the beginning of a session changes, and whom it works on.          *)
(***************************************************************************)
LEMMA Begun ==
    ASSUME TypeInv, Known, NEW s \in Sessions, Begins(s)
    PROVE  /\ Alone(s) /\ row' = row /\ codeMember' = codeMember
           /\ linked' = linked /\ unsaved' = unsaved
           /\ pc[s] = "idle"
           /\ \/ pc'[s] = "insert" /\ Fresh(call'[s].member)
              \/ pc'[s] \in {"remove", "generate", "redeem"} /\ Exists(call'[s].member)
           /\ contended \subseteq contended'
           /\ pc'[s] = "redeem" /\ call'[s].member \notin contended' =>
                 Working(call'[s].member, RedeemSteps) = {}
<1>1. ASSUME NEW m \in Members, NEW e \in Emails, Register(s, m, e)
      PROVE  /\ pc'[s] = "insert" /\ call'[s].member = m /\ Fresh(m)
             /\ contended' = contended
  <2> DEFINE c == [NoCall EXCEPT !.member = m]
             new == [house |-> m, role |-> "parent", subject |-> e, archived |-> FALSE]
  <2>1. Open(s, "insert", c, new) /\ Fresh(m) /\ contended' = contended
    BY <1>1 DEF Register
  <2>2. c.member = m
    BY DEF NoCall
  <2> HIDE DEF c, new
  <2> QED  BY <2>1, <2>2, Opened
<1>2. ASSUME NEW m \in Members, NEW parent \in Members, NEW n \in Names,
             CreateTeen(s, parent, m, n)
      PROVE  /\ pc'[s] = "insert" /\ call'[s].member = m /\ Fresh(m)
             /\ contended' = contended
  <2> DEFINE c == [NoCall EXCEPT !.member = m]
             new == [house |-> parent, role |-> "teen", archived |-> FALSE,
                     subject |-> [house |-> parent, name |-> n]]
  <2>1. Open(s, "insert", c, new) /\ Fresh(m) /\ contended' = contended
    BY <1>2 DEF CreateTeen
  <2>2. c.member = m
    BY DEF NoCall
  <2> HIDE DEF c, new
  <2> QED  BY <2>1, <2>2, Opened
<1>3. ASSUME NEW m \in Members, Remove(s, m) \/ GenerateCode(s, m)
      PROVE  /\ pc'[s] \in {"remove", "generate"} /\ call'[s].member = m /\ Exists(m)
             /\ contended' = contended
  <2> DEFINE c == [NoCall EXCEPT !.member = m]
             new == [row[m] EXCEPT !.archived = TRUE]
  <2>1. c.member = m
    BY DEF NoCall
  <2>2. CASE Remove(s, m)
    <3>1. Open(s, "remove", c, new) /\ Exists(m) /\ contended' = contended
      BY <2>2 DEF Remove
    <3> HIDE DEF c, new
    <3> QED  BY <2>1, <3>1, Opened
  <2>3. CASE GenerateCode(s, m)
    <3>1. Open(s, "generate", c, NoRow) /\ Exists(m) /\ contended' = contended
      BY <2>3 DEF GenerateCode, Unlinked
    <3> HIDE DEF c
    <3> QED  BY <2>1, <3>1, Opened
  <2> QED  BY <1>3, <2>2, <2>3
<1>4. ASSUME NEW c \in Codes, NEW e \in Emails, RedeemCode(s, c, e)
      PROVE  /\ pc'[s] = "redeem" /\ call'[s].member = codeMember[c]
             /\ Exists(codeMember[c])
             /\ contended' = IF Working(codeMember[c], RedeemSteps) = {} THEN contended
                             ELSE contended \cup {codeMember[c]}
  BY <1>4, Opened DEF RedeemCode, Known
<1>5. /\ Alone(s) /\ row' = row /\ codeMember' = codeMember
      /\ linked' = linked /\ unsaved' = unsaved
      /\ pc[s] = "idle"
  <2>1. \E label, c, new : Open(s, label, c, new)
    BY DEF Begins, Register, CreateTeen, Remove, GenerateCode, RedeemCode
  <2> QED  BY <2>1, Opened
<1> QED  BY <1>1, <1>2, <1>3, <1>4, <1>5 DEF Begins

(***************************************************************************)
(* A commit ends its session.                                              *)
(***************************************************************************)
LEMMA Committed ==
    ASSUME TypeInv, NEW s \in Sessions, Commits(s)
    PROVE  /\ Alone(s) /\ pc'[s] = "idle" /\ codeMember' = codeMember
           /\ contended' = contended /\ Busy(s)
<1>1. Close(s)
  BY DEF Commits, CommitInsert, Archive, CommitLink
<1>2. codeMember' = codeMember /\ contended' = contended /\ Busy(s)
  BY DEF Commits, CommitInsert, Archive, CommitLink, redis, history, Busy
<1> QED  BY <1>1, <1>2, Closed

(***************************************************************************)
(* A code is set for a member who exists.                                  *)
(***************************************************************************)
LEMMA CodesSet ==
    ASSUME TypeInv, Known, [Next]_vars, NEW c \in Codes, codeMember'[c] # None
    PROVE  Exists(codeMember'[c])
<1>1. ASSUME NEW s \in Sessions, SetCode(s)  PROVE Exists(codeMember'[c])
  <2>1. Exists(call[s].member)
    BY <1>1 DEF Known, SetCode, CodeSteps
  <2> QED  BY <1>1, <2>1 DEF TypeInv, TypeOK, Known, SetCode
<1>2. ASSUME NEW s \in Sessions, DropPrevious(s) \/ ForgetCode(s)
      PROVE  Exists(codeMember'[c])
  BY <1>2 DEF TypeInv, TypeOK, Known, DropPrevious, ForgetCode
<1>3. ASSUME NEW s \in Sessions,
             Flush(s) \/ PreviousCode(s) \/ ForgetIndex(s) \/ Link(s) \/ Answer(s)
      PROVE  codeMember' = codeMember
  BY <1>3 DEF Flush, PreviousCode, ForgetIndex, Link, Answer, redis
<1>4. CASE UNCHANGED vars
  BY <1>4 DEF Known, vars, redis
<1>5. CASE codeMember' = codeMember
  BY <1>5 DEF Known
<1> QED
  BY <1>1, <1>2, <1>3, <1>4, <1>5, StepKinds, Begun, Ended, Committed DEF Advances

(***************************************************************************)
(* Sessions and codes go on to name members who exist.                     *)
(***************************************************************************)
LEMMA KnownStep ==
    ASSUME TypeInv, TypeInv', Known, Sole, [Next]_vars
    PROVE  Known'
<1>1. \A m \in Members : Exists(m) => Exists(m)'
  BY RowsKept
<1>2. ASSUME NEW c \in Codes, codeMember'[c] # None  PROVE Exists(codeMember[c])'
  <2>1. codeMember'[c] \in Members
    BY <1>2 DEF TypeInv, TypeOK
  <2> QED  BY <1>1, <1>2, <2>1, CodesSet DEF Exists
<1>3. ASSUME NEW t \in Sessions,
             pc'[t] \in {"remove"} \cup CodeSteps \cup RedeemSteps
      PROVE  Exists(call'[t].member)
  <2>1. CASE UNCHANGED vars
    BY <1>3, <2>1 DEF Known, vars, sessionVars
  <2>2. ASSUME NEW s \in Sessions, Alone(s), t # s  PROVE Exists(call'[t].member)
    BY <1>3, <2>2 DEF Known, Alone
  <2>3. CASE Begins(t)
    BY <1>3, <2>3, Begun DEF CodeSteps, RedeemSteps
  <2>4. CASE Advances(t)
    BY <1>3, <2>4, Advanced DEF Known, CodeSteps, RedeemSteps
  <2>5. CASE Ends(t) \/ Commits(t)
    BY <1>3, <2>5, Ended, Committed DEF CodeSteps, RedeemSteps
  <2>6. \A s \in Sessions : Begins(s) \/ Advances(s) \/ Ends(s) \/ Commits(s) => Alone(s)
    BY Begun, Advanced, Ended, Committed
  <2> QED  BY <2>1, <2>2, <2>3, <2>4, <2>5, <2>6, StepKinds
<1>4. ASSUME NEW t \in Sessions,
             pc'[t] \in {"remove"} \cup CodeSteps \cup RedeemSteps
      PROVE  Exists(call[t].member)'
  <2>1. call'[t].member \in Members
    BY <1>4 DEF TypeInv, CallTypes, Busy, CodeSteps, RedeemSteps
  <2> QED  BY <1>1, <1>3, <1>4, <2>1 DEF Exists
<1> QED  BY <1>2, <1>4 DEF Known

(***************************************************************************)
(* A new member's INSERT goes on to be alone.                              *)
(***************************************************************************)
LEMMA SoleStep ==
    ASSUME TypeInv, TypeInv', Known, Sole, [Next]_vars
    PROVE  Sole'
<1> SUFFICES ASSUME NEW t \in Sessions, pc'[t] \in InsertSteps
             PROVE  /\ ~ Exists(call[t].member)'
                    /\ \A u \in Sessions \ {t} :
                          Busy(u)' => call'[u].member # call'[t].member
  BY DEF Sole
<1>1. CASE UNCHANGED vars
  BY <1>1 DEF Sole, Busy, Exists, vars, sessionVars
<1>2. ASSUME NEW s \in Sessions, Begins(s)
      PROVE  /\ ~ Exists(call[t].member)'
             /\ \A u \in Sessions \ {t} : Busy(u)' => call'[u].member # call'[t].member
  <2>1. CASE s = t
    BY <1>2, <2>1, Begun DEF Fresh, Exists, Alone, InsertSteps
  <2>2. CASE s # t
    <3>1. pc[t] \in InsertSteps /\ call'[t] = call[t] /\ row' = row
      BY <1>2, <2>2, Begun DEF Alone
    <3>2. call'[s].member # call[t].member
      BY <1>2, <2>2, <3>1, Begun DEF Sole, Fresh
    <3> QED  BY <1>2, <3>1, <3>2, Begun DEF Sole, Alone, Busy, Exists
  <2> QED  BY <2>1, <2>2
<1>3. ASSUME NEW s \in Sessions, Advances(s)
      PROVE  /\ ~ Exists(call[t].member)'
             /\ \A u \in Sessions \ {t} : Busy(u)' => call'[u].member # call'[t].member
  <2>1. /\ row' = row /\ pc[t] \in InsertSteps
        /\ \A u \in Sessions : call'[u].member = call[u].member /\ (Busy(u)' => Busy(u))
    BY <1>3, Advanced DEF Alone, Busy, InsertSteps, CodeSteps
  <2> QED  BY <2>1 DEF Sole, Exists
<1>4. ASSUME NEW s \in Sessions, Ends(s)
      PROVE  /\ ~ Exists(call[t].member)'
             /\ \A u \in Sessions \ {t} : Busy(u)' => call'[u].member # call'[t].member
  <2>1. s # t /\ row' = row
    BY <1>4, Ended DEF InsertSteps
  <2> QED  BY <1>4, <2>1, Ended DEF Sole, Alone, Busy, Exists
<1>5. ASSUME NEW s \in Sessions, Commits(s)
      PROVE  /\ ~ Exists(call[t].member)'
             /\ \A u \in Sessions \ {t} : Busy(u)' => call'[u].member # call'[t].member
  <2>1. s # t /\ Alone(s) /\ pc'[s] = "idle" /\ Busy(s)
    BY <1>5, Committed DEF InsertSteps
  <2>2. /\ pc[t] \in InsertSteps /\ call'[t] = call[t] /\ ~ Exists(call[t].member)
        /\ call[t].member \in Members /\ call[s].member # call[t].member
    BY <2>1 DEF Alone, Sole, TypeInv, CallTypes, Busy, InsertSteps
  <2> PICK n \in Members : n = call[t].member
    BY <2>2
  <2>a. ~ Exists(n)'
    <3>1. n \in Members /\ ~ Exists(n) /\ call[s].member # n
      BY <2>2 DEF Exists
    <3>2. CASE CommitInsert(s)
      BY <3>1, <3>2, InsertCommitted DEF Exists
    <3>3. CASE Archive(s)
      BY <3>1, <3>3, Archived DEF Exists
    <3>4. CASE CommitLink(s)
      BY <3>1, <3>4, LinkCommitted DEF Exists
    <3> QED  BY <1>5, <3>2, <3>3, <3>4 DEF Commits
  <2>3. ~ Exists(call[t].member)'
    BY <2>2, <2>a DEF Exists
  <2> QED  BY <2>1, <2>2, <2>3 DEF Sole, Alone, Busy
<1> QED  BY <1>1, <1>2, <1>3, <1>4, <1>5, StepKinds

-----------------------------------------------------------------------------
(***************************************************************************)
(* Subjects.  Transactions that have written and not yet committed differ  *)
(* in member and subject (Waits), and no other member has their subject.   *)
(***************************************************************************)
Copies == \A s \in Sessions :
    pc[s] \in {"update", "updated", "told"} => copy[s].subject = call[s].email

Apart == \A s, t \in Sessions :
    s # t /\ Writing(s) /\ Writing(t) =>
        call[s].member # call[t].member /\ copy[s].subject # copy[t].subject

Free == \A s \in Sessions : \A n \in Members :
    Writing(s) /\ n # call[s].member /\ Exists(n) => row[n].subject # copy[s].subject

(***************************************************************************)
(* What a link will write is the email of the request.                     *)
(***************************************************************************)
LEMMA CopiesStep ==
    ASSUME TypeInv, Known, Copies, [Next]_vars
    PROVE  Copies'
<1> SUFFICES ASSUME NEW t \in Sessions, pc'[t] \in {"update", "updated", "told"}
             PROVE  copy'[t].subject = call'[t].email
  BY DEF Copies
<1>1. CASE UNCHANGED vars
  BY <1>1 DEF Copies, vars, sessionVars
<1>2. ASSUME NEW s \in Sessions, Alone(s), s # t
      PROVE  copy'[t].subject = call'[t].email
  BY <1>2 DEF Copies, Alone
<1>3. CASE Begins(t) \/ Ends(t) \/ Commits(t)
  BY <1>3, Begun, Ended, Committed
<1>4. CASE Link(t)
  <2> DEFINE new == [row[call[t].member] EXCEPT !.subject = call[t].email]
  <2>1. row[call[t].member] \in Row
    BY <1>4 DEF TypeInv, TypeOK, CallTypes, Busy, Link, Unlinked, Exists
  <2>2. new.subject = call[t].email
    BY <2>1 DEF Row
  <2>3. copy' = [copy EXCEPT ![t] = new] /\ call' = call
    BY <1>4 DEF Link
  <2> HIDE DEF new
  <2> QED  BY <2>2, <2>3 DEF TypeInv, TypeOK
<1>5. CASE Advances(t) /\ ~ Link(t)
  <2>1. /\ pc[t] \in {"update", "updated"} /\ copy'[t] = copy[t]
        /\ call'[t].email = call[t].email
    <3>1. ~ (pc[t] = "check" /\ pc'[t] = "update")
      BY <1>5 DEF Advances, TypeInv, TypeOK, Flush, PreviousCode, DropPrevious, SetCode,
                  ForgetCode, ForgetIndex, Answer, Goto
    <3> QED  BY <1>5, <3>1, Advanced DEF CodeSteps
  <2> QED  BY <2>1 DEF Copies
<1>6. \A s \in Sessions : Begins(s) \/ Advances(s) \/ Ends(s) \/ Commits(s) => Alone(s)
  BY Begun, Advanced, Ended, Committed
<1> QED  BY <1>1, <1>2, <1>3, <1>4, <1>5, <1>6, StepKinds

(***************************************************************************)
(* Writing begins with a flush, which has waited for the others and met    *)
(* the unique index.                                                       *)
(***************************************************************************)
LEMMA WritingBegins ==
    ASSUME TypeInv, Known, [Next]_vars, NEW t \in Sessions, Writing(t)', ~ Writing(t)
    PROVE  /\ Alone(t) /\ row' = row
           /\ call'[t] = call[t] /\ copy'[t] = copy[t]
           /\ ~ Waits(t) /\ ~ Taken(call[t].member, copy[t].subject)
<1>1. ~ UNCHANGED vars
  BY DEF Writing, vars, sessionVars
<1>2. \A s \in Sessions : Begins(s) \/ Advances(s) \/ Ends(s) \/ Commits(s) => Alone(s)
  BY Begun, Advanced, Ended, Committed
<1>3. Begins(t) \/ Advances(t) \/ Ends(t) \/ Commits(t)
  BY <1>1, <1>2, StepKinds DEF Alone, Writing
<1>4. Advances(t)
  BY <1>3, Begun, Ended, Committed DEF Writing
<1>5. Flush(t)
  BY <1>4 DEF Advances, Writing, TypeInv, TypeOK, PreviousCode, DropPrevious, SetCode,
              ForgetCode, ForgetIndex, Link, Answer, Goto
<1> QED  BY <1>2, <1>4, <1>5 DEF Flush

(***************************************************************************)
(* Otherwise a session that has written keeps what it writes until it ends.*)
(***************************************************************************)
LEMMA WritingStays ==
    ASSUME TypeInv, Known, [Next]_vars, NEW t \in Sessions, Writing(t)', Writing(t)
    PROVE  /\ call'[t] = call[t] /\ copy'[t] = copy[t]
           /\ ~ Commits(t)
<1>1. \A s \in Sessions : Begins(s) \/ Advances(s) \/ Ends(s) \/ Commits(s) => Alone(s)
  BY Begun, Advanced, Ended, Committed
<1>2. ~ Begins(t) /\ ~ Ends(t) /\ ~ Commits(t)
  BY Begun, Ended, Committed DEF Writing
<1>3. CASE UNCHANGED vars
  BY <1>2, <1>3 DEF vars, sessionVars
<1>4. CASE Advances(t)
  <2>1. Answer(t)
    BY <1>4 DEF Advances, Writing, Flush, PreviousCode, DropPrevious, SetCode, ForgetCode,
                ForgetIndex, Link
  <2> QED  BY <1>2, <2>1 DEF Answer
<1> QED  BY <1>1, <1>2, <1>3, <1>4, StepKinds DEF Alone

(***************************************************************************)
(* Transactions that have written stay apart.                              *)
(***************************************************************************)
LEMMA ApartStep ==
    ASSUME TypeInv, Known, Apart, [Next]_vars
    PROVE  Apart'
<1> SUFFICES ASSUME NEW s \in Sessions, NEW t \in Sessions, s # t, Writing(s)', Writing(t)'
             PROVE  /\ call'[s].member # call'[t].member
                    /\ copy'[s].subject # copy'[t].subject
  BY DEF Apart
<1>1. CASE Writing(s) /\ Writing(t)
  BY <1>1, WritingStays DEF Apart
<1>2. CASE ~ Writing(s)
  <2>1. Alone(s) /\ call'[s] = call[s] /\ copy'[s] = copy[s] /\ ~ Waits(s)
    BY <1>2, WritingBegins
  <2>2. Writing(t) /\ call'[t] = call[t] /\ copy'[t] = copy[t]
    BY <2>1 DEF Alone, Writing
  <2> QED  BY <2>1, <2>2 DEF Waits, Writing
<1>3. CASE ~ Writing(t)
  <2>1. Alone(t) /\ call'[t] = call[t] /\ copy'[t] = copy[t] /\ ~ Waits(t)
    BY <1>3, WritingBegins
  <2>2. Writing(s) /\ call'[s] = call[s] /\ copy'[s] = copy[s]
    BY <2>1 DEF Alone, Writing
  <2> QED  BY <2>1, <2>2 DEF Waits, Writing
<1> QED  BY <1>1, <1>2, <1>3

(***************************************************************************)
(* What a commit makes the subject of a member.                            *)
(***************************************************************************)
LEMMA SubjectsCommitted ==
    ASSUME TypeInv, Known, Sole, Copies, [Next]_vars, NEW n \in Members, Exists(n)'
    PROVE  \/ Exists(n) /\ row'[n].subject = row[n].subject
           \/ \E s \in Sessions : /\ Commits(s) /\ Writing(s) /\ n = call[s].member
                                  /\ row'[n].subject = copy[s].subject
<1>1. CASE row' = row
  BY <1>1 DEF Exists
<1>2. ASSUME NEW s \in Sessions, CommitInsert(s)
      PROVE  \/ Exists(n) /\ row'[n].subject = row[n].subject
             \/ Writing(s) /\ n = call[s].member /\ row'[n].subject = copy[s].subject
  <2>1. Writing(s)
    BY <1>2 DEF CommitInsert, Writing
  <2>2. CASE n = call[s].member
    <3>1. row'[n] = copy[s]
      BY <1>2, <2>2, InsertCommitted
    <3> QED  BY <2>1, <2>2, <3>1
  <2>3. CASE n # call[s].member
    <3>1. Exists(n) /\ row'[n] = row[n]
      BY <1>2, <2>3, InsertCommitted
    <3> QED  BY <3>1
  <2> QED  BY <2>2, <2>3
<1>3. ASSUME NEW s \in Sessions, Archive(s)
      PROVE  Exists(n) /\ row'[n].subject = row[n].subject
  BY <1>3, Archived
<1>4. ASSUME NEW s \in Sessions, CommitLink(s)
      PROVE  \/ Exists(n) /\ row'[n].subject = row[n].subject
             \/ Writing(s) /\ n = call[s].member /\ row'[n].subject = copy[s].subject
  <2>1. Writing(s) /\ copy[s].subject = call[s].email
    BY <1>4 DEF Copies, CommitLink, Writing
  <2>2. Exists(n)
    BY <1>4, LinkCommitted
  <2>3. row'[n].subject = IF n = call[s].member THEN call[s].email ELSE row[n].subject
    BY <1>4, LinkCommitted
  <2> QED  BY <2>1, <2>2, <2>3
<1> QED  BY <1>1, <1>2, <1>3, <1>4, RowsChange DEF Commits

(***************************************************************************)
(* No other member gets the subject of a transaction that has written.     *)
(***************************************************************************)
LEMMA FreeStep ==
    ASSUME TypeInv, Known, Sole, Copies, Apart, Free, [Next]_vars
    PROVE  Free'
<1> SUFFICES ASSUME NEW t \in Sessions, NEW n \in Members, Writing(t)',
                    n # call'[t].member, Exists(n)'
             PROVE  row'[n].subject # copy'[t].subject
  BY DEF Free
<1>1. CASE ~ Writing(t)
  BY <1>1, WritingBegins DEF Taken, Exists
<1>2. CASE Writing(t)
  <2>1. call'[t] = call[t] /\ copy'[t] = copy[t] /\ ~ Commits(t)
    BY <1>2, WritingStays
  <2>2. CASE Exists(n) /\ row'[n].subject = row[n].subject
    BY <1>2, <2>1, <2>2 DEF Free
  <2>3. ASSUME NEW s \in Sessions, Commits(s), Writing(s), n = call[s].member,
               row'[n].subject = copy[s].subject
        PROVE  row'[n].subject # copy'[t].subject
    BY <1>2, <2>1, <2>3 DEF Apart
  <2> QED  BY <2>2, <2>3, SubjectsCommitted
<1> QED  BY <1>1, <1>2

(***************************************************************************)
(* Subjects stay unique.                                                   *)
(***************************************************************************)
LEMMA UniqueStep ==
    ASSUME TypeInv, Known, Sole, Copies, Free, UniqueSubject, [Next]_vars
    PROVE  UniqueSubject'
<1> SUFFICES ASSUME NEW m \in Members, NEW n \in Members, m # n, Exists(m)', Exists(n)'
             PROVE  row'[m].subject # row'[n].subject
  BY DEF UniqueSubject
<1>1. CASE row' = row
  BY <1>1 DEF UniqueSubject, Exists
<1>2. ASSUME NEW s \in Sessions, Commits(s)  PROVE row'[m].subject # row'[n].subject
  <2>1. \A k \in Members : Exists(k)' /\ k # call[s].member =>
            Exists(k) /\ row'[k].subject = row[k].subject
    BY <1>2, InsertCommitted, Archived, LinkCommitted DEF Commits
  <2>2. CASE Archive(s)
    BY <2>2, Archived DEF UniqueSubject
  <2>3. CASE ~ Archive(s)
    <3>1. Writing(s)
      BY <1>2, <2>3 DEF Commits, CommitInsert, CommitLink, Writing
    <3>2. \A k \in Members : Exists(k)' /\ k = call[s].member =>
              row'[k].subject = copy[s].subject
      BY <1>2, <2>3, InsertCommitted, LinkCommitted DEF Commits, Copies, CommitLink
    <3> QED  BY <2>1, <3>1, <3>2 DEF Free, UniqueSubject
  <2> QED  BY <2>2, <2>3
<1> QED  BY <1>1, <1>2, RowsChange

-----------------------------------------------------------------------------
(***************************************************************************)
(* Links.  Two redemptions for one member mark the member as contended; a  *)
(* link that is about to be written is the member's first, or the member   *)
(* is contended.                                                           *)
(***************************************************************************)
Contend == \A s, t \in Sessions :
    /\ s # t
    /\ pc[s] \in RedeemSteps /\ pc[t] \in RedeemSteps
    /\ call[s].member = call[t].member
    => call[s].member \in contended

First == \A s \in Sessions : pc[s] \in {"update", "updated", "told"} =>
    row[call[s].member].subject \notin Emails \/ call[s].member \in contended

LinksKnown == \A link \in linked : Exists(link[1])

(***************************************************************************)
(* Nobody stops being contended.                                           *)
(***************************************************************************)
LEMMA ContendedGrows ==
    ASSUME TypeInv, Known, [Next]_vars
    PROVE  contended \subseteq contended'
BY StepKinds, Begun, Advanced, Ended, Committed DEF vars, history

(***************************************************************************)
(* A session that redeems has just begun to, or did before.                *)
(***************************************************************************)
LEMMA RedeemsOrBegins ==
    ASSUME TypeInv, Known, [Next]_vars, NEW t \in Sessions, pc'[t] \in RedeemSteps
    PROVE  \/ Begins(t) /\ pc'[t] = "redeem"
           \/ pc[t] \in RedeemSteps /\ call'[t].member = call[t].member
<1>1. CASE UNCHANGED vars
  BY <1>1 DEF vars, sessionVars
<1>2. ASSUME NEW s \in Sessions, Alone(s), s # t
      PROVE  pc[t] \in RedeemSteps /\ call'[t].member = call[t].member
  BY <1>2 DEF Alone
<1>3. CASE Begins(t)
  BY <1>3, Begun DEF RedeemSteps
<1>4. CASE Ends(t) \/ Commits(t)
  BY <1>4, Ended, Committed DEF RedeemSteps
<1>5. CASE Advances(t)
  BY <1>5, Advanced DEF RedeemSteps, CodeSteps
<1>6. \A s \in Sessions : Begins(s) \/ Advances(s) \/ Ends(s) \/ Commits(s) => Alone(s)
  BY Begun, Advanced, Ended, Committed
<1> QED  BY <1>1, <1>2, <1>3, <1>4, <1>5, <1>6, StepKinds

(***************************************************************************)
(* Redemptions that overlap are noticed.                                   *)
(***************************************************************************)
LEMMA ContendStep ==
    ASSUME TypeInv, Known, Contend, [Next]_vars
    PROVE  Contend'
<1> SUFFICES ASSUME NEW s \in Sessions, NEW t \in Sessions, s # t,
                    pc'[s] \in RedeemSteps, pc'[t] \in RedeemSteps,
                    call'[s].member = call'[t].member,
                    call'[s].member \notin contended'
             PROVE  FALSE
  BY DEF Contend
<1>1. ASSUME NEW u \in Sessions, NEW v \in Sessions, u # v, Begins(u), pc'[u] = "redeem",
             pc'[v] \in RedeemSteps, call'[v].member = call'[u].member,
             call'[u].member \notin contended'
      PROVE  FALSE
  <2>1. pc[v] \in RedeemSteps /\ call[v] = call'[v]
    BY <1>1, Begun DEF Alone
  <2> QED  BY <1>1, <2>1, Begun DEF Working
<1>2. CASE Begins(s) /\ pc'[s] = "redeem"
  BY <1>1, <1>2
<1>3. CASE Begins(t) /\ pc'[t] = "redeem"
  BY <1>1, <1>3
<1>4. CASE /\ pc[s] \in RedeemSteps /\ call'[s].member = call[s].member
           /\ pc[t] \in RedeemSteps /\ call'[t].member = call[t].member
  BY <1>4, ContendedGrows DEF Contend
<1> QED  BY <1>2, <1>3, <1>4, RedeemsOrBegins

(***************************************************************************)
(* A link goes on to be its member's first.                                *)
(***************************************************************************)
LEMMA FirstStep ==
    ASSUME TypeInv, TypeInv', Known, Sole, Contend, First, [Next]_vars
    PROVE  First'
<1> SUFFICES ASSUME NEW t \in Sessions, pc'[t] \in {"update", "updated", "told"},
                    call'[t].member \notin contended'
             PROVE  row'[call'[t].member].subject \notin Emails
  BY DEF First
<1>1. pc[t] \in RedeemSteps /\ call'[t].member = call[t].member
  BY RedeemsOrBegins DEF RedeemSteps
<1>2. PICK m \in Members : m = call[t].member
  BY <1>1 DEF TypeInv, CallTypes, Busy, RedeemSteps
<1>3. Exists(m) /\ m \notin contended
  BY <1>1, <1>2, ContendedGrows DEF Known
<1>4. CASE Link(t)
  <2>1. row' = row /\ row[m].subject \in Placeholder
    BY <1>2, <1>4 DEF Link, Unlinked
  <2> QED  BY <1>1, <1>2, <2>1, AccountsAssumption
<1>5. CASE ~ Link(t)
  <2>1. pc[t] \in {"update", "updated", "told"}
    <3>1. CASE Advances(t)
      <4>1. ~ (pc[t] = "check" /\ pc'[t] = "update")
        BY <1>5, <3>1 DEF Advances, TypeInv, TypeOK, Flush, PreviousCode, DropPrevious,
                          SetCode, ForgetCode, ForgetIndex, Answer, Goto
      <4> QED  BY <3>1, <4>1, Advanced DEF CodeSteps
    <3>2. CASE UNCHANGED vars
      BY <3>2 DEF vars, sessionVars
    <3>3. ASSUME NEW s \in Sessions, Alone(s), s # t  PROVE pc'[t] = pc[t]
      BY <3>3 DEF Alone
    <3>4. ~ Begins(t) /\ ~ Ends(t) /\ ~ Commits(t)
      BY Begun, Ended, Committed
    <3>5. \A s \in Sessions : Begins(s) \/ Advances(s) \/ Ends(s) \/ Commits(s) => Alone(s)
      BY Begun, Advanced, Ended, Committed
    <3> QED  BY <3>1, <3>2, <3>3, <3>4, <3>5, StepKinds
  <2>2. row[m].subject \notin Emails
    BY <1>2, <1>3, <2>1 DEF First
  <2>3. CASE row' = row
    BY <1>1, <1>2, <2>2, <2>3
  <2>4. ASSUME NEW s \in Sessions, Commits(s)
        PROVE  row'[m].subject = row[m].subject
    <3>1. CASE CommitInsert(s)
      <4>1. row'[m] = row[m]
        BY <1>3, <3>1, InsertCommitted
      <4> QED  BY <4>1
    <3>2. CASE Archive(s)
      BY <3>2, Archived
    <3>3. CASE CommitLink(s)
      <4>1. s # t
        BY <3>3, Committed DEF Commits
      <4>2. call[s].member # m
        BY <1>1, <1>2, <1>3, <3>3, <4>1 DEF Contend, CommitLink, RedeemSteps
      <4> QED  BY <3>3, <4>2, LinkCommitted
    <3> QED  BY <2>4, <3>1, <3>2, <3>3 DEF Commits
  <2> QED  BY <1>1, <1>2, <2>2, <2>3, <2>4, RowsChange
<1> QED  BY <1>4, <1>5

(***************************************************************************)
(* Only an answer and a commit tell a client of a link, and only a commit  *)
(* saves it.                                                               *)
(***************************************************************************)
LEMMA LinksChange ==
    ASSUME TypeInv, Known, [Next]_vars
    PROVE  \/ linked' = linked /\ unsaved' = unsaved
           \/ \E s \in Sessions :
                 /\ Answer(s) \/ CommitLink(s)
                 /\ linked' = linked \cup {NewLink(s)}
                 /\ unsaved' = IF Answer(s) THEN unsaved \cup {NewLink(s)}
                               ELSE unsaved \ {NewLink(s)}
<1> DEFINE Same == linked' = linked /\ unsaved' = unsaved
           New(s) == /\ Answer(s) \/ CommitLink(s)
                     /\ linked' = linked \cup {NewLink(s)}
                     /\ unsaved' = IF Answer(s) THEN unsaved \cup {NewLink(s)}
                                   ELSE unsaved \ {NewLink(s)}
<1>1. ASSUME NEW s \in Sessions, CommitLink(s)  PROVE New(s)
  <2>1. pc'[s] = "idle"
    BY <1>1, Committed DEF Commits
  <2>2. ~ Answer(s)
    BY <2>1 DEF Answer, Goto, TypeInv, TypeOK
  <2> QED  BY <1>1, <2>2 DEF CommitLink
<1>2. ASSUME NEW s \in Sessions, Answer(s)  PROVE New(s)
  BY <1>2 DEF Answer
<1>3. ASSUME NEW s \in Sessions, Commits(s), ~ CommitLink(s)  PROVE Same
  BY <1>3 DEF Commits, CommitInsert, Archive, history
<1>4. ASSUME NEW s \in Sessions, Advances(s), ~ Answer(s)  PROVE Same
  BY <1>4 DEF Advances, Flush, PreviousCode, DropPrevious, SetCode, ForgetCode,
              ForgetIndex, Link, history
<1>5. UNCHANGED vars => Same
  BY DEF vars, history
<1> QED  BY <1>1, <1>2, <1>3, <1>4, <1>5, StepKinds, Begun, Ended

(***************************************************************************)
(* Whoever has a saved link can sign in, unless contended.                 *)
(***************************************************************************)
LEMMA LinkedStep ==
    ASSUME TypeInv, Known, Sole, First, LinksKnown, LinkedCanSignIn, [Next]_vars
    PROVE  LinksKnown' /\ LinkedCanSignIn'
<1>1. ASSUME NEW link \in linked
      PROVE  /\ Exists(link[1])'
             /\ link \notin unsaved =>
                  row'[link[1]].subject = link[2] \/ link[1] \in contended'
  <2>1. PICK m \in Members, e \in Emails : link = <<m, e>>
    BY DEF TypeInv, TypeOK
  <2>2. Exists(m) /\ (link \notin unsaved => row[m].subject = e \/ m \in contended)
    BY <2>1 DEF LinksKnown, LinkedCanSignIn
  <2>3. Exists(m)'
    BY <2>2, RowsKept
  <2>4. ASSUME m \notin contended', link \notin unsaved  PROVE row'[m].subject = e
    <3>1. row[m].subject = e /\ m \notin contended
      BY <2>2, <2>4, ContendedGrows
    <3>2. ASSUME NEW s \in Sessions, Commits(s)  PROVE row'[m].subject = e
      <4>1. CASE CommitInsert(s)
        <5>1. row'[m] = row[m]
          BY <2>2, <4>1, InsertCommitted
        <5> QED  BY <3>1, <5>1
      <4>2. CASE Archive(s)
        BY <3>1, <4>2, Archived
      <4>3. CASE CommitLink(s)
        <5>1. call[s].member # m
          BY <3>1, <4>3 DEF First, CommitLink
        <5> QED  BY <3>1, <4>3, <5>1, LinkCommitted
      <4> QED  BY <3>2, <4>1, <4>2, <4>3 DEF Commits
    <3> QED  BY <3>1, <3>2, RowsChange
  <2> QED  BY <2>1, <2>3, <2>4
<1>2. ASSUME NEW s \in Sessions, Answer(s) \/ CommitLink(s)
      PROVE  \E m \in Members, e \in Emails :
                /\ NewLink(s) = <<m, e>> /\ Exists(m)'
                /\ CommitLink(s) => row'[m].subject = e
  <2>1. PICK m \in Members, e \in Emails :
            m = call[s].member /\ Exists(m) /\ e = call[s].email
    BY <1>2 DEF TypeInv, CallTypes, Busy, Known, Answer, CommitLink, RedeemSteps
  <2>2. Exists(m)' /\ (CommitLink(s) => row'[m].subject = e)
    BY <2>1, RowsKept, LinkCommitted
  <2> QED  BY <2>1, <2>2 DEF NewLink
<1>3. ASSUME NEW link \in linked'
      PROVE  /\ Exists(link[1])'
             /\ link \notin unsaved' =>
                  row'[link[1]].subject = link[2] \/ link[1] \in contended'
  <2>1. CASE linked' = linked /\ unsaved' = unsaved
    BY <1>1, <1>3, <2>1
  <2>2. ASSUME NEW s \in Sessions, Answer(s) \/ CommitLink(s),
               linked' = linked \cup {NewLink(s)},
               unsaved' = IF Answer(s) THEN unsaved \cup {NewLink(s)}
                          ELSE unsaved \ {NewLink(s)}
        PROVE  /\ Exists(link[1])'
               /\ link \notin unsaved' =>
                    row'[link[1]].subject = link[2] \/ link[1] \in contended'
    <3>1. CASE link # NewLink(s)
      BY <1>1, <1>3, <2>2, <3>1
    <3>2. CASE link = NewLink(s)
      <4>1. PICK m \in Members, e \in Emails :
                /\ link = <<m, e>> /\ Exists(m)'
                /\ CommitLink(s) => row'[m].subject = e
        BY <1>2, <2>2, <3>2
      <4>2. link \notin unsaved' => CommitLink(s)
        BY <2>2, <3>2
      <4> QED  BY <4>1, <4>2
    <3> QED  BY <3>1, <3>2
  <2> QED  BY <2>1, <2>2, LinksChange
<1> QED  BY <1>3 DEF LinksKnown, LinkedCanSignIn

-----------------------------------------------------------------------------
(***************************************************************************)
(* The inductive invariant.                                                *)
(***************************************************************************)
AccountsInv ==
    /\ TypeInv /\ Known /\ Sole
    /\ Copies /\ Apart /\ Free /\ UniqueSubject
    /\ Contend /\ First /\ LinksKnown /\ LinkedCanSignIn

(***************************************************************************)
(* There are no members, no codes and no sessions at first.                *)
(***************************************************************************)
LEMMA AccountsInit == Init => AccountsInv
<1> SUFFICES ASSUME Init  PROVE AccountsInv
  OBVIOUS
<1>1. TypeInv
  BY TypeInit
<1>2. Known /\ Sole
  BY DEF Init, Known, Sole, CodeSteps, RedeemSteps, InsertSteps
<1>3. Copies /\ Apart /\ Free /\ UniqueSubject
  BY DEF Init, Copies, Apart, Free, UniqueSubject, Writing, Exists
<1>4. Contend /\ First /\ LinksKnown /\ LinkedCanSignIn
  BY DEF Init, Contend, First, LinksKnown, LinkedCanSignIn, RedeemSteps
<1> QED  BY <1>1, <1>2, <1>3, <1>4 DEF AccountsInv

(***************************************************************************)
(* Every step preserves the invariant.                                     *)
(***************************************************************************)
LEMMA AccountsStep == AccountsInv /\ [Next]_vars => AccountsInv'
<1> SUFFICES ASSUME AccountsInv, [Next]_vars  PROVE AccountsInv'
  OBVIOUS
<1> USE DEF AccountsInv
<1>1. TypeInv'
  BY TypeStep
<1>2. Known' /\ Sole'
  BY <1>1, KnownStep, SoleStep
<1>3. Copies' /\ Apart' /\ Free' /\ UniqueSubject'
  BY CopiesStep, ApartStep, FreeStep, UniqueStep
<1>4. Contend' /\ First' /\ LinksKnown' /\ LinkedCanSignIn'
  BY <1>1, ContendStep, FirstStep, LinkedStep
<1> QED  BY <1>1, <1>2, <1>3, <1>4

(***************************************************************************)
(* The invariant holds in every reachable state.                           *)
(***************************************************************************)
LEMMA AccountsInvAlways == Spec => []AccountsInv
BY AccountsInit, AccountsStep, PTL DEF Spec

(***************************************************************************)
(* Every reachable state is well typed.                                    *)
(***************************************************************************)
THEOREM TypesAlways == Spec => []TypeOK
<1>1. AccountsInv => TypeOK
  BY DEF AccountsInv, TypeInv
<1> QED  BY <1>1, AccountsInvAlways, PTL

(***************************************************************************)
(* However registrations, new profiles and links overlap and fail, no two  *)
(* members have one subject.                                               *)
(***************************************************************************)
THEOREM SubjectsAlwaysUnique == Spec => []UniqueSubject
<1>1. AccountsInv => UniqueSubject
  BY DEF AccountsInv
<1> QED  BY <1>1, AccountsInvAlways, PTL

(***************************************************************************)
(* Whoever was told that their email signs in as a teen can sign in as     *)
(* that teen for good, but for redemptions that overlapped and answers     *)
(* ahead of a commit that is to come or was lost.                          *)
(***************************************************************************)
THEOREM LinkedAlwaysSignsIn == Spec => []LinkedCanSignIn
<1>1. AccountsInv => LinkedCanSignIn
  BY DEF AccountsInv
<1> QED  BY <1>1, AccountsInvAlways, PTL

(***************************************************************************)
(* Members keep household and role, and a login, for good.                 *)
(***************************************************************************)
THEOREM IdentityAlwaysKept == Spec => IdentityKept
<1> DEFINE Kept == \A m \in Members : Exists(m) =>
        /\ row'[m].house = row[m].house /\ row'[m].role = row[m].role
        /\ row[m].subject \in Emails => row'[m].subject \in Emails
<1>1. AccountsInv /\ [Next]_vars => Kept
  BY RowsKept DEF AccountsInv
<1>2. AccountsInv /\ [Next]_vars => [Kept]_vars
  BY <1>1
<1> QED  BY <1>2, AccountsInvAlways, PTL DEF Spec, IdentityKept

-----------------------------------------------------------------------------
(***************************************************************************)
(* Codes.  Of a teen whose code requests never overlapped and were never   *)
(* lost, a code that is valid is the indexed one, or the one that the only *)
(* session at work for the teen has in hand.                               *)
(***************************************************************************)
Works(s, m) == pc[s] \in CodeSteps \cup RedeemSteps /\ call[s].member = m

Keeps(s, m, c) ==
    \/ pc[s] = "generate" /\ memberCode[m] = c
    \/ pc[s] \in {"drop", "index", "redeem"} /\ call[s].code = c

HeldBy(m, c) ==
    /\ (\A s \in Sessions : ~ Works(s, m)) => memberCode[m] = c
    /\ \A s \in Sessions : Works(s, m) => Keeps(s, m, c)

OneWorker == \A m \in Members \ disturbed : \A s, t \in Sessions :
    Works(s, m) /\ Works(t, m) => s = t

CodesHeld == \A m \in Members \ disturbed : \A c \in Codes :
    codeMember[c] = m => HeldBy(m, c)

CodesInv == OneWorker /\ CodesHeld

(***************************************************************************)
(* A request for a code that begins while another is at work for the teen  *)
(* disturbs them.                                                          *)
(***************************************************************************)
LEMMA BegunDisturbs ==
    ASSUME TypeInv, NEW s \in Sessions, Begins(s)
    PROVE  /\ disturbed \subseteq disturbed' /\ memberCode' = memberCode
           /\ codeMember' = codeMember /\ Alone(s) /\ pc[s] = "idle"
           /\ \/ pc'[s] \notin CodeSteps \cup RedeemSteps
              \/ /\ call'[s].member \notin disturbed' =>
                       \A t \in Sessions : ~ Works(t, call'[s].member)
                 /\ \/ pc'[s] = "generate"
                    \/ /\ pc'[s] = "redeem" /\ call'[s].code \in Codes
                       /\ codeMember[call'[s].code] = call'[s].member
<1>1. Alone(s) /\ codeMember' = codeMember /\ memberCode' = memberCode /\ pc[s] = "idle"
  <2>1. \E label, c, new : Open(s, label, c, new)
    BY DEF Begins, Register, CreateTeen, Remove, GenerateCode, RedeemCode
  <2> QED  BY <2>1, Opened DEF Open, redis
<1>2. ASSUME NEW m \in Members, (\E e \in Emails : Register(s, m, e)) \/ Remove(s, m)
                 \/ (\E parent \in Members, n \in Names : CreateTeen(s, parent, m, n))
      PROVE  disturbed' = disturbed /\ pc'[s] \in {"insert", "remove"}
  <2>1. disturbed' = disturbed
    BY <1>2 DEF Register, CreateTeen, Remove
  <2>2. \E c, new : Open(s, "insert", c, new) \/ Open(s, "remove", c, new)
    BY <1>2 DEF Register, CreateTeen, Remove
  <2> QED  BY <2>1, <2>2, Opened
<1>3. ASSUME NEW m \in Members, GenerateCode(s, m)
      PROVE  /\ disturbed \subseteq disturbed' /\ pc'[s] = "generate"
             /\ call'[s].member \notin disturbed' =>
                   \A t \in Sessions : ~ Works(t, call'[s].member)
  <2> DEFINE c == [NoCall EXCEPT !.member = m]
  <2>1. Open(s, "generate", c, NoRow) /\ c.member = m
    BY <1>3 DEF GenerateCode, NoCall
  <2>2. disturbed' = IF Working(m, CodeSteps \cup RedeemSteps) = {} THEN disturbed
                     ELSE disturbed \cup {m}
    BY <1>3 DEF GenerateCode
  <2> HIDE DEF c
  <2>3. pc'[s] = "generate" /\ call'[s].member = m
    BY <2>1, Opened
  <2> QED  BY <2>2, <2>3 DEF Working, Works
<1>4. ASSUME NEW c \in Codes, NEW e \in Emails, RedeemCode(s, c, e)
      PROVE  /\ disturbed \subseteq disturbed' /\ pc'[s] = "redeem"
             /\ call'[s].code = c /\ call'[s].member = codeMember[c]
             /\ call'[s].member \notin disturbed' =>
                   \A t \in Sessions : ~ Works(t, call'[s].member)
  <2>1. Open(s, "redeem", [member |-> codeMember[c], email |-> e, code |-> c], NoRow)
    BY <1>4 DEF RedeemCode
  <2>2. /\ pc'[s] = "redeem"
        /\ call'[s] = [member |-> codeMember[c], email |-> e, code |-> c]
    BY <2>1, Opened
  <2>3. disturbed' = IF Working(codeMember[c], CodeSteps \cup RedeemSteps) = {}
                     THEN disturbed ELSE disturbed \cup {codeMember[c]}
    BY <1>4 DEF RedeemCode
  <2> QED  BY <2>2, <2>3 DEF Working, Works
<1>5. pc'[s] \in {"insert", "remove"} => pc'[s] \notin CodeSteps \cup RedeemSteps
  BY DEF CodeSteps, RedeemSteps
<1> QED  BY <1>1, <1>2, <1>3, <1>4, <1>5 DEF Begins

(***************************************************************************)
(* A session that advances or ends disturbs nobody, unless it is lost.     *)
(***************************************************************************)
LEMMA OthersDisturb ==
    ASSUME TypeInv, NEW s \in Sessions, Advances(s) \/ Ends(s) \/ Commits(s)
    PROVE  /\ Alone(s) /\ disturbed \subseteq disturbed'
           /\ \A m \in Members : Works(s, m)' => Works(s, m)
<1>1. CASE Advances(s)
  <2>1. disturbed' = disturbed
    BY <1>1 DEF Advances, Flush, PreviousCode, DropPrevious, SetCode, ForgetCode,
                ForgetIndex, Link, Answer, history
  <2> QED
    BY <1>1, <2>1, Advanced DEF Works, CodeSteps, RedeemSteps
<1>2. CASE Ends(s) \/ Commits(s)
  <2>1. disturbed \subseteq disturbed'
    BY <1>2 DEF Ends, Commits, Conflict, Refuse, IndexCode, Fail, CommitInsert, Archive,
                CommitLink, history
  <2>2. Alone(s) /\ pc'[s] = "idle"
    BY <1>2, Ended, Committed
  <2> QED  BY <2>1, <2>2 DEF Works, CodeSteps, RedeemSteps
<1> QED  BY <1>1, <1>2

(***************************************************************************)
(* One session at a time goes on to be at work for an undisturbed teen.    *)
(***************************************************************************)
LEMMA OneWorkerStep ==
    ASSUME TypeInv, OneWorker, [Next]_vars
    PROVE  OneWorker'
<1> SUFFICES ASSUME NEW m \in Members, m \notin disturbed',
                    NEW t \in Sessions, NEW u \in Sessions, Works(t, m)', Works(u, m)'
             PROVE  t = u
  BY DEF OneWorker
<1>1. ASSUME NEW s \in Sessions, Begins(s)  PROVE t = u
  <2>1. m \notin disturbed /\ Alone(s)
    BY <1>1, BegunDisturbs
  <2>2. \A x \in Sessions \ {s} : Works(x, m)' => Works(x, m)
    BY <2>1 DEF Alone, Works
  <2>3. Works(s, m)' => \A x \in Sessions : ~ Works(x, m)
    BY <1>1, BegunDisturbs DEF Works
  <2> QED  BY <2>1, <2>2, <2>3 DEF OneWorker
<1>2. ASSUME NEW s \in Sessions, Advances(s) \/ Ends(s) \/ Commits(s)  PROVE t = u
  <2>1. m \notin disturbed /\ Alone(s) /\ (Works(s, m)' => Works(s, m))
    BY <1>2, OthersDisturb
  <2>2. \A x \in Sessions \ {s} : Works(x, m)' => Works(x, m)
    BY <2>1 DEF Alone, Works
  <2> QED  BY <2>1, <2>2 DEF OneWorker
<1>3. CASE UNCHANGED vars
  BY <1>3 DEF OneWorker, Works, vars, sessionVars, history
<1> QED  BY <1>1, <1>2, <1>3, StepKinds

(***************************************************************************)
(* A valid code goes on to be the indexed one, or in hand.                 *)
(***************************************************************************)
LEMMA CodesHeldStep ==
    ASSUME TypeInv, CodesInv, [Next]_vars
    PROVE  CodesHeld'
<1> SUFFICES ASSUME NEW m \in Members, m \notin disturbed', NEW c \in Codes,
                    codeMember'[c] = m
             PROVE  HeldBy(m, c)'
  BY DEF CodesHeld
<1>1. ASSUME m \notin disturbed, codeMember[c] = m  PROVE HeldBy(m, c)
  BY <1>1 DEF CodesInv, CodesHeld
<1>2. ASSUME NEW s \in Sessions, Alone(s), ~ Works(s, m), ~ Works(s, m)',
             m \notin disturbed, codeMember[c] = m, memberCode'[m] = memberCode[m]
      PROVE  HeldBy(m, c)'
  <2>1. HeldBy(m, c) /\ \A t \in Sessions : Works(t, m)' <=> Works(t, m)
    BY <1>1, <1>2 DEF Alone, Works
  <2>2. \A t \in Sessions : Works(t, m) /\ Keeps(t, m, c) => Keeps(t, m, c)'
    BY <1>2 DEF Alone, Keeps
  <2> QED  BY <1>2, <2>1, <2>2 DEF HeldBy
<1>3. ASSUME NEW s \in Sessions, Alone(s), \A t \in Sessions \ {s} : ~ Works(t, m),
             IF Works(s, m)' THEN Keeps(s, m, c)' ELSE memberCode'[m] = c
      PROVE  HeldBy(m, c)'
  <2>1. \A t \in Sessions \ {s} : ~ Works(t, m)'
    BY <1>3 DEF Alone, Works
  <2> QED  BY <1>3, <2>1 DEF HeldBy
<1>4. ASSUME NEW s \in Sessions, Begins(s)  PROVE HeldBy(m, c)'
  <2>1. /\ m \notin disturbed /\ codeMember[c] = m /\ memberCode' = memberCode
        /\ Alone(s) /\ pc[s] = "idle"
    BY <1>4, BegunDisturbs
  <2>2. ~ Works(s, m)
    BY <2>1 DEF Works, CodeSteps, RedeemSteps
  <2>3. CASE ~ Works(s, m)'
    BY <1>2, <2>1, <2>2, <2>3
  <2>4. CASE Works(s, m)'
    <3>1. /\ \A t \in Sessions : ~ Works(t, m)
          /\ \/ pc'[s] = "generate"
             \/ /\ pc'[s] = "redeem" /\ call'[s].code \in Codes
                /\ codeMember[call'[s].code] = m
      BY <1>4, <2>4, BegunDisturbs DEF Works
    <3>2. memberCode[m] = c
      BY <1>1, <2>1, <3>1 DEF HeldBy
    <3>3. pc'[s] = "redeem" => call'[s].code = c
      BY <2>1, <3>1, <3>2 DEF CodesInv, CodesHeld, HeldBy
    <3>4. Keeps(s, m, c)'
      BY <2>1, <3>1, <3>2, <3>3 DEF Keeps
    <3> QED  BY <1>3, <2>1, <2>4, <3>1, <3>4
  <2> QED  BY <2>3, <2>4
<1>5. ASSUME NEW s \in Sessions, Advances(s) \/ Ends(s) \/ Commits(s)
      PROVE  /\ m \notin disturbed /\ Alone(s) /\ (Works(s, m)' => Works(s, m))
             /\ Works(s, m) => \A t \in Sessions \ {s} : ~ Works(t, m)
  BY <1>5, OthersDisturb DEF CodesInv, OneWorker
<1>6. ASSUME NEW s \in Sessions, pc[s] \notin {"generate", "drop", "index", "redeem"},
             Advances(s) \/ Ends(s) \/ Commits(s), codeMember[c] = m,
             memberCode'[m] = memberCode[m] \/ Works(s, m)
      PROVE  HeldBy(m, c)'
  <2>1. ~ Works(s, m)
    BY <1>1, <1>5, <1>6 DEF HeldBy, Keeps
  <2> QED  BY <1>2, <1>5, <1>6, <2>1
<1>7. ASSUME NEW s \in Sessions, Flush(s) \/ Link(s) \/ Answer(s) \/ ForgetIndex(s)
      PROVE  HeldBy(m, c)'
  <2>1. /\ codeMember[c] = m
        /\ pc[s] \notin {"generate", "drop", "index", "redeem"}
        /\ memberCode'[m] = memberCode[m] \/ Works(s, m)
    BY <1>7 DEF TypeInv, TypeOK, Flush, Link, Answer, ForgetIndex, redis, Works, RedeemSteps
  <2> QED  BY <1>6, <1>7, <2>1 DEF Advances
<1>8. ASSUME NEW s \in Sessions, Conflict(s) \/ Refuse(s) \/ Commits(s)
      PROVE  HeldBy(m, c)'
  <2>1. /\ codeMember[c] = m /\ memberCode' = memberCode
        /\ pc[s] \notin {"generate", "drop", "index", "redeem"}
    BY <1>8 DEF Conflict, Refuse, Commits, CommitInsert, Archive, CommitLink, redis
  <2> QED  BY <1>6, <1>8, <2>1 DEF Ends
<1>9. ASSUME NEW s \in Sessions, Fail(s)  PROVE HeldBy(m, c)'
  <2>1. codeMember[c] = m /\ memberCode' = memberCode /\ ~ Works(s, m)
    BY <1>9 DEF Fail, redis, Works
  <2> QED  BY <1>2, <1>5, <1>9, <2>1 DEF Ends
<1>10. ASSUME NEW s \in Sessions, PreviousCode(s)  PROVE HeldBy(m, c)'
  <2>1. /\ pc[s] = "generate" /\ pc'[s] = "drop" /\ codeMember[c] = m
        /\ memberCode' = memberCode /\ call'[s].code = memberCode[call[s].member]
    BY <1>10 DEF TypeInv, TypeOK, PreviousCode, Goto, redis
  <2>2. CASE Works(s, m)
    <3>1. memberCode[m] = c
      BY <1>1, <1>5, <1>10, <2>1, <2>2 DEF HeldBy, Keeps, Advances
    <3>2. Keeps(s, m, c)'
      BY <2>1, <2>2, <3>1 DEF Works, Keeps
    <3>3. memberCode'[m] = c
      BY <2>1, <3>1
    <3> QED  BY <1>3, <1>5, <1>10, <2>2, <3>2, <3>3 DEF Advances
  <2>3. CASE ~ Works(s, m)
    BY <1>2, <1>5, <1>10, <2>1, <2>3 DEF Advances
  <2> QED  BY <2>2, <2>3
<1>11. ASSUME NEW s \in Sessions, DropPrevious(s)  PROVE HeldBy(m, c)'
  <2>1. /\ pc[s] = "drop" /\ memberCode' = memberCode
        /\ codeMember' = [d \in Codes |-> IF d = call[s].code THEN None ELSE codeMember[d]]
    BY <1>11 DEF DropPrevious
  <2>2. codeMember[c] = m /\ c # call[s].code
    BY <2>1, AccountsAssumption
  <2>3. ~ Works(s, m)
    BY <1>1, <1>5, <1>11, <2>1, <2>2 DEF HeldBy, Keeps, Advances
  <2> QED  BY <1>2, <1>5, <1>11, <2>1, <2>2, <2>3 DEF Advances
<1>12. ASSUME NEW s \in Sessions, SetCode(s)  PROVE HeldBy(m, c)'
  <2>1. PICK d \in Codes :
            /\ codeMember' = [codeMember EXCEPT ![d] = call[s].member]
            /\ call' = [call EXCEPT ![s].code = d]
    BY <1>12 DEF SetCode
  <2>2. pc[s] = "draw" /\ pc'[s] = "index" /\ memberCode' = memberCode
    BY <1>12 DEF TypeInv, TypeOK, SetCode, Goto
  <2>3. CASE Works(s, m)
    <3>1. codeMember[c] # m
      BY <1>1, <1>5, <1>12, <2>2, <2>3 DEF HeldBy, Keeps, Advances
    <3>2. c = d
      BY <2>1, <3>1 DEF TypeInv, TypeOK
    <3>3. Keeps(s, m, c)' /\ Works(s, m)'
      BY <2>1, <2>2, <2>3, <3>2 DEF TypeInv, TypeOK, Keeps, Works, CodeSteps
    <3> QED  BY <1>3, <1>5, <1>12, <2>3, <3>3 DEF Advances
  <2>4. CASE ~ Works(s, m)
    <3>1. call[s].member # m
      BY <2>2, <2>4 DEF Works, CodeSteps
    <3>2. codeMember[c] = m
      BY <2>1, <3>1 DEF TypeInv, TypeOK
    <3> QED  BY <1>2, <1>5, <1>12, <2>2, <2>4, <3>2 DEF Advances
  <2> QED  BY <2>3, <2>4
<1>13. ASSUME NEW s \in Sessions, IndexCode(s)  PROVE HeldBy(m, c)'
  <2>1. /\ pc[s] = "index" /\ codeMember[c] = m /\ Close(s)
        /\ memberCode' = [memberCode EXCEPT ![call[s].member] = call[s].code]
    BY <1>13 DEF IndexCode
  <2>2. pc'[s] = "idle" /\ ~ Works(s, m)'
    BY <2>1, Closed DEF Works, CodeSteps, RedeemSteps
  <2>3. CASE Works(s, m)
    <3>1. call[s].code = c /\ call[s].member = m
      BY <1>1, <1>5, <1>13, <2>1, <2>3 DEF HeldBy, Keeps, Works, Ends
    <3>2. memberCode'[m] = c
      BY <2>1, <3>1 DEF TypeInv, TypeOK
    <3> QED  BY <1>3, <1>5, <1>13, <2>2, <2>3, <3>2 DEF Ends
  <2>4. CASE ~ Works(s, m)
    <3>1. call[s].member # m
      BY <2>1, <2>4 DEF Works, CodeSteps
    <3>2. memberCode'[m] = memberCode[m]
      BY <2>1, <3>1 DEF TypeInv, TypeOK
    <3> QED  BY <1>2, <1>5, <1>13, <2>1, <2>2, <2>4, <3>2 DEF Ends
  <2> QED  BY <2>3, <2>4
<1>14. ASSUME NEW s \in Sessions, ForgetCode(s)  PROVE HeldBy(m, c)'
  <2>1. /\ pc[s] = "redeem" /\ memberCode' = memberCode
        /\ codeMember' = [codeMember EXCEPT ![call[s].code] = None]
    BY <1>14 DEF ForgetCode
  <2>2. codeMember[c] = m /\ c # call[s].code
    BY <2>1, AccountsAssumption DEF TypeInv, TypeOK
  <2>3. ~ Works(s, m)
    BY <1>1, <1>5, <1>14, <2>1, <2>2 DEF HeldBy, Keeps, Advances
  <2> QED  BY <1>2, <1>5, <1>14, <2>1, <2>2, <2>3 DEF Advances
<1>15. CASE UNCHANGED vars
  BY <1>1, <1>15 DEF HeldBy, Works, Keeps, vars, redis, sessionVars, history
<1> QED
  BY <1>4, <1>7, <1>8, <1>9, <1>10, <1>11, <1>12, <1>13, <1>14, <1>15, StepKinds
  DEF Advances, Ends

(***************************************************************************)
(* However requests for codes overlap and are lost, a teen they leave      *)
(* undisturbed has one valid code at most.                                 *)
(***************************************************************************)
THEOREM OneCodeAlways == Spec => []OneCode
<1>1. Init => CodesInv
  BY AccountsAssumption
  DEF Init, CodesInv, OneWorker, CodesHeld, Works, CodeSteps, RedeemSteps
<1>2. TypeInv /\ CodesInv /\ [Next]_vars => CodesInv'
  BY OneWorkerStep, CodesHeldStep DEF CodesInv
<1>3. AccountsInv => TypeInv
  BY DEF AccountsInv
<1>4. CodesInv => OneCode
  <2> SUFFICES ASSUME CodesInv, NEW m \in Members \ disturbed
               PROVE  Cardinality({c \in Codes : codeMember[c] = m}) <= 1
    BY DEF OneCode
  <2> DEFINE S == {c \in Codes : codeMember[c] = m}
  <2>1. ASSUME NEW c \in S, NEW d \in S  PROVE c = d
    <3>1. HeldBy(m, c) /\ HeldBy(m, d)
      BY DEF CodesInv, CodesHeld
    <3>2. CASE \A s \in Sessions : ~ Works(s, m)
      BY <3>1, <3>2 DEF HeldBy
    <3>3. CASE \E s \in Sessions : Works(s, m)
      BY <3>1, <3>3 DEF HeldBy, Keeps
    <3> QED  BY <3>2, <3>3
  <2>2. S = {} \/ \E c : S = {c}
    BY <2>1
  <2> HIDE DEF S
  <2>3. Cardinality(S) \in {0, 1}
    BY <2>2, FS_EmptySet, FS_Singleton
  <2> QED  BY <2>3 DEF S
<1> QED  BY <1>1, <1>2, <1>3, <1>4, AccountsInvAlways, PTL DEF Spec
=============================================================================
