------------------------------ MODULE Accounts ------------------------------
(***************************************************************************)
(* Who can sign in as whom: registration (auth.py), teen profiles and      *)
(* their removal (household.py), and the codes that attach a login to a    *)
(* teen's profile (linking.py, auth.py), as concurrent requests.           *)
(*                                                                         *)
(* Members are rows of PostgreSQL with a unique index on their subject.    *)
(* Codes are two keys of Redis, code -> member and member -> code, read    *)
(* and written one call at a time; a client's code lives longer than the   *)
(* behaviours here.  A household is named after the parent who registered  *)
(* it, and has no other parent.                                            *)
(*                                                                         *)
(* get_db commits before or after the client is answered; what was told    *)
(* before is lost when the request is.  Of other answers than that of a    *)
(* link nothing is said here.                                              *)
(***************************************************************************)
EXTENDS Naturals, FiniteSets

CONSTANTS
    Members,        \* rows that can exist
    Emails,
    Names,          \* display names of teens
    Codes,
    None,           \* no member, code or email
    Sessions,       \* requests that can be in progress at a time
    MaxFailures     \* bound: requests that are lost

VARIABLES
    row,            \* row[m]: the committed member, or NoRow
    codeMember,     \* Redis: link_code:<code>
    memberCode,     \* Redis: link_code_for_member:<member>
    pc, call,       \* where a session is, and what it works on
    copy,           \* copy[s]: the row as it will write it
    linked,         \* <<m, e>>: a client was told that e signs in as m
    unsaved,        \* those of them that are not committed
    contended,      \* members of whom two redemptions overlapped
    disturbed,      \* members whose code requests overlapped or were lost
    failures

redis == <<codeMember, memberCode>>
sessionVars == <<pc, call, copy>>
history == <<linked, unsaved, contended, disturbed>>
vars == <<row, redis, sessionVars, history, failures>>

(***************************************************************************)
(* The subject of a teen without a login: "pending-", household and name.  *)
(***************************************************************************)
Placeholder == [house : Members, name : Names]

ASSUME AccountsAssumption ==
    /\ None \notin Members
    /\ Emails \cap Placeholder = {}
    /\ MaxFailures \in Nat

Row == [house : Members, role : {"parent", "teen"}, subject : Emails \cup Placeholder,
        archived : BOOLEAN]
NoRow == [role |-> "none"]

NoCall == [member |-> None, email |-> None, code |-> None]

CodeSteps == {"generate", "drop", "draw", "index"}
RedeemSteps == {"redeem", "forget", "check", "update", "updated", "told"}
InsertSteps == {"insert", "inserted"}

TypeOK ==
    /\ row \in [Members -> Row \cup {NoRow}]
    /\ codeMember \in [Codes -> Members \cup {None}]
    /\ memberCode \in [Members -> Codes \cup {None}]
    /\ pc \in [Sessions -> {"idle", "remove"} \cup CodeSteps \cup RedeemSteps \cup InsertSteps]
    /\ call \in [Sessions -> [member : Members \cup {None}, email : Emails \cup {None},
                              code : Codes \cup {None}]]
    /\ copy \in [Sessions -> Row \cup {NoRow}]
    /\ linked \in SUBSET (Members \X Emails) /\ unsaved \in SUBSET linked
    /\ contended \in SUBSET Members /\ disturbed \in SUBSET Members
    /\ failures \in 0..MaxFailures

Init ==
    /\ row = [m \in Members |-> NoRow]
    /\ codeMember = [c \in Codes |-> None]
    /\ memberCode = [m \in Members |-> None]
    /\ pc = [s \in Sessions |-> "idle"]
    /\ call = [s \in Sessions |-> NoCall]
    /\ copy = [s \in Sessions |-> NoRow]
    /\ linked = {} /\ unsaved = {} /\ contended = {} /\ disturbed = {}
    /\ failures = 0

-----------------------------------------------------------------------------
Exists(m) == row[m] # NoRow
Taken(m, subject) == \E n \in Members \ {m} : Exists(n) /\ row[n].subject = subject
Unlinked(m) == Exists(m) /\ row[m].role = "teen" /\ row[m].subject \in Placeholder

Goto(s, label) == pc' = [pc EXCEPT ![s] = label]

Open(s, label, c, new) ==
    /\ pc[s] = "idle"
    /\ Goto(s, label)
    /\ call' = [call EXCEPT ![s] = c]
    /\ copy' = [copy EXCEPT ![s] = new]
    /\ UNCHANGED <<row, redis, linked, unsaved, failures>>

Close(s) ==
    /\ Goto(s, "idle")
    /\ call' = [call EXCEPT ![s] = NoCall]
    /\ copy' = [copy EXCEPT ![s] = NoRow]

Working(m, steps) == {s \in Sessions : call[s].member = m /\ pc[s] \in steps}

-----------------------------------------------------------------------------
(***************************************************************************)
(* INSERT and UPDATE: a write waits for the transaction that has written   *)
(* the row or the same subject, and then meets the unique index.           *)
(***************************************************************************)
Waits(s) == \E t \in Sessions \ {s} :
    /\ pc[t] \in {"inserted", "updated", "told"}
    /\ call[t].member = call[s].member \/ copy[t].subject = copy[s].subject

FlushUnchecked(s) ==        \* a defect: no index behind the SELECT
    /\ pc[s] \in {"insert", "update"}
    /\ Goto(s, IF pc[s] = "insert" THEN "inserted" ELSE "updated")
    /\ UNCHANGED <<row, redis, call, copy, history, failures>>

Flush(s) ==
    /\ pc[s] \in {"insert", "update"}
    /\ ~ Waits(s)
    /\ ~ Taken(call[s].member, copy[s].subject)
    /\ Goto(s, IF pc[s] = "insert" THEN "inserted" ELSE "updated")
    /\ UNCHANGED <<row, redis, call, copy, history, failures>>

(***************************************************************************)
(* 409 for an email, 500 for the placeholder of a second teen of one name. *)
(***************************************************************************)
Conflict(s) ==
    /\ pc[s] \in {"insert", "update"}
    /\ ~ Waits(s)
    /\ Taken(call[s].member, copy[s].subject)
    /\ Close(s)
    /\ UNCHANGED <<row, redis, history, failures>>

CommitInsert(s) ==
    /\ pc[s] = "inserted"
    /\ row' = [row EXCEPT ![call[s].member] = copy[s]]
    /\ Close(s)
    /\ UNCHANGED <<redis, history, failures>>

Fresh(m) == ~ Exists(m) /\ \A s \in Sessions : call[s].member # m

(***************************************************************************)
(* The SELECT of an email that is taken ends in 409 at once.               *)
(***************************************************************************)
Register(s, m, e) ==
    /\ Fresh(m)
    /\ ~ Taken(m, e)
    /\ Open(s, "insert", [NoCall EXCEPT !.member = m],
            [house |-> m, role |-> "parent", subject |-> e, archived |-> FALSE])
    /\ UNCHANGED <<contended, disturbed>>

CreateTeen(s, parent, m, n) ==
    /\ Exists(parent) /\ row[parent].role = "parent"
    /\ Fresh(m)
    /\ Open(s, "insert", [NoCall EXCEPT !.member = m],
            [house |-> parent, role |-> "teen", archived |-> FALSE,
             subject |-> [house |-> parent, name |-> n]])
    /\ UNCHANGED <<contended, disturbed>>

(***************************************************************************)
(* A parent may remove any member of the household but themselves.         *)
(***************************************************************************)
Remove(s, m) ==
    /\ Exists(m) /\ row[m].role = "teen" /\ ~ row[m].archived
    /\ Open(s, "remove", [NoCall EXCEPT !.member = m], [row[m] EXCEPT !.archived = TRUE])
    /\ UNCHANGED <<contended, disturbed>>

ArchiveWhole(s) ==          \* a defect: the loaded row is written back
    /\ pc[s] = "remove"
    /\ ~ Waits(s)
    /\ row' = [row EXCEPT ![call[s].member] = copy[s]]
    /\ Close(s)
    /\ UNCHANGED <<redis, history, failures>>

Archive(s) ==
    /\ pc[s] = "remove"
    /\ ~ Waits(s)
    /\ row' = [row EXCEPT ![call[s].member].archived = TRUE]
    /\ Close(s)
    /\ UNCHANGED <<redis, history, failures>>

-----------------------------------------------------------------------------
(***************************************************************************)
(* A parent asks for a code: SELECT the teen; GET the previous code; DEL   *)
(* it; SET the new one, which may be any, in use or not; SET the index.    *)
(***************************************************************************)
GenerateCode(s, m) ==
    /\ Unlinked(m) /\ ~ row[m].archived
    /\ Open(s, "generate", [NoCall EXCEPT !.member = m], NoRow)
    /\ disturbed' = IF Working(m, CodeSteps \cup RedeemSteps) = {} THEN disturbed
                    ELSE disturbed \cup {m}
    /\ UNCHANGED contended

PreviousCode(s) ==
    /\ pc[s] = "generate"
    /\ Goto(s, "drop")
    /\ call' = [call EXCEPT ![s].code = memberCode[call[s].member]]
    /\ UNCHANGED <<row, redis, copy, history, failures>>

KeepPrevious(s) ==          \* a defect: the previous code stays valid
    /\ pc[s] = "drop"
    /\ Goto(s, "draw")
    /\ call' = [call EXCEPT ![s].code = None]
    /\ UNCHANGED <<row, redis, copy, history, failures>>

DropPrevious(s) ==
    /\ pc[s] = "drop"
    /\ Goto(s, "draw")
    /\ codeMember' = [c \in Codes |-> IF c = call[s].code THEN None ELSE codeMember[c]]
    /\ call' = [call EXCEPT ![s].code = None]
    /\ UNCHANGED <<row, memberCode, copy, history, failures>>

SetCode(s) ==
    /\ pc[s] = "draw"
    /\ Goto(s, "index")
    /\ \E c \in Codes :
          /\ codeMember' = [codeMember EXCEPT ![c] = call[s].member]
          /\ call' = [call EXCEPT ![s].code = c]
    /\ UNCHANGED <<row, memberCode, copy, history, failures>>

IndexSwapped(s) ==          \* a defect: key and value are swapped
    /\ pc[s] = "index"
    /\ memberCode' = [memberCode EXCEPT ![call[s].member] = call[s].member]
    /\ Close(s)
    /\ UNCHANGED <<row, codeMember, history, failures>>

IndexCode(s) ==
    /\ pc[s] = "index"
    /\ memberCode' = [memberCode EXCEPT ![call[s].member] = call[s].code]
    /\ Close(s)
    /\ UNCHANGED <<row, codeMember, history, failures>>

-----------------------------------------------------------------------------
(***************************************************************************)
(* A teen redeems a code with an email of theirs: GET the code; DEL it;    *)
(* DEL the index; SELECT the member and the email; UPDATE; COMMIT.  The    *)
(* code is gone whatever comes of it.                                      *)
(***************************************************************************)
RedeemCode(s, c, e) ==
    /\ codeMember[c] # None
    /\ LET m == codeMember[c]
       IN  /\ Open(s, "redeem", [member |-> m, email |-> e, code |-> c], NoRow)
           /\ contended' = IF Working(m, RedeemSteps) = {} THEN contended
                           ELSE contended \cup {m}
           /\ disturbed' = IF Working(m, CodeSteps \cup RedeemSteps) = {} THEN disturbed
                           ELSE disturbed \cup {m}

ForgetCode(s) ==
    /\ pc[s] = "redeem"
    /\ Goto(s, "forget")
    /\ codeMember' = [codeMember EXCEPT ![call[s].code] = None]
    /\ UNCHANGED <<row, memberCode, call, copy, history, failures>>

ForgetIndex(s) ==
    /\ pc[s] = "forget"
    /\ Goto(s, "check")
    /\ memberCode' = [memberCode EXCEPT ![call[s].member] = None]
    /\ UNCHANGED <<row, codeMember, call, copy, history, failures>>

Link(s) ==
    /\ pc[s] = "check"
    /\ Unlinked(call[s].member)
    /\ ~ Taken(call[s].member, call[s].email)
    /\ Goto(s, "update")
    /\ copy' = [copy EXCEPT ![s] = [row[call[s].member] EXCEPT !.subject = call[s].email]]
    /\ UNCHANGED <<row, redis, call, history, failures>>

(***************************************************************************)
(* 409: the profile has a login, or the email is in use.                   *)
(***************************************************************************)
Refuse(s) ==
    /\ pc[s] = "check"
    /\ ~ Unlinked(call[s].member) \/ Taken(call[s].member, call[s].email)
    /\ Close(s)
    /\ UNCHANGED <<row, redis, history, failures>>

(***************************************************************************)
(* The teen gets tokens, and get_db commits: in this order or the other.   *)
(***************************************************************************)
NewLink(s) == <<call[s].member, call[s].email>>

Answer(s) ==
    /\ pc[s] = "updated"
    /\ Goto(s, "told")
    /\ linked' = linked \cup {NewLink(s)}
    /\ unsaved' = unsaved \cup {NewLink(s)}
    /\ UNCHANGED <<row, redis, call, copy, contended, disturbed, failures>>

CommitLink(s) ==
    /\ pc[s] \in {"updated", "told"}
    /\ row' = [row EXCEPT ![call[s].member].subject = call[s].email]
    /\ linked' = linked \cup {NewLink(s)}
    /\ unsaved' = unsaved \ {NewLink(s)}
    /\ Close(s)
    /\ UNCHANGED <<redis, contended, disturbed, failures>>

-----------------------------------------------------------------------------
Fail(s) ==
    /\ pc[s] # "idle"
    /\ failures < MaxFailures
    /\ failures' = failures + 1
    /\ disturbed' = IF pc[s] \in CodeSteps \cup RedeemSteps
                    THEN disturbed \cup {call[s].member} ELSE disturbed
    /\ Close(s)
    /\ UNCHANGED <<row, redis, linked, unsaved, contended>>

Next == \E s \in Sessions :
    \/ \E m \in Members :
          \/ \E e \in Emails : Register(s, m, e)
          \/ \E parent \in Members, n \in Names : CreateTeen(s, parent, m, n)
          \/ Remove(s, m) \/ GenerateCode(s, m)
    \/ \E c \in Codes, e \in Emails : RedeemCode(s, c, e)
    \/ Flush(s) \/ Conflict(s) \/ CommitInsert(s) \/ Archive(s)
    \/ PreviousCode(s) \/ DropPrevious(s) \/ SetCode(s) \/ IndexCode(s)
    \/ ForgetCode(s) \/ ForgetIndex(s) \/ Link(s) \/ Refuse(s)
    \/ Answer(s) \/ CommitLink(s) \/ Fail(s)

Spec == Init /\ [][Next]_vars

-----------------------------------------------------------------------------
(***************************************************************************)
(* A subject belongs to one member, also when registrations and links for  *)
(* one email pass their SELECTs side by side: login looks members up by it *)
(* with scalar_one_or_none, and fails for two.                             *)
(***************************************************************************)
UniqueSubject ==
    \A m, n \in Members :
        m # n /\ Exists(m) /\ Exists(n) => row[m].subject # row[n].subject

(***************************************************************************)
(* Whoever was told that their email signs in as a teen can sign in as     *)
(* that teen from then on, unless the answer was ahead of a commit that is *)
(* to come or was lost, or two redemptions for the teen were under way at  *)
(* once: then the later UPDATE takes the profile over.                     *)
(***************************************************************************)
LinkedCanSignIn ==
    \A link \in linked \ unsaved :
        row[link[1]].subject = link[2] \/ link[1] \in contended

(***************************************************************************)
(* Claim of linking.py:12 and auth.py:234-238: a code is good for one use, *)
(* and a profile that has a login is not linked again.  So one email at    *)
(* most was linked to a teen.                                              *)
(***************************************************************************)
LinkedOnce ==
    \A link, other \in linked \ unsaved : link[1] = other[1] => link[2] = other[2]

(***************************************************************************)
(* Whatever overlaps, a member keeps household and role for good, and a    *)
(* profile with a login is never again one without.                        *)
(***************************************************************************)
IdentityKept ==
    [][\A m \in Members : Exists(m) =>
          /\ row'[m].house = row[m].house /\ row'[m].role = row[m].role
          /\ row[m].subject \in Emails => row'[m].subject \in Emails]_vars

(***************************************************************************)
(* A teen has one valid code at a time, unless requests for that teen's    *)
(* codes overlapped or were lost between two calls of Redis.               *)
(***************************************************************************)
OneCode ==
    \A m \in Members \ disturbed : Cardinality({c \in Codes : codeMember[c] = m}) <= 1
=============================================================================
