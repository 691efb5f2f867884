---------------------------- MODULE SignInProofs ----------------------------
(***************************************************************************)
(* Proofs about SignIn for any counters and limits, any tokens and         *)
(* sessions, and any number of failures.                                   *)
(***************************************************************************)
EXTENDS SignIn, FiniteSetTheorems, TLAPS

-----------------------------------------------------------------------------
(***************************************************************************)
(* Type correctness.  A session that counts is at one of the keys it       *)
(* checks; one that rotates has a token that was issued.                   *)
(***************************************************************************)
Counting == \A s \in Sessions : pc[s] \in {"count", "expire", "verify"} =>
    checks[s] \in Checks /\ at[s] \in 1..Len(checks[s])

AtStart == \A s \in Sessions : pc[s] \in {"idle", "redeem", "issue"} => at[s] = 1

Holding == \A s \in Sessions : pc[s] \in {"redeem", "issue"} =>
    token[s] \in Tokens /\ ~ Fresh(token[s])

TypeInv == TypeOK /\ Counting /\ AtStart /\ Holding

(***************************************************************************)
(* Nothing is counted, issued or in progress at first.                     *)
(***************************************************************************)
LEMMA TypeInit == Init => TypeInv
<1> SUFFICES ASSUME Init  PROVE TypeInv
  OBVIOUS
<1>1. failures \in 0..MaxFailures /\ \A k \in Keys : 0 <= Limit[k] + 1
  BY SignInAssumption DEF Init
<1>2. TypeOK
  BY <1>1 DEF Init, TypeOK
<1>3. Counting /\ AtStart /\ Holding
  BY DEF Init, Counting, AtStart, Holding
<1> QED  BY <1>2, <1>3 DEF TypeInv

(***************************************************************************)
(* Sessions' own types.                                                    *)
(***************************************************************************)
SessionTypes ==
    /\ pc \in [Sessions -> {"idle", "count", "expire", "verify", "redeem", "issue"}]
    /\ checks \in [Sessions -> Checks \cup {<< >>}]
    /\ at \in [Sessions -> Nat]
    /\ token \in [Sessions -> Tokens \cup {NoToken}]
    /\ Counting /\ AtStart

(***************************************************************************)
(* The key at hand is one.                                                 *)
(***************************************************************************)
LEMMA KeyIsKey ==
    ASSUME TypeInv, NEW s \in Sessions, pc[s] \in {"count", "expire", "verify"}
    PROVE  Key(s) \in Keys
<1>1. checks[s] \in Seq(Keys) /\ at[s] \in 1..Len(checks[s])
  BY SignInAssumption DEF TypeInv, Counting
<1> QED  BY <1>1 DEF Key

(***************************************************************************)
(* Closing a session, or passing a counter, keeps its types.               *)
(***************************************************************************)
LEMMA CloseTypes ==
    ASSUME TypeInv, NEW s \in Sessions, Close(s)
    PROVE  SessionTypes'
<1>1. /\ pc' = [pc EXCEPT ![s] = "idle"] /\ checks' = [checks EXCEPT ![s] = << >>]
      /\ at' = [at EXCEPT ![s] = 1] /\ token' = [token EXCEPT ![s] = NoToken]
  BY DEF Close, Goto
<1> QED  BY <1>1 DEF TypeInv, TypeOK, SessionTypes, Counting, AtStart

(***************************************************************************)
(* An attempt goes on to its next counter, or to its credentials.          *)
(***************************************************************************)
LEMMA PassTypes ==
    ASSUME TypeInv, NEW s \in Sessions, pc[s] \in {"count", "expire"}, Pass(s)
    PROVE  SessionTypes'
<1>1. checks[s] \in Seq(Keys) /\ checks[s] \in Checks /\ at[s] \in 1..Len(checks[s])
  BY SignInAssumption DEF TypeInv, Counting
<1>2. Len(checks[s]) \in Nat /\ checks' = checks /\ token' = token
  BY <1>1 DEF Pass
<1>3. CASE at[s] < Len(checks[s])
  <2>1. pc' = [pc EXCEPT ![s] = "count"] /\ at' = [at EXCEPT ![s] = @ + 1]
    BY <1>3 DEF Pass, Goto
  <2>2. at[s] + 1 \in 1..Len(checks[s])
    BY <1>1, <1>2, <1>3
  <2> QED  BY <1>1, <1>2, <2>1, <2>2
           DEF TypeInv, TypeOK, SessionTypes, Counting, AtStart
<1>4. CASE ~ (at[s] < Len(checks[s]))
  <2>1. pc' = [pc EXCEPT ![s] = "verify"] /\ at' = at
    BY <1>4 DEF Pass, Goto
  <2> QED  BY <1>1, <1>2, <2>1 DEF TypeInv, TypeOK, SessionTypes, Counting, AtStart
<1> QED  BY <1>3, <1>4

(***************************************************************************)
(* Types of what is in Redis.                                              *)
(***************************************************************************)
CounterTypes ==
    /\ count \in [Keys -> Nat] /\ \A k \in Keys : count[k] <= Limit[k] + 1
    /\ ttl \in SUBSET Keys /\ orphaned \in SUBSET Keys

TokenTypes ==
    /\ used \in SUBSET Tokens /\ lost \in SUBSET Tokens
    /\ ending \in SUBSET Tokens /\ expired \in SUBSET ending
    /\ issued \in [Tokens -> Tokens \cup {NoToken}]

(***************************************************************************)
(* The type invariant in its parts.                                        *)
(***************************************************************************)
LEMMA TypeParts ==
    /\ TypeInv <=> CounterTypes /\ TokenTypes /\ SessionTypes /\ Holding
                   /\ failures \in 0..MaxFailures
    /\ TypeInv' <=> CounterTypes' /\ TokenTypes' /\ SessionTypes' /\ Holding'
                    /\ failures' \in 0..MaxFailures
BY DEF TypeInv, TypeOK, CounterTypes, TokenTypes, SessionTypes

(***************************************************************************)
(* Every step preserves the types.                                         *)
(***************************************************************************)
LEMMA TypeStep ==
    ASSUME TypeInv, [Next]_vars
    PROVE  TypeInv'
<1>0. CounterTypes /\ TokenTypes /\ SessionTypes /\ Holding /\ failures \in 0..MaxFailures
  BY TypeParts
<1>a. Limit \in [Keys -> Nat \ {0}] /\ MaxFailures \in Nat
  BY SignInAssumption
<1>b. ASSUME NEW s \in Sessions, Close(s), \A t \in Tokens : Fresh(t)' => Fresh(t)
      PROVE  SessionTypes' /\ Holding'
  <2>1. SessionTypes'
    BY <1>b, CloseTypes
  <2>2. pc' = [pc EXCEPT ![s] = "idle"] /\ token' = [token EXCEPT ![s] = NoToken]
    BY <1>b DEF Close, Goto
  <2>3. Holding'
    BY <1>0, <1>b, <2>2 DEF SessionTypes, Holding
  <2> QED  BY <2>1, <2>3
<1>c. ASSUME NEW s \in Sessions, pc[s] \in {"count", "expire"}, Pass(s), issued' = issued
      PROVE  SessionTypes' /\ Holding'
  <2>1. SessionTypes'
    BY <1>c, PassTypes
  <2>2. token' = token /\ \A u \in Sessions : pc'[u] \in {"redeem", "issue"} => pc'[u] = pc[u]
    BY <1>0, <1>c DEF SessionTypes, Pass, Goto
  <2>3. Holding'
    BY <1>0, <1>c, <2>2 DEF Holding, Fresh
  <2> QED  BY <2>1, <2>3
<1>d. ASSUME NEW k \in Keys, NEW n \in Nat, n <= Limit[k] + 1,
             count' = [count EXCEPT ![k] = n],
             ttl' \in SUBSET Keys, orphaned' = orphaned
      PROVE  CounterTypes'
  <2>1. \A j \in Keys : count'[j] = IF j = k THEN n ELSE count[j]
    BY <1>0, <1>d DEF CounterTypes
  <2>2. count' \in [Keys -> Nat]
    BY <1>0, <1>d DEF CounterTypes
  <2>3. \A j \in Keys : count'[j] <= Limit[j] + 1
    BY <1>0, <1>d, <2>1 DEF CounterTypes
  <2> QED  BY <1>0, <1>d, <2>2, <2>3 DEF CounterTypes
<1>1. ASSUME NEW s \in Sessions, NEW c \in Checks, Attempt(s, c)  PROVE TypeInv'
  <2>1. c \in Seq(Keys) /\ c # << >> /\ at[s] = 1
    BY <1>0, <1>1, SignInAssumption DEF Attempt, SessionTypes, AtStart
  <2>2. 1 \in 1..Len(c)
    BY <2>1
  <2>3. SessionTypes' /\ Holding'
    BY <1>0, <1>1, <2>1, <2>2
    DEF Attempt, Goto, SessionTypes, Counting, AtStart, Holding, Fresh, tokens
  <2>4. CounterTypes' /\ TokenTypes' /\ failures' \in 0..MaxFailures
    BY <1>0, <1>1 DEF Attempt, CounterTypes, TokenTypes, counters, tokens
  <2> QED  BY <2>3, <2>4, TypeParts
<1>2. ASSUME NEW s \in Sessions, CountFirst(s)  PROVE TypeInv'
  <2>1. SessionTypes' /\ Holding'
    BY <1>0, <1>2
    DEF CountFirst, Goto, SessionTypes, Counting, AtStart, Holding, Fresh, tokens
  <2>2. CounterTypes'
    <3>1. PICK k \in Keys : k = Key(s)
      BY <1>2, KeyIsKey DEF CountFirst
    <3>2. 1 <= Limit[k] + 1
      BY <1>a
    <3> QED  BY <1>0, <1>2, <1>d, <3>1, <3>2 DEF CountFirst, CounterTypes
  <2>3. TokenTypes' /\ failures' \in 0..MaxFailures
    BY <1>0, <1>2 DEF CountFirst, TokenTypes, tokens
  <2> QED  BY <2>1, <2>2, <2>3, TypeParts
<1>3. ASSUME NEW s \in Sessions, Expire(s)  PROVE TypeInv'
  <2>1. Key(s) \in Keys
    BY <1>3, KeyIsKey DEF Expire
  <2>2. SessionTypes' /\ Holding'
    BY <1>3, <1>c DEF Expire, tokens
  <2>3. CounterTypes' /\ TokenTypes' /\ failures' \in 0..MaxFailures
    BY <1>0, <1>3, <2>1 DEF Expire, CounterTypes, TokenTypes, tokens
  <2> QED  BY <2>2, <2>3, TypeParts
<1>4. ASSUME NEW s \in Sessions, CountNext(s)  PROVE TypeInv'
  <2>1. Key(s) \in Keys
    BY <1>4, KeyIsKey DEF CountNext
  <2>2. SessionTypes' /\ Holding'
    BY <1>4, <1>c DEF CountNext, tokens
  <2>3. CounterTypes'
    <3>1. PICK k \in Keys : k = Key(s)
      BY <2>1
    <3>2. PICK n \in Nat : n = count[k] + 1
      BY <1>0 DEF CounterTypes
    <3>3. count[k] \in 1..(Limit[k] - 1) /\ count' = [count EXCEPT ![k] = n]
      BY <1>4, <3>1, <3>2 DEF CountNext
    <3>4. n <= Limit[k] + 1
      BY <1>a, <3>2, <3>3
    <3> QED  BY <1>0, <1>4, <1>d, <3>3, <3>4 DEF CountNext, CounterTypes
  <2>4. TokenTypes' /\ failures' \in 0..MaxFailures
    BY <1>0, <1>4 DEF CountNext, TokenTypes, tokens
  <2> QED  BY <2>2, <2>3, <2>4, TypeParts
<1>5. ASSUME NEW s \in Sessions, TooMany(s)  PROVE TypeInv'
  <2>1. Key(s) \in Keys
    BY <1>5, KeyIsKey DEF TooMany
  <2>2. SessionTypes' /\ Holding'
    BY <1>5, <1>b DEF TooMany, Fresh, tokens
  <2>3. CounterTypes'
    <3>1. PICK k \in Keys : k = Key(s)
      BY <2>1
    <3>2. PICK n \in Nat : n = Limit[k] + 1
      BY <1>a
    <3> QED  BY <1>0, <1>5, <1>d, <3>1, <3>2 DEF TooMany, CounterTypes
  <2>4. TokenTypes' /\ failures' \in 0..MaxFailures
    BY <1>0, <1>5 DEF TooMany, TokenTypes, tokens
  <2> QED  BY <2>2, <2>3, <2>4, TypeParts
<1>6. ASSUME NEW s \in Sessions, Succeed(s)  PROVE TypeInv'
  <2>1. PICK t \in Tokens : Fresh(t) /\ issued' = [issued EXCEPT ![t] = t]
    BY <1>6 DEF Succeed
  <2>2. issued' \in [Tokens -> Tokens \cup {NoToken}]
    BY <1>0, <2>1 DEF TokenTypes
  <2>3. \A u \in Tokens : Fresh(u)' => Fresh(u)
    BY <1>0, <2>1, SignInAssumption DEF Fresh, TokenTypes
  <2>4. SessionTypes' /\ Holding'
    BY <1>6, <1>b, <2>3 DEF Succeed
  <2>5. CounterTypes' /\ TokenTypes' /\ failures' \in 0..MaxFailures
    BY <1>0, <1>6, <2>2 DEF Succeed, CounterTypes, TokenTypes, counters
  <2> QED  BY <2>4, <2>5, TypeParts
<1>7. ASSUME NEW s \in Sessions, Done(s) \/ AlreadyUsed(s)  PROVE TypeInv'
  <2>1. SessionTypes' /\ Holding'
    BY <1>7, <1>b DEF Done, AlreadyUsed, Fresh, tokens
  <2>2. CounterTypes' /\ TokenTypes' /\ failures' \in 0..MaxFailures
    BY <1>0, <1>7 DEF Done, AlreadyUsed, CounterTypes, TokenTypes, counters, tokens
  <2> QED  BY <2>1, <2>2, TypeParts
<1>8. ASSUME NEW s \in Sessions, NEW t \in Tokens, Refresh(s, t)  PROVE TypeInv'
  <2>1. SessionTypes' /\ Holding'
    BY <1>0, <1>8
    DEF Refresh, Goto, SessionTypes, Counting, AtStart, Holding, Fresh, tokens
  <2>2. CounterTypes' /\ TokenTypes' /\ failures' \in 0..MaxFailures
    BY <1>0, <1>8 DEF Refresh, CounterTypes, TokenTypes, counters, tokens
  <2> QED  BY <2>1, <2>2, TypeParts
<1>9. ASSUME NEW s \in Sessions, Redeem(s)  PROVE TypeInv'
  <2>1. token[s] \in Tokens
    BY <1>0, <1>9 DEF Redeem, Holding
  <2>2. SessionTypes' /\ Holding'
    BY <1>0, <1>9 DEF Redeem, Goto, SessionTypes, Counting, AtStart, Holding, Fresh
  <2>3. CounterTypes' /\ TokenTypes' /\ failures' \in 0..MaxFailures
    BY <1>0, <1>9, <2>1 DEF Redeem, CounterTypes, TokenTypes, counters
  <2> QED  BY <2>2, <2>3, TypeParts
<1>10. ASSUME NEW s \in Sessions, Issue(s)  PROVE TypeInv'
  <2>1. PICK t \in Tokens : Fresh(t) /\ issued' = [issued EXCEPT ![t] = token[s]]
    BY <1>10 DEF Issue
  <2>2. token[s] \in Tokens
    BY <1>0, <1>10 DEF Issue, Holding
  <2>3. issued' \in [Tokens -> Tokens \cup {NoToken}]
    BY <1>0, <2>1, <2>2 DEF TokenTypes
  <2>4. \A u \in Tokens : Fresh(u)' => Fresh(u)
    BY <1>0, <2>1, <2>2, SignInAssumption DEF Fresh, TokenTypes
  <2>5. SessionTypes' /\ Holding'
    BY <1>10, <1>b, <2>4 DEF Issue
  <2>6. CounterTypes' /\ TokenTypes' /\ failures' \in 0..MaxFailures
    BY <1>0, <1>10, <2>3 DEF Issue, CounterTypes, TokenTypes, counters
  <2> QED  BY <2>5, <2>6, TypeParts
<1>11. ASSUME NEW s \in Sessions, Fail(s)  PROVE TypeInv'
  <2>1. SessionTypes' /\ Holding'
    BY <1>11, <1>b DEF Fail, Fresh
  <2>2. pc[s] = "expire" => Key(s) \in Keys
    BY KeyIsKey
  <2>3. pc[s] = "issue" => token[s] \in Tokens
    BY <1>0 DEF Holding
  <2>4. CounterTypes' /\ TokenTypes'
    BY <1>0, <1>11, <2>2, <2>3 DEF Fail, CounterTypes, TokenTypes
  <2>5. failures' \in 0..MaxFailures
    BY <1>0, <1>11, <1>a DEF Fail
  <2> QED  BY <2>1, <2>4, <2>5, TypeParts
<1>12. ASSUME NEW k \in Keys, WindowEnds(k)  PROVE TypeInv'
  <2>1. CounterTypes'
    <3>1. 0 <= Limit[k] + 1
      BY <1>a
    <3> QED  BY <1>0, <1>12, <1>d, <3>1 DEF WindowEnds, CounterTypes
  <2>2. SessionTypes' /\ Holding' /\ TokenTypes' /\ failures' \in 0..MaxFailures
    BY <1>0, <1>12 DEF WindowEnds, SessionTypes, Counting, AtStart, Holding, Fresh,
                       TokenTypes, tokens, sessionVars
  <2> QED  BY <2>1, <2>2, TypeParts
<1>13. ASSUME NEW t \in Tokens, NearsExpiry(t) \/ TokenExpires(t) \/ RecordExpires(t)  PROVE TypeInv'
  <2>1. CounterTypes' /\ TokenTypes' /\ failures' \in 0..MaxFailures
    BY <1>0, <1>13
    DEF NearsExpiry, TokenExpires, RecordExpires, CounterTypes, TokenTypes, counters
  <2>2. SessionTypes' /\ Holding'
    BY <1>0, <1>13 DEF NearsExpiry, TokenExpires, RecordExpires, SessionTypes, Counting,
                       AtStart, Holding, Fresh, sessionVars
  <2> QED  BY <2>1, <2>2, TypeParts
<1>14. CASE UNCHANGED vars
  BY <1>14 DEF TypeInv, TypeOK, Counting, AtStart, Holding, Fresh, vars, counters, tokens,
               sessionVars
<1> QED
  BY <1>1, <1>2, <1>3, <1>4, <1>5, <1>6, <1>7, <1>8, <1>9, <1>10, <1>11, <1>12, <1>13,
     <1>14
  DEF Next

(***************************************************************************)
(* Type correctness of every state that can be reached.                    *)
(***************************************************************************)
THEOREM TypesAlways == Spec => []TypeOK
<1>1. Spec => []TypeInv
  BY TypeInit, TypeStep, PTL DEF Spec
<1>2. TypeInv => TypeOK
  BY DEF TypeInv
<1> QED  BY <1>1, <1>2, PTL

-----------------------------------------------------------------------------
(***************************************************************************)
(* Rotation.  A token whose jti is reserved has one request on its way to  *)
(* a successor, or one successor, or the request was lost; any other token *)
(* has neither.  A token near its exp is out of this: its jti may go.       *)
(***************************************************************************)
OnItsWay(t) == (\E s \in Sessions : Rotating(t) = {s}) /\ Successors(t) = {}

Rotated(t) == (\E u \in Tokens : Successors(t) = {u}) /\ Rotating(t) = {}

Untouched(t) == Successors(t) = {} /\ Rotating(t) = {}

Rotation(t) ==
    /\ t \in used \ lost => OnItsWay(t) \/ Rotated(t)
    /\ t \notin used \ lost => Untouched(t)
    /\ t \in lost => t \in used

RotationInv == \A t \in Tokens \ ending : Rotation(t)

(***************************************************************************)
(* A step that neither reserves a token nor ends a rotation changes        *)
(* nothing for a token that is not near its exp.                           *)
(***************************************************************************)
LEMMA RotationQuiet ==
    ASSUME TypeInv, RotationInv, ending \subseteq ending',
           \A t \in Tokens \ ending' : (t \in used' <=> t \in used) /\ (t \in lost' <=> t \in lost),
           \A s \in Sessions : pc'[s] = "issue" <=> pc[s] = "issue",
           \A s \in Sessions : pc[s] = "issue" => token'[s] = token[s],
           \A t, u \in Tokens : u # t => (issued'[u] = t <=> issued[u] = t)
    PROVE  RotationInv'
<1> SUFFICES ASSUME NEW t \in Tokens, t \notin ending'  PROVE Rotation(t)'
  BY DEF RotationInv
<1>1. Rotation(t)
  BY DEF RotationInv
<1>2. Rotating(t)' = Rotating(t)
  BY DEF Rotating
<1>3. Successors(t)' = Successors(t)
  BY DEF Successors
<1> QED  BY <1>1, <1>2, <1>3 DEF Rotation, OnItsWay, Rotated, Untouched

(***************************************************************************)
(* Closing a session that does not rotate is such a step.                  *)
(***************************************************************************)
LEMMA RotationClosed ==
    ASSUME TypeInv, RotationInv, NEW s \in Sessions, pc[s] # "issue", Close(s),
           used' = used, lost' = lost, ending' = ending,
           \A t, u \in Tokens : u # t => (issued'[u] = t <=> issued[u] = t)
    PROVE  RotationInv'
<1>1. pc' = [pc EXCEPT ![s] = "idle"] /\ token' = [token EXCEPT ![s] = NoToken]
  BY DEF Close, Goto
<1>2. \A u \in Sessions : (pc'[u] = "issue" <=> pc[u] = "issue")
                           /\ (pc[u] = "issue" => token'[u] = token[u])
  BY <1>1 DEF TypeInv, TypeOK
<1> QED  BY <1>2, RotationQuiet

(***************************************************************************)
(* Reserving a jti that was free: its token is on its way.                 *)
(***************************************************************************)
LEMMA RotationRedeem ==
    ASSUME TypeInv, RotationInv, NEW s \in Sessions, Redeem(s)
    PROVE  RotationInv'
<1>1. PICK t \in Tokens : t = token[s]
  BY DEF Redeem, TypeInv, Holding
<1>2. /\ pc[s] = "redeem" /\ t \notin used /\ used' = used \cup {t}
      /\ pc' = [pc EXCEPT ![s] = "issue"]
      /\ issued' = issued /\ ending' = ending /\ lost' = lost /\ token' = token
  BY <1>1 DEF Redeem, Goto
<1>3. pc \in [Sessions -> {"idle", "count", "expire", "verify", "redeem", "issue"}]
  BY DEF TypeInv, TypeOK
<1> SUFFICES ASSUME NEW x \in Tokens, x \notin ending'  PROVE Rotation(x)'
  BY DEF RotationInv
<1>4. Rotation(x)
  BY <1>2 DEF RotationInv
<1>5. Successors(x)' = Successors(x)
  BY <1>2 DEF Successors
<1>6. CASE x # t
  <2>1. Rotating(x)' = Rotating(x)
    BY <1>1, <1>2, <1>3, <1>6 DEF Rotating
  <2> QED  BY <1>2, <1>4, <1>5, <1>6, <2>1 DEF Rotation, OnItsWay, Rotated, Untouched
<1>7. CASE x = t
  <2>1. Untouched(x) /\ x \notin lost
    BY <1>2, <1>4, <1>7 DEF Rotation
  <2>2. Rotating(x)' = {s}
    BY <1>1, <1>2, <1>3, <1>7, <2>1 DEF Rotating, Untouched
  <2> QED  BY <1>2, <1>5, <1>7, <2>1, <2>2 DEF Rotation, OnItsWay, Untouched
<1> QED  BY <1>6, <1>7

(***************************************************************************)
(* A rotation ends with a successor, or is lost.                           *)
(***************************************************************************)
LEMMA RotationEnds ==
    ASSUME TypeInv, RotationInv, NEW s \in Sessions, pc[s] = "issue", Issue(s) \/ Fail(s)
    PROVE  RotationInv'
<1>1. PICK t \in Tokens : t = token[s] /\ ~ Fresh(t)
  BY DEF TypeInv, Holding
<1>2. /\ pc' = [pc EXCEPT ![s] = "idle"] /\ token' = [token EXCEPT ![s] = NoToken]
      /\ used' = used /\ ending' = ending
  BY DEF Issue, Fail, Close, Goto
<1>3. /\ pc \in [Sessions -> {"idle", "count", "expire", "verify", "redeem", "issue"}]
      /\ token \in [Sessions -> Tokens \cup {NoToken}]
      /\ issued \in [Tokens -> Tokens \cup {NoToken}] /\ NoToken \notin Tokens
  BY SignInAssumption DEF TypeInv, TypeOK
<1>4. s \in Rotating(t)
  BY <1>1 DEF Rotating
<1> SUFFICES ASSUME NEW x \in Tokens, x \notin ending'  PROVE Rotation(x)'
  BY DEF RotationInv
<1>5. Rotation(x)
  BY <1>2 DEF RotationInv
<1>6. CASE x # t
  <2>1. Rotating(x)' = Rotating(x)
    BY <1>1, <1>2, <1>3, <1>6 DEF Rotating
  <2>2. Successors(x)' = Successors(x) /\ (x \in lost' <=> x \in lost)
    <3>1. CASE Issue(s)
      <4>1. PICK v \in Tokens : Fresh(v) /\ issued' = [issued EXCEPT ![v] = t]
        BY <1>1, <3>1 DEF Issue
      <4>2. \A u \in Tokens : issued'[u] = x <=> issued[u] = x
        BY <1>3, <1>6, <4>1 DEF Fresh
      <4> QED  BY <3>1, <4>2 DEF Issue, Successors
    <3>2. CASE Fail(s)
      BY <1>1, <1>6, <3>2 DEF Fail, Successors
    <3> QED  BY <3>1, <3>2
  <2> QED  BY <1>2, <1>5, <2>1, <2>2 DEF Rotation, OnItsWay, Rotated, Untouched
<1>7. CASE x = t
  <2>1. OnItsWay(x) /\ x \in used \ lost
    BY <1>4, <1>5, <1>7 DEF Rotation, Rotated, Untouched
  <2>2. Rotating(x) = {s} /\ Successors(x) = {}
    BY <1>4, <1>7, <2>1 DEF OnItsWay
  <2>3. Rotating(x)' = {}
    BY <1>2, <1>3, <2>2 DEF Rotating
  <2>4. CASE Issue(s)
    <3>1. PICK v \in Tokens : Fresh(v) /\ issued' = [issued EXCEPT ![v] = t]
      BY <1>1, <2>4 DEF Issue
    <3>2. v # t
      BY <1>1, <3>1
    <3>3. Successors(x)' = {v}
      BY <1>3, <1>7, <2>2, <3>1, <3>2 DEF Successors
    <3>4. lost' = lost
      BY <2>4 DEF Issue
    <3> QED  BY <1>2, <2>1, <2>3, <3>3, <3>4 DEF Rotation, Rotated
  <2>5. CASE Fail(s)
    <3>1. issued' = issued /\ x \in lost'
      BY <1>1, <1>7, <2>5 DEF Fail
    <3>2. Successors(x)' = {}
      BY <2>2, <3>1 DEF Successors
    <3> QED  BY <1>2, <2>1, <2>3, <3>1, <3>2 DEF Rotation, Untouched
  <2> QED  BY <2>4, <2>5
<1> QED  BY <1>6, <1>7

(***************************************************************************)
(* Every step preserves the rotation of every token.                       *)
(***************************************************************************)
LEMMA RotationStep ==
    ASSUME TypeInv, RotationInv, [Next]_vars
    PROVE  RotationInv'
<1>0. /\ pc \in [Sessions -> {"idle", "count", "expire", "verify", "redeem", "issue"}]
      /\ token \in [Sessions -> Tokens \cup {NoToken}]
      /\ issued \in [Tokens -> Tokens \cup {NoToken}] /\ NoToken \notin Tokens
  BY SignInAssumption DEF TypeInv, TypeOK
<1>1. ASSUME NEW s \in Sessions,
             TooMany(s) \/ Done(s) \/ AlreadyUsed(s) \/ (Fail(s) /\ pc[s] # "issue")
      PROVE  RotationInv'
  BY <1>1, RotationClosed DEF TooMany, Done, AlreadyUsed, Fail, tokens
<1>2. ASSUME NEW s \in Sessions, Succeed(s)  PROVE RotationInv'
  <2>1. PICK v \in Tokens : Fresh(v) /\ issued' = [issued EXCEPT ![v] = v]
    BY <1>2 DEF Succeed
  <2>2. \A t, u \in Tokens : u # t => (issued'[u] = t <=> issued[u] = t)
    BY <1>0, <2>1 DEF Fresh
  <2> QED  BY <1>2, <2>2, RotationClosed DEF Succeed
<1>3. ASSUME NEW s \in Sessions,
             (\E c \in Checks : Attempt(s, c)) \/ CountFirst(s) \/ Expire(s) \/ CountNext(s)
                 \/ \E t \in Tokens : Refresh(s, t)
      PROVE  RotationInv'
  <2>1. /\ pc[s] # "issue"
        /\ \E label \in {"count", "expire", "verify", "redeem"} : pc' = [pc EXCEPT ![s] = label]
        /\ token' = token \/ \E t \in Tokens : token' = [token EXCEPT ![s] = t]
        /\ tokens' = tokens
    BY <1>3 DEF Attempt, CountFirst, Expire, CountNext, Refresh, Pass, Goto
  <2>2. \A u \in Sessions : (pc'[u] = "issue" <=> pc[u] = "issue")
                             /\ (pc[u] = "issue" => token'[u] = token[u])
    BY <1>0, <2>1
  <2> QED  BY <2>1, <2>2, RotationQuiet DEF tokens
<1>4. ASSUME NEW t \in Tokens, NearsExpiry(t) \/ TokenExpires(t) \/ RecordExpires(t)  PROVE RotationInv'
  BY <1>4, RotationQuiet DEF NearsExpiry, TokenExpires, RecordExpires, sessionVars
<1>5. CASE (\E k \in Keys : WindowEnds(k)) \/ UNCHANGED vars
  BY <1>5, RotationQuiet DEF WindowEnds, vars, tokens, sessionVars
<1> QED
  BY <1>1, <1>2, <1>3, <1>4, <1>5, RotationRedeem, RotationEnds DEF Next, Issue

(***************************************************************************)
(* At any time, a refresh token that is not near its exp has one successor *)
(* or one request that is about to issue it if its jti is reserved and its *)
(* rotation was not lost, and neither otherwise.                           *)
(***************************************************************************)
THEOREM TokensRotatedOnce == Spec => []RotatedOnce
<1>1. Init => RotationInv
  BY SignInAssumption
  DEF Init, RotationInv, Rotation, Untouched, Successors, Rotating
<1>2. Spec => [](TypeInv /\ RotationInv)
  BY <1>1, TypeInit, TypeStep, RotationStep, PTL DEF Spec
<1>3. RotationInv => RotatedOnce
  <2> SUFFICES ASSUME RotationInv, NEW t \in Tokens \ ending
               PROVE  Cardinality(Successors(t)) + Cardinality(Rotating(t))
                          = IF t \in used \ lost THEN 1 ELSE 0
    BY DEF RotatedOnce, Rotations
  <2>1. Rotation(t)
    BY DEF RotationInv
  <2>2. Cardinality({}) = 0
    BY FS_EmptySet
  <2>3. \A x : Cardinality({x}) = 1
    BY FS_Singleton
  <2>4. CASE t \in used \ lost
    <3>1. CASE OnItsWay(t)
      <4>1. Cardinality(Rotating(t)) = 1 /\ Cardinality(Successors(t)) = 0
        BY <2>2, <2>3, <3>1 DEF OnItsWay
      <4> QED  BY <2>4, <4>1
    <3>2. CASE Rotated(t)
      <4>1. Cardinality(Rotating(t)) = 0 /\ Cardinality(Successors(t)) = 1
        BY <2>2, <2>3, <3>2 DEF Rotated
      <4> QED  BY <2>4, <4>1
    <3> QED  BY <2>1, <2>4, <3>1, <3>2 DEF Rotation
  <2>5. CASE t \notin used \ lost
    <3>1. Cardinality(Rotating(t)) = 0 /\ Cardinality(Successors(t)) = 0
      BY <2>1, <2>2, <2>5 DEF Rotation, Untouched
    <3> QED  BY <2>5, <3>1
  <2> QED  BY <2>4, <2>5
<1> QED  BY <1>2, <1>3, PTL
=============================================================================
