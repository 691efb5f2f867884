------------------------- MODULE KeyedRequestsProofs ------------------------
(***************************************************************************)
(* Proofs about KeyedRequests for any keys, actions and sessions, and any  *)
(* number of failures.                                                     *)
(***************************************************************************)
EXTENDS KeyedRequests, TLAPS

USE DEF faults

-----------------------------------------------------------------------------
(***************************************************************************)
(* Type correctness.  What is stored and committed is the outcome of the   *)
(* session's handler, so a session that writes has one, and a session that *)
(* serves has the key of its request.                                      *)
(***************************************************************************)
Serving == \A s \in Sessions : pc[s] # "idle" => key[s] \in Keys

Decided == \A s \in Sessions :
    pc[s] \in {"writing", "handled", "stored", "told", "committed"} => out[s] \in Outcome

TypeInv == TypeOK /\ Serving /\ Decided

(***************************************************************************)
(* The initial state is well typed.                                        *)
(***************************************************************************)
LEMMA TypeInit == Init => TypeInv
<1> SUFFICES ASSUME Init  PROVE TypeInv
  OBVIOUS
<1>1. failures \in 0..MaxFailures
  BY KeysAssumption DEF Init
<1>2. row \in Status /\ loaded \in [Sessions -> Status]
  BY DEF Init, Reopened, Status
<1>3. TypeOK
  BY <1>1, <1>2 DEF Init, TypeOK
<1>4. Serving /\ Decided
  BY DEF Init, Serving, Decided
<1> QED  BY <1>3, <1>4 DEF TypeInv

(***************************************************************************)
(* A session that has closed is idle, and the others are as they were.     *)
(***************************************************************************)
LEMMA ClosedTypes ==
    ASSUME TypeInv, NEW s \in Sessions, Close(s)
    PROVE  /\ pc' \in [Sessions -> {"idle", "loaded", "miss", "writing", "handled",
                                    "stored", "told", "committed"}]
           /\ key' \in [Sessions -> Keys \cup {NoKey}]
           /\ loaded' \in [Sessions -> Status]
           /\ out' \in [Sessions -> Outcome \cup {NoOutcome}]
           /\ Serving' /\ Decided'
<1>1. pc' \in [Sessions -> {"idle", "loaded", "miss", "writing", "handled",
                            "stored", "told", "committed"}]
  BY DEF TypeInv, TypeOK, Close, Goto
<1>2. key' \in [Sessions -> Keys \cup {NoKey}] /\ out' \in [Sessions -> Outcome \cup {NoOutcome}]
  BY DEF TypeInv, TypeOK, Close
<1>3. loaded' \in [Sessions -> Status]
  BY DEF TypeInv, TypeOK, Close, Status
<1>4. Serving'
  BY DEF TypeInv, TypeOK, Serving, Close, Goto
<1>5. Decided'
  BY DEF TypeInv, TypeOK, Decided, Close, Goto
<1> QED  BY <1>1, <1>2, <1>3, <1>4, <1>5

(***************************************************************************)
(* Every step of a session preserves the types.                            *)
(***************************************************************************)
LEMMA ServeTypes ==
    ASSUME TypeInv, Serve
    PROVE  TypeInv'
<1>0. late' = late /\ job' = job
  BY DEF Serve, nightlyVars
<1> USE <1>0 DEF TypeInv
<1>1. ASSUME NEW s \in Sessions, NEW k \in Keys, Arrive(s, k)  PROVE TypeInv'
  <2>1. TypeOK'
    BY <1>1 DEF TypeOK, Arrive, Goto
  <2>2. Serving' /\ Decided'
    BY <1>1 DEF TypeOK, Serving, Decided, Arrive, Goto
  <2> QED  BY <2>1, <2>2
<1>2. ASSUME NEW s \in Sessions, Lookup(s)  PROVE TypeInv'
  BY <1>2 DEF TypeOK, Serving, Decided, Lookup, Goto
<1>3. ASSUME NEW s \in Sessions, Decide(s)  PROVE TypeInv'
  <2>1. PICK o \in Outcome : out' = [out EXCEPT ![s] = o]
    BY <1>3 DEF Decide, Outcomes
  <2>2. TypeOK'
    BY <1>3, <2>1 DEF TypeOK, Decide, Goto, Status
  <2>3. Serving' /\ Decided'
    BY <1>3, <2>1 DEF TypeOK, Serving, Decided, Decide, Goto
  <2> QED  BY <2>2, <2>3
<1>4. ASSUME NEW s \in Sessions, Finish(s)  PROVE TypeInv'
  <2>1. key[s] \in Keys
    BY <1>4 DEF Serving, Finish
  <2>2. sent' \in [Keys -> Nat]
    BY <1>4, <2>1 DEF TypeOK, Finish
  <2>3. TypeOK'
    BY <1>4, <2>2 DEF TypeOK, Finish, Goto
  <2>4. Serving' /\ Decided'
    BY <1>4 DEF TypeOK, Serving, Decided, Finish, Goto
  <2> QED  BY <2>3, <2>4
<1>5. ASSUME NEW s \in Sessions, Store(s)  PROVE TypeInv'
  <2>1. key[s] \in Keys /\ out[s].status \in Status
    BY <1>5 DEF Serving, Decided, Store, Outcome
  <2>2. cache' \in [Keys -> Status \cup {"none"}]
    BY <1>5, <2>1 DEF TypeOK, Store
  <2>3. TypeOK'
    BY <1>5, <2>2 DEF TypeOK, Store, Goto
  <2>4. Serving' /\ Decided'
    BY <1>5 DEF TypeOK, Serving, Decided, Store, Goto
  <2> QED  BY <2>3, <2>4
<1>6. ASSUME NEW s \in Sessions, Commit(s)  PROVE TypeInv'
  <2>1. key[s] \in Keys /\ out[s] \in Outcome
    BY <1>6 DEF Serving, Decided, Commit
  <2>2. row' \in Status /\ awarded' \in BOOLEAN /\ applied' \in SUBSET Keys
    BY <1>6, <2>1 DEF TypeOK, Commit, Outcome
  <2>3. CASE pc[s] = "told"
    <3>1. Close(s)
      BY <1>6, <2>3 DEF Commit
    <3> QED  BY <1>6, <2>2, <3>1, ClosedTypes DEF TypeOK, Commit
  <2>4. CASE pc[s] # "told"
    <3>1. Goto(s, "committed") /\ UNCHANGED <<key, loaded, out>>
      BY <1>6, <2>4 DEF Commit
    <3>2. TypeOK'
      BY <1>6, <2>2, <3>1 DEF TypeOK, Commit, Goto
    <3>3. Serving' /\ Decided'
      BY <2>1, <3>1 DEF TypeOK, Serving, Decided, Goto
    <3> QED  BY <3>2, <3>3
  <2> QED  BY <2>3, <2>4
<1>7. ASSUME NEW k \in Keys, NEW answer \in {"ok", "refused"}, Tell(k, answer)
      PROVE  client' \in [Keys -> {"waiting", "ok", "refused"}]
  BY <1>7 DEF TypeOK, Tell
<1>8. ASSUME NEW s \in Sessions, Reply(s)  PROVE TypeInv'
  <2>1. key[s] \in Keys /\ out[s] \in Outcome
    BY <1>8 DEF Serving, Decided, Reply
  <2>2. client' \in [Keys -> {"waiting", "ok", "refused"}]
    BY <1>7, <1>8, <2>1 DEF Reply
  <2>3. CASE pc[s] = "committed"
    <3>1. Close(s)
      BY <1>8, <2>3 DEF Reply
    <3> QED  BY <1>8, <2>2, <3>1, ClosedTypes DEF TypeOK, Reply
  <2>4. CASE pc[s] # "committed"
    <3>1. Goto(s, "told") /\ UNCHANGED <<key, loaded, out>>
      BY <1>8, <2>4 DEF Reply
    <3>2. TypeOK'
      BY <1>8, <2>2, <3>1 DEF TypeOK, Reply, Goto
    <3>3. Serving' /\ Decided'
      BY <2>1, <3>1 DEF TypeOK, Serving, Decided, Goto
    <3> QED  BY <3>2, <3>3
  <2> QED  BY <2>3, <2>4
<1>9. ASSUME NEW s \in Sessions, Replay(s)  PROVE TypeInv'
  <2>1. client' \in [Keys -> {"waiting", "ok", "refused"}]
    BY <1>7, <1>9 DEF Serving, Replay
  <2> QED  BY <1>9, <2>1, ClosedTypes DEF TypeOK, Replay
<1>10. ASSUME NEW s \in Sessions, Refuse(s)  PROVE TypeInv'
  <2>1. client' \in [Keys -> {"waiting", "ok", "refused"}]
    BY <1>7, <1>10 DEF Serving, Refuse
  <2> QED  BY <1>10, <2>1, ClosedTypes DEF TypeOK, Refuse
<1>11. ASSUME NEW s \in Sessions, DuplicateEntry(s)  PROVE TypeInv'
  BY <1>11, ClosedTypes DEF TypeOK, DuplicateEntry
<1>12. ASSUME NEW s \in Sessions, Fail(s)  PROVE TypeInv'
  <2>1. failures' \in 0..MaxFailures
    BY <1>12, KeysAssumption DEF TypeOK, Fail
  <2>2. lost' \in SUBSET Keys
    BY <1>7, <1>12 DEF TypeOK, Serving, Fail
  <2> QED  BY <1>12, <2>1, <2>2, ClosedTypes DEF TypeOK, Fail
<1> QED
  BY <1>1, <1>2, <1>3, <1>4, <1>5, <1>6, <1>8, <1>9, <1>10, <1>11, <1>12
  DEF Serve, Step, Write

(***************************************************************************)
(* The clock and the nightly job write a status, and touch no session.     *)
(***************************************************************************)
LEMMA NightlyTypes ==
    ASSUME TypeInv, FallDue \/ JobSweep \/ JobRead \/ JobWrite \/ JobLost \/ UNCHANGED vars
    PROVE  TypeInv'
<1>1. Unserved \/ UNCHANGED vars => UNCHANGED <<awarded, cache, sessionVars, client,
                                              applied, sent, faults>>
  BY DEF Unserved, vars
<1>2. UNCHANGED <<awarded, cache, sessionVars, client, applied, sent, faults>>
  BY <1>1 DEF FallDue, JobSweep, JobRead, JobWrite, JobLost
<1>3. row' \in Status /\ late' \in BOOLEAN /\ job' \in {"idle", "holds", "read"}
  BY DEF TypeInv, TypeOK, FallDue, JobSweep, JobRead, JobWrite, JobLost, vars, nightlyVars,
         Status
<1> QED  BY <1>2, <1>3 DEF TypeInv, TypeOK, Serving, Decided, sessionVars

(***************************************************************************)
(* Every step preserves the types.                                         *)
(***************************************************************************)
LEMMA TypeStep ==
    ASSUME TypeInv, [Next]_vars
    PROVE  TypeInv'
BY ServeTypes, NightlyTypes DEF Next

(***************************************************************************)
(* Types hold in every reachable state.                                    *)
(***************************************************************************)
LEMMA TypeInvAlways == Spec => []TypeInv
BY TypeInit, TypeStep, PTL DEF Spec

(***************************************************************************)
(* Every reachable state is well typed.                                    *)
(***************************************************************************)
THEOREM TypesAlways == Spec => []TypeOK
<1>1. TypeInv => TypeOK
  BY DEF TypeInv
<1> QED  BY <1>1, TypeInvAlways, PTL
-----------------------------------------------------------------------------
(***************************************************************************)
(* Answers and effects.  An answer that is stored belongs to a transition  *)
(* that is committed or about to be, or whose commit was lost; and the     *)
(* transition is committed where the session says so.                      *)
(***************************************************************************)
Backed(k) == k \in applied \/ Committing(k) \/ k \in lost

Answered == \A s \in Sessions : pc[s] \in {"stored", "told"} => cache[key[s]] # "none"

CacheBacked == \A k \in Keys : cache[k] # "none" => Backed(k)

CommitApplied == \A s \in Sessions : pc[s] = "committed" => key[s] \in applied

KeyedInv == TypeInv /\ CommittedIsAnswered /\ OkIsApplied
            /\ Answered /\ CacheBacked /\ CommitApplied

(***************************************************************************)
(* Nothing is answered or applied in the initial state.                    *)
(***************************************************************************)
LEMMA KeyedInit == Init => KeyedInv
BY TypeInit DEF Init, KeyedInv, CommittedIsAnswered, OkIsApplied, Answered, CacheBacked,
                CommitApplied

(***************************************************************************)
(* A session that is neither storing nor telling may end, or go on to      *)
(* another step, without anybody's backing being lost.                     *)
(***************************************************************************)
LEMMA BackingKept ==
    ASSUME TypeInv, TypeInv', NEW s \in Sessions, NEW k \in Keys, Backed(k),
           pc[s] \notin {"stored", "told"},
           \A u \in Sessions \ {s} : pc'[u] = pc[u] /\ key'[u] = key[u],
           applied \subseteq applied', lost \subseteq lost'
    PROVE  Backed(k)'
<1>1. CASE Committing(k)
  BY <1>1 DEF Backed, Committing
<1>2. CASE k \in applied \/ k \in lost
  BY <1>2 DEF Backed
<1> QED  BY <1>1, <1>2 DEF Backed

(***************************************************************************)
(* The steps that neither store nor commit: session s, which has stored    *)
(* nothing that it has not committed, moves; the others and what is stored *)
(* and committed stay, and only a client whose action is backed is told    *)
(* "ok".                                                                   *)
(***************************************************************************)
LEMMA QuietStep ==
    ASSUME KeyedInv, TypeInv', NEW s \in Sessions,
           pc[s] \notin {"stored", "told"},
           pc'[s] \notin {"stored", "told", "committed"},
           \A u \in Sessions \ {s} : pc'[u] = pc[u] /\ key'[u] = key[u],
           cache' = cache, applied' = applied, lost' = lost,
           \A k \in Keys : client'[k] = "ok" => client[k] = "ok" \/ Backed(k)
    PROVE  KeyedInv'
<1>1. \A k \in Keys : Backed(k) => Backed(k)'
  <2> SUFFICES ASSUME NEW k \in Keys, Backed(k)  PROVE Backed(k)'
    OBVIOUS
  <2> QED  BY BackingKept DEF KeyedInv
<1>2. OkIsApplied'
  BY <1>1 DEF KeyedInv, OkIsApplied, Backed
<1>3. CacheBacked'
  BY <1>1 DEF KeyedInv, CacheBacked
<1>4. CommittedIsAnswered'
  BY DEF KeyedInv, CommittedIsAnswered
<1>5. Answered' /\ CommitApplied'
  BY DEF KeyedInv, Answered, CommitApplied
<1> QED  BY <1>2, <1>3, <1>4, <1>5 DEF KeyedInv

(***************************************************************************)
(* A session that closes is idle, and no other session changes.            *)
(***************************************************************************)
LEMMA Closed ==
    ASSUME TypeInv, NEW s \in Sessions, Close(s)
    PROVE  /\ \A u \in Sessions \ {s} : pc'[u] = pc[u] /\ key'[u] = key[u]
           /\ pc'[s] = "idle"
BY DEF TypeInv, TypeOK, Close, Goto

(***************************************************************************)
(* Only the client that is told knows more than before.                    *)
(***************************************************************************)
LEMMA ToldOk ==
    ASSUME TypeInv, NEW k \in Keys, Tell(k, "ok"), NEW j \in Keys, client'[j] = "ok"
    PROVE  client[j] = "ok" \/ j = k
BY DEF TypeInv, TypeOK, Tell

(***************************************************************************)
(* A client that is refused is not told "ok".                              *)
(***************************************************************************)
LEMMA ToldRefused ==
    ASSUME TypeInv, NEW k \in Keys, Tell(k, "refused"), NEW j \in Keys, client'[j] = "ok"
    PROVE  client[j] = "ok"
BY DEF TypeInv, TypeOK, Tell

(***************************************************************************)
(* Every step of a session preserves the invariant.                        *)
(***************************************************************************)
LEMMA KeyedServe ==
    ASSUME KeyedInv, Serve
    PROVE  KeyedInv'
<1>0. TypeInv /\ TypeInv'
  BY ServeTypes DEF KeyedInv
<1>1. ASSUME NEW s \in Sessions, NEW k \in Keys, Arrive(s, k)  PROVE KeyedInv'
  BY <1>0, <1>1, QuietStep DEF TypeInv, TypeOK, Arrive, Goto
<1>2. ASSUME NEW s \in Sessions, Lookup(s)  PROVE KeyedInv'
  BY <1>0, <1>2, QuietStep DEF TypeInv, TypeOK, Lookup, Goto
<1>3. ASSUME NEW s \in Sessions, Decide(s)  PROVE KeyedInv'
  BY <1>0, <1>3, QuietStep DEF TypeInv, TypeOK, Decide, Goto
<1>4. ASSUME NEW s \in Sessions, Finish(s)  PROVE KeyedInv'
  BY <1>0, <1>4, QuietStep DEF TypeInv, TypeOK, Finish, Goto
<1>5. ASSUME NEW s \in Sessions, Refuse(s)  PROVE KeyedInv'
  <2>1. key[s] \in Keys /\ pc[s] = "miss" /\ Close(s) /\ Tell(key[s], "refused")
    BY <1>0, <1>5 DEF TypeInv, Serving, Refuse
  <2>2. \A j \in Keys : client'[j] = "ok" => client[j] = "ok"
    BY <1>0, <2>1, ToldRefused
  <2> QED  BY <1>0, <1>5, <2>1, <2>2, Closed, QuietStep DEF Refuse
<1>6. ASSUME NEW s \in Sessions, DuplicateEntry(s)  PROVE KeyedInv'
  BY <1>0, <1>6, Closed, QuietStep DEF DuplicateEntry
<1>7. ASSUME NEW s \in Sessions, Replay(s)  PROVE KeyedInv'
  <2>1. key[s] \in Keys /\ pc[s] = "loaded" /\ Close(s) /\ Tell(key[s], "ok")
    BY <1>0, <1>7 DEF TypeInv, Serving, Replay
  <2>2. Backed(key[s])
    BY <1>7, <2>1 DEF KeyedInv, CacheBacked, Replay
  <2>3. \A j \in Keys : client'[j] = "ok" => client[j] = "ok" \/ Backed(j)
    BY <1>0, <2>1, <2>2, ToldOk
  <2> QED  BY <1>0, <1>7, <2>1, <2>3, Closed, QuietStep DEF Replay
<1>8. ASSUME NEW s \in Sessions, Fail(s)  PROVE KeyedInv'
  <2>1. \A k \in Keys : Backed(k) => Backed(k)'
    <3>1. /\ applied' = applied /\ lost \subseteq lost'
          /\ pc[s] \in {"stored", "told"} => key[s] \in lost'
          /\ \A u \in Sessions \ {s} : pc'[u] = pc[u] /\ key'[u] = key[u]
      BY <1>0, <1>8, Closed DEF Fail
    <3> QED  BY <3>1 DEF Backed, Committing
  <2>2. OkIsApplied' /\ CacheBacked'
    BY <1>8, <2>1 DEF KeyedInv, OkIsApplied, CacheBacked, Backed, Fail
  <2>3. CommittedIsAnswered'
    BY <1>8 DEF KeyedInv, CommittedIsAnswered, Fail
  <2>4. Answered' /\ CommitApplied'
    BY <1>0, <1>8, Closed DEF KeyedInv, Answered, CommitApplied, Fail
  <2> QED  BY <1>0, <2>2, <2>3, <2>4 DEF KeyedInv
<1>9. ASSUME NEW s \in Sessions, Store(s)  PROVE KeyedInv'
  <2>1. /\ key[s] \in Keys /\ key' = key /\ pc[s] = "handled" /\ pc'[s] = "stored"
        /\ \A u \in Sessions \ {s} : pc'[u] = pc[u]
    BY <1>0, <1>9 DEF TypeInv, TypeOK, Serving, Store, Goto
  <2>2. out[s].status # "none"
    BY <1>0, <1>9 DEF TypeInv, Decided, Outcome, Status, Store
  <2>3. /\ cache'[key[s]] # "none"
        /\ \A k \in Keys : cache'[k] # "none" <=> cache[k] # "none" \/ k = key[s]
    BY <1>0, <1>9, <2>1, <2>2 DEF TypeInv, TypeOK, Store
  <2>4. \A k \in Keys : k = key[s] => Backed(k)'
    BY <2>1 DEF Backed, Committing
  <2>5. \A k \in Keys : Backed(k) => Backed(k)'
    BY <1>9, <2>1 DEF Backed, Committing, Store
  <2>6. OkIsApplied'
    BY <1>9, <2>5 DEF KeyedInv, OkIsApplied, Backed, Store
  <2>7. CacheBacked'
    BY <2>3, <2>4, <2>5 DEF KeyedInv, CacheBacked
  <2>8. CommittedIsAnswered'
    BY <1>0, <1>9, <2>3 DEF KeyedInv, TypeInv, TypeOK, CommittedIsAnswered, Store
  <2>9. Answered'
    BY <1>0, <2>1, <2>3 DEF KeyedInv, TypeInv, Serving, Answered
  <2>10. CommitApplied'
    BY <1>9, <2>1 DEF KeyedInv, CommitApplied, Store
  <2> QED  BY <1>0, <2>6, <2>7, <2>8, <2>9, <2>10 DEF KeyedInv
<1>10. ASSUME NEW s \in Sessions, Commit(s)  PROVE KeyedInv'
  <2>1. /\ key[s] \in Keys /\ applied' = applied \cup {key[s]}
        /\ cache' = cache /\ client' = client /\ lost' = lost
    BY <1>0, <1>10 DEF TypeInv, Serving, Commit
  <2>2. /\ \A u \in Sessions \ {s} : pc'[u] = pc[u] /\ key'[u] = key[u]
        /\ pc'[s] = "idle" \/ (pc'[s] = "committed" /\ key'[s] = key[s])
    <3>1. CASE pc[s] = "told"
      BY <1>0, <1>10, <3>1, Closed DEF Commit
    <3>2. CASE pc[s] # "told"
      BY <1>0, <1>10, <3>2 DEF TypeInv, TypeOK, Commit, Goto
    <3> QED  BY <3>1, <3>2
  <2>3. \A k \in Keys : Backed(k) => Backed(k)'
    BY <2>1, <2>2 DEF Backed, Committing
  <2>4. OkIsApplied' /\ CacheBacked'
    BY <2>1, <2>3 DEF KeyedInv, OkIsApplied, CacheBacked, Backed
  <2>5. CommittedIsAnswered'
    BY <1>10, <2>1 DEF KeyedInv, CommittedIsAnswered, Answered, Commit
  <2>6. Answered' /\ CommitApplied'
    BY <2>1, <2>2 DEF KeyedInv, Answered, CommitApplied
  <2> QED  BY <1>0, <2>4, <2>5, <2>6 DEF KeyedInv
<1>11. ASSUME NEW s \in Sessions, Reply(s)  PROVE KeyedInv'
  <2>1. key[s] \in Keys /\ Tell(key[s], "ok")
    BY <1>0, <1>11 DEF TypeInv, Serving, Reply
  <2>2. CASE pc[s] = "committed"
    <3>1. Close(s) /\ Backed(key[s])
      BY <1>11, <2>2 DEF KeyedInv, CommitApplied, Backed, Reply
    <3>2. \A j \in Keys : client'[j] = "ok" => client[j] = "ok" \/ Backed(j)
      BY <1>0, <2>1, <3>1, ToldOk
    <3> QED  BY <1>0, <1>11, <2>2, <3>1, <3>2, Closed, QuietStep DEF Reply
  <2>3. CASE pc[s] = "stored"
    <3>1. /\ key' = key /\ pc'[s] = "told"
          /\ \A u \in Sessions \ {s} : pc'[u] = pc[u]
          /\ cache' = cache /\ applied' = applied /\ lost' = lost
      BY <1>0, <1>11, <2>3 DEF TypeInv, TypeOK, Reply, Goto
    <3>2. \A k \in Keys : Backed(k) => Backed(k)'
      BY <2>3, <3>1 DEF Backed, Committing
    <3>3. Backed(key[s])
      BY <2>3 DEF Backed, Committing
    <3>4. OkIsApplied'
      BY <1>0, <2>1, <3>2, <3>3, ToldOk DEF KeyedInv, OkIsApplied, Backed
    <3>5. CacheBacked' /\ CommittedIsAnswered'
      BY <3>1, <3>2 DEF KeyedInv, CacheBacked, CommittedIsAnswered
    <3>6. Answered' /\ CommitApplied'
      BY <2>3, <3>1 DEF KeyedInv, Answered, CommitApplied
    <3> QED  BY <1>0, <3>4, <3>5, <3>6 DEF KeyedInv
  <2> QED  BY <1>11, <2>2, <2>3 DEF Reply
<1> QED
  BY <1>1, <1>2, <1>3, <1>4, <1>5, <1>6, <1>7, <1>8, <1>9, <1>10, <1>11
  DEF Serve, Step, Write

(***************************************************************************)
(* The clock and the nightly job answer nobody.                            *)
(***************************************************************************)
LEMMA KeyedNightly ==
    ASSUME KeyedInv, TypeInv',
           FallDue \/ JobSweep \/ JobRead \/ JobWrite \/ JobLost \/ UNCHANGED vars
    PROVE  KeyedInv'
<1>1. UNCHANGED <<awarded, cache, sessionVars, client, applied, sent, faults>>
  BY DEF FallDue, JobSweep, JobRead, JobWrite, JobLost, Unserved, vars
<1> QED  BY <1>1 DEF KeyedInv, CommittedIsAnswered, OkIsApplied, Answered, CacheBacked,
                     CommitApplied, Backed, Committing, sessionVars

(***************************************************************************)
(* Every step preserves the invariant.                                     *)
(***************************************************************************)
LEMMA KeyedStep ==
    ASSUME KeyedInv, [Next]_vars
    PROVE  KeyedInv'
<1>1. TypeInv'
  BY TypeStep DEF KeyedInv
<1> QED  BY <1>1, KeyedServe, KeyedNightly DEF Next

(***************************************************************************)
(* The invariant holds in every reachable state.                           *)
(***************************************************************************)
LEMMA KeyedInvAlways == Spec => []KeyedInv
BY KeyedInit, KeyedStep, PTL DEF Spec

(***************************************************************************)
(* Whatever crashes and however retries overlap, a committed action has    *)
(* its answer under its key.                                               *)
(***************************************************************************)
THEOREM CommittedAlwaysAnswered == Spec => []CommittedIsAnswered
<1>1. KeyedInv => CommittedIsAnswered
  BY DEF KeyedInv
<1> QED  BY <1>1, KeyedInvAlways, PTL

(***************************************************************************)
(* A client that is told "ok" has had its action committed, or will, or    *)
(* its commit was lost after the answer had been stored.                   *)
(***************************************************************************)
THEOREM OkAlwaysApplied == Spec => []OkIsApplied
<1>1. KeyedInv => OkIsApplied
  BY DEF KeyedInv
<1> QED  BY <1>1, KeyedInvAlways, PTL
=============================================================================
