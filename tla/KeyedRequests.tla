---------------------------- MODULE KeyedRequests ---------------------------
(***************************************************************************)
(* The idempotency key of the mutating task endpoints (run_idempotent),    *)
(* around a handler that changes one instance and around the transaction   *)
(* of get_db.                                                              *)
(*                                                                         *)
(* The instance is loaded first; then the key is looked up in Redis (GET); *)
(* on a miss the handler runs and notifies; the answer is stored (SET NX); *)
(* and only then does get_db commit, before or after the answer is sent,   *)
(* which depends on the release of FastAPI that is installed.  A handler   *)
(* that queries after its change, for the ledger or for the parents to     *)
(* notify, has flushed it then; otherwise the change is flushed by the     *)
(* commit.                                                                 *)
(* The key is not reserved while the handler runs.  A client repeats its   *)
(* request, with the same key, until it is answered 200 or 422.  Answers   *)
(* live for 24 hours, longer than a client retries, so none expires here.  *)
(* The nightly job writes to the same instance.                            *)
(***************************************************************************)
EXTENDS Naturals, FiniteSets

CONSTANTS
    Keys,           \* one per action of a user
    OpOf,           \* OpOf[k]: what the action asks for
    NoKey,          \* of a session that serves no request
    Sessions,       \* requests that can be in progress at a time
    MaxFailures     \* bound: requests lost to a crash or a broken connection

Op == {"complete", "excuse", "approve", "deny", "cancel"}

ASSUME KeysAssumption ==
    OpOf \in [Keys -> Op] /\ NoKey \notin Keys /\ MaxFailures \in Nat

VARIABLES
    row,            \* the committed status of the instance
    late,           \* it is past its due time
    job,            \* what the nightly job has done with it: "holds" the row,
                    \* has "read" it as overdue, or neither ("idle")
    awarded,        \* it has a committed task_completed entry
    cache,          \* Redis: the answer stored under a key, or "none"
    pc, key, loaded,
    out,            \* what the session's handler has decided
    client,         \* what the client of a key knows
    applied,        \* keys whose transition has been committed
    sent,           \* sent[k]: notifications sent by handlers run for k
    failures,
    lost            \* keys of which a commit was lost after its answer was stored

faults == <<failures, lost>>
sessionVars == <<pc, key, loaded, out>>
nightlyVars == <<late, job>>
vars == <<row, nightlyVars, awarded, cache, sessionVars, client, applied, sent,
          faults>>

Status == {"pending", "overdue", "missed", "review_pending", "complete",
           "excuse_pending", "excused", "cancelled"}

Open == {"pending", "overdue"}

(***************************************************************************)
(* The transitions a well-formed request op may make from a status, and    *)
(* what goes with them: requires_review and excused_payout_policy are      *)
(* settings of the household, a denial opens the instance again, and an    *)
(* excuse notifies when it is submitted and when it is resolved.           *)
(***************************************************************************)
Reopened == IF late THEN "overdue" ELSE "pending"

Outcome == [status : Status, award : BOOLEAN, notify : BOOLEAN]

Outcomes(op, from) ==
    {o \in Outcome :
        \/ /\ op = "complete" /\ from \in Open /\ ~ o.notify
           /\ o.status = IF o.award THEN "complete" ELSE "review_pending"
        \/ op = "excuse" /\ from \in Open
           /\ o = [status |-> "excuse_pending", award |-> FALSE, notify |-> TRUE]
        \/ op = "cancel" /\ from \in Open
           /\ o = [status |-> "cancelled", award |-> FALSE, notify |-> FALSE]
        \/ op = "approve" /\ from = "review_pending"
           /\ o = [status |-> "complete", award |-> TRUE, notify |-> FALSE]
        \/ op = "approve" /\ from = "excuse_pending"
           /\ o.status = "excused" /\ o.notify
        \/ op = "deny" /\ from \in {"review_pending", "excuse_pending"}
           /\ o = [status |-> Reopened, award |-> FALSE,
                   notify |-> from = "excuse_pending"]}

NoOutcome == [status |-> "none", award |-> FALSE, notify |-> FALSE]

TypeOK ==
    /\ row \in Status
    /\ late \in BOOLEAN
    /\ job \in {"idle", "holds", "read"}
    /\ awarded \in BOOLEAN
    /\ cache \in [Keys -> Status \cup {"none"}]
    /\ pc \in [Sessions -> {"idle", "loaded", "miss", "writing", "handled",
                            "stored", "told", "committed"}]
    /\ key \in [Sessions -> Keys \cup {NoKey}]
    /\ loaded \in [Sessions -> Status]
    /\ out \in [Sessions -> Outcome \cup {NoOutcome}]
    /\ client \in [Keys -> {"waiting", "ok", "refused"}]
    /\ applied \in SUBSET Keys
    /\ sent \in [Keys -> Nat]
    /\ failures \in 0..MaxFailures
    /\ lost \in SUBSET Keys

(***************************************************************************)
(* An instance that is created for today may be past its due time already. *)
(***************************************************************************)
Init ==
    /\ late \in BOOLEAN
    /\ row = Reopened
    /\ job = "idle"
    /\ awarded = FALSE
    /\ cache = [k \in Keys |-> "none"]
    /\ pc = [s \in Sessions |-> "idle"]
    /\ key = [s \in Sessions |-> NoKey]
    /\ loaded = [s \in Sessions |-> "pending"]
    /\ out = [s \in Sessions |-> NoOutcome]
    /\ client = [k \in Keys |-> "waiting"]
    /\ applied = {}
    /\ sent = [k \in Keys |-> 0]
    /\ failures = 0
    /\ lost = {}

-----------------------------------------------------------------------------
Goto(s, label) == pc' = [pc EXCEPT ![s] = label]

(***************************************************************************)
(* The client sends its request, or sends it again without waiting for the *)
(* fate of the first; the instance is loaded before the key is looked up.  *)
(***************************************************************************)
Arrive(s, k) ==
    /\ pc[s] = "idle"
    /\ client[k] = "waiting"
    /\ Goto(s, "loaded")
    /\ key' = [key EXCEPT ![s] = k]
    /\ loaded' = [loaded EXCEPT ![s] = row]
    /\ UNCHANGED <<row, awarded, cache, out, client, applied, sent, faults>>

Lookup(s) ==
    /\ pc[s] = "loaded"
    /\ cache[key[s]] = "none"
    /\ Goto(s, "miss")
    /\ UNCHANGED <<row, awarded, cache, key, loaded, out, client, applied, sent,
                   faults>>

(***************************************************************************)
(* The handler decides on the copy that was loaded.                        *)
(***************************************************************************)
Decide(s) ==
    /\ pc[s] = "miss"
    /\ \E o \in Outcomes(OpOf[key[s]], loaded[s]) : out' = [out EXCEPT ![s] = o]
    /\ Goto(s, "writing")
    /\ loaded' = [loaded EXCEPT ![s] = "pending"]
    /\ UNCHANGED <<row, awarded, cache, key, client, applied, sent, faults>>

(***************************************************************************)
(* The handler's next query, if it has one, flushes the change: the UPDATE *)
(* takes the row lock and the award meets the unique index.  The handler   *)
(* notifies and returns.                                                   *)
(***************************************************************************)
FlushesEarly(s) == out[s].award \/ OpOf[key[s]] = "excuse"

Locked ==
    \/ job = "holds"
    \/ \E s \in Sessions : pc[s] \in {"handled", "stored", "told"} /\ FlushesEarly(s)

Finish(s) ==
    /\ pc[s] = "writing"
    /\ FlushesEarly(s) => ~ Locked
    /\ ~ (out[s].award /\ awarded)
    /\ Goto(s, "handled")
    /\ sent' = [sent EXCEPT ![key[s]] = @ + IF out[s].notify THEN 1 ELSE 0]
    /\ UNCHANGED <<row, awarded, cache, key, loaded, out, client, applied, faults>>

StoreLate(s) ==         \* a defect: the answer is stored after the commit
    /\ pc[s] = "handled"
    /\ Goto(s, "stored")
    /\ UNCHANGED <<row, awarded, cache, key, loaded, out, client, applied, sent,
                   faults>>

StoreMarker(s) ==       \* a defect: a marker is stored and not the answer
    /\ pc[s] = "handled"
    /\ Goto(s, "stored")
    /\ cache' = [cache EXCEPT ![key[s]] = "seen"]
    /\ UNCHANGED <<row, awarded, key, loaded, out, client, applied, sent, faults>>

Store(s) ==
    /\ pc[s] = "handled"
    /\ Goto(s, "stored")
    /\ cache' = [cache EXCEPT ![key[s]] = IF @ = "none" THEN out[s].status ELSE @]
    /\ UNCHANGED <<row, awarded, key, loaded, out, client, applied, sent, faults>>

-----------------------------------------------------------------------------
Close(s) ==
    /\ Goto(s, "idle")
    /\ loaded' = [loaded EXCEPT ![s] = "pending"]
    /\ out' = [out EXCEPT ![s] = NoOutcome]
    /\ key' = [key EXCEPT ![s] = NoKey]

(***************************************************************************)
(* A client that has had a final answer ignores another.                   *)
(***************************************************************************)
Tell(k, answer) ==
    client' = [client EXCEPT ![k] = IF @ = "waiting" THEN answer ELSE @]

(***************************************************************************)
(* get_db commits; a change that is not flushed yet waits for the row lock *)
(* first, and lands on whatever the row holds by then.                     *)
(***************************************************************************)
Commit(s) ==
    /\ pc[s] \in {"stored", "told"}
    /\ FlushesEarly(s) \/ ~ Locked
    /\ row' = out[s].status
    /\ awarded' = (awarded \/ out[s].award)
    /\ applied' = applied \cup {key[s]}
    /\ IF pc[s] = "told" THEN Close(s)
       ELSE Goto(s, "committed") /\ UNCHANGED <<key, loaded, out>>
    /\ UNCHANGED <<cache, client, sent, faults>>

Reply(s) ==
    /\ pc[s] \in {"stored", "committed"}
    /\ Tell(key[s], "ok")
    /\ IF pc[s] = "committed" THEN Close(s)
       ELSE Goto(s, "told") /\ UNCHANGED <<key, loaded, out>>
    /\ UNCHANGED <<row, awarded, cache, applied, sent, faults>>

Replay(s) ==
    /\ pc[s] = "loaded"
    /\ cache[key[s]] # "none"
    /\ Tell(key[s], "ok")
    /\ Close(s)
    /\ UNCHANGED <<row, awarded, cache, applied, sent, faults>>

(***************************************************************************)
(* 422: the loaded status does not allow the call.  Nothing is stored.     *)
(***************************************************************************)
RefuseSilently(s) ==    \* a defect: the refusal is not final for the client
    /\ pc[s] = "miss"
    /\ Outcomes(OpOf[key[s]], loaded[s]) = {}
    /\ Close(s)
    /\ UNCHANGED <<row, awarded, cache, client, applied, sent, faults>>

Refuse(s) ==
    /\ pc[s] = "miss"
    /\ Outcomes(OpOf[key[s]], loaded[s]) = {}
    /\ Tell(key[s], "refused")
    /\ Close(s)
    /\ UNCHANGED <<row, awarded, cache, applied, sent, faults>>

DuplicateSwallowed(s) ==    \* a defect: the error is answered with 200
    /\ pc[s] = "writing"
    /\ ~ Locked
    /\ out[s].award /\ awarded
    /\ Tell(key[s], "ok")
    /\ Close(s)
    /\ UNCHANGED <<row, awarded, cache, applied, sent, faults>>

(***************************************************************************)
(* 500: another session's award is committed; the client tries again.      *)
(***************************************************************************)
DuplicateEntry(s) ==
    /\ pc[s] = "writing"
    /\ ~ Locked
    /\ out[s].award /\ awarded
    /\ Close(s)
    /\ UNCHANGED <<row, awarded, cache, client, applied, sent, faults>>

(***************************************************************************)
(* The server crashes or the connection breaks.  A request lost before it  *)
(* has written anything is as if it had never been sent.                   *)
(***************************************************************************)
Fail(s) ==
    /\ pc[s] \in {"handled", "stored", "told", "committed"}
    /\ failures < MaxFailures
    /\ failures' = failures + 1
    /\ lost' = IF pc[s] \in {"stored", "told"} THEN lost \cup {key[s]} ELSE lost
    /\ Close(s)
    /\ UNCHANGED <<row, awarded, cache, client, applied, sent>>

-----------------------------------------------------------------------------
(***************************************************************************)
(* The due time passes.  The nightly job's UPDATE takes a pending instance *)
(* to overdue, and to missed in the same transaction if its grace is over; *)
(* one that its SELECT returns as overdue, with its grace over, it writes  *)
(* as missed whatever has become of it since.  The job may be lost.        *)
(***************************************************************************)
Unserved == UNCHANGED <<awarded, cache, sessionVars, client, applied, sent, faults>>

FallDue == ~ late /\ late' = TRUE /\ UNCHANGED <<row, job>> /\ Unserved

JobSweep ==
    /\ job = "idle" /\ late /\ row = "pending" /\ ~ Locked
    /\ job' = "holds"
    /\ UNCHANGED <<row, late>> /\ Unserved

JobRead ==
    /\ job = "idle" /\ row = "overdue"
    /\ job' = "read"
    /\ UNCHANGED <<row, late>> /\ Unserved

JobWrite ==
    /\ \/ job = "holds" /\ row' \in {"overdue", "missed"}
       \/ job = "read" /\ ~ Locked /\ row' = "missed"
    /\ job' = "idle"
    /\ UNCHANGED late /\ Unserved

JobLost == job # "idle" /\ job' = "idle" /\ UNCHANGED <<row, late>> /\ Unserved

-----------------------------------------------------------------------------
Step(s) ==
    \/ Lookup(s) \/ Decide(s) \/ Store(s) \/ Reply(s) \/ Replay(s) \/ Refuse(s)

Write(s) == Finish(s) \/ DuplicateEntry(s) \/ Commit(s)

Serve ==
    /\ \E s \in Sessions :
          (\E k \in Keys : Arrive(s, k)) \/ Step(s) \/ Write(s) \/ Fail(s)
    /\ UNCHANGED nightlyVars

Next == Serve \/ FallDue \/ JobSweep \/ JobRead \/ JobWrite \/ JobLost

(***************************************************************************)
(* The client contract has every client retry until it is answered, the    *)
(* server accepts connections in order, row locks are queued, and a run of *)
(* the nightly job ends.                                                   *)
(***************************************************************************)
Fairness ==
    /\ \A k \in Keys : SF_vars((\E s \in Sessions : Arrive(s, k)) /\ UNCHANGED nightlyVars)
    /\ \A s \in Sessions : /\ WF_vars(Step(s) /\ UNCHANGED nightlyVars)
                            /\ SF_vars(Write(s) /\ UNCHANGED nightlyVars)
    /\ WF_vars(JobWrite \/ JobLost)

Spec == Init /\ [][Next]_vars /\ Fairness

-----------------------------------------------------------------------------
(***************************************************************************)
(* Whatever crashes, an action that has taken effect has its answer under  *)
(* its key: a later retry is answered with it and runs nothing.  This is   *)
(* why run_idempotent stores the answer before get_db commits.             *)
(***************************************************************************)
CommittedIsAnswered == \A k \in applied : cache[k] # "none"

(***************************************************************************)
(* A client is told "ok" without an effect only where the commit is still  *)
(* to come, or was lost after the answer had been stored (and then, as     *)
(* every retry is answered from the cache, it stays lost).                 *)
(***************************************************************************)
Committing(k) == \E s \in Sessions : key[s] = k /\ pc[s] \in {"stored", "told"}

OkIsApplied ==
    \A k \in Keys : client[k] = "ok" => k \in applied \/ Committing(k) \/ k \in lost

(***************************************************************************)
(* A client that retries is answered in the end, 200 or 422, also when its *)
(* retries overlap, conflict with each other and with other actions on the *)
(* instance, and are lost some of the time.  The exception is an instance  *)
(* whose award is committed and whose status a stale write has put back to *)
(* one that allows a completion, or a verdict that pays: the unique index  *)
(* refuses it every time, and the client is answered 500 for ever.         *)
(***************************************************************************)
AwardStranded == awarded /\ row \in Open \cup {"review_pending", "excuse_pending"}

ClientAnswered ==
    \A k \in Keys : client[k] = "waiting" ~> client[k] # "waiting" \/ AwardStranded

(***************************************************************************)
(* Claim of docs/api-reference.md:797: a retried request does not notify   *)
(* twice.                                                                  *)
(***************************************************************************)
NotifiedOnce == \A k \in Keys : sent[k] <= 1
=============================================================================
