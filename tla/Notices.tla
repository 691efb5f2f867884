------------------------------- MODULE Notices ------------------------------
(***************************************************************************)
(* What the program tells people of their tasks: the parents' inbox        *)
(* (approvals.py), the daily digest (notify_digest.py), the reminder of a  *)
(* due time (reminders.py), and the weekly report.                         *)
(*                                                                         *)
(* They all read columns that requests leave behind: the status, when the  *)
(* instance was last completed, and when it was last excused.  Neither     *)
(* time is ever cleared, not even when a parent denies.  A request decides *)
(* on the status it has loaded.  Ledger, grace clock and row locks are     *)
(* TaskRequests' subject: here a request may end without effect, and a     *)
(* denied excuse may or may not have grace left.                           *)
(*                                                                         *)
(* Members have a push token.  Without one nothing is sent, and a reminder *)
(* is marked as sent all the same.                                         *)
(***************************************************************************)
EXTENDS Reports

CONSTANTS
    Instances,
    Due,            \* Due[i]: due_at
    Lead,           \* task_reminder_minutes_before_due
    NudgeAfter,     \* NUDGE_AFTER_HOURS
    Sessions,       \* requests that can be in progress at a time
    Runs,           \* runs of the reminder jobs that can overlap
    Zones,          \* where a household can be; its clocks change by an hour
    MaxTime,        \* bound: the clock stops here
    MaxFailures     \* bound: runs of the jobs that fail

Times == 1..MaxTime     \* 0 stands for NULL

ASSUME NoticesAssumption ==
    /\ Due \in [Instances -> Times]
    /\ Lead \in Nat /\ NudgeAfter \in Nat
    /\ MaxTime \in Nat \ {0} /\ MaxFailures \in Nat /\ IsFiniteSet(Runs)
    /\ Zones \subseteq [at : Int, by : {-1, 0, 1}]

VARIABLES
    now,
    rows,           \* rows[i]: the committed instance
    serving,        \* serving[s]: the instance a session works on, as it was loaded
    reminded,       \* instances with reminder_sent_at set
    todo, marks,    \* of a run of the reminder job: instances to come, and to mark
    pushes,         \* pushes[i]: reminders sent about i
    nudged,         \* those waiting that a digest has counted
    failures

jobVars == <<reminded, todo, marks, pushes>>
vars == <<now, rows, serving, jobVars, nudged, failures>>

Status == {"pending", "overdue", "review_pending", "excuse_pending", "complete",
           "excused", "missed", "cancelled"}
Open == {"pending", "overdue"}
Waiting == {"review_pending", "excuse_pending"}

Row == [due : Times, status : Status, completedAt : Times \cup {0},
        excusedAt : Times \cup {0}]

Idle == [status |-> "none"]

TypeOK ==
    /\ now \in Times
    /\ rows \in [Instances -> Row]
    /\ serving \in [Sessions -> [inst : Instances, status : Status] \cup {Idle}]
    /\ reminded \in SUBSET Instances
    /\ todo \in [Runs -> SUBSET Instances] /\ marks \in [Runs -> SUBSET Instances]
    /\ pushes \in [Instances -> Nat]
    /\ nudged \in SUBSET {i \in Instances : rows[i].status \in Waiting}
    /\ failures \in 0..MaxFailures

Init ==
    /\ now = 1
    /\ rows = [i \in Instances |-> [due |-> Due[i], status |-> "pending",
                                    completedAt |-> 0, excusedAt |-> 0]]
    /\ serving = [s \in Sessions |-> Idle]
    /\ reminded = {}
    /\ todo = [r \in Runs |-> {}] /\ marks = [r \in Runs |-> {}]
    /\ pushes = [x \in Instances |-> 0]
    /\ nudged = {}
    /\ failures = 0

-----------------------------------------------------------------------------
(***************************************************************************)
(* Requests.                                                               *)
(***************************************************************************)
Load(s, i) ==
    /\ serving[s] = Idle
    /\ rows[i].status \in Open \cup Waiting \cup {"complete"}
    /\ serving' = [serving EXCEPT ![s] = [inst |-> i, status |-> rows[i].status]]
    /\ UNCHANGED <<now, rows, jobVars, nudged, failures>>

(***************************************************************************)
(* The columns a handler assigns, and no others, are written.              *)
(***************************************************************************)
WriteRow(i, row) ==
    /\ rows' = [rows EXCEPT ![i] = row]
    /\ nudged' = IF row.status \in Waiting THEN nudged ELSE nudged \ {i}

Answer(s, row) ==
    /\ WriteRow(serving[s].inst, row)
    /\ serving' = [serving EXCEPT ![s] = Idle]
    /\ UNCHANGED <<now, jobVars, failures>>

Served(s) == rows[serving[s].inst]

CompleteUndated(s) ==       \* a defect: only an accepted completion is dated
    /\ serving[s].status \in Open
    /\ \/ Answer(s, [Served(s) EXCEPT !.status = "complete", !.completedAt = now])
       \/ Answer(s, [Served(s) EXCEPT !.status = "review_pending"])

Complete(s) ==
    /\ serving[s].status \in Open
    /\ \E to \in {"complete", "review_pending"} :
          Answer(s, [Served(s) EXCEPT !.status = to, !.completedAt = now])

SubmitExcuse(s) ==
    /\ serving[s].status \in Open
    /\ Answer(s, [Served(s) EXCEPT !.status = "excuse_pending", !.excusedAt = now])

Review(s) ==
    /\ serving[s].status = "review_pending"
    /\ \E to \in {"complete", IF now < Served(s).due THEN "pending" ELSE "overdue"} :
          Answer(s, [Served(s) EXCEPT !.status = to])

ResolveExcuse(s) ==
    /\ serving[s].status = "excuse_pending"
    /\ \E to \in {"excused", "overdue", "missed"} :
          Answer(s, [Served(s) EXCEPT !.status = to])

Cancel(s) ==
    /\ serving[s].status \in Open
    /\ Answer(s, [Served(s) EXCEPT !.status = "cancelled"])

ReverseUnknown(s) ==        \* a defect: a status the schema does not have
    /\ serving[s].status = "complete"
    /\ Answer(s, [Served(s) EXCEPT !.status = "reversed"])

ReverseCompletion(s) ==
    /\ serving[s].status = "complete"
    /\ Answer(s, [Served(s) EXCEPT
          !.status = IF now < Served(s).due THEN "overdue" ELSE "missed"])

Refuse(s) ==
    /\ serving[s] # Idle
    /\ serving' = [serving EXCEPT ![s] = Idle]
    /\ UNCHANGED <<now, rows, jobVars, nudged, failures>>

(***************************************************************************)
(* The nightly job's sweep, and what it expires.                           *)
(***************************************************************************)
Sweep(i) ==
    /\ \/ rows[i].status = "pending" /\ rows[i].due <= now
          /\ WriteRow(i, [rows[i] EXCEPT !.status = "overdue"])
       \/ rows[i].status = "overdue" /\ rows[i].due < now
          /\ WriteRow(i, [rows[i] EXCEPT !.status = "missed"])
    /\ UNCHANGED <<now, serving, jobVars, failures>>

-----------------------------------------------------------------------------
(***************************************************************************)
(* Reminders: one SELECT, a push for each instance, and one COMMIT that    *)
(* marks them all.                                                         *)
(***************************************************************************)
DueSoon == {i \in Instances \ reminded :
    rows[i].status = "pending" /\ now < rows[i].due /\ rows[i].due - now <= Lead}

RemindStart(r) ==
    /\ todo[r] = {} /\ marks[r] = {}
    /\ DueSoon # {}
    /\ todo' = [todo EXCEPT ![r] = DueSoon]
    /\ UNCHANGED <<now, rows, serving, reminded, marks, pushes, nudged, failures>>

RemindSend(r) ==
    /\ \E i \in todo[r] :
          /\ todo' = [todo EXCEPT ![r] = @ \ {i}]
          /\ pushes' = [pushes EXCEPT ![i] = @ + 1]
          /\ marks' = [marks EXCEPT ![r] = @ \cup {i}]
    /\ UNCHANGED <<now, rows, serving, reminded, nudged, failures>>

MarksNone(r) ==             \* a defect: the marks are not committed
    /\ todo[r] = {} /\ marks[r] # {}
    /\ marks' = [marks EXCEPT ![r] = {}]
    /\ UNCHANGED <<now, rows, serving, reminded, todo, pushes, nudged, failures>>

RemindCommit(r) ==
    /\ todo[r] = {} /\ marks[r] # {}
    /\ reminded' = reminded \cup marks[r]
    /\ marks' = [marks EXCEPT ![r] = {}]
    /\ UNCHANGED <<now, rows, serving, todo, pushes, nudged, failures>>

RemindFail(r) ==
    /\ todo[r] \cup marks[r] # {}
    /\ failures < MaxFailures
    /\ failures' = failures + 1
    /\ todo' = [todo EXCEPT ![r] = {}]
    /\ marks' = [marks EXCEPT ![r] = {}]
    /\ UNCHANGED <<now, rows, serving, reminded, pushes, nudged>>

-----------------------------------------------------------------------------
(***************************************************************************)
(* The digest: NULL <= cutoff is not true.                                 *)
(***************************************************************************)
LongExcused == {i \in Instances :       \* a defect: asks for the excuse's time
    /\ rows[i].status \in Waiting
    /\ rows[i].excusedAt # 0 /\ rows[i].excusedAt + NudgeAfter <= now}

LongWaiting == {i \in Instances :
    /\ rows[i].status \in Waiting
    /\ rows[i].completedAt # 0 /\ rows[i].completedAt + NudgeAfter <= now}

SendDigests ==
    /\ nudged' = nudged \cup LongWaiting
    /\ UNCHANGED <<now, rows, serving, jobVars, failures>>

Tick ==
    /\ now < MaxTime
    /\ now' = now + 1
    /\ UNCHANGED <<rows, serving, jobVars, nudged, failures>>

Next ==
    \/ \E s \in Sessions :
          \/ \E i \in Instances : Load(s, i)
          \/ Complete(s) \/ SubmitExcuse(s) \/ Review(s) \/ ResolveExcuse(s)
          \/ Cancel(s) \/ ReverseCompletion(s) \/ Refuse(s)
    \/ \E i \in Instances : Sweep(i)
    \/ \E r \in Runs : RemindStart(r) \/ RemindSend(r) \/ RemindCommit(r) \/ RemindFail(r)
    \/ SendDigests \/ Tick

(***************************************************************************)
(* Beat starts the digest every day, and time passes.                      *)
(***************************************************************************)
Fairness == WF_vars(SendDigests) /\ WF_vars(Tick)

Spec == Init /\ [][Next]_vars /\ Fairness

-----------------------------------------------------------------------------
(***************************************************************************)
(* The inbox: ORDER BY excuse_submitted_at NULLS FIRST, completed_at, the  *)
(* latter with NULL last.                                                  *)
(***************************************************************************)
Inbox == {i \in Instances : rows[i].status \in Waiting}

SubmittedAt(i) ==
    IF rows[i].status = "review_pending" THEN rows[i].completedAt ELSE rows[i].excusedAt

ListedBefore(i, j) ==
    \/ rows[i].excusedAt < rows[j].excusedAt
    \/ /\ rows[i].excusedAt = rows[j].excusedAt
       /\ rows[i].completedAt # 0
       /\ rows[j].completedAt = 0 \/ rows[i].completedAt < rows[j].completedAt

(***************************************************************************)
(* Whatever races wrote the row, an item of the inbox has the time it was  *)
(* submitted: get_approval_inbox asserts it, and fails for the whole       *)
(* household otherwise.                                                    *)
(***************************************************************************)
InboxHasTimes == \A i \in Inbox : SubmittedAt(i) # 0

(***************************************************************************)
(* An instance marked as reminded has been pushed, and it is pushed once,  *)
(* but for runs that overlap and runs lost before their COMMIT.            *)
(***************************************************************************)
RemindedOnce ==
    \A i \in Instances :
        /\ i \in reminded => pushes[i] > 0
        /\ pushes[i] <= Cardinality(Runs) + failures

(***************************************************************************)
(* In a week in which the clocks are not put back, the report counts each  *)
(* completed and each missed instance of its weeks in the week it was due. *)
(* (When they are, the range ends an hour before the week, and when they   *)
(* repeat the midnight it starts with, an hour after the first of them.)   *)
(***************************************************************************)
ClocksKept(zone, week) ==
    /\ ~ComesTwice(zone, week - (Weeks - 1))
    /\ Monday(zone, week + 1) <= Monday(zone, week) + WeekLength

DueIn(zone, week, status) ==
    {i \in Instances : rows[i].status = status /\ Local(zone, Due[i]) \div WeekLength = week}

ReportExact ==
    \A zone \in Zones :
        ClocksKept(zone, WeekOf(zone, now)) =>
            \A week \in Buckets(zone, now) :
                LET counts == Report(rows, zone, now)[week]
                IN  /\ counts.completed = Cardinality(DueIn(zone, week, "complete"))
                    /\ counts.missed = Cardinality(DueIn(zone, week, "missed"))

(***************************************************************************)
(* A completion that waits for review is in a digest in the end, unless it *)
(* is answered before that.                                                *)
(***************************************************************************)
ReviewIsNudged ==
    \A i \in Instances :
        (rows[i].status = "review_pending" /\ rows[i].completedAt + NudgeAfter <= MaxTime)
            ~> (i \in nudged \/ rows[i].status # "review_pending")

(***************************************************************************)
(* Claim of notify_digest.py:2: parents are nudged of every approval that  *)
(* is pending for longer than NudgeAfter.                                  *)
(***************************************************************************)
ExcuseIsNudged ==
    \A i \in Instances :
        (rows[i].status = "excuse_pending" /\ rows[i].excusedAt + NudgeAfter <= MaxTime)
            ~> (i \in nudged \/ rows[i].status # "excuse_pending")

(***************************************************************************)
(* Claim of approvals.py:8 and :41: all items that await the parent are    *)
(* sorted by the time of submission, oldest first.                         *)
(***************************************************************************)
InboxOldestFirst ==
    \A i, j \in Inbox : SubmittedAt(i) < SubmittedAt(j) => ListedBefore(i, j)
=============================================================================
