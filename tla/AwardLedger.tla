----------------------------- MODULE AwardLedger ----------------------------
(***************************************************************************)
(* What the ledger of task awards promises, whatever the requests that     *)
(* write to it do and in whatever order.  Entries are only ever added      *)
(* (append-only).  A transaction inserts them one by one; one that is      *)
(* there, or that a transaction in progress has inserted, is refused.  A   *)
(* transaction whose entry is refused can only abort.  What it inserted    *)
(* enters the ledger all at once, at its commit, and nothing of it does if *)
(* it aborts.                                                              *)
(***************************************************************************)
EXTENDS Naturals

CONSTANTS Instances, Types, Writers

VARIABLES
    credited,   \* credited[i][t]: entries of type t for instance i
    asked,      \* asked[w]: the entry w is about to insert, in a set
    pending     \* pending[w]: the entries w has inserted and not committed

ledgerVars == <<credited, asked, pending>>

Entries == Instances \X Types

LedgerInit ==
    /\ credited = [i \in Instances |-> [t \in Types |-> 0]]
    /\ asked = [w \in Writers |-> {}]
    /\ pending = [w \in Writers |-> {}]

Ask(w, e) ==
    /\ asked[w] = {}
    /\ asked' = [asked EXCEPT ![w] = {e}]
    /\ UNCHANGED <<credited, pending>>

Insert(w, e) ==
    /\ asked[w] = {e}
    /\ credited[e[1]][e[2]] = 0
    /\ \A v \in Writers : e \notin pending[v]
    /\ asked' = [asked EXCEPT ![w] = {}]
    /\ pending' = [pending EXCEPT ![w] = @ \cup {e}]
    /\ UNCHANGED credited

CommitAll(w) ==
    /\ asked[w] = {}
    /\ credited' = [i \in Instances |-> [t \in Types |->
                       IF <<i, t>> \in pending[w] THEN 1 ELSE credited[i][t]]]
    /\ pending' = [pending EXCEPT ![w] = {}]
    /\ UNCHANGED asked

Abort(w) ==
    /\ asked' = [asked EXCEPT ![w] = {}]
    /\ pending' = [pending EXCEPT ![w] = {}]
    /\ UNCHANGED credited

LedgerNext ==
    \E w \in Writers :
        \/ \E e \in Entries : Ask(w, e) \/ Insert(w, e)
        \/ CommitAll(w)
        \/ Abort(w)

LedgerSpec == LedgerInit /\ [][LedgerNext]_ledgerVars
=============================================================================
