------------------------------- MODULE SignIn -------------------------------
(***************************************************************************)
(* Staying signed in: attempts that are counted in fixed windows           *)
(* (rate_limit.py), and refresh tokens that are good for one rotation      *)
(* (refresh_tokens.py), both in Redis, as the endpoints of auth.py and the *)
(* PIN check of household.py use them.                                     *)
(*                                                                         *)
(* An attempt passes the counters of its keys one after the other (login:  *)
(* the address, then the email; a PIN or a password: the member) and then  *)
(* succeeds or not; a login that does issues a token.  Access tokens and   *)
(* what they give access to are left out.                                  *)
(***************************************************************************)
EXTENDS Naturals, FiniteSets, Sequences

CONSTANTS
    Keys,           \* of counters
    Limit,          \* Limit[k]: max_attempts
    Checks,         \* the sequences of keys that the endpoints check
    Logins,         \* those of them that issue a token when they succeed
    Tokens,         \* refresh tokens, each with its jti
    NoToken,
    Sessions,       \* requests that can be in progress at a time
    MaxFailures     \* bound: requests that are lost

ASSUME SignInAssumption ==
    /\ Limit \in [Keys -> Nat \ {0}]
    /\ Checks \subseteq Seq(Keys) \ {<< >>} /\ Logins \subseteq Checks
    /\ NoToken \notin Tokens /\ MaxFailures \in Nat

VARIABLES
    count,          \* Redis: ratelimit:<key>, as far as one over the limit
    ttl,            \* keys whose counter has an expiry
    orphaned,       \* keys whose counter lost the request that was to set it
    used,           \* Redis: refresh_used:<jti>
    issued,         \* issued[t]: the token t was issued for, t itself at a login
    ending,         \* tokens near their exp, or past it
    expired,        \* tokens that the decoder refuses
    lost,           \* tokens whose rotation was lost before the answer
    pc,
    checks, at,     \* the counters a session passes, and the position it is at
    token,          \* the token it rotates
    failures

counters == <<count, ttl, orphaned>>
tokens == <<used, issued, ending, expired, lost>>
sessionVars == <<pc, checks, at, token>>
vars == <<counters, tokens, sessionVars, failures>>

TypeOK ==
    /\ count \in [Keys -> Nat] /\ \A k \in Keys : count[k] <= Limit[k] + 1
    /\ ttl \in SUBSET Keys /\ orphaned \in SUBSET Keys
    /\ used \in SUBSET Tokens /\ lost \in SUBSET Tokens
    /\ ending \in SUBSET Tokens /\ expired \in SUBSET ending
    /\ issued \in [Tokens -> Tokens \cup {NoToken}]
    /\ pc \in [Sessions -> {"idle", "count", "expire", "verify", "redeem", "issue"}]
    /\ checks \in [Sessions -> Checks \cup {<< >>}]
    /\ at \in [Sessions -> Nat]
    /\ token \in [Sessions -> Tokens \cup {NoToken}]
    /\ failures \in 0..MaxFailures

Init ==
    /\ count = [k \in Keys |-> 0]
    /\ ttl = {} /\ orphaned = {}
    /\ used = {} /\ ending = {} /\ expired = {} /\ lost = {}
    /\ issued = [t \in Tokens |-> NoToken]
    /\ pc = [s \in Sessions |-> "idle"]
    /\ checks = [s \in Sessions |-> << >>]
    /\ at = [s \in Sessions |-> 1]
    /\ token = [s \in Sessions |-> NoToken]
    /\ failures = 0

-----------------------------------------------------------------------------
Goto(s, label) == pc' = [pc EXCEPT ![s] = label]

Close(s) ==
    /\ Goto(s, "idle")
    /\ checks' = [checks EXCEPT ![s] = << >>]
    /\ at' = [at EXCEPT ![s] = 1]
    /\ token' = [token EXCEPT ![s] = NoToken]

Key(s) == checks[s][at[s]]

(***************************************************************************)
(* The counter at hand lets the attempt through.                           *)
(***************************************************************************)
Pass(s) ==
    /\ IF at[s] < Len(checks[s])
       THEN Goto(s, "count") /\ at' = [at EXCEPT ![s] = @ + 1]
       ELSE Goto(s, "verify") /\ UNCHANGED at
    /\ UNCHANGED <<checks, token>>

Attempt(s, c) ==
    /\ pc[s] = "idle"
    /\ Goto(s, "count")
    /\ checks' = [checks EXCEPT ![s] = c]
    /\ UNCHANGED <<counters, tokens, at, token, failures>>

(***************************************************************************)
(* check_rate_limit: INCR, and EXPIRE if that has made it 1.               *)
(***************************************************************************)
CountFirst(s) ==
    /\ pc[s] = "count"
    /\ count[Key(s)] = 0
    /\ count' = [count EXCEPT ![Key(s)] = 1]
    /\ Goto(s, "expire")
    /\ UNCHANGED <<ttl, orphaned, tokens, checks, at, token, failures>>

ExpireNothing(s) ==         \* a defect: another key is given the expiry
    /\ pc[s] = "expire"
    /\ Pass(s)
    /\ UNCHANGED <<counters, tokens, failures>>

Expire(s) ==
    /\ pc[s] = "expire"
    /\ ttl' = ttl \cup {Key(s)}
    /\ Pass(s)
    /\ UNCHANGED <<count, orphaned, tokens, failures>>

CountNext(s) ==
    /\ pc[s] = "count"
    /\ count[Key(s)] \in 1..(Limit[Key(s)] - 1)
    /\ count' = [count EXCEPT ![Key(s)] = @ + 1]
    /\ Pass(s)
    /\ UNCHANGED <<ttl, orphaned, tokens, failures>>

TooManyTwice(s) ==          \* a defect: a refused attempt counts twice
    /\ pc[s] = "count"
    /\ count[Key(s)] >= Limit[Key(s)]
    /\ count' = [count EXCEPT ![Key(s)] = Limit[Key(s)] + 2]
    /\ Close(s)
    /\ UNCHANGED <<ttl, orphaned, tokens, failures>>

TooMany(s) ==
    /\ pc[s] = "count"
    /\ count[Key(s)] >= Limit[Key(s)]
    /\ count' = [count EXCEPT ![Key(s)] = Limit[Key(s)] + 1]
    /\ Close(s)
    /\ UNCHANGED <<ttl, orphaned, tokens, failures>>

WindowEnds(k) ==
    /\ k \in ttl
    /\ count' = [count EXCEPT ![k] = 0]
    /\ ttl' = ttl \ {k}
    /\ UNCHANGED <<orphaned, tokens, sessionVars, failures>>

Fresh(t) == issued[t] = NoToken

Succeed(s) ==
    /\ pc[s] = "verify"
    /\ checks[s] \in Logins
    /\ \E t \in Tokens : Fresh(t) /\ issued' = [issued EXCEPT ![t] = t]
    /\ Close(s)
    /\ UNCHANGED <<counters, used, ending, expired, lost, failures>>

(***************************************************************************)
(* A wrong password or PIN, or a right one that issues nothing.            *)
(***************************************************************************)
Done(s) ==
    /\ pc[s] = "verify"
    /\ Close(s)
    /\ UNCHANGED <<counters, tokens, failures>>

-----------------------------------------------------------------------------
(***************************************************************************)
(* A token is decoded, which fails when its exp is past; its jti is        *)
(* reserved by SET NX; and it is answered with a new one.                  *)
(***************************************************************************)
Refresh(s, t) ==
    /\ pc[s] = "idle"
    /\ ~ Fresh(t) /\ t \notin expired
    /\ Goto(s, "redeem")
    /\ token' = [token EXCEPT ![s] = t]
    /\ UNCHANGED <<counters, tokens, checks, at, failures>>

RedeemAgain(s) ==           \* a defect: SET without NX
    /\ pc[s] = "redeem"
    /\ used' = used \cup {token[s]}
    /\ Goto(s, "issue")
    /\ UNCHANGED <<counters, issued, ending, expired, lost, checks, at, token,
                   failures>>

Redeem(s) ==
    /\ pc[s] = "redeem"
    /\ token[s] \notin used
    /\ used' = used \cup {token[s]}
    /\ Goto(s, "issue")
    /\ UNCHANGED <<counters, issued, ending, expired, lost, checks, at, token,
                   failures>>

AlreadyUsed(s) ==
    /\ pc[s] = "redeem"
    /\ token[s] \in used
    /\ Close(s)
    /\ UNCHANGED <<counters, tokens, failures>>

Issue(s) ==
    /\ pc[s] = "issue"
    /\ \E t \in Tokens : Fresh(t) /\ issued' = [issued EXCEPT ![t] = token[s]]
    /\ Close(s)
    /\ UNCHANGED <<counters, used, ending, expired, lost, failures>>

(***************************************************************************)
(* The record lasts for the whole seconds left until exp, one at least.    *)
(* So it may end when the token is near its exp and still accepted: then   *)
(* less than a second is left, and the decoder compares whole seconds.     *)
(***************************************************************************)
NearsExpiry(t) ==
    /\ ~ Fresh(t) /\ t \notin ending
    /\ ending' = ending \cup {t}
    /\ UNCHANGED <<counters, used, issued, expired, lost, sessionVars, failures>>

TokenExpires(t) ==
    /\ t \in ending \ expired
    /\ expired' = expired \cup {t}
    /\ UNCHANGED <<counters, used, issued, ending, lost, sessionVars, failures>>

RecordExpires(t) ==
    /\ t \in used \cap ending
    /\ used' = used \ {t}
    /\ UNCHANGED <<counters, issued, ending, expired, lost, sessionVars, failures>>

-----------------------------------------------------------------------------
Fail(s) ==
    /\ pc[s] # "idle"
    /\ failures < MaxFailures
    /\ failures' = failures + 1
    /\ orphaned' = IF pc[s] = "expire" THEN orphaned \cup {Key(s)} ELSE orphaned
    /\ lost' = IF pc[s] = "issue" THEN lost \cup {token[s]} ELSE lost
    /\ Close(s)
    /\ UNCHANGED <<count, ttl, used, issued, ending, expired>>

Next ==
    \/ \E s \in Sessions :
          \/ \E c \in Checks : Attempt(s, c)
          \/ CountFirst(s) \/ Expire(s) \/ CountNext(s) \/ TooMany(s)
          \/ Succeed(s) \/ Done(s)
          \/ \E t \in Tokens : Refresh(s, t)
          \/ Redeem(s) \/ AlreadyUsed(s) \/ Issue(s) \/ Fail(s)
    \/ \E k \in Keys : WindowEnds(k)
    \/ \E t \in Tokens : NearsExpiry(t) \/ TokenExpires(t) \/ RecordExpires(t)

(***************************************************************************)
(* Redis expires what has an expiry, and a request that is not lost goes   *)
(* on from INCR to EXPIRE.                                                 *)
(***************************************************************************)
Fairness ==
    /\ \A k \in Keys : WF_vars(WindowEnds(k))
    /\ \A s \in Sessions : WF_vars(Expire(s))

Spec == Init /\ [][Next]_vars /\ Fairness

-----------------------------------------------------------------------------
Successors(t) == {u \in Tokens \ {t} : issued[u] = t}
Rotating(t) == {s \in Sessions : pc[s] = "issue" /\ token[s] = t}
Rotations(t) == Cardinality(Successors(t)) + Cardinality(Rotating(t))

(***************************************************************************)
(* A refresh token that is not yet near its exp is rotated once: whatever  *)
(* number of requests present it at a time, one of them gets its           *)
(* successor, or is about to, or was lost on the way there.                *)
(***************************************************************************)
RotatedOnce ==
    \A t \in Tokens \ ending : Rotations(t) = IF t \in used \ lost THEN 1 ELSE 0

(***************************************************************************)
(* Claim of refresh_tokens.py:5-9: the record of a redeemed token lives as *)
(* long as the token, so a second redemption is rejected as long as the    *)
(* token is accepted.                                                      *)
(***************************************************************************)
NeverRotatedAgain == \A t \in Tokens \ expired : Rotations(t) <= 1

(***************************************************************************)
(* A key that is over its limit is let through again some time, unless the *)
(* request that opened its window was lost between INCR and EXPIRE: then   *)
(* its counter never ends.                                                 *)
(***************************************************************************)
LockEnds ==
    \A k \in Keys : count[k] > Limit[k] ~> count[k] = 0 \/ k \in orphaned
=============================================================================
