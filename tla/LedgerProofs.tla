---------------------------- MODULE LedgerProofs ----------------------------
(***************************************************************************)
(* Proofs about the two modules that sum a ledger, for any values of their *)
(* constants: TaskStateMachine (one task: types, the grace clock, and that *)
(* the service keeps the promise of TaskPromise) and Wallet (one member).  *)
(***************************************************************************)
EXTENDS TaskStateMachine, Wallet, TaskRowsProofs, FiniteSetTheorems,
        SequenceTheorems, TLAPS

-----------------------------------------------------------------------------
(***************************************************************************)
(* Induction over the naturals, for a set instead of a predicate: in a gap *)
(* of S below x, the map to the predecessor would be one to one and miss   *)
(* x.                                                                      *)
(***************************************************************************)
LEMMA SetInduction ==
    ASSUME NEW S, 0 \in S, \A n \in Nat : n \in S => n + 1 \in S
    PROVE  \A n \in Nat : n \in S
<1> SUFFICES ASSUME NEW x \in Nat, x \notin S PROVE FALSE
  OBVIOUS
<1> DEFINE T == (0 .. x) \ S
           down == [n \in T |-> n - 1]
<1>1. IsFiniteSet(T)
  <2>1. IsFiniteSet(0 .. x)
    BY FS_Interval
  <2>2. T \in SUBSET (0 .. x)
    OBVIOUS
  <2> HIDE DEF T
  <2> QED  BY <2>1, <2>2, FS_Subset
<1>2. \A n \in T : n - 1 \in T
  <2> SUFFICES ASSUME NEW n \in T PROVE n - 1 \in T
    OBVIOUS
  <2>1. n \in 0 .. x /\ n \notin S
    OBVIOUS
  <2>2. n - 1 \in Nat /\ n = (n - 1) + 1
    BY <2>1
  <2> QED  BY <2>1, <2>2
<1>3. down \in Injection(T, T)
  <2>1. down \in [T -> T]
    BY <1>2
  <2>2. \A a, b \in T : a - 1 = b - 1 => a = b
    OBVIOUS
  <2> QED  BY <2>1, <2>2, SMT DEF Injection, IsInjective
<1>4. down \in Surjection(T, T)
  <2> HIDE DEF T, down
  <2> QED  BY <1>1, <1>3, FS_Injection
<1>5. x \in T
  OBVIOUS
<1>6. \E n \in T : down[n] = x
  <2> HIDE DEF T, down
  <2> QED  BY <1>4, <1>5 DEF Surjection
<1> QED  BY <1>6

(***************************************************************************)
(* The recursive function behind the folds of the community modules, for a *)
(* sum: it takes the element pick[u] off the set u and adds its weight.    *)
(***************************************************************************)
IsFold(it, S, pick, w) ==
    it = [u \in SUBSET S |-> IF u = {} THEN 0 ELSE it[u \ {pick[u]}] + w[pick[u]]]

(***************************************************************************)
(* There is such a function over every finite set.                         *)
(***************************************************************************)
LEMMA FoldExists ==
    ASSUME NEW S, IsFiniteSet(S), NEW pick, NEW w,
           \A u \in SUBSET S : u # {} => pick[u] \in u
    PROVE  \E it : IsFold(it, S, pick, w)
<1> DEFINE Sum(it, u) == IF u = {} THEN 0 ELSE it[u \ {pick[u]}] + w[pick[u]]
           UpTo(it, n) == \A u \in SUBSET S : Cardinality(u) <= n => it[u] = Sum(it, u)
           Sizes == {n \in Nat : \E it : UpTo(it, n)}
<1>1. \A u \in SUBSET S : IsFiniteSet(u) /\ Cardinality(u) \in Nat
                          /\ Cardinality(u) <= Cardinality(S)
  BY FS_Subset, FS_CardinalityType
<1>2. 0 \in Sizes
  <2> DEFINE it == [u \in SUBSET S |-> 0]
  <2>1. UpTo(it, 0)
    <3> SUFFICES ASSUME NEW u \in SUBSET S, Cardinality(u) <= 0  PROVE it[u] = Sum(it, u)
      OBVIOUS
    <3>1. u = {}
      BY <1>1, FS_EmptySet
    <3> QED  BY <3>1
  <2> QED  BY <2>1
<1>3. ASSUME NEW n \in Nat, n \in Sizes  PROVE n + 1 \in Sizes
  <2>1. PICK it : UpTo(it, n)
    BY <1>3
  <2> DEFINE next == [u \in SUBSET S |-> Sum(it, u)]
  <2>2. \A u \in SUBSET S : Cardinality(u) <= n => next[u] = it[u]
    BY <2>1
  <2>3. UpTo(next, n + 1)
    <3> SUFFICES ASSUME NEW u \in SUBSET S, Cardinality(u) <= n + 1
                 PROVE  next[u] = Sum(next, u)
      OBVIOUS
    <3>1. CASE u = {}
      BY <3>1
    <3>2. CASE u # {}
      <4> DEFINE rest == u \ {pick[u]}
      <4>1. pick[u] \in u /\ rest \in SUBSET S
        BY <3>2
      <4>2. Cardinality(rest) = Cardinality(u) - 1
        BY <1>1, <4>1, FS_RemoveElement
      <4>3. next[rest] = it[rest]
        <5> HIDE DEF next, rest
        <5> QED  BY <1>1, <2>2, <4>1, <4>2
      <4> QED  BY <3>2, <4>3
    <3> QED  BY <3>1, <3>2
  <2> HIDE DEF UpTo
  <2> QED  BY <2>3
<1>4. Cardinality(S) \in Sizes
  <2> HIDE DEF Sizes
  <2> QED  BY <1>1, <1>2, <1>3, SetInduction
<1>5. PICK it : UpTo(it, Cardinality(S))
  BY <1>4
<1> DEFINE all == [u \in SUBSET S |-> it[u]]
<1>6. \A u \in SUBSET S : it[u] = Sum(it, u)
  BY <1>1, <1>5
<1>7. \A u \in SUBSET S : Sum(it, u) = Sum(all, u)
  OBVIOUS
<1>8. IsFold(all, S, pick, w)
  BY <1>6, <1>7 DEF IsFold
<1> QED  BY <1>8

(***************************************************************************)
(* The sum of integers is an integer.                                      *)
(***************************************************************************)
LEMMA FoldIsInt ==
    ASSUME NEW S, IsFiniteSet(S), NEW pick, NEW w, NEW it, IsFold(it, S, pick, w),
           \A u \in SUBSET S : u # {} => pick[u] \in u,
           \A x \in S : w[x] \in Int
    PROVE  it[S] \in Int
<1> DEFINE Sizes == {n \in Nat : \A u \in SUBSET S : Cardinality(u) = n => it[u] \in Int}
<1>1. \A u \in SUBSET S : IsFiniteSet(u) /\ Cardinality(u) \in Nat
  BY FS_Subset, FS_CardinalityType
<1>2. it[{}] = 0 /\ Cardinality({}) = 0
  BY FS_EmptySet DEF IsFold
<1>3. \A u \in SUBSET S : u # {} => it[u] = it[u \ {pick[u]}] + w[pick[u]]
  BY DEF IsFold
<1>4. 0 \in Sizes
  <2>1. ASSUME NEW u \in SUBSET S, Cardinality(u) = 0  PROVE it[u] \in Int
    <3>1. u = {}
      BY <1>1, <2>1, FS_EmptySet
    <3>2. it[u] = 0
      BY <1>2, <3>1
    <3> QED  BY <3>2
  <2> QED  BY <2>1, Zenon
<1>5. ASSUME NEW n \in Nat, n \in Sizes  PROVE n + 1 \in Sizes
  <2>1. ASSUME NEW u \in SUBSET S, Cardinality(u) = n + 1  PROVE it[u] \in Int
    <3>1. n + 1 # 0
      OBVIOUS
    <3>2. u # {}
      BY <1>2, <2>1, <3>1, Zenon
    <3>3. pick[u] \in u /\ u \ {pick[u]} \in SUBSET S
      BY <3>2
    <3>4. Cardinality(u \ {pick[u]}) = n
      BY <1>1, <2>1, <3>3, FS_RemoveElement
    <3>5. it[u \ {pick[u]}] \in Int
      BY <1>5, <3>3, <3>4, Zenon
    <3>6. w[pick[u]] \in Int
      BY <3>3
    <3>7. it[u] = it[u \ {pick[u]}] + w[pick[u]]
      BY <1>3, <3>2
    <3> HIDE DEF Sizes
    <3> QED  BY <3>5, <3>6, <3>7
  <2>2. n + 1 \in Nat
    OBVIOUS
  <2> QED  BY <2>1, <2>2, Zenon
<1> QED
  <2>1. \A n \in Nat : n \in Sizes
    <3> HIDE DEF Sizes
    <3> QED  BY <1>4, <1>5, SetInduction
  <2> QED  BY <1>1, <2>1

(***************************************************************************)
(* A set of indexes that is not empty has a largest one.                   *)
(***************************************************************************)
LEMMA MaxOfInterval ==
    ASSUME NEW n \in Nat, NEW u \in SUBSET (1 .. n), u # {}
    PROVE  Max(u) \in u /\ \A k \in u : k <= Max(u)
<1> DEFINE HasMax(v) == \E m \in v : \A k \in v : m >= k
           Bounds == {b \in Nat : \A v \in SUBSET (1 .. b) : v # {} => HasMax(v)}
<1>1. 0 \in Bounds
  <2>1. 1 .. 0 = {}
    OBVIOUS
  <2>2. \A v \in SUBSET (1 .. 0) : v = {}
    BY <2>1
  <2> QED  BY <2>2
<1>2. ASSUME NEW b \in Nat, b \in Bounds  PROVE b + 1 \in Bounds
  <2> SUFFICES ASSUME NEW v \in SUBSET (1 .. b + 1), v # {}  PROVE HasMax(v)
    OBVIOUS
  <2>1. CASE b + 1 \in v
    BY <2>1
  <2>2. CASE b + 1 \notin v
    <3>1. v \in SUBSET (1 .. b)
      BY <2>2
    <3> QED  BY <1>2, <3>1
  <2> QED  BY <2>1, <2>2
<1>3. HasMax(u)
  <2>1. n \in Bounds
    <3> HIDE DEF Bounds
    <3> QED  BY <1>1, <1>2, SetInduction
  <2> QED  BY <2>1
<1> QED  BY <1>3 DEF Max

(***************************************************************************)
(* f is the running sum of the deltas of s.                                *)
(***************************************************************************)
Runs(s, f) == f[0] = 0 /\ \A k \in 1 .. Len(s) : f[k] = f[k - 1] + s[k].delta

(***************************************************************************)
(* The balance is the last value of a running sum.                         *)
(***************************************************************************)
LEMMA BalanceRuns ==
    ASSUME NEW E, \A e \in E : e.delta \in Int, NEW s \in Seq(E)
    PROVE  \E f \in [0 .. Len(s) -> Int] : Runs(s, f) /\ Balance(s) = f[Len(s)]
<1> DEFINE n == Len(s)
           pick == [u \in SUBSET (1 .. n) |-> Max(u)]
           w == [k \in 1 .. n |-> s[k].delta]
           Folds(it) == it = [u \in SUBSET (1 .. n) |->
                                 IF u = {} THEN 0 ELSE it[u \ {Max(u)}] + s[Max(u)].delta]
<1>1. n \in Nat /\ DOMAIN s = 1 .. n /\ \A k \in 1 .. n : s[k].delta \in Int
  OBVIOUS
<1>2. \A u \in SUBSET (1 .. n) : u # {} => pick[u] \in u /\ pick[u] = Max(u)
  BY <1>1, MaxOfInterval
<1>3. \E it : Folds(it)
  <2>1. IsFiniteSet(1 .. n)
    BY <1>1, FS_Interval
  <2>2. \A u \in SUBSET (1 .. n) : u # {} => pick[u] \in u
    BY <1>2
  <2>3. PICK it : IsFold(it, 1 .. n, pick, w)
    <3> HIDE DEF pick, w, n
    <3> QED  BY <2>1, <2>2, FoldExists
  <2>4. \A u \in SUBSET (1 .. n) : u # {} => w[pick[u]] = s[Max(u)].delta
    BY <1>2
  <2>5. Folds(it)
    <3> HIDE DEF pick, w, n
    <3> QED  BY <1>2, <2>3, <2>4 DEF IsFold
  <2> QED  BY <2>5
<1> DEFINE it == CHOOSE it : Folds(it)
<1>4. Folds(it)
  BY <1>3
<1>5. Balance(s) = it[1 .. n]
  BY <1>1, Zenon DEF Balance, FoldLeft, MapThenFoldSet
<1> HIDE DEF it
<1> DEFINE f == [k \in 0 .. n |-> it[1 .. k]]
<1>6. f[0] = 0
  <2>1. it[{}] = 0
    BY <1>4
  <2>2. 1 .. 0 = {}
    OBVIOUS
  <2> QED  BY <1>1, <2>1, <2>2
<1>7. ASSUME NEW k \in 1 .. n  PROVE f[k] = f[k - 1] + s[k].delta
  <2>1. 1 .. k \in SUBSET (1 .. n) /\ 1 .. k # {} /\ k \in Nat
    <3>1. k \in Nat /\ 1 <= k /\ k <= n
      BY <1>1
    <3>2. k \in 1 .. k
      BY <3>1
    <3>3. \A j \in 1 .. k : j \in 1 .. n
      BY <1>1, <3>1
    <3> QED  BY <3>1, <3>2, <3>3
  <2>2. Max(1 .. k) = k
    <3>1. Max(1 .. k) \in 1 .. k /\ \A j \in 1 .. k : j <= Max(1 .. k)
      BY <2>1, MaxOfInterval
    <3> QED  BY <3>1
  <2>3. (1 .. k) \ {k} = 1 .. (k - 1)
    BY <2>1
  <2>4. it[1 .. k] = it[(1 .. k) \ {Max(1 .. k)}] + s[Max(1 .. k)].delta
    BY <1>4, <2>1
  <2>5. f[k] = it[1 .. k] /\ f[k - 1] = it[1 .. (k - 1)]
    BY <1>1, <2>1
  <2> QED  BY <2>2, <2>3, <2>4, <2>5
<1>8. f \in [0 .. n -> Int]
  <2> DEFINE Typed == {k \in Nat : k <= n => f[k] \in Int}
  <2>1. 0 \in Typed
    BY <1>6
  <2>2. ASSUME NEW k \in Nat, k \in Typed  PROVE k + 1 \in Typed
    <3> HIDE DEF f
    <3>1. CASE k + 1 <= n
      BY <1>1, <1>7, <2>2, <3>1
    <3> QED  BY <3>1
  <2>3. \A k \in Nat : k \in Typed
    <3> HIDE DEF Typed
    <3> QED  BY <2>1, <2>2, SetInduction
  <2>4. \A k \in 0 .. n : f[k] \in Int
    <3> HIDE DEF f
    <3> QED  BY <1>1, <2>3
  <2>5. f = [k \in 0 .. n |-> f[k]]
    OBVIOUS
  <2> HIDE DEF f
  <2> QED  BY <2>4, <2>5
<1>9. Runs(s, f)
  BY <1>6, <1>7 DEF Runs
<1> QED  BY <1>1, <1>5, <1>8, <1>9

(***************************************************************************)
(* Two running sums of one sequence are the same.                          *)
(***************************************************************************)
LEMMA RunsUnique ==
    ASSUME NEW n \in Nat, NEW s, Len(s) = n, NEW f, NEW g, Runs(s, f), Runs(s, g)
    PROVE  \A k \in 0 .. n : f[k] = g[k]
<1> DEFINE Agree == {k \in Nat : k <= n => f[k] = g[k]}
<1>1. 0 \in Agree
  BY DEF Runs
<1>2. ASSUME NEW k \in Nat, k \in Agree  PROVE k + 1 \in Agree
  BY <1>2 DEF Runs
<1>3. \A k \in Nat : k \in Agree
  <2> HIDE DEF Agree
  <2> QED  BY <1>1, <1>2, SetInduction
<1> QED  BY <1>3

(***************************************************************************)
(* No entries add up to nothing, and an entry adds its delta.              *)
(***************************************************************************)
LEMMA BalanceAppend ==
    ASSUME NEW E, \A e \in E : e.delta \in Int, NEW s \in Seq(E), NEW e \in E
    PROVE  /\ Balance(s) \in Int
           /\ Balance(<< >>) = 0
           /\ Balance(Append(s, e)) = Balance(s) + e.delta
<1>1. PICK f \in [0 .. Len(s) -> Int] : Runs(s, f) /\ Balance(s) = f[Len(s)]
  BY BalanceRuns
<1>2. Len(s) \in Nat /\ << >> \in Seq(E) /\ Append(s, e) \in Seq(E)
      /\ Len(Append(s, e)) = Len(s) + 1 /\ Len(<< >>) = 0
  OBVIOUS
<1>3. Balance(<< >>) = 0
  <2>1. PICK g \in [0 .. Len(<< >>) -> Int] : Runs(<< >>, g) /\ Balance(<< >>) = g[Len(<< >>)]
    BY <1>2, BalanceRuns
  <2> QED  BY <1>2, <2>1 DEF Runs
<1>4. Balance(Append(s, e)) = Balance(s) + e.delta
  <2>1. PICK g \in [0 .. Len(s) + 1 -> Int] :
           Runs(Append(s, e), g) /\ Balance(Append(s, e)) = g[Len(s) + 1]
    BY <1>2, BalanceRuns
  <2>2. Runs(s, g)
    BY <1>2, <2>1 DEF Runs
  <2>3. g[Len(s)] = f[Len(s)]
    BY <1>1, <1>2, <2>2, RunsUnique
  <2>4. g[Len(s) + 1] = g[Len(s)] + e.delta
    BY <1>2, <2>1 DEF Runs
  <2> QED  BY <1>1, <2>1, <2>3, <2>4
<1> QED  BY <1>1, <1>2, <1>3, <1>4

(***************************************************************************)
(* A balance is an integer.                                                *)
(***************************************************************************)
LEMMA BalanceIsInt ==
    ASSUME NEW E, \A e \in E : e.delta \in Int, NEW s \in Seq(E)
    PROVE  Balance(s) \in Int
<1>1. PICK f \in [0 .. Len(s) -> Int] : Balance(s) = f[Len(s)]
  BY BalanceRuns
<1> QED  BY <1>1

(***************************************************************************)
(* A running sum gives the balance after every entry.                      *)
(***************************************************************************)
LEMMA BalanceOfPrefix ==
    ASSUME NEW E, \A e \in E : e.delta \in Int, NEW s \in Seq(E)
    PROVE  \E f \in [0 .. Len(s) -> Int] :
              /\ Runs(s, f) /\ Balance(s) = f[Len(s)]
              /\ \A k \in 1 .. Len(s) : Balance(SubSeq(s, 1, k)) = f[k]
<1>1. PICK f \in [0 .. Len(s) -> Int] : Runs(s, f) /\ Balance(s) = f[Len(s)]
  BY BalanceRuns
<1>2. ASSUME NEW k \in 1 .. Len(s)  PROVE Balance(SubSeq(s, 1, k)) = f[k]
  <2> DEFINE p == SubSeq(s, 1, k)
  <2>1. p \in Seq(E) /\ Len(p) = k /\ \A j \in 1 .. k : p[j] = s[j]
    OBVIOUS
  <2> HIDE DEF p
  <2>2. PICK g \in [0 .. Len(p) -> Int] : Runs(p, g) /\ Balance(p) = g[Len(p)]
    BY <2>1, BalanceRuns
  <2>3. Runs(p, f)
    <3>1. k \in Nat /\ k <= Len(s)
      OBVIOUS
    <3>2. ASSUME NEW j \in 1 .. k  PROVE f[j] = f[j - 1] + p[j].delta
      <4>1. j \in 1 .. Len(s) /\ p[j] = s[j]
        BY <2>1, <3>1
      <4> QED  BY <1>1, <4>1 DEF Runs
    <3> QED  BY <1>1, <2>1, <3>2 DEF Runs
  <2>4. g[k] = f[k]
    BY <2>1, <2>2, <2>3, RunsUnique
  <2> QED  BY <2>1, <2>2, <2>4 DEF p
<1> QED  BY <1>1, <1>2

-----------------------------------------------------------------------------
(***************************************************************************)
(* The clock is paused only while an excuse waits for its verdict, or has  *)
(* been approved.  A paused clock has been charged with all the time the   *)
(* instance was open, and that is never more than the time since it was    *)
(* due, which a running clock is charged with at least.                    *)
(***************************************************************************)
PausedWaits == row.paused => row.status \in {"excuse_pending", "excused"}

PausedIsCharged == row.paused => openTime <= row.elapsed

OpenSinceDue == openTime <= AtLeastZero(now - Due)

GraceInv == /\ row \in Row /\ now \in 0..MaxTime /\ openTime \in Nat
            /\ PausedWaits /\ PausedIsCharged /\ OpenSinceDue

LedgerOK == /\ ledger \in Seq([type : EntryType, delta : Int])
            /\ archived \in BOOLEAN

(***************************************************************************)
(* An instance is created with a running clock.                            *)
(***************************************************************************)
LEMMA GraceInit == Init => GraceInv /\ LedgerOK
<1> SUFFICES ASSUME Init  PROVE GraceInv /\ LedgerOK
  OBVIOUS
<1>1. now \in 0..MaxTime /\ now \in Nat /\ Due \in Nat
  BY TaskAssumption DEF Init
<1>2. row \in Row /\ ~ row.paused
  BY <1>1, NewRowIsRow DEF Init, NewRow
<1>3. openTime \in Nat /\ OpenSinceDue
  BY <1>1 DEF Init, OpenSinceDue, AtLeastZero
<1>4. LedgerOK
  <2>1. ledger \in Seq([type : EntryType, delta : Int])
    BY DEF Init
  <2>2. archived \in BOOLEAN
    BY DEF Init
  <2> QED  BY <2>1, <2>2 DEF LedgerOK
<1> QED  BY <1>1, <1>2, <1>3, <1>4 DEF GraceInv, PausedWaits, PausedIsCharged

(***************************************************************************)
(* A call that leaves the clock as it is, or resumes it, preserves the     *)
(* invariant; from a status that is not waiting for an excuse's verdict    *)
(* the clock is running.                                                   *)
(***************************************************************************)
LEMMA RunningKept ==
    ASSUME GraceInv, NEW p \in Patch, Becomes(p), p.elapsed = Keep,
           p.clock = "resume" \/ (p.clock = "keep" /\ ~ row.paused)
                              \/ (p.clock = "keep" /\ p.status = "excused")
    PROVE  GraceInv'
<1>1. row' \in Row
  BY ApplyIsRow DEF GraceInv, Becomes
<1>2. /\ row'.elapsed = row.elapsed /\ row'.status = p.status
      /\ row'.paused => row.paused /\ row'.status = "excused"
  BY DEF GraceInv, Becomes, Apply, Row
<1>3. now' = now /\ openTime' = openTime
  BY DEF Becomes
<1> QED
  BY <1>1, <1>2, <1>3 DEF GraceInv, PausedWaits, PausedIsCharged, OpenSinceDue

(***************************************************************************)
(* Submitting an excuse charges an overdue instance with all the time      *)
(* since it was due.                                                       *)
(***************************************************************************)
LEMMA ExcuseCharges ==
    ASSUME GraceInv, row.status \in Actionable, Becomes(ExcusePatch(row, Due, now))
    PROVE  GraceInv'
<1> DEFINE p == ExcusePatch(row, Due, now)
<1>1. now \in Nat /\ Due \in Nat /\ row \in Row
  BY TaskAssumption DEF GraceInv
<1>2. p \in Patch
  BY <1>1, ServicePatches
<1>3. ~ row.paused /\ row.paused \in BOOLEAN /\ row.elapsed \in Nat
  BY <1>1 DEF GraceInv, PausedWaits, Actionable, Row
<1>4. CASE row.status # "overdue"
  <2>1. p.elapsed = Keep /\ p.clock = "keep"
    BY <1>4 DEF ExcusePatch, SetStatus
  <2> QED  BY <1>2, <1>3, <2>1, RunningKept
<1>5. CASE row.status = "overdue"
  <2> DEFINE elapsed == row.elapsed + AtLeastZero(now - Due)
  <2>1. SuspendedElapsed(row.elapsed, row.paused, Due, now) = elapsed
    BY <1>3 DEF SuspendedElapsed
  <2>2. /\ p.status = "excuse_pending" /\ p.clock = "suspend"
        /\ p.elapsed = IF elapsed = row.elapsed THEN Keep ELSE elapsed
    BY <1>5, <2>1 DEF ExcusePatch
  <2>3. elapsed \in Nat
    BY <1>1, <1>3 DEF AtLeastZero
  <2>4. row'.status = "excuse_pending" /\ row'.elapsed = elapsed
    BY <2>2, <2>3 DEF Becomes, Apply, Keep
  <2>5. openTime <= elapsed
    BY <1>1, <1>3 DEF GraceInv, OpenSinceDue, AtLeastZero
  <2>6. row' \in Row /\ now' = now /\ openTime' = openTime
    BY <1>1, <1>2, ApplyIsRow DEF Becomes
  <2> QED
    BY <2>4, <2>5, <2>6 DEF GraceInv, PausedWaits, PausedIsCharged, OpenSinceDue
<1> QED  BY <1>4, <1>5

(***************************************************************************)
(* Every step preserves the accounting.                                    *)
(***************************************************************************)
LEMMA GraceStep ==
    ASSUME GraceInv, [Next]_vars
    PROVE  GraceInv'
<1>1. now \in Nat /\ Due \in Nat /\ row \in Row /\ row.paused \in BOOLEAN
  BY TaskAssumption DEF GraceInv, Row
<1>2. ASSUME NEW status \in Status, Becomes(SetStatus(status)),
             ~ row.paused \/ status = "excused"
      PROVE  GraceInv'
  <2>1. /\ SetStatus(status) \in Patch /\ SetStatus(status).elapsed = Keep
        /\ SetStatus(status).clock = "keep" /\ SetStatus(status).status = status
    BY SetStatusIsPatch DEF SetStatus
  <2> QED  BY <1>2, <2>1, RunningKept
<1>3. ASSUME NEW status \in Status, Becomes(Resumed(row, status))
      PROVE  GraceInv'
  <2>1. Resumed(row, status).elapsed = Keep
    BY DEF Resumed, SetStatus
  <2>2. Resumed(row, status).clock = IF row.paused THEN "resume" ELSE "keep"
    BY DEF Resumed, SetStatus
  <2> QED  BY <1>1, <1>3, <2>1, <2>2, ResumedIsPatch, RunningKept
<1>4. CASE Complete
  BY <1>2, <1>4 DEF Complete, CompletePatch, GraceInv, PausedWaits, Actionable, Status
<1>5. CASE SubmitExcuse
  BY <1>5, ExcuseCharges DEF SubmitExcuse
<1>6. CASE Cancel
  BY <1>2, <1>6 DEF Cancel, GraceInv, PausedWaits, Actionable, Status
<1>7. CASE ApproveCompletion
  BY <1>2, <1>7 DEF ApproveCompletion, GraceInv, PausedWaits, Status
<1>8. CASE DenyCompletion
  BY <1>2, <1>3, <1>8 DEF DenyCompletion, DenyCompletionPatch, GraceInv, PausedWaits, Status
<1>9. CASE ApproveExcuse
  BY <1>2, <1>9 DEF ApproveExcuse, Status
<1>10. CASE DenyExcuse
  BY <1>3, <1>10 DEF DenyExcuse, DenyExcusePatch, Status
<1>11. CASE ReverseCompletion
  BY <1>2, <1>11 DEF ReverseCompletion, ReversePatch, GraceInv, PausedWaits, Status
<1>12. CASE NightlySweep
  <2>1. ~ row.paused
    BY <1>12 DEF NightlySweep, Swept, GraceInv, PausedWaits
  <2> QED  BY <1>2, <1>12, <2>1 DEF NightlySweep, Swept, Status
<1>13. CASE Tick
  <2>1. now' = now + 1 /\ now < MaxTime /\ row' = row
    BY <1>13 DEF Tick
  <2>2. \/ openTime' = openTime
        \/ openTime' = openTime + 1 /\ now >= Due /\ row.status \in Actionable
    BY <1>13 DEF Tick
  <2>3. now' \in 0..MaxTime /\ openTime' \in Nat
    BY <2>1, <2>2, TaskAssumption DEF GraceInv
  <2>4. OpenSinceDue'
    BY <1>1, <2>1, <2>2 DEF GraceInv, OpenSinceDue, AtLeastZero
  <2>5. PausedWaits' /\ PausedIsCharged'
    BY <2>1, <2>2 DEF GraceInv, PausedWaits, PausedIsCharged, Actionable
  <2> QED  BY <2>1, <2>3, <2>4, <2>5 DEF GraceInv
<1>14. CASE ArchiveDefinition \/ UNCHANGED vars
  BY <1>14 DEF GraceInv, PausedWaits, PausedIsCharged, OpenSinceDue, ArchiveDefinition,
               vars
<1> QED
  BY <1>4, <1>5, <1>6, <1>7, <1>8, <1>9, <1>10, <1>11, <1>12, <1>13, <1>14 DEF Next

(***************************************************************************)
(* The ledger stays a sequence of entries, archived a flag.                *)
(***************************************************************************)
LEMMA LedgerStep ==
    ASSUME LedgerOK, [Next]_vars
    PROVE  LedgerOK'
<1>0. archived' \in BOOLEAN
  <2>1. archived' = archived \/ archived' = TRUE
    BY DEF Next, Complete, SubmitExcuse, ApproveCompletion, DenyCompletion, ApproveExcuse,
           DenyExcuse, Cancel, ReverseCompletion, NightlySweep, Tick, ArchiveDefinition,
           Becomes, vars
  <2> QED  BY <2>1 DEF LedgerOK
<1>1. Value \in Int /\ -Value \in Int /\ Value \div 2 \in Int
  BY TaskAssumption
<1>2. ASSUME NEW type \in EntryType, NEW delta \in Int, Write(type, delta)
      PROVE  LedgerOK'
  BY <1>0, <1>2 DEF LedgerOK, Write
<1>3. CASE UNCHANGED ledger
  BY <1>0, <1>3 DEF LedgerOK
<1>4. AwardTaskCompletion => LedgerOK'
  BY <1>1, <1>2 DEF AwardTaskCompletion, EntryType, AwardType
<1>5. ASSUME NEW policy \in PayoutPolicy, AwardExcuse(policy)  PROVE LedgerOK'
  BY <1>1, <1>2, <1>3, <1>5
  DEF AwardExcuse, ExcuseAward, PayoutPolicy, EntryType, AwardType
<1>6. CASE Complete \/ ApproveCompletion
  BY <1>3, <1>4, <1>6 DEF Complete, ApproveCompletion
<1>7. CASE ApproveExcuse
  BY <1>5, <1>7 DEF ApproveExcuse
<1>8. CASE ReverseCompletion
  BY <1>1, <1>2, <1>8 DEF ReverseCompletion, EntryType
<1>9. CASE SubmitExcuse \/ Cancel \/ DenyCompletion \/ DenyExcuse \/ NightlySweep \/ Tick
  BY <1>3, <1>9 DEF SubmitExcuse, Cancel, DenyCompletion, DenyExcuse, NightlySweep, Tick
<1>10. CASE ArchiveDefinition \/ UNCHANGED vars
  BY <1>3, <1>10 DEF ArchiveDefinition, vars
<1> QED  BY <1>6, <1>7, <1>8, <1>9, <1>10 DEF Next

(***************************************************************************)
(* The invariant holds in every reachable state.                           *)
(***************************************************************************)
LEMMA GraceInvAlways == Spec => [](GraceInv /\ LedgerOK)
BY GraceInit, GraceStep, LedgerStep, PTL DEF Spec

(***************************************************************************)
(* Every reachable state is well typed: the time an instance was open      *)
(* stays within the time there is.                                         *)
(***************************************************************************)
THEOREM TypesAlways == Spec => []TypeOK
<1>1. GraceInv /\ LedgerOK => TypeOK
  <2> SUFFICES ASSUME GraceInv, LedgerOK  PROVE TypeOK
    OBVIOUS
  <2>1. openTime \in 0..MaxTime
    BY TaskAssumption DEF GraceInv, OpenSinceDue, AtLeastZero
  <2> QED  BY <2>1 DEF GraceInv, LedgerOK, TypeOK
<1> QED  BY <1>1, GraceInvAlways, PTL

(***************************************************************************)
(* Whatever is submitted, denied and submitted again, the time for which   *)
(* an overdue instance was open to the teen has been charged.              *)
(***************************************************************************)
THEOREM GraceAlwaysCharged == Spec => []GraceNeverExtended
<1>1. GraceInv => GraceNeverExtended
  <2> SUFFICES ASSUME GraceInv  PROVE GraceNeverExtended
    OBVIOUS
  <2>1. row.elapsed \in Nat /\ row.paused \in BOOLEAN /\ Due \in Nat /\ now \in Nat
    BY TaskAssumption DEF GraceInv, Row
  <2>2. openTime <= GraceUsed(row.elapsed, row.paused, Due, now)
    BY <2>1 DEF GraceInv, PausedIsCharged, OpenSinceDue, GraceUsed, AtLeastZero
  <2>3. GraceUsed(row.elapsed, row.paused, Due, now) \in Int
    BY <2>1 DEF GraceUsed, AtLeastZero
  <2> QED  BY <2>2, <2>3, GracePeriodAssumption
           DEF GraceInv, GraceNeverExtended, RemainingOf, GraceRemaining
<1> QED  BY <1>1, GraceInvAlways, PTL

-----------------------------------------------------------------------------
(***************************************************************************)
(* Refinement of TaskPromise.  Until it is accepted a task has been worth  *)
(* nothing, completed it is worth its value; what it is worth once excused *)
(* was decided by the policy of that day and no later step asks.           *)
(***************************************************************************)
Promised == /\ row.status \notin {"complete", "excused"} => Net = 0
            /\ row.status = "complete" => Net = Value

(***************************************************************************)
(* An instance is created open, and its ledger is empty.                   *)
(***************************************************************************)
LEMMA PromisedInit == Init => Promised /\ Promise!PromiseInit
<1> SUFFICES ASSUME Init  PROVE Promised /\ Promise!PromiseInit
  OBVIOUS
<1>1. Net = 0
  <2>1. /\ \A e \in [type : EntryType, delta : Int] : e.delta \in Int
        /\ << >> \in Seq([type : EntryType, delta : Int])
        /\ [type |-> "reversal", delta |-> 0] \in [type : EntryType, delta : Int]
    BY DEF EntryType
  <2>2. Balance(<< >>) = 0
    BY <2>1, BalanceAppend
  <2> QED  BY <2>2 DEF Init, Net
<1>2. row.status \in {"pending", "overdue"}
  BY DEF Init, NewRow
<1> QED  BY <1>1, <1>2 DEF Promised, Promise!PromiseInit

(***************************************************************************)
(* Writing an entry changes what the task is worth by its delta.           *)
(***************************************************************************)
LEMMA WriteAdds ==
    ASSUME LedgerOK, NEW type \in EntryType, NEW delta \in Int, Write(type, delta)
    PROVE  Net' = Net + delta
<1> DEFINE E == [type : EntryType, delta : Int]
           e == [type |-> type, delta |-> delta]
<1>1. e \in E /\ e.delta = delta /\ ledger \in Seq(E) /\ ledger' = Append(ledger, e)
  BY DEF LedgerOK, Write
<1>2. \A d \in E : d.delta \in Int
  OBVIOUS
<1> HIDE DEF E, e
<1>3. Balance(Append(ledger, e)) = Balance(ledger) + e.delta
  BY <1>1, <1>2, BalanceAppend
<1> QED  BY <1>1, <1>3 DEF Net

(***************************************************************************)
(* A step along one row of the transition table, to a status that is worth *)
(* what the ledger now adds up to, keeps the promise.                      *)
(***************************************************************************)
LEMMA MoveKeeps ==
    ASSUME NEW trigger, <<row.status, trigger, row'.status>> \in Promise!Transitions,
           Net' \in Promise!Worth(row'.status)
    PROVE  Promise!Move /\ Promised'
<1>1. Promise!Move
  <2> DEFINE tr == <<row.status, trigger, row'.status>>
  <2>1. /\ tr \in Promise!Transitions /\ row.status = tr[1] /\ row'.status = tr[3]
        /\ Net' \in Promise!Worth(tr[3])
    OBVIOUS
  <2> QED  BY <2>1, Zenon DEF Promise!Move
<1>2. Promised'
  BY DEF Promised, Promise!Worth
<1> QED  BY <1>1, <1>2

(***************************************************************************)
(* Every step keeps the promise, or changes neither the status nor what    *)
(* the task is worth.                                                      *)
(***************************************************************************)
LEMMA PromiseStep ==
    ASSUME GraceInv, LedgerOK, Promised, [Next]_vars
    PROVE  /\ Promised'
           /\ [Promise!Move \/ Promise!MoveTwice]_<<row.status, Net>>
<1> DEFINE Kept == Promised' /\ [Promise!Move \/ Promise!MoveTwice]_<<row.status, Net>>
<1>1. Value \in Nat /\ Value \div 2 \in Nat /\ row \in Row
  BY TaskAssumption DEF GraceInv
<1>2. \A p : Becomes(p) => row'.status = p.status
  BY DEF Becomes, Apply
<1>3. UNCHANGED ledger => Net' = Net
  BY DEF Net
<1>4. AwardTaskCompletion => Net' = Net + Value
  BY <1>1, WriteAdds DEF AwardTaskCompletion, EntryType, AwardType
<1>5. ASSUME NEW policy \in PayoutPolicy, AwardExcuse(policy)
      PROVE  Net' \in {Net, Net + Value \div 2, Net + Value}
  <2>1. Write("excused_partial", Value \div 2) => Net' = Net + Value \div 2
    BY <1>1, WriteAdds DEF EntryType, AwardType
  <2>2. Write("task_completed", Value) => Net' = Net + Value
    BY <1>1, WriteAdds DEF EntryType, AwardType
  <2> QED  BY <1>3, <1>5, <2>1, <2>2 DEF AwardExcuse, ExcuseAward, PayoutPolicy
<1>6. ASSUME NEW trigger, <<row.status, trigger, row'.status>> \in Promise!Transitions,
             Net' \in Promise!Worth(row'.status)
      PROVE  Kept
  BY <1>6, MoveKeeps
<1>7. CASE Complete
  <2>1. PICK requiresReview \in BOOLEAN :
           /\ row.status \in Actionable /\ Becomes(CompletePatch(requiresReview))
           /\ IF requiresReview THEN UNCHANGED ledger ELSE AwardTaskCompletion
    BY <1>7 DEF Complete
  <2>2. CASE requiresReview
    <3>1. row'.status = "review_pending" /\ Net' = 0
      BY <1>2, <1>3, <2>1, <2>2 DEF CompletePatch, SetStatus, Promised, Actionable
    <3>2. <<row.status, "complete_review", row'.status>> \in Promise!Transitions
      BY <2>1, <3>1 DEF Promise!Transitions, Actionable
    <3> QED  BY <1>6, <3>1, <3>2 DEF Promise!Worth
  <2>3. CASE ~ requiresReview
    <3>1. row'.status = "complete" /\ Net' = Value
      BY <1>1, <1>2, <1>4, <2>1, <2>3 DEF CompletePatch, SetStatus, Promised, Actionable
    <3>2. <<row.status, "complete_auto", row'.status>> \in Promise!Transitions
      BY <2>1, <3>1 DEF Promise!Transitions, Actionable
    <3> QED  BY <1>6, <3>1, <3>2 DEF Promise!Worth
  <2> QED  BY <2>2, <2>3
<1>8. CASE SubmitExcuse
  <2>1. row'.status = "excuse_pending" /\ Net' = 0 /\ row.status \in Actionable
    BY <1>2, <1>3, <1>8 DEF SubmitExcuse, ExcusePatch, SetStatus, Promised, Actionable
  <2>2. <<row.status, "excuse", row'.status>> \in Promise!Transitions
    BY <2>1 DEF Promise!Transitions, Actionable
  <2> QED  BY <1>6, <2>1, <2>2 DEF Promise!Worth
<1>9. CASE Cancel
  <2>1. row'.status = "cancelled" /\ Net' = 0 /\ row.status \in Actionable
    BY <1>2, <1>3, <1>9 DEF Cancel, SetStatus, Promised, Actionable
  <2>2. <<row.status, "cancel", row'.status>> \in Promise!Transitions
    BY <2>1 DEF Promise!Transitions, Actionable
  <2> QED  BY <1>6, <2>1, <2>2 DEF Promise!Worth
<1>10. CASE ApproveCompletion
  <2>1. row'.status = "complete" /\ Net' = Value /\ row.status = "review_pending"
    BY <1>1, <1>2, <1>4, <1>10 DEF ApproveCompletion, SetStatus, Promised
  <2>2. <<row.status, "approve", row'.status>> \in Promise!Transitions
    BY <2>1 DEF Promise!Transitions
  <2> QED  BY <1>6, <2>1, <2>2 DEF Promise!Worth
<1>11. CASE DenyCompletion
  <2>1. row.status = "review_pending" /\ Net' = 0
    BY <1>3, <1>11 DEF DenyCompletion, Promised
  <2>2. row'.status \in {"pending", "overdue"}
    BY <1>2, <1>11 DEF DenyCompletion, DenyCompletionPatch, Resumed, SetStatus
  <2>3. \/ <<row.status, "deny_before_due", row'.status>> \in Promise!Transitions
        \/ <<row.status, "deny_after_due", row'.status>> \in Promise!Transitions
    BY <2>1, <2>2 DEF Promise!Transitions
  <2> QED  BY <1>6, <2>1, <2>2, <2>3 DEF Promise!Worth
<1>12. CASE ApproveExcuse
  <2>1. PICK policy \in PayoutPolicy : AwardExcuse(policy)
    BY <1>12 DEF ApproveExcuse
  <2>2. /\ row.status = "excuse_pending" /\ row'.status = "excused"
        /\ Net' \in {0, Value \div 2, Value}
    BY <1>1, <1>2, <1>5, <1>12, <2>1 DEF ApproveExcuse, SetStatus, Promised
  <2>3. <<row.status, "approve", row'.status>> \in Promise!Transitions
    BY <2>2 DEF Promise!Transitions
  <2> QED  BY <1>6, <2>2, <2>3 DEF Promise!Worth
<1>13. CASE DenyExcuse
  <2>1. row.status = "excuse_pending" /\ Net' = 0
    BY <1>3, <1>13 DEF DenyExcuse, Promised
  <2>2. row'.status \in {"overdue", "missed"}
    <3>1. \A status : Resumed(row, status).status = status
      BY DEF Resumed, SetStatus
    <3>2. DenyExcusePatch(row, Due, now).status \in {"overdue", "missed"}
      BY <3>1 DEF DenyExcusePatch
    <3> QED  BY <1>2, <1>13, <3>2 DEF DenyExcuse
  <2>3. \/ <<row.status, "deny_grace_remaining", row'.status>> \in Promise!Transitions
        \/ <<row.status, "deny_grace_expired", row'.status>> \in Promise!Transitions
    BY <2>1, <2>2 DEF Promise!Transitions
  <2> QED  BY <1>6, <2>1, <2>2, <2>3 DEF Promise!Worth
<1>14. CASE ReverseCompletion
  <2>1. row.status = "complete" /\ Net' = 0
    <3>1. Net' = Net + (-Value)
      BY <1>1, <1>14, WriteAdds DEF ReverseCompletion, EntryType
    <3> QED  BY <1>1, <1>14, <3>1 DEF ReverseCompletion, Promised
  <2>2. row'.status \in {"overdue", "missed"}
    BY <1>2, <1>14 DEF ReverseCompletion, ReversePatch, SetStatus
  <2>3. \/ <<row.status, "parent_reverses_before_due", row'.status>> \in Promise!Transitions
        \/ <<row.status, "parent_reverses_after_due", row'.status>> \in Promise!Transitions
    BY <2>1, <2>2 DEF Promise!Transitions
  <2> QED  BY <1>6, <2>1, <2>2, <2>3 DEF Promise!Worth
<1>15. CASE NightlySweep
  <2> DEFINE status == Swept(row.status)
             final == IF status = "overdue" /\ RemainingOf(row, Due, now) <= 0
                      THEN "missed" ELSE status
  <2>1. final # row.status /\ row'.status = final /\ Net' = Net
    BY <1>2, <1>3, <1>15 DEF NightlySweep, SetStatus
  <2>2. \/ row.status = "pending" /\ row'.status \in {"overdue", "missed"}
        \/ row.status = "overdue" /\ row'.status = "missed"
    BY <2>1 DEF Swept
  <2>3. Net' = 0
    BY <2>1, <2>2 DEF Promised
  <2>4. CASE row.status = "pending" /\ row'.status = "missed"
    <3> DEFINE t1 == <<"pending", "due_passes", "overdue">>
               t2 == <<"overdue", "grace_expires", "missed">>
    <3>1. t1 \in Promise!Transitions /\ t2 \in Promise!Transitions
      BY DEF Promise!Transitions
    <3>2. Promise!MoveTwice
      BY <2>3, <2>4, <3>1 DEF Promise!MoveTwice, Promise!Worth
    <3> QED  BY <2>3, <2>4, <3>2 DEF Promised
  <2>5. CASE row.status = "pending" /\ row'.status = "overdue"
    <3>1. <<row.status, "due_passes", row'.status>> \in Promise!Transitions
      BY <2>5 DEF Promise!Transitions
    <3> QED  BY <1>6, <2>3, <2>5, <3>1 DEF Promise!Worth
  <2>6. CASE row.status = "overdue" /\ row'.status = "missed"
    <3>1. <<row.status, "grace_expires", row'.status>> \in Promise!Transitions
      BY <2>6 DEF Promise!Transitions
    <3> QED  BY <1>6, <2>3, <2>6, <3>1 DEF Promise!Worth
  <2> QED  BY <2>2, <2>4, <2>5, <2>6
<1>16. CASE ArchiveDefinition \/ Tick \/ UNCHANGED vars
  <2>1. UNCHANGED <<row, ledger>>
    BY <1>16 DEF ArchiveDefinition, Tick, vars
  <2> QED  BY <1>3, <2>1 DEF Promised
<1> QED
  BY <1>7, <1>8, <1>9, <1>10, <1>11, <1>12, <1>13, <1>14, <1>15, <1>16 DEF Next

(***************************************************************************)
(* For every value of a task, due time, grace period and length of time:   *)
(* each committed step follows the transition table, and the sum of the    *)
(* ledger's deltas is what the status it reaches is worth.                 *)
(***************************************************************************)
THEOREM PromiseRefinement == Spec => KeepsPromise
<1>1. Init => Promised /\ Promise!PromiseInit
  BY PromisedInit
<1>2. GraceInv /\ LedgerOK /\ Promised /\ [Next]_vars
         => Promised' /\ [Promise!Move \/ Promise!MoveTwice]_<<row.status, Net>>
  BY PromiseStep
<1> QED  BY <1>1, <1>2, GraceInvAlways, PTL DEF Spec, KeepsPromise, Promise!PromiseSpec

-----------------------------------------------------------------------------
(***************************************************************************)
(* Wallet.  Types, without the bound on the ledger; and how far a session  *)
(* has come: what it may be doing, on what, and the entries it has         *)
(* inserted by then (Inserted).                                            *)
(***************************************************************************)
WalletTypes ==
    /\ account \in Seq(Entry)
    /\ tasks \in [Tasks -> TaskStatus]
    /\ claims \in [Claims -> ClaimStatus]
    /\ window \in {"none", "active", "complete"}
    /\ series \in Series
    /\ pc \in [Sessions -> {"idle", "sum", "write", "evaluate", "commit"}]
    /\ op \in [Sessions -> Ops]
    /\ ref \in [Sessions -> Refs]
    /\ seen \in [Sessions -> TaskStatus \cup ClaimStatus]
    /\ payout \in [Sessions -> Int]
    /\ base \in [Sessions -> Int]
    /\ since \in [Sessions -> Nat]
    /\ own \in [Sessions -> Seq(Entry)]

Inserted(s) ==
    CASE op[s] \notin DOMAIN TypeWritten -> 0
      [] op[s] = "bonus" -> IF pc[s] \in {"sum", "write"} THEN 1 ELSE 2
      [] OTHER -> IF pc[s] \in {"sum", "write"} THEN 0 ELSE 1

Placed(s) ==
    /\ pc[s] = "idle" <=> op[s] = "none"
    /\ pc[s] \in {"sum", "write"} => op[s] \in DOMAIN TypeWritten
    /\ pc[s] = "evaluate" => op[s] = "complete"
    /\ op[s] \in DOMAIN Outcome => ref[s] \in Tasks
    /\ op[s] \in {"fulfil", "decline"} => ref[s] \in Claims
    /\ Len(own[s]) = Inserted(s)
    /\ Len(own[s]) > 0 =>
          /\ own[s][1].type = IF op[s] = "bonus" THEN "task_completed"
                                                 ELSE TypeWritten[op[s]]
          /\ own[s][1].ref = ref[s]
    /\ Len(own[s]) > 1 => own[s][2].type = "series_bonus" /\ own[s][2].ref = Window

PlacedInv == WalletTypes /\ \A s \in Sessions : Placed(s)

(***************************************************************************)
(* The tables of entry types and outcomes, spelled out for the provers.    *)
(***************************************************************************)
LEMMA TypesWritten ==
    /\ DOMAIN TypeWritten = {"complete", "approve", "excuse_full", "excuse_half", "bonus",
                             "fulfil", "adjust"}
    /\ \A what \in {"complete", "approve", "excuse_full"} :
          TypeWritten[what] = "task_completed"
    /\ TypeWritten["excuse_half"] = "excused_partial"
    /\ TypeWritten["bonus"] = "series_bonus"
    /\ TypeWritten["fulfil"] = "claim_fulfilled"
    /\ TypeWritten["adjust"] = "manual_adjustment"
    /\ Range(TypeWritten) = {"task_completed", "excused_partial", "series_bonus",
                             "claim_fulfilled", "manual_adjustment"}
    /\ DOMAIN Outcome = {"complete", "bonus", "approve", "excuse_full", "excuse_half",
                         "excuse", "submit", "explain", "deny", "void"}
<1>1. DOMAIN TypeWritten = {"complete", "approve", "excuse_full", "excuse_half", "bonus",
                            "fulfil", "adjust"}
  BY DEF TypeWritten
<1>2. /\ TypeWritten["complete"] = "task_completed"
      /\ TypeWritten["approve"] = "task_completed"
      /\ TypeWritten["excuse_full"] = "task_completed"
      /\ TypeWritten["excuse_half"] = "excused_partial"
      /\ TypeWritten["bonus"] = "series_bonus"
      /\ TypeWritten["fulfil"] = "claim_fulfilled"
      /\ TypeWritten["adjust"] = "manual_adjustment"
  BY DEF TypeWritten
<1>3. DOMAIN Outcome = {"complete", "bonus", "approve", "excuse_full", "excuse_half",
                        "excuse", "submit", "explain", "deny", "void"}
  BY DEF Outcome
<1> QED  BY <1>1, <1>2, <1>3 DEF Range

(***************************************************************************)
(* The points of a finite set of tasks are a number.                       *)
(***************************************************************************)
LEMMA PointsAreInt ==
    ASSUME NEW S \in SUBSET Tasks
    PROVE  Points(S) \in Int
<1> DEFINE pick == [u \in SUBSET S |-> CHOOSE x \in u : TRUE]
           Folds(it) == it = [u \in SUBSET S |->
                                 IF u = {} THEN 0
                                 ELSE it[u \ {CHOOSE x \in u : TRUE}]
                                         + PointValue[CHOOSE x \in u : TRUE]]
<1>1. IsFiniteSet(S) /\ \A t \in S : PointValue[t] \in Int
  <2>1. IsFiniteSet(Tasks)
    BY WalletAssumption
  <2> QED  BY <2>1, WalletAssumption, FS_Subset
<1>2. \A u \in SUBSET S : u # {} => pick[u] \in u /\ pick[u] = CHOOSE x \in u : TRUE
  OBVIOUS
<1>3. \A it : IsFold(it, S, pick, PointValue) <=> Folds(it)
  <2> HIDE DEF pick
  <2> QED  BY <1>2 DEF IsFold
<1>4. \E it : Folds(it)
  <2>1. \A u \in SUBSET S : u # {} => pick[u] \in u
    BY <1>2
  <2>2. \E it : IsFold(it, S, pick, PointValue)
    <3> HIDE DEF pick
    <3> QED  BY <1>1, <2>1, FoldExists
  <2> HIDE DEF Folds, pick
  <2> QED  BY <1>3, <2>2
<1> DEFINE sum == CHOOSE it : Folds(it)
<1>5. Folds(sum)
  BY <1>4
<1>6. Points(S) = sum[S]
  BY Zenon DEF Points, FoldSet, MapThenFoldSet
<1>7. IsFold(sum, S, pick, PointValue)
  <2> HIDE DEF Folds, sum
  <2> QED  BY <1>3, <1>5
<1>8. sum[S] \in Int
  <2>1. \A u \in SUBSET S : u # {} => pick[u] \in u
    BY <1>2
  <2> HIDE DEF Folds, sum, pick
  <2> QED  BY <1>1, <1>7, <2>1, FoldIsInt
<1> QED  BY <1>6, <1>8

(***************************************************************************)
(* The kinds of a step: one of the calls that are a single statement, or a *)
(* session that begins, moves on, commits or is rolled back.               *)
(***************************************************************************)
Quiet ==
    \/ \E c \in Claims : SubmitClaim(c)
    \/ CreateSeries \/ UpdateSeries \/ ArchiveSeries
    \/ UNCHANGED walletVars

Asked(what, r, status, points) ==
    /\ points \in Int
    /\ \/ what \in DOMAIN Outcome \ {"bonus"} /\ r \in Tasks /\ status = tasks[r]
       \/ what \in {"fulfil", "decline"} /\ r \in Claims /\ status = claims[r]
       \/ what = "adjust" /\ r = NoRef /\ status = "none"

Begun(s) == \E what, r, status, points :
                Begin(s, what, r, status, points) /\ Asked(what, r, status, points)

Rollback(s) == /\ pc[s] # "idle" /\ Close(s)
               /\ UNCHANGED <<account, tasks, claims, window, series>>

(***************************************************************************)
(* Every step is of one of these kinds.                                    *)
(***************************************************************************)
LEMMA WalletSteps ==
    ASSUME WalletTypes, [WalletNext]_walletVars
    PROVE  \/ Quiet
           \/ \E s \in Sessions : \/ Begun(s) \/ CurrentBalance(s) \/ InsertEntry(s)
                                  \/ Evaluate(s) \/ Commit(s) \/ Rollback(s)
<1>1. ASSUME NEW s \in Sessions, NEW t \in Tasks,
             \/ CompleteTask(s, t) \/ AskVerdict(s, t) \/ Review(s, t) \/ Void(s, t)
      PROVE  Begun(s)
  <2>1. PointValue[t] \in Int /\ PointValue[t] \div 2 \in Int /\ 0 \in Int
    BY WalletAssumption
  <2>2. PICK what \in DOMAIN Outcome \ {"bonus"},
             points \in {0, PointValue[t], PointValue[t] \div 2} :
                Begin(s, what, t, tasks[t], points)
    <3>1. \/ \E what \in {"complete", "approve", "excuse_full"} :
                 Begin(s, what, t, tasks[t], PointValue[t])
          \/ Begin(s, "excuse_half", t, tasks[t], PointValue[t] \div 2)
          \/ \E what \in {"submit", "explain", "excuse", "deny", "void"} :
                 Begin(s, what, t, tasks[t], 0)
      BY <1>1, Zenon DEF CompleteTask, AskVerdict, Review, Void
    <3>2. {"complete", "approve", "excuse_full", "excuse_half", "submit", "explain",
           "excuse", "deny", "void"} \subseteq DOMAIN Outcome \ {"bonus"}
      BY TypesWritten
    <3> QED  BY <3>1, <3>2, Zenon
  <2> QED  BY <2>1, <2>2, Zenon DEF Begun, Asked
<1>2. ASSUME NEW s \in Sessions, NEW c \in Claims, ResolveClaim(s, c)
      PROVE  Begun(s)
  <2>1. - Price[c] \in Int /\ 0 \in Int
    BY WalletAssumption
  <2>2. \/ Begin(s, "fulfil", c, claims[c], - Price[c])
        \/ Begin(s, "decline", c, claims[c], 0)
    BY <1>2 DEF ResolveClaim
  <2> QED  BY <2>1, <2>2, Zenon DEF Begun, Asked
<1>3. ASSUME NEW s \in Sessions, ManualAdjust(s)
      PROVE  Begun(s)
  <2>1. PICK d \in Deltas : Begin(s, "adjust", NoRef, "none", d)
    BY <1>3 DEF ManualAdjust
  <2>2. d \in Int
    BY WalletAssumption
  <2> QED  BY <2>1, <2>2, Zenon DEF Begun, Asked
<1>4. ASSUME NEW s \in Sessions, DuplicateEntry(s) \/ Crash(s)
      PROVE  Rollback(s)
  BY <1>4 DEF DuplicateEntry, Crash, Rollback
<1> QED
  BY <1>1, <1>2, <1>3, <1>4, Zenon DEF WalletNext, Quiet

(***************************************************************************)
(* A session that a step leaves alone stays where it is; one that is       *)
(* closed is nowhere.                                                      *)
(***************************************************************************)
Untouched(u) ==
    /\ pc'[u] = pc[u] /\ op'[u] = op[u] /\ ref'[u] = ref[u] /\ seen'[u] = seen[u]
    /\ payout'[u] = payout[u] /\ base'[u] = base[u] /\ since'[u] = since[u]
    /\ own'[u] = own[u]

(***************************************************************************)
(* A session moves alone: the step of one leaves every other where it is.  *)
(***************************************************************************)
LEMMA OthersUntouched ==
    ASSUME WalletTypes, NEW s \in Sessions,
           \/ Begun(s) \/ CurrentBalance(s) \/ InsertEntry(s)
           \/ Evaluate(s) \/ Commit(s) \/ Rollback(s),
           NEW u \in Sessions, u # s
    PROVE  Untouched(u)
<1>1. CASE Begun(s)
  BY <1>1 DEF Begun, Begin, Untouched, WalletTypes
<1>2. CASE CurrentBalance(s)
  BY <1>2 DEF CurrentBalance, Untouched, WalletTypes
<1>3. CASE InsertEntry(s)
  BY <1>3 DEF InsertEntry, Untouched, WalletTypes
<1>4. CASE Evaluate(s)
  BY <1>4 DEF Evaluate, Untouched, WalletTypes
<1>5. CASE Commit(s)
  BY <1>5 DEF Commit, Close, Untouched, WalletTypes
<1>6. CASE Rollback(s)
  BY <1>6 DEF Rollback, Close, Untouched, WalletTypes
<1> QED  BY <1>1, <1>2, <1>3, <1>4, <1>5, <1>6

(***************************************************************************)
(* A call that is a single statement touches neither the account nor a     *)
(* session.                                                                *)
(***************************************************************************)
LEMMA QuietUntouched ==
    ASSUME Quiet
    PROVE  account' = account /\ \A u \in Sessions : Untouched(u)
BY DEF Quiet, SubmitClaim, CreateSeries, UpdateSeries, ArchiveSeries,
       walletVars, sessionVars, Untouched

(***************************************************************************)
(* What Close leaves.                                                      *)
(***************************************************************************)
Closed(s) == /\ pc'[s] = "idle" /\ op'[s] = "none" /\ ref'[s] = NoRef
             /\ seen'[s] = "none" /\ payout'[s] = 0 /\ base'[s] = 0
             /\ since'[s] = 0 /\ own'[s] = << >>

(***************************************************************************)
(* Close leaves the session nowhere.                                       *)
(***************************************************************************)
LEMMA CloseCloses ==
    ASSUME WalletTypes, NEW s \in Sessions, Close(s)
    PROVE  Closed(s)
BY DEF Close, Closed, WalletTypes

(***************************************************************************)
(* A session that is left alone stays placed.                              *)
(***************************************************************************)
LEMMA PlacedKept ==
    ASSUME NEW u \in Sessions, Placed(u), Untouched(u)
    PROVE  Placed(u)'
BY DEF Placed, Inserted, Untouched

(***************************************************************************)
(* A session that is closed is placed.                                     *)
(***************************************************************************)
LEMMA PlacedClosed ==
    ASSUME NEW s \in Sessions, Closed(s)
    PROVE  Placed(s)'
BY TypesWritten DEF Placed, Inserted, Closed

(***************************************************************************)
(* Close keeps the types of what it resets.                                *)
(***************************************************************************)
LEMMA CloseTypes ==
    ASSUME WalletTypes, NEW s \in Sessions, Close(s)
    PROVE  /\ pc' \in [Sessions -> {"idle", "sum", "write", "evaluate", "commit"}]
           /\ op' \in [Sessions -> Ops]
           /\ ref' \in [Sessions -> Refs]
           /\ seen' \in [Sessions -> TaskStatus \cup ClaimStatus]
           /\ payout' \in [Sessions -> Int] /\ base' \in [Sessions -> Int]
           /\ since' \in [Sessions -> Nat] /\ own' \in [Sessions -> Seq(Entry)]
<1>1. NoRef \in Refs /\ "none" \in ClaimStatus /\ << >> \in Seq(Entry) /\ "none" \in Ops
  BY DEF Refs, ClaimStatus, Ops
<1> QED  BY <1>1 DEF Close, WalletTypes

(***************************************************************************)
(* What a commit adds to the account: the session's entries, after those   *)
(* that are there, each with whether it was alone.                         *)
(***************************************************************************)
LEMMA CommitAccount ==
    ASSUME WalletTypes, NEW s \in Sessions, Commit(s)
    PROVE  /\ account' \in Seq(Entry)
           /\ Len(account') = Len(account) + Len(own[s])
           /\ \A k \in 1 .. Len(account) : account'[k] = account[k]
           /\ \A j \in 1 .. Len(own[s]) :
                 /\ account'[Len(account) + j].type = own[s][j].type
                 /\ account'[Len(account) + j].ref = own[s][j].ref
                 /\ account'[Len(account) + j].delta = own[s][j].delta
                 /\ account'[Len(account) + j].after = own[s][j].after
                 /\ account'[Len(account) + j].alone = (since[s] = Len(account))
<1> DEFINE alone == since[s] = Len(account)
           added == [k \in DOMAIN own[s] |-> [own[s][k] EXCEPT !.alone = alone]]
<1>1. account \in Seq(Entry) /\ own[s] \in Seq(Entry) /\ alone \in BOOLEAN
  BY DEF WalletTypes
<1>2. \A e \in Entry : LET m == [e EXCEPT !.alone = alone] IN
          m \in Entry /\ m.type = e.type /\ m.ref = e.ref /\ m.delta = e.delta
            /\ m.after = e.after /\ m.alone = alone
  <2> HIDE DEF alone
  <2> QED  BY <1>1 DEF Entry
<1>3. added \in Seq(Entry) /\ Len(added) = Len(own[s])
      /\ \A j \in 1 .. Len(own[s]) : added[j] = [own[s][j] EXCEPT !.alone = alone]
  <2>1. DOMAIN own[s] = 1 .. Len(own[s]) /\ Len(own[s]) \in Nat
        /\ \A j \in 1 .. Len(own[s]) : own[s][j] \in Entry
    BY <1>1
  <2> HIDE DEF alone
  <2>2. added \in [1 .. Len(own[s]) -> Entry]
    BY <1>2, <2>1
  <2> QED  BY <2>1, <2>2
<1>4. account' = account \o added
  BY DEF Commit
<1> HIDE DEF added
<1>5. account' \in Seq(Entry) /\ Len(account') = Len(account) + Len(own[s])
      /\ (\A k \in 1 .. Len(account) : account'[k] = account[k])
      /\ \A j \in 1 .. Len(own[s]) : account'[Len(account) + j] = added[j]
  <2>1. \A k \in 1 .. Len(account) + Len(added) :
           account'[k] = IF k <= Len(account) THEN account[k]
                                              ELSE added[k - Len(account)]
    BY <1>1, <1>3, <1>4, ConcatProperties
  <2>2. Len(account) \in Nat /\ Len(added) \in Nat
    BY <1>1, <1>3
  <2>3. account' \in Seq(Entry) /\ Len(account') = Len(account) + Len(added)
    BY <1>1, <1>3, <1>4, ConcatProperties
  <2>4. ASSUME NEW j \in 1 .. Len(added)  PROVE account'[Len(account) + j] = added[j]
    <3>1. Len(account) + j \in 1 .. Len(account) + Len(added)
          /\ ~ (Len(account) + j <= Len(account)) /\ (Len(account) + j) - Len(account) = j
      BY <2>2
    <3> QED  BY <2>1, <3>1
  <2> QED  BY <1>3, <2>1, <2>2, <2>3, <2>4
<1>6. \A j \in 1 .. Len(own[s]) : own[s][j] \in Entry
  BY <1>1
<1> HIDE DEF alone
<1>7. alone = (since[s] = Len(account))
  BY DEF alone
<1>8. ASSUME NEW j \in 1 .. Len(own[s])
      PROVE  /\ account'[Len(account) + j].type = own[s][j].type
             /\ account'[Len(account) + j].ref = own[s][j].ref
             /\ account'[Len(account) + j].delta = own[s][j].delta
             /\ account'[Len(account) + j].after = own[s][j].after
             /\ account'[Len(account) + j].alone = alone
  <2> DEFINE m == [own[s][j] EXCEPT !.alone = alone]
  <2>1. account'[Len(account) + j] = m
    BY <1>3, <1>5
  <2>2. m.type = own[s][j].type /\ m.ref = own[s][j].ref /\ m.delta = own[s][j].delta
        /\ m.after = own[s][j].after /\ m.alone = alone
    BY <1>2, <1>6, Zenon
  <2> HIDE DEF m
  <2> QED  BY <2>1, <2>2, Zenon
<1> QED  BY <1>5, <1>7, <1>8, Zenon

(***************************************************************************)
(* The types and the places are inductive.                                 *)
(***************************************************************************)
LEMMA PlacedInit == WalletInit => PlacedInv
<1> SUFFICES ASSUME WalletInit PROVE PlacedInv
  OBVIOUS
<1>1. WalletTypes
  BY WalletAssumption, TypesWritten
     DEF WalletInit, WalletTypes, TaskStatus, ClaimStatus, Refs, Ops
<1>2. \A s \in Sessions : Placed(s)
  BY TypesWritten DEF WalletInit, Placed, Inserted
<1> QED  BY <1>1, <1>2 DEF PlacedInv

(***************************************************************************)
(* The calls that are a single statement keep the types.                   *)
(***************************************************************************)
LEMMA TypesQuiet ==
    ASSUME WalletTypes, Quiet
    PROVE  WalletTypes'
<1>1. CASE \E c \in Claims : SubmitClaim(c)
  BY <1>1 DEF SubmitClaim, WalletTypes, ClaimStatus, sessionVars
<1>3. CASE CreateSeries
  BY <1>3 DEF CreateSeries, WalletTypes, sessionVars
<1>4. CASE UpdateSeries
  BY <1>4 DEF UpdateSeries, WalletTypes, Series, sessionVars
<1>5. CASE ArchiveSeries
  BY <1>5 DEF ArchiveSeries, WalletTypes, Series, sessionVars
<1>6. CASE UNCHANGED walletVars
  BY <1>6 DEF WalletTypes, walletVars, sessionVars
<1> QED  BY <1>1, <1>3, <1>4, <1>5, <1>6 DEF Quiet

(***************************************************************************)
(* A request that begins has written nothing.                              *)
(***************************************************************************)
LEMMA BegunPlaced ==
    ASSUME PlacedInv, NEW s \in Sessions, Begun(s)
    PROVE  WalletTypes' /\ Placed(s)'
<1>1. PICK what, r, status, points :
          Begin(s, what, r, status, points) /\ Asked(what, r, status, points)
  BY DEF Begun
<1>2. WalletTypes /\ Placed(s)
  BY DEF PlacedInv
<1>3. /\ what \in Ops /\ r \in Refs
      /\ status \in TaskStatus \cup ClaimStatus /\ points \in Int
      /\ what # "none" /\ what # "bonus"
  BY <1>1, <1>2, TypesWritten DEF Asked, WalletTypes, Refs, ClaimStatus, Ops
<1>4. Len(account) \in Nat
  BY <1>2 DEF WalletTypes
<1>5. WalletTypes'
  BY <1>1, <1>2, <1>3, <1>4 DEF Begin, WalletTypes
<1>6. /\ pc'[s] = (IF what \in DOMAIN TypeWritten THEN "sum" ELSE "commit")
      /\ op'[s] = what /\ ref'[s] = r /\ own'[s] = own[s]
  BY <1>1, <1>2 DEF Begin, WalletTypes
<1>7. Len(own[s]) = 0
  BY <1>1, <1>2, TypesWritten DEF Begin, Placed, Inserted
<1>8. Placed(s)'
  BY <1>1, <1>3, <1>6, <1>7, TypesWritten DEF Asked, Placed, Inserted
<1> QED  BY <1>5, <1>8

(***************************************************************************)
(* Reading the sum writes nothing.                                         *)
(***************************************************************************)
LEMMA SumPlaced ==
    ASSUME PlacedInv, NEW s \in Sessions, CurrentBalance(s)
    PROVE  WalletTypes' /\ Placed(s)'
<1>1. WalletTypes /\ Placed(s)
  BY DEF PlacedInv
<1>2. Balance(account) + Balance(own[s]) \in Int
  <2>1. account \in Seq(Entry) /\ own[s] \in Seq(Entry) /\ \A e \in Entry : e.delta \in Int
    BY <1>1 DEF WalletTypes, Entry
  <2>2. Balance(account) \in Int /\ Balance(own[s]) \in Int
    BY <2>1, BalanceIsInt
  <2> QED  BY <2>2
<1>3. WalletTypes'
  BY <1>1, <1>2 DEF CurrentBalance, WalletTypes
<1>4. Placed(s)'
  BY <1>1 DEF CurrentBalance, Placed, Inserted, WalletTypes
<1> QED  BY <1>3, <1>4

(***************************************************************************)
(* An insert adds the entry its operation calls for: the payment, the      *)
(* debit, the adjustment, or the bonus after the payment.                  *)
(***************************************************************************)
LEMMA InsertPlaced ==
    ASSUME PlacedInv, NEW s \in Sessions, InsertEntry(s)
    PROVE  WalletTypes' /\ Placed(s)'
<1>1. WalletTypes /\ Placed(s)
  BY DEF PlacedInv
<1>2. NewEntry(s) \in Entry
      /\ NewEntry(s).type = TypeWritten[op[s]]
      /\ NewEntry(s).ref = IF op[s] = "bonus" THEN Window ELSE ref[s]
  BY <1>1, TypesWritten DEF InsertEntry, NewEntry, WalletTypes, Placed, Entry, Refs
<1> DEFINE e == NewEntry(s)
<1> HIDE DEF e
<1>3. own' = [own EXCEPT ![s] = Append(@, e)]
  BY DEF InsertEntry, e
<1>4. WalletTypes'
  BY <1>1, <1>2, <1>3 DEF InsertEntry, WalletTypes, e
<1>5. own'[s] = Append(own[s], e) /\ own[s] \in Seq(Entry) /\ op' = op /\ ref' = ref
      /\ pc'[s] = IF op[s] = "complete" THEN "evaluate" ELSE "commit"
  BY <1>1, <1>3 DEF WalletTypes, InsertEntry
<1>6. /\ op[s] = "bonus" => Len(own[s]) = 1
      /\ op[s] # "bonus" => Len(own[s]) = 0 /\ op[s] \in DOMAIN TypeWritten
  BY <1>1, TypesWritten DEF InsertEntry, Placed, Inserted
<1>7. /\ Len(own'[s]) = Len(own[s]) + 1 /\ own'[s][Len(own[s]) + 1] = e
      /\ \A k \in 1 .. Len(own[s]) : own'[s][k] = own[s][k]
  BY <1>2, <1>5 DEF e
<1>8. /\ e.type = TypeWritten[op[s]]
      /\ e.ref = IF op[s] = "bonus" THEN Window ELSE ref[s]
  BY <1>2 DEF e
<1>9. /\ op'[s] = op[s] /\ ref'[s] = ref[s] /\ op[s] \in DOMAIN TypeWritten
      /\ op[s] \in DOMAIN Outcome => ref[s] \in Tasks
      /\ op[s] = "fulfil" => ref[s] \in Claims
  BY <1>1, <1>5 DEF InsertEntry, Placed
<1>10. CASE op[s] = "bonus"
  <2>1. Len(own[s]) = 1 /\ 1 \in 1 .. Len(own[s])
    BY <1>6, <1>10
  <2>2. Len(own'[s]) = 2 /\ own'[s][1] = own[s][1] /\ own'[s][2] = e
    <3>1. Len(own[s]) + 1 = 2
      BY <2>1
    <3> QED  BY <1>7, <2>1, <3>1, Zenon
  <2>3. own[s][1].type = "task_completed" /\ own[s][1].ref = ref[s]
    BY <1>1, <1>10, <2>1 DEF Placed
  <2>4. e.type = "series_bonus" /\ e.ref = Window
    BY <1>8, <1>10, TypesWritten
  <2>5. pc'[s] = "commit" /\ op'[s] = "bonus" /\ ref'[s] \in Tasks
    BY <1>5, <1>9, <1>10, TypesWritten
  <2>6. /\ own'[s][1].type = "task_completed" /\ own'[s][1].ref = ref'[s]
        /\ own'[s][2].type = "series_bonus" /\ own'[s][2].ref = Window
    BY <1>9, <2>2, <2>3, <2>4, Zenon
  <2> QED  BY <1>4, <2>2, <2>5, <2>6 DEF Placed, Inserted
<1>11. CASE op[s] # "bonus"
  <2>1. Len(own'[s]) = 1 /\ own'[s][1] = e
    <3>1. Len(own[s]) = 0 /\ Len(own[s]) + 1 = 1
      BY <1>6, <1>11
    <3> QED  BY <1>7, <3>1
  <2>2. /\ own'[s][1].type = TypeWritten[op'[s]]
        /\ own'[s][1].ref = ref'[s]
    BY <1>8, <1>9, <1>11, <2>1
  <2>3. op'[s] \in DOMAIN TypeWritten \ {"bonus"}
    BY <1>9, <1>11
  <2>4. pc'[s] = IF op'[s] = "complete" THEN "evaluate" ELSE "commit"
    BY <1>5, <1>9
  <2> HIDE DEF e
  <2> QED  BY <1>4, <1>9, <2>1, <2>2, <2>3, <2>4, TypesWritten DEF Placed, Inserted
<1> QED  BY <1>4, <1>10, <1>11

(***************************************************************************)
(* The evaluation goes on to the bonus, or to the commit.                  *)
(***************************************************************************)
LEMMA EvaluatePlaced ==
    ASSUME PlacedInv, NEW s \in Sessions, Evaluate(s)
    PROVE  WalletTypes' /\ Placed(s)'
<1>1. WalletTypes /\ Placed(s)
  BY DEF PlacedInv
<1>2. SeriesPayout(s) \in Int
  <2>1. Points(Completed(s)) \in Int
    BY PointsAreInt DEF Completed
  <2>2. series.bonus \in Int
    <3>1. series.bonus \in Bonuses
      BY <1>1 DEF WalletTypes, Series
    <3>2. \A b \in Bonuses : b \in Int
      BY WalletAssumption
    <3> QED  BY <3>1, <3>2, Zenon
  <2> QED  BY <2>1, <2>2 DEF SeriesPayout
<1>3. WalletTypes'
  <2>1. "bonus" \in Ops
    BY TypesWritten DEF Ops
  <2> HIDE DEF Evaluate
  <2>2. /\ op' \in [Sessions -> Ops]
        /\ payout' \in [Sessions -> Int]
        /\ pc' \in [Sessions -> {"idle", "sum", "write", "evaluate", "commit"}]
    <3> HIDE DEF SeriesPayout, MayPayOut
    <3>1. /\ pc \in [Sessions -> {"idle", "sum", "write", "evaluate", "commit"}]
          /\ op \in [Sessions -> Ops]
          /\ payout \in [Sessions -> Int]
      BY <1>1 DEF WalletTypes
    <3>2. CASE MayPayOut(s)
      BY <1>2, <2>1, <3>1, <3>2 DEF Evaluate
    <3>3. CASE ~ MayPayOut(s)
      BY <3>1, <3>3 DEF Evaluate
    <3> QED  BY <3>2, <3>3
  <2> QED  BY <1>1, <2>2 DEF Evaluate, WalletTypes
<1>4. Placed(s)'
  BY <1>1, TypesWritten DEF Evaluate, Placed, Inserted, WalletTypes
<1> QED  BY <1>3, <1>4

(***************************************************************************)
(* A commit keeps the types.                                               *)
(***************************************************************************)
LEMMA CommitTypes ==
    ASSUME PlacedInv, NEW s \in Sessions, Commit(s)
    PROVE  WalletTypes'
<1>1. WalletTypes /\ Placed(s)
  BY DEF PlacedInv
<1>2. account' \in Seq(Entry)
  BY <1>1, CommitAccount
<1>3. tasks' \in [Tasks -> TaskStatus]
  <2>1. \A what \in DOMAIN Outcome : Outcome[what] \in TaskStatus
    BY DEF Outcome, TaskStatus
  <2> QED  BY <1>1, <2>1 DEF Commit, WalletTypes
<1>4. claims' \in [Claims -> ClaimStatus]
  <2>1. \A what \in DOMAIN Verdict : Verdict[what] \in ClaimStatus
    BY DEF Verdict, ClaimStatus
  <2> QED  BY <1>1, <2>1 DEF Commit, WalletTypes
<1>5. window' \in {"none", "active", "complete"} /\ series' \in Series
  BY <1>1 DEF Commit, WalletTypes, WindowAfter
<1>6. /\ pc' \in [Sessions -> {"idle", "sum", "write", "evaluate", "commit"}]
      /\ op' \in [Sessions -> Ops]
      /\ ref' \in [Sessions -> Refs]
      /\ seen' \in [Sessions -> TaskStatus \cup ClaimStatus]
      /\ payout' \in [Sessions -> Int] /\ base' \in [Sessions -> Int]
      /\ since' \in [Sessions -> Nat] /\ own' \in [Sessions -> Seq(Entry)]
  BY <1>1, CloseTypes DEF Commit
<1> QED  BY <1>2, <1>3, <1>4, <1>5, <1>6 DEF WalletTypes

(***************************************************************************)
(* Every step keeps the types and the places.                              *)
(***************************************************************************)
LEMMA PlacedStep ==
    ASSUME PlacedInv, [WalletNext]_walletVars
    PROVE  PlacedInv'
<1>1. WalletTypes /\ \A s \in Sessions : Placed(s)
  BY DEF PlacedInv
<1>2. CASE Quiet
  BY <1>1, <1>2, TypesQuiet, QuietUntouched, PlacedKept DEF PlacedInv
<1>3. ASSUME NEW s \in Sessions, WalletTypes' /\ Placed(s)',
             \/ Begun(s) \/ CurrentBalance(s) \/ InsertEntry(s)
             \/ Evaluate(s) \/ Commit(s) \/ Rollback(s)
      PROVE  PlacedInv'
  <2>1. \A u \in Sessions : u # s => Placed(u)'
    BY <1>1, <1>3, OthersUntouched, PlacedKept
  <2> QED  BY <1>3, <2>1 DEF PlacedInv
<1>4. ASSUME NEW s \in Sessions, Begun(s)  PROVE PlacedInv'
  BY <1>3, <1>4, BegunPlaced
<1>5. ASSUME NEW s \in Sessions, CurrentBalance(s)  PROVE PlacedInv'
  BY <1>3, <1>5, SumPlaced
<1>6. ASSUME NEW s \in Sessions, InsertEntry(s)  PROVE PlacedInv'
  BY <1>3, <1>6, InsertPlaced
<1>7. ASSUME NEW s \in Sessions, Evaluate(s)  PROVE PlacedInv'
  BY <1>3, <1>7, EvaluatePlaced
<1>8. ASSUME NEW s \in Sessions, Commit(s)  PROVE PlacedInv'
  <2>1. WalletTypes'
    BY <1>8, CommitTypes
  <2>2. Placed(s)'
    BY <1>1, <1>8, CloseCloses, PlacedClosed DEF Commit
  <2> QED  BY <1>3, <1>8, <2>1, <2>2
<1>9. ASSUME NEW s \in Sessions, Rollback(s)  PROVE PlacedInv'
  <2>1. WalletTypes'
    BY <1>1, <1>9, CloseTypes DEF Rollback, WalletTypes
  <2>2. Placed(s)'
    BY <1>1, <1>9, CloseCloses, PlacedClosed DEF Rollback
  <2> QED  BY <1>3, <1>9, <2>1, <2>2
<1> QED  BY <1>1, <1>2, <1>4, <1>5, <1>6, <1>7, <1>8, <1>9, WalletSteps, Zenon

(***************************************************************************)
(* Room for the entries of every request in progress, and no session read  *)
(* its sum in the future.                                                  *)
(***************************************************************************)
Busy == {s \in Sessions : pc[s] # "idle"}

RoomLeft == /\ IsFiniteSet(Busy) /\ Len(account) + 2 * Cardinality(Busy) <= MaxEntries
            /\ \A s \in Sessions : since[s] <= Len(account)

(***************************************************************************)
(* Nobody is busy at the start.                                            *)
(***************************************************************************)
LEMMA RoomInit == WalletInit => RoomLeft
<1> SUFFICES ASSUME WalletInit PROVE RoomLeft
  OBVIOUS
<1>1. Busy = {} /\ Len(account) = 0 /\ \A s \in Sessions : since[s] = 0
  BY DEF WalletInit, Busy
<1>2. IsFiniteSet(Busy) /\ Cardinality(Busy) = 0
  BY <1>1, FS_EmptySet
<1>3. MaxEntries \in Nat
  BY WalletAssumption
<1> QED  BY <1>1, <1>2, <1>3 DEF RoomLeft

(***************************************************************************)
(* A request reserves the room of two entries when it begins, and its      *)
(* commit uses two at most.                                                *)
(***************************************************************************)
LEMMA RoomStep ==
    ASSUME PlacedInv, RoomLeft, [WalletNext]_walletVars
    PROVE  RoomLeft'
<1>1. WalletTypes /\ \A s \in Sessions : Placed(s)
  BY DEF PlacedInv
<1>2. /\ IsFiniteSet(Busy) /\ Cardinality(Busy) \in Nat /\ Len(account) \in Nat
      /\ Len(account) + 2 * Cardinality(Busy) <= MaxEntries /\ MaxEntries \in Nat
      /\ \A s \in Sessions : since[s] <= Len(account) /\ since[s] \in Nat
  BY <1>1, WalletAssumption, FS_CardinalityType DEF RoomLeft, WalletTypes
<1>3. CASE Quiet
  <2>1. account' = account /\ \A s \in Sessions : Untouched(s)
    BY <1>3, QuietUntouched
  <2>2. Busy' = Busy
    BY <2>1 DEF Busy, Untouched
  <2> QED  BY <1>2, <2>1, <2>2 DEF RoomLeft, Untouched
<1>4. ASSUME NEW s \in Sessions, Begun(s)  PROVE RoomLeft'
  <2>1. PICK what, r, status, points : Begin(s, what, r, status, points)
    BY <1>4 DEF Begun
  <2>2. pc[s] = "idle" /\ account' = account /\ since'[s] = Len(account)
        /\ pc'[s] # "idle"
        /\ Len(account) + 2 * Cardinality(Busy) + 2 <= MaxEntries
    BY <1>1, <2>1 DEF Begin, InProgress, Busy, WalletTypes
  <2>3. \A u \in Sessions \ {s} : pc'[u] = pc[u] /\ since'[u] = since[u]
    BY <1>1, <1>4, OthersUntouched DEF Untouched
  <2>4. Busy' = Busy \cup {s} /\ s \notin Busy
    BY <2>2, <2>3 DEF Busy
  <2>5. IsFiniteSet(Busy') /\ Cardinality(Busy') = Cardinality(Busy) + 1
    BY <1>2, <2>4, FS_AddElement
  <2> QED  BY <1>2, <2>2, <2>3, <2>5 DEF RoomLeft
<1>5. ASSUME NEW s \in Sessions, CurrentBalance(s) \/ InsertEntry(s) \/ Evaluate(s)
      PROVE  RoomLeft'
  <2>1. pc[s] # "idle" /\ pc'[s] # "idle" /\ account' = account /\ since' = since
    BY <1>1, <1>5 DEF CurrentBalance, InsertEntry, Evaluate, WalletTypes
  <2>2. \A u \in Sessions \ {s} : pc'[u] = pc[u]
    BY <1>1, <1>5, OthersUntouched DEF Untouched
  <2>3. Busy' = Busy
    BY <2>1, <2>2 DEF Busy
  <2> QED  BY <1>2, <2>1, <2>3 DEF RoomLeft
<1>6. ASSUME NEW s \in Sessions, Commit(s) \/ Rollback(s)  PROVE RoomLeft'
  <2>1. pc[s] # "idle" /\ Closed(s)
    BY <1>1, <1>6, CloseCloses DEF Commit, Rollback
  <2>2. \A u \in Sessions \ {s} : pc'[u] = pc[u] /\ since'[u] = since[u]
    BY <1>1, <1>6, OthersUntouched DEF Untouched
  <2>3. Busy' = Busy \ {s} /\ s \in Busy
    BY <2>1, <2>2 DEF Busy, Closed
  <2>4. IsFiniteSet(Busy') /\ Cardinality(Busy') = Cardinality(Busy) - 1
    BY <1>2, <2>3, FS_RemoveElement
  <2>5. Len(account') \in Nat /\ Len(account) <= Len(account')
        /\ Len(account') <= Len(account) + 2
    <3>1. CASE Rollback(s)
      BY <1>2, <3>1 DEF Rollback
    <3>2. CASE Commit(s)
      <4>1. Len(own[s]) \in Nat /\ Len(own[s]) <= 2
        <5>1. Placed(s) /\ own[s] \in Seq(Entry)
          BY <1>1 DEF WalletTypes
        <5>2. Inserted(s) \in Nat /\ Inserted(s) <= 2
          BY DEF Inserted
        <5> QED  BY <5>1, <5>2 DEF Placed
      <4>2. Len(account') = Len(account) + Len(own[s])
        BY <1>1, <3>2, CommitAccount
      <4>3. \A a, b, c \in Nat : c = a + b /\ b <= 2 => a <= c /\ c <= a + 2
        OBVIOUS
      <4>4. Len(account) \in Nat /\ Len(account') \in Nat
        BY <1>1, <1>2, <3>2, CommitAccount
      <4> QED  BY <4>1, <4>2, <4>3, <4>4
    <3> QED  BY <1>6, <3>1, <3>2
  <2>6. \A u \in Sessions : since'[u] <= Len(account')
    BY <1>2, <2>1, <2>2, <2>5 DEF Closed
  <2> QED  BY <1>2, <2>4, <2>5, <2>6 DEF RoomLeft
<1> QED  BY <1>1, <1>3, <1>4, <1>5, <1>6, WalletSteps, Zenon

(***************************************************************************)
(* The types, the places and the room are invariants.                      *)
(***************************************************************************)
LEMMA PlacedAlways == WalletSpec => [](PlacedInv /\ RoomLeft)
<1>1. WalletInit => PlacedInv /\ RoomLeft
  BY PlacedInit, RoomInit
<1>2. PlacedInv /\ RoomLeft /\ [WalletNext]_walletVars => (PlacedInv /\ RoomLeft)'
  BY PlacedStep, RoomStep
<1> QED  BY <1>1, <1>2, PTL DEF WalletSpec

(***************************************************************************)
(* For any members, tasks, claims, prices and number of sessions, every    *)
(* variable of Wallet has its type, and the ledger stays within the room   *)
(* that Begin asks for before a request starts.                            *)
(***************************************************************************)
THEOREM WalletTypesAlways == WalletSpec => []WalletTypeOK
<1>1. PlacedInv /\ RoomLeft => WalletTypeOK
  <2> SUFFICES ASSUME PlacedInv, RoomLeft PROVE WalletTypeOK
    OBVIOUS
  <2>1. Len(account) \in Nat /\ Cardinality(Busy) \in Nat /\ MaxEntries \in Nat
    BY WalletAssumption, FS_CardinalityType DEF PlacedInv, WalletTypes, RoomLeft
  <2>2. Len(account) <= MaxEntries
    BY <2>1 DEF RoomLeft
  <2>3. \A s \in Sessions : since[s] \in 0 .. MaxEntries
    BY <2>1, <2>2 DEF RoomLeft, PlacedInv, WalletTypes
  <2>4. since \in [Sessions -> 0 .. MaxEntries]
    BY <2>3 DEF PlacedInv, WalletTypes
  <2> QED  BY <2>2, <2>4 DEF PlacedInv, WalletTypes, WalletTypeOK
<1> QED  BY <1>1, PlacedAlways, PTL

-----------------------------------------------------------------------------
(***************************************************************************)
(* As long as nothing else has been committed since a session's first sum, *)
(* its sum is the balance with its own entries, and the entries it holds   *)
(* continue the account.                                                   *)
(***************************************************************************)
OwnExact(s) == since[s] = Len(account) =>
    /\ pc[s] = "write" => base[s] = IF Len(own[s]) = 0 THEN Balance(account)
                                                       ELSE own[s][1].after
    /\ Len(own[s]) > 0 => own[s][1].after = Balance(account) + own[s][1].delta
    /\ Len(own[s]) > 1 => own[s][2].after = own[s][1].after + own[s][2].delta

ExactInv == BalanceAfterExact /\ \A s \in Sessions : OwnExact(s)

(***************************************************************************)
(* Nothing has been written at the start.                                  *)
(***************************************************************************)
LEMMA ExactInit == WalletInit => ExactInv
BY DEF WalletInit, ExactInv, BalanceAfterExact, OwnExact

(***************************************************************************)
(* The sum a session reads includes the payment it holds.                  *)
(***************************************************************************)
LEMMA SumExact ==
    ASSUME PlacedInv, ExactInv, NEW s \in Sessions, CurrentBalance(s)
    PROVE  OwnExact(s)'
<1>1. WalletTypes /\ Placed(s) /\ OwnExact(s)
  BY DEF PlacedInv, ExactInv
<1>2. account \in Seq(Entry) /\ own[s] \in Seq(Entry) /\ \A e \in Entry : e.delta \in Int
  BY <1>1 DEF WalletTypes, Entry
<1>3. /\ own' = own /\ account' = account /\ since' = since
      /\ base'[s] = Balance(account) + Balance(own[s])
  BY <1>1 DEF CurrentBalance, WalletTypes
<1>4. Balance(account) \in Int
  BY <1>2, BalanceIsInt
<1>5. Len(own[s]) \in 0 .. 1
  BY <1>1, <1>2 DEF CurrentBalance, Placed, Inserted
<1>6. PICK f \in [0 .. Len(own[s]) -> Int] :
          Runs(own[s], f) /\ Balance(own[s]) = f[Len(own[s])]
  BY <1>2, BalanceRuns
<1>7. CASE Len(own[s]) = 0
  <2>1. base'[s] = Balance(account)
    BY <1>3, <1>4, <1>6, <1>7 DEF Runs
  <2> QED  BY <1>3, <1>7, <2>1 DEF OwnExact
<1>8. CASE Len(own[s]) = 1
  <2>1. Balance(own[s]) = own[s][1].delta
    <3>1. own[s][1] \in Entry /\ own[s][1].delta \in Int
      BY <1>2, <1>8
    <3> QED  BY <1>6, <1>8, <3>1 DEF Runs
  <2>2. base'[s] = Balance(account) + own[s][1].delta
    BY <1>3, <2>1
  <2>3. since[s] = Len(account) => own[s][1].after = Balance(account) + own[s][1].delta
    BY <1>1, <1>8 DEF OwnExact
  <2> QED  BY <1>3, <1>8, <2>2, <2>3 DEF OwnExact
<1> QED  BY <1>5, <1>7, <1>8

(***************************************************************************)
(* An entry continues the sum that was read before it.                     *)
(***************************************************************************)
LEMMA InsertExact ==
    ASSUME PlacedInv, ExactInv, NEW s \in Sessions, InsertEntry(s)
    PROVE  OwnExact(s)'
<1>1. WalletTypes /\ Placed(s) /\ OwnExact(s) /\ pc[s] = "write"
  BY DEF PlacedInv, ExactInv, InsertEntry
<1>2. own[s] \in Seq(Entry) /\ base[s] \in Int /\ payout[s] \in Int
  BY <1>1 DEF WalletTypes
<1>3. NewEntry(s).after = base[s] + payout[s] /\ NewEntry(s).delta = payout[s]
  BY DEF NewEntry
<1> DEFINE e == NewEntry(s)
<1>4. /\ own'[s] = Append(own[s], e) /\ account' = account /\ since' = since
      /\ pc'[s] # "write"
  BY <1>1 DEF InsertEntry, WalletTypes
<1> HIDE DEF e
<1>5. /\ Len(own'[s]) = Len(own[s]) + 1 /\ own'[s][Len(own[s]) + 1] = e
      /\ \A k \in 1 .. Len(own[s]) : own'[s][k] = own[s][k]
  BY <1>2, <1>4
<1>6. Len(own[s]) \in 0 .. 1
  BY <1>1, <1>2 DEF Placed, Inserted
<1>7. e.after = base[s] + e.delta
  BY <1>3 DEF e
<1>8. CASE Len(own[s]) = 0
  <2>1. Len(own'[s]) = 1 /\ own'[s][1] = e
    BY <1>5, <1>8
  <2>2. since[s] = Len(account) => base[s] = Balance(account)
    BY <1>1, <1>8 DEF OwnExact
  <2> QED  BY <1>4, <1>7, <2>1, <2>2 DEF OwnExact
<1>9. CASE Len(own[s]) = 1
  <2>1. Len(own'[s]) = 2 /\ own'[s][1] = own[s][1] /\ own'[s][2] = e
    BY <1>5, <1>9
  <2>2. since[s] = Len(account) => base[s] = own[s][1].after
    BY <1>1, <1>9 DEF OwnExact
  <2>3. since[s] = Len(account) => own[s][1].after = Balance(account) + own[s][1].delta
    BY <1>1, <1>9 DEF OwnExact
  <2> QED  BY <1>4, <1>7, <2>1, <2>2, <2>3 DEF OwnExact
<1> QED  BY <1>6, <1>8, <1>9

(***************************************************************************)
(* A commit: the entries of a session that was alone are exact, and every  *)
(* other session has now been overlapped if there was an entry.            *)
(***************************************************************************)
LEMMA CommitExact ==
    ASSUME PlacedInv, RoomLeft, ExactInv, NEW s \in Sessions, Commit(s)
    PROVE  ExactInv'
<1>1. WalletTypes /\ Placed(s) /\ OwnExact(s)
  BY DEF PlacedInv, ExactInv
<1> DEFINE n == Len(account)
           m == Len(own[s])
<1>2. /\ n \in Nat /\ m \in 0 .. 2
      /\ account \in Seq(Entry) /\ \A e \in Entry : e.delta \in Int /\ e.after \in Int
  BY <1>1 DEF WalletTypes, Entry, Placed, Inserted
<1>3. /\ account' \in Seq(Entry) /\ Len(account') = n + m
      /\ \A k \in 1 .. n : account'[k] = account[k]
      /\ \A j \in 1 .. m :
            /\ account'[n + j].delta = own[s][j].delta
            /\ account'[n + j].after = own[s][j].after
            /\ account'[n + j].alone = (since[s] = n)
  BY <1>1, CommitAccount
<1>4. PICK f \in [0 .. n -> Int] : /\ Runs(account, f) /\ Balance(account) = f[n]
                                   /\ \A k \in 1 .. n : Balance(SubSeq(account, 1, k)) = f[k]
  <2>1. account \in Seq(Entry) /\ \A e \in Entry : e.delta \in Int
    BY <1>2
  <2> QED  BY ONLY <2>1, BalanceOfPrefix
<1>5. PICK g \in [0 .. n + m -> Int] :
          /\ Runs(account', g) /\ Balance(account') = g[n + m]
          /\ \A k \in 1 .. n + m : Balance(SubSeq(account', 1, k)) = g[k]
  <2>1. PICK g \in [0 .. Len(account') -> Int] :
            /\ Runs(account', g) /\ Balance(account') = g[Len(account')]
            /\ \A k \in 1 .. Len(account') : Balance(SubSeq(account', 1, k)) = g[k]
    <3>1. account' \in Seq(Entry) /\ \A e \in Entry : e.delta \in Int
      BY <1>2, <1>3
    <3> QED  BY ONLY <3>1, BalanceOfPrefix
  <2>2. Len(account') = n + m
    BY <1>3
  <2> HIDE DEF n, m
  <2> QED  BY <2>1, <2>2
<1> HIDE DEF n, m
<1>6. \A k \in 0 .. n : g[k] = f[k]
  <2>1. \A k \in 1 .. n : k \in 1 .. n + m
    BY <1>2
  <2>2. Runs(account, g)
    BY <1>2, <1>3, <1>5, <2>1 DEF Runs, n
  <2> QED  BY <1>2, <1>4, <2>2, RunsUnique DEF n
<1>7. ASSUME NEW k \in 1 .. n + m, account'[k].alone
      PROVE  account'[k].after = g[k]
  <2>1. CASE k \in 1 .. n
    <3>1. account[k].after = Balance(SubSeq(account, 1, k))
      BY <1>2, <1>3, <1>7, <2>1 DEF ExactInv, BalanceAfterExact, n
    <3> QED  BY <1>2, <1>3, <1>4, <1>6, <2>1, <3>1
  <2>2. CASE k \notin 1 .. n
    <3>1. k - n \in 1 .. m /\ k = n + (k - n)
      BY <1>2, <2>2
    <3>2. since[s] = n
      BY <1>3, <1>7, <3>1
    <3>3. /\ m > 0 => own[s][1].after = f[n] + own[s][1].delta
          /\ m > 1 => own[s][2].after = own[s][1].after + own[s][2].delta
      BY <1>1, <1>4, <3>2 DEF OwnExact, n, m
    <3>4. \A j \in 1 .. n + m : g[j] = g[j - 1] + account'[j].delta
      BY <1>3, <1>5 DEF Runs
    <3>5. CASE k - n = 1
      <4>1. n + 1 \in 1 .. n + m /\ (n + 1) - 1 = n /\ 1 \in 1 .. m /\ m > 0 /\ n \in 0 .. n
        BY <1>2, <3>1, <3>5
      <4>2. g[n + 1] = f[n] + own[s][1].delta
        <5>1. account'[n + 1].delta = own[s][1].delta
          BY <1>3, <4>1
        <5>2. g[n] = f[n]
          BY <1>6, <4>1
        <5>3. g[n + 1] = g[n] + account'[n + 1].delta
          BY <3>4, <4>1
        <5> QED  BY <5>1, <5>2, <5>3
      <4> QED  BY <1>3, <3>1, <3>3, <3>5, <4>1, <4>2
    <3>6. CASE k - n = 2
      <4>1. /\ n + 1 \in 1 .. n + m /\ (n + 1) - 1 = n /\ n \in 0 .. n
            /\ n + 2 \in 1 .. n + m /\ (n + 2) - 1 = n + 1
            /\ 1 \in 1 .. m /\ 2 \in 1 .. m /\ m > 0 /\ m > 1
        BY <1>2, <3>1, <3>6
      <4>2. g[n + 1] = f[n] + own[s][1].delta
        <5>1. account'[n + 1].delta = own[s][1].delta
          BY <1>3, <4>1
        <5>2. g[n] = f[n]
          BY <1>6, <4>1
        <5>3. g[n + 1] = g[n] + account'[n + 1].delta
          BY <3>4, <4>1
        <5> QED  BY <5>1, <5>2, <5>3
      <4>3. g[n + 2] = g[n + 1] + own[s][2].delta
        BY <1>3, <3>4, <4>1
      <4> QED  BY <1>3, <3>1, <3>3, <3>6, <4>1, <4>2, <4>3
    <3> QED  BY <1>2, <3>1, <3>5, <3>6
  <2> QED  BY <2>1, <2>2
<1>8. BalanceAfterExact'
  <2>1. DOMAIN account' = 1 .. n + m
    BY <1>3
  <2> QED  BY <1>5, <1>7, <2>1 DEF BalanceAfterExact
<1>9. ASSUME NEW u \in Sessions  PROVE OwnExact(u)'
  <2>1. CASE u = s
    <3>1. Closed(s)
      BY <1>1, CloseCloses DEF Commit
    <3> QED  BY <2>1, <3>1 DEF Closed, OwnExact
  <2>2. CASE u # s
    <3>1. Untouched(u) /\ OwnExact(u)
      BY <1>1, <2>2, OthersUntouched DEF ExactInv
    <3>2. since[u] <= n /\ since[u] \in Nat
      BY <1>1 DEF RoomLeft, WalletTypes, n
    <3>3. CASE m = 0
      <4>1. Balance(account') = Balance(account) /\ Len(account') = Len(account)
        BY <1>2, <1>3, <1>4, <1>5, <1>6, <3>3 DEF n
      <4> QED  BY <3>1, <4>1 DEF OwnExact, Untouched
    <3>4. CASE m # 0
      <4>1. since'[u] # Len(account')
        BY <1>2, <1>3, <3>1, <3>2, <3>4 DEF Untouched
      <4> QED  BY <4>1 DEF OwnExact
    <3> QED  BY <3>3, <3>4
  <2> QED  BY <2>1, <2>2
<1> QED  BY <1>8, <1>9 DEF ExactInv

(***************************************************************************)
(* Every step keeps the sums exact.                                        *)
(***************************************************************************)
LEMMA ExactStep ==
    ASSUME PlacedInv, RoomLeft, ExactInv, [WalletNext]_walletVars
    PROVE  ExactInv'
<1>1. WalletTypes /\ BalanceAfterExact /\ \A s \in Sessions : Placed(s) /\ OwnExact(s)
  BY DEF PlacedInv, ExactInv
<1>2. ASSUME account' = account  PROVE BalanceAfterExact'
  BY <1>1, <1>2 DEF BalanceAfterExact
<1>3. ASSUME account' = account, NEW u \in Sessions, Untouched(u)  PROVE OwnExact(u)'
  BY <1>1, <1>3 DEF OwnExact, Untouched
<1>4. CASE Quiet
  BY <1>2, <1>3, <1>4, QuietUntouched DEF ExactInv
<1>5. ASSUME NEW s \in Sessions, account' = account, OwnExact(s)',
             \/ Begun(s) \/ CurrentBalance(s) \/ InsertEntry(s)
             \/ Evaluate(s) \/ Rollback(s)
      PROVE  ExactInv'
  <2>1. \A u \in Sessions : u # s => OwnExact(u)'
    BY <1>1, <1>3, <1>5, OthersUntouched
  <2> QED  BY <1>2, <1>5, <2>1 DEF ExactInv
<1>6. ASSUME NEW s \in Sessions, Begun(s)  PROVE ExactInv'
  <2>1. PICK what, r, status, points : Begin(s, what, r, status, points)
    BY <1>6 DEF Begun
  <2>2. account' = account /\ pc'[s] # "write" /\ own'[s] = own[s] /\ Len(own[s]) = 0
    <3>1. account' = account /\ pc'[s] # "write" /\ own'[s] = own[s] /\ pc[s] = "idle"
      BY <1>1, <2>1 DEF Begin, WalletTypes
    <3>2. Len(own[s]) = 0
      BY <1>1, <3>1, TypesWritten DEF Placed, Inserted
    <3> QED  BY <3>1, <3>2
  <2>3. OwnExact(s)'
    BY <2>2 DEF OwnExact
  <2> QED  BY <1>5, <1>6, <2>2, <2>3
<1>7. ASSUME NEW s \in Sessions, CurrentBalance(s)  PROVE ExactInv'
  BY <1>5, <1>7, SumExact DEF CurrentBalance
<1>8. ASSUME NEW s \in Sessions, InsertEntry(s)  PROVE ExactInv'
  BY <1>5, <1>8, InsertExact DEF InsertEntry
<1>9. ASSUME NEW s \in Sessions, Evaluate(s)  PROVE ExactInv'
  <2>1. account' = account /\ own' = own /\ since' = since /\ pc'[s] # "write"
    BY <1>1, <1>9 DEF Evaluate, WalletTypes
  <2>2. OwnExact(s)'
    BY <1>1, <2>1 DEF OwnExact
  <2> QED  BY <1>5, <1>9, <2>1, <2>2
<1>10. ASSUME NEW s \in Sessions, Rollback(s)  PROVE ExactInv'
  <2>1. account' = account /\ Closed(s)
    BY <1>1, <1>10, CloseCloses DEF Rollback
  <2>2. OwnExact(s)'
    BY <2>1 DEF OwnExact, Closed
  <2> QED  BY <1>5, <1>10, <2>1, <2>2
<1> QED
  BY <1>1, <1>4, <1>6, <1>7, <1>8, <1>9, <1>10, CommitExact, WalletSteps, Zenon

(***************************************************************************)
(* For any number of sessions, claims, tasks and adjustments: the          *)
(* balance_after of an entry written without an overlapping commit is the  *)
(* sum of the ledger up to that entry.                                     *)
(***************************************************************************)
THEOREM BalanceAfterAlwaysExact == WalletSpec => []BalanceAfterExact
<1>1. WalletInit => ExactInv
  BY ExactInit
<1>2. PlacedInv /\ RoomLeft /\ ExactInv /\ [WalletNext]_walletVars => ExactInv'
  BY ExactStep
<1>3. ExactInv => BalanceAfterExact
  BY DEF ExactInv
<1> QED  BY <1>1, <1>2, <1>3, PlacedAlways, PTL DEF WalletSpec

-----------------------------------------------------------------------------
(***************************************************************************)
(* An entry of that type and ref has been committed; what a commit adds.   *)
(***************************************************************************)
Has(type, r) == \E k \in DOMAIN account : account[k].type = type /\ account[k].ref = r

Holds(s, type, r) == \E j \in 1 .. Len(own[s]) : own[s][j].type = type
                                                 /\ own[s][j].ref = r

(***************************************************************************)
(* After a commit there is what there was, and what the session held.      *)
(***************************************************************************)
LEMMA CommitAdds ==
    ASSUME WalletTypes, NEW s \in Sessions, Commit(s), NEW type, NEW r
    PROVE  Has(type, r)' <=> Has(type, r) \/ Holds(s, type, r)
<1> DEFINE n == Len(account)
           m == Len(own[s])
<1>1. n \in Nat /\ m \in Nat /\ DOMAIN account = 1 .. n
  BY DEF WalletTypes
<1>2. /\ DOMAIN account' = 1 .. n + m
      /\ \A k \in 1 .. n : account'[k] = account[k]
      /\ \A j \in 1 .. m : /\ account'[n + j].type = own[s][j].type
                           /\ account'[n + j].ref = own[s][j].ref
  BY CommitAccount
<1> HIDE DEF n, m
<1>3. ASSUME Has(type, r)'  PROVE Has(type, r) \/ Holds(s, type, r)
  <2>1. PICK k \in 1 .. n + m : account'[k].type = type /\ account'[k].ref = r
    BY <1>2, <1>3 DEF Has
  <2>2. CASE k \in 1 .. n
    BY <1>1, <1>2, <2>1, <2>2 DEF Has
  <2>3. CASE k \notin 1 .. n
    <3>1. k - n \in 1 .. m /\ k = n + (k - n)
      BY <1>1, <2>3
    <3> QED  BY <1>2, <2>1, <3>1 DEF Holds, m
  <2> QED  BY <2>2, <2>3
<1>4. ASSUME Has(type, r)  PROVE Has(type, r)'
  <2>1. PICK k \in 1 .. n : account[k].type = type /\ account[k].ref = r
    BY <1>1, <1>4 DEF Has
  <2>2. k \in 1 .. n + m
    BY <1>1
  <2> QED  BY <1>2, <2>1, <2>2 DEF Has
<1>5. ASSUME Holds(s, type, r)  PROVE Has(type, r)'
  <2>1. PICK j \in 1 .. m : own[s][j].type = type /\ own[s][j].ref = r
    BY <1>5 DEF Holds, m
  <2>2. n + j \in 1 .. n + m
    BY <1>1
  <2> QED  BY <1>2, <2>1, <2>2 DEF Has
<1> QED  BY <1>3, <1>4, <1>5

(***************************************************************************)
(* What a session holds when it commits: a completion's or an approval's   *)
(* payment, with the bonus after it if it pays one, or a claim's debit.    *)
(***************************************************************************)
LEMMA HeldAtCommit ==
    ASSUME PlacedInv, NEW s \in Sessions, pc[s] = "commit"
    PROVE  /\ \A r : Holds(s, "series_bonus", r) => op[s] = "bonus"
           /\ op[s] = "bonus" => /\ Holds(s, "series_bonus", Window)
                                 /\ Holds(s, "task_completed", ref[s])
                                 /\ ref[s] \in Tasks
           /\ \A r : Holds(s, "claim_fulfilled", r) <=> op[s] = "fulfil" /\ ref[s] = r
<1>1. Placed(s)
  BY DEF PlacedInv
<1>2. CASE op[s] = "bonus"
  <2>1. Len(own[s]) = 2 /\ ref[s] \in Tasks
    BY <1>1, <1>2, TypesWritten DEF Placed, Inserted
  <2>2. own[s][1].type = "task_completed" /\ own[s][1].ref = ref[s]
        /\ own[s][2].type = "series_bonus" /\ own[s][2].ref = Window
    BY <1>1, <1>2, <2>1 DEF Placed
  <2>3. \A j \in 1 .. Len(own[s]) : j = 1 \/ j = 2
    BY <2>1
  <2>4. 1 \in 1 .. Len(own[s]) /\ 2 \in 1 .. Len(own[s])
    BY <2>1
  <2>5. \A r : ~ Holds(s, "claim_fulfilled", r)
    BY <2>2, <2>3 DEF Holds
  <2> QED  BY <1>2, <2>1, <2>2, <2>4, <2>5 DEF Holds
<1>3. CASE op[s] \in DOMAIN TypeWritten \ {"bonus"}
  <2>1. Len(own[s]) = 1
    BY <1>1, <1>3 DEF Placed, Inserted
  <2>2. own[s][1].type = TypeWritten[op[s]] /\ own[s][1].ref = ref[s]
    BY <1>1, <1>3, <2>1 DEF Placed
  <2>3. \A j \in 1 .. Len(own[s]) : j = 1
    BY <2>1
  <2>4. 1 \in 1 .. Len(own[s])
    BY <2>1
  <2>5. own[s][1].type # "series_bonus"
        /\ (own[s][1].type = "claim_fulfilled" <=> op[s] = "fulfil")
    BY <1>3, <2>2, TypesWritten
  <2> QED  BY <1>3, <2>2, <2>3, <2>4, <2>5 DEF Holds
<1>4. CASE op[s] \notin DOMAIN TypeWritten
  <2>1. Len(own[s]) = 0
    BY <1>1, <1>4, TypesWritten DEF Placed, Inserted
  <2>2. 1 .. Len(own[s]) = {}
    BY <2>1
  <2>3. op[s] # "bonus" /\ op[s] # "fulfil"
    BY <1>4, TypesWritten
  <2> QED  BY <2>2, <2>3 DEF Holds
<1> QED  BY <1>2, <1>3, <1>4

(***************************************************************************)
(* The unique indexes: no two entries of one task and type, or of the      *)
(* window, whether committed or held by sessions that have not committed.  *)
(***************************************************************************)
Same(d, e) == d.type = e.type /\ d.ref = e.ref /\ d.ref \in Tasks \cup {Window}

UniqueInv ==
    /\ \A j, k \in DOMAIN account : Same(account[j], account[k]) => j = k
    /\ \A s \in Sessions : \A j \in DOMAIN own[s], k \in DOMAIN account :
          ~ Same(own[s][j], account[k])
    /\ \A s, u \in Sessions : s # u =>
          \A j \in DOMAIN own[s], k \in DOMAIN own[u] : ~ Same(own[s][j], own[u][k])

(***************************************************************************)
(* No entries at the start.                                                *)
(***************************************************************************)
LEMMA UniqueInit == WalletInit => UniqueInv
BY DEF WalletInit, UniqueInv

(***************************************************************************)
(* An insert waits for the same entry of another session, and fails on a   *)
(* committed one.                                                          *)
(***************************************************************************)
LEMMA UniqueInsert ==
    ASSUME PlacedInv, UniqueInv, NEW s \in Sessions, InsertEntry(s)
    PROVE  UniqueInv'
<1>1. WalletTypes
  BY DEF PlacedInv
<1> DEFINE e == NewEntry(s)
<1>2. /\ own'[s] = Append(own[s], e) /\ own[s] \in Seq(Entry) /\ account' = account
      /\ \A u \in Sessions \ {s} : own'[u] = own[u]
  BY <1>1 DEF InsertEntry, WalletTypes
<1>3. \A k \in DOMAIN account : ~ Same(e, account[k])
  BY DEF InsertEntry, Exists, Conflicts, Of, Posted, Same
<1>4. \A u \in Sessions \ {s} : \A k \in DOMAIN own[u] : ~ Same(e, own[u][k])
  BY DEF InsertEntry, Awaited, Conflicts, Of, Posted, Same
<1> HIDE DEF e
<1>5. \A j \in DOMAIN own'[s] :
          own'[s][j] = e \/ (j \in DOMAIN own[s] /\ own'[s][j] = own[s][j])
  <2>1. own[s] \in Seq(Entry \cup {e})
    BY <1>2
  <2>2. /\ Len(own'[s]) = Len(own[s]) + 1 /\ own'[s] \in Seq(Entry \cup {e})
        /\ \A j \in 1 .. Len(own[s]) : own'[s][j] = own[s][j]
        /\ own'[s][Len(own[s]) + 1] = e
    BY <1>2, <2>1, AppendProperties
  <2>3. DOMAIN own[s] = 1 .. Len(own[s]) /\ DOMAIN own'[s] = 1 .. Len(own[s]) + 1
        /\ Len(own[s]) \in Nat
    BY <2>1, <2>2
  <2>4. \A j \in 1 .. Len(own[s]) + 1 : j \in 1 .. Len(own[s]) \/ j = Len(own[s]) + 1
    BY <2>3
  <2>5. ASSUME NEW j \in DOMAIN own'[s]
        PROVE  own'[s][j] = e \/ (j \in DOMAIN own[s] /\ own'[s][j] = own[s][j])
    <3>1. CASE j \in 1 .. Len(own[s])
      BY <2>2, <2>3, <3>1
    <3>2. CASE j = Len(own[s]) + 1
      BY <2>2, <3>2
    <3> QED  BY <2>3, <2>4, <3>1, <3>2
  <2> QED  BY <2>5
<1>6. \A d, f : Same(d, f) <=> Same(f, d)
  BY DEF Same
<1>7. \A j, k \in DOMAIN account' : Same(account'[j], account'[k]) => j = k
  BY <1>2 DEF UniqueInv
<1>8. ASSUME NEW u \in Sessions, NEW j \in DOMAIN own'[u], NEW k \in DOMAIN account'
      PROVE  ~ Same(own'[u][j], account'[k])
  <2>1. CASE u = s
    BY <1>2, <1>3, <1>5, <2>1 DEF UniqueInv
  <2>2. CASE u # s
    BY <1>2, <2>2 DEF UniqueInv
  <2> QED  BY <2>1, <2>2
<1>9. ASSUME NEW t \in Sessions, NEW u \in Sessions, t # u,
             NEW j \in DOMAIN own'[t], NEW k \in DOMAIN own'[u]
      PROVE  ~ Same(own'[t][j], own'[u][k])
  <2>1. CASE t = s
    BY <1>2, <1>4, <1>5, <1>9, <2>1 DEF UniqueInv
  <2>2. CASE u = s
    BY <1>2, <1>4, <1>5, <1>6, <1>9, <2>2 DEF UniqueInv
  <2>3. CASE t # s /\ u # s
    BY <1>2, <1>9, <2>3 DEF UniqueInv
  <2> QED  BY <2>1, <2>2, <2>3
<1> QED  BY <1>7, <1>8, <1>9 DEF UniqueInv, Same

(***************************************************************************)
(* A commit makes unique entries of the account out of what the session    *)
(* held.                                                                   *)
(***************************************************************************)
LEMMA UniqueCommit ==
    ASSUME PlacedInv, UniqueInv, NEW s \in Sessions, Commit(s)
    PROVE  UniqueInv'
<1>1. WalletTypes /\ Placed(s) /\ Closed(s)
  BY CloseCloses DEF PlacedInv, Commit
<1>2. \A u \in Sessions \ {s} : own'[u] = own[u]
  BY <1>1, OthersUntouched DEF Untouched
<1> DEFINE n == Len(account)
           m == Len(own[s])
           From(k, d) == d.type = account'[k].type /\ d.ref = account'[k].ref
<1>3. /\ n \in Nat /\ m \in Nat /\ DOMAIN account = 1 .. n /\ DOMAIN own[s] = 1 .. m
      /\ DOMAIN account' = 1 .. n + m
  BY <1>1, CommitAccount DEF WalletTypes
<1>4. ASSUME NEW k \in DOMAIN account'
      PROVE  \/ k \in DOMAIN account /\ From(k, account[k])
             \/ k - n \in DOMAIN own[s] /\ From(k, own[s][k - n])
  <2> HIDE DEF n, m
  <2>1. CASE k \in 1 .. n
    <3>1. account'[k] = account[k]
      BY <1>1, <2>1, CommitAccount DEF n
    <3> QED  BY <1>3, <2>1, <3>1
  <2>2. CASE k \notin 1 .. n
    <3>1. k - n \in 1 .. m /\ k = n + (k - n)
      BY <1>3, <2>2
    <3>2. /\ account'[n + (k - n)].type = own[s][k - n].type
          /\ account'[n + (k - n)].ref = own[s][k - n].ref
      BY <1>1, <3>1, CommitAccount DEF n, m
    <3> QED  BY <1>3, <3>1, <3>2
  <2> QED  BY <2>1, <2>2
<1>5. ASSUME NEW i \in DOMAIN own[s], NEW j \in DOMAIN own[s], Same(own[s][i], own[s][j])
      PROVE  i = j
  <2>1. m <= 2
    <3>1. Inserted(s) <= 2
      BY DEF Inserted
    <3> QED  BY <1>1, <3>1 DEF Placed
  <2>2. i \in {1, 2} /\ j \in {1, 2}
    BY <1>3, <2>1
  <2>3. m = 2 => own[s][1].type = "task_completed" /\ own[s][2].type = "series_bonus"
    <3>1. m = 2 => op[s] = "bonus"
      <4>1. Inserted(s) = 2 => op[s] = "bonus"
        BY DEF Inserted
      <4> QED  BY <1>1, <4>1 DEF Placed
    <3>2. m = 2 => m > 0 /\ m > 1
      OBVIOUS
    <3> QED  BY <1>1, <3>1, <3>2 DEF Placed
  <2>4. i # j => m = 2
    <3> HIDE DEF m
    <3>1. i \in 1 .. m /\ j \in 1 .. m
      BY <1>3
    <3> QED  BY <1>3, <2>1, <3>1
  <2> QED  BY <1>5, <2>2, <2>3, <2>4 DEF Same
<1> HIDE DEF n, m
<1>6. ASSUME NEW j \in DOMAIN account', NEW k \in DOMAIN account',
             Same(account'[j], account'[k])
      PROVE  j = k
  <2>1. j \in Int /\ k \in Int /\ n \in Int
    BY <1>3
  <2>2. j - n = k - n => j = k
    BY <2>1
  <2>3. \A d, e : From(j, d) /\ From(k, e) => Same(d, e) /\ Same(e, d)
    BY <1>6 DEF Same
  <2> HIDE DEF From
  <2> QED  BY <1>4, <1>5, <2>2, <2>3 DEF UniqueInv
<1>7. ASSUME NEW u \in Sessions, NEW j \in DOMAIN own'[u], NEW k \in DOMAIN account'
      PROVE  ~ Same(own'[u][j], account'[k])
  <2>1. u # s
    BY <1>1 DEF Closed
  <2>2. own'[u] = own[u]
    BY <1>2, <2>1
  <2>3. \A d : From(k, d) /\ Same(own'[u][j], account'[k]) => Same(own[u][j], d)
    BY <2>2 DEF Same
  <2> HIDE DEF From
  <2> QED  BY <1>4, <2>1, <2>2, <2>3 DEF UniqueInv
<1>8. ASSUME NEW t \in Sessions, NEW u \in Sessions, t # u,
             NEW j \in DOMAIN own'[t], NEW k \in DOMAIN own'[u]
      PROVE  ~ Same(own'[t][j], own'[u][k])
  <2>1. t # s /\ u # s
    BY <1>1 DEF Closed
  <2> QED  BY <1>2, <1>8, <2>1 DEF UniqueInv
<1> QED  BY <1>6, <1>7, <1>8 DEF UniqueInv, Same

(***************************************************************************)
(* Every step keeps the unique indexes.                                    *)
(***************************************************************************)
LEMMA UniqueStep ==
    ASSUME PlacedInv, UniqueInv, [WalletNext]_walletVars
    PROVE  UniqueInv'
<1>1. WalletTypes /\ \A s \in Sessions : Placed(s)
  BY DEF PlacedInv
<1>2. ASSUME account' = account,
             \A u \in Sessions : own'[u] = own[u] \/ own'[u] = << >>
      PROVE  UniqueInv'
  <2>1. \A u \in Sessions : \A j \in DOMAIN own'[u] :
            j \in DOMAIN own[u] /\ own'[u][j] = own[u][j]
    BY <1>2
  <2> QED  BY <1>2, <2>1 DEF UniqueInv, Same
<1>3. CASE Quiet
  BY <1>2, <1>3, QuietUntouched DEF Untouched
<1>4. ASSUME NEW s \in Sessions, Begun(s) \/ CurrentBalance(s) \/ Evaluate(s)
      PROVE  UniqueInv'
  <2>1. own' = own /\ account' = account
    BY <1>4 DEF Begun, Begin, CurrentBalance, Evaluate
  <2> QED  BY <1>2, <2>1
<1>5. ASSUME NEW s \in Sessions, Rollback(s)  PROVE UniqueInv'
  <2>1. account' = account /\ own'[s] = << >>
    BY <1>1, <1>5, CloseCloses DEF Rollback, Closed
  <2> QED  BY <1>1, <1>2, <1>5, <2>1, OthersUntouched DEF Untouched
<1> QED
  BY <1>1, <1>3, <1>4, <1>5, UniqueInsert, UniqueCommit, WalletSteps, Zenon

(***************************************************************************)
(* There is a bonus exactly when the window is complete.                   *)
(***************************************************************************)
WindowInv == Has("series_bonus", Window) <=> window = "complete"

(***************************************************************************)
(* Without a commit there are the same entries.                            *)
(***************************************************************************)
LEMMA HasKept ==
    ASSUME account' = account, NEW type, NEW r
    PROVE  Has(type, r)' <=> Has(type, r)
BY DEF Has

(***************************************************************************)
(* A session changes nothing others see before its commit.                 *)
(***************************************************************************)
LEMMA AccountKept ==
    ASSUME WalletTypes, NEW s \in Sessions,
           \/ Begun(s) \/ CurrentBalance(s) \/ InsertEntry(s) \/ Evaluate(s) \/ Rollback(s)
    PROVE  /\ account' = account /\ window' = window /\ tasks' = tasks /\ claims' = claims
BY DEF Begun, Begin, CurrentBalance, InsertEntry, Evaluate, Rollback

(***************************************************************************)
(* The bonus and the status of the window are one commit.                  *)
(***************************************************************************)
LEMMA WindowStep ==
    ASSUME PlacedInv, WindowInv, [WalletNext]_walletVars
    PROVE  WindowInv'
<1>1. WalletTypes
  BY DEF PlacedInv
<1>2. CASE Quiet
  <2>1. account' = account
    BY <1>2, QuietUntouched
  <2>2. window' = "complete" <=> window = "complete"
    BY <1>2 DEF Quiet, SubmitClaim, CreateSeries, UpdateSeries,
                ArchiveSeries, walletVars
  <2> QED  BY <2>1, <2>2, HasKept DEF WindowInv
<1>3. ASSUME NEW s \in Sessions,
             \/ Begun(s) \/ CurrentBalance(s) \/ InsertEntry(s)
             \/ Evaluate(s) \/ Rollback(s)
      PROVE  WindowInv'
  BY <1>1, <1>3, AccountKept, HasKept DEF WindowInv
<1>4. ASSUME NEW s \in Sessions, Commit(s)  PROVE WindowInv'
  <2>1. Has("series_bonus", Window)'
           <=> Has("series_bonus", Window) \/ Holds(s, "series_bonus", Window)
    BY <1>1, <1>4, CommitAdds
  <2>2. Holds(s, "series_bonus", Window) <=> op[s] = "bonus"
    BY <1>4, HeldAtCommit DEF Commit
  <2>3. window' = IF op[s] = "bonus" THEN "complete" ELSE window
    BY <1>4 DEF Commit, WindowAfter
  <2> QED  BY <2>1, <2>2, <2>3 DEF WindowInv
<1> QED  BY <1>1, <1>2, <1>3, <1>4, WalletSteps, Zenon

(***************************************************************************)
(* A fulfilled claim has a debit and one nobody resolved has none; whoever *)
(* loaded a claim as resolved is not the first to resolve it.              *)
(***************************************************************************)
Resolved == {"fulfilled", "declined"}

DebitInv ==
    /\ \A c \in Claims :
          /\ claims[c] = "fulfilled" => Has("claim_fulfilled", c)
          /\ claims[c] \notin Resolved => ~ Has("claim_fulfilled", c)
    /\ \A s \in Sessions : op[s] \in {"fulfil", "decline"} /\ seen[s] \in Resolved
                              => claims[ref[s]] \in Resolved

(***************************************************************************)
(* The commit of a resolution: the one that fulfils a claim holds its      *)
(* debit.                                                                  *)
(***************************************************************************)
LEMMA DebitCommit ==
    ASSUME PlacedInv, DebitInv, NEW s \in Sessions, Commit(s)
    PROVE  DebitInv'
<1>1. WalletTypes /\ Placed(s)
  BY DEF PlacedInv
<1>2. \A c : Has("claim_fulfilled", c)'
               <=> Has("claim_fulfilled", c) \/ (op[s] = "fulfil" /\ ref[s] = c)
  BY <1>1, CommitAdds, HeldAtCommit DEF Commit
<1>3. op[s] \in {"fulfil", "decline"} => ref[s] \in Claims
  BY <1>1 DEF Placed
<1>4. \A c \in Claims :
         claims'[c] = CASE op[s] = "fulfil" /\ seen[s] # "fulfilled" /\ ref[s] = c
                              -> "fulfilled"
                        [] op[s] = "decline" /\ seen[s] # "declined" /\ ref[s] = c
                              -> "declined"
                        [] OTHER -> claims[c]
  <2>1. DOMAIN Verdict = {"fulfil", "decline"} /\ Verdict["fulfil"] = "fulfilled"
        /\ Verdict["decline"] = "declined"
    BY DEF Verdict
  <2>2. claims' = IF op[s] \in DOMAIN Verdict /\ Verdict[op[s]] # seen[s]
                  THEN [claims EXCEPT ![ref[s]] = Verdict[op[s]]] ELSE claims
    BY DEF Commit
  <2>3. claims \in [Claims -> ClaimStatus]
    BY <1>1 DEF WalletTypes
  <2> QED  BY <1>3, <2>1, <2>2, <2>3
<1>5. \A c \in Claims : claims[c] \in Resolved => claims'[c] \in Resolved
  BY <1>4 DEF Resolved
<1>6. ASSUME NEW c \in Claims, claims'[c] = "fulfilled"
      PROVE  Has("claim_fulfilled", c)'
  <2>1. claims[c] = "fulfilled" \/ (op[s] = "fulfil" /\ ref[s] = c)
    BY <1>4, <1>6
  <2> QED  BY <1>2, <2>1 DEF DebitInv
<1>7. ASSUME NEW c \in Claims, claims'[c] \notin Resolved
      PROVE  ~ Has("claim_fulfilled", c)'
  <2>1. claims[c] \notin Resolved
    BY <1>5, <1>7
  <2>2. ~ (op[s] = "fulfil" /\ ref[s] = c)
    BY <1>4, <1>7, <2>1 DEF DebitInv, Resolved
  <2> QED  BY <1>2, <2>1, <2>2 DEF DebitInv
<1>8. ASSUME NEW u \in Sessions, op'[u] \in {"fulfil", "decline"}, seen'[u] \in Resolved
      PROVE  claims'[ref'[u]] \in Resolved
  <2>1. u # s
    BY <1>1, <1>8, CloseCloses DEF Commit, Closed
  <2>2. op'[u] = op[u] /\ seen'[u] = seen[u] /\ ref'[u] = ref[u]
    BY <1>1, <2>1, OthersUntouched DEF Untouched
  <2>3. ref[u] \in Claims
    BY <1>8, <2>2 DEF PlacedInv, Placed
  <2> QED  BY <1>5, <1>8, <2>2, <2>3 DEF DebitInv
<1> QED  BY <1>6, <1>7, <1>8, Zenon DEF DebitInv

(***************************************************************************)
(* Every step keeps the debits with the claims.                            *)
(***************************************************************************)
LEMMA DebitStep ==
    ASSUME PlacedInv, DebitInv, [WalletNext]_walletVars
    PROVE  DebitInv'
<1>1. WalletTypes
  BY DEF PlacedInv
<1>2. CASE Quiet
  <2>1. account' = account /\ \A s \in Sessions : op'[s] = op[s] /\ seen'[s] = seen[s]
                                                  /\ ref'[s] = ref[s]
    BY <1>2, QuietUntouched DEF Untouched
  <2>2. \A c \in Claims :
            \/ claims'[c] = claims[c]
            \/ claims[c] = "none" /\ claims'[c] = "pending"
    BY <1>1, <1>2 DEF Quiet, SubmitClaim, CreateSeries, UpdateSeries,
                      ArchiveSeries, walletVars, WalletTypes
  <2>3. \A s \in Sessions : op[s] \in {"fulfil", "decline"} => ref[s] \in Claims
    BY DEF PlacedInv, Placed
  <2> QED  BY <2>1, <2>2, <2>3, HasKept DEF DebitInv, Resolved
<1>3. ASSUME NEW s \in Sessions,
             \/ Begun(s) \/ CurrentBalance(s) \/ InsertEntry(s)
             \/ Evaluate(s) \/ Rollback(s)
      PROVE  DebitInv'
  <2>1. account' = account /\ claims' = claims
    BY <1>1, <1>3, AccountKept
  <2>2. \A u \in Sessions \ {s} : op'[u] = op[u] /\ seen'[u] = seen[u] /\ ref'[u] = ref[u]
    BY <1>1, <1>3, OthersUntouched DEF Untouched
  <2>3. op'[s] \in {"fulfil", "decline"} /\ seen'[s] \in Resolved
           => claims[ref'[s]] \in Resolved
    <3>1. CASE Begun(s)
      <4>1. PICK what, r, status, points :
                Begin(s, what, r, status, points) /\ Asked(what, r, status, points)
        BY <3>1 DEF Begun
      <4>2. op'[s] = what /\ ref'[s] = r /\ seen'[s] = status
        BY <1>1, <4>1 DEF Begin, WalletTypes
      <4> QED  BY <4>1, <4>2, TypesWritten DEF Asked
    <3>2. CASE CurrentBalance(s) \/ InsertEntry(s)
      BY <3>2 DEF CurrentBalance, InsertEntry, DebitInv
    <3>3. CASE Evaluate(s)
      <4>1. op[s] = "complete"
        BY <3>3 DEF Evaluate, PlacedInv, Placed
      <4>2. op'[s] \in {"complete", "bonus"}
        BY <1>1, <3>3, <4>1 DEF Evaluate, WalletTypes
      <4> QED  BY <4>2
    <3>4. CASE Rollback(s)
      BY <1>1, <3>4, CloseCloses DEF Rollback, Closed
    <3> QED  BY <1>3, <3>1, <3>2, <3>3, <3>4
  <2> QED  BY <2>1, <2>2, <2>3, HasKept DEF DebitInv
<1> QED  BY <1>1, <1>2, <1>3, DebitCommit, WalletSteps, Zenon

-----------------------------------------------------------------------------
(***************************************************************************)
(* How many entries there are, from whether there is one.                  *)
(***************************************************************************)
LEMMA PaidCounts ==
    ASSUME WalletTypes, NEW type, NEW r
    PROVE  /\ Paid(type, r) \in Nat
           /\ Paid(type, r) = 0 <=> ~ Has(type, r)
           /\ UniqueInv /\ r \in Tasks \cup {Window} /\ Has(type, r) => Paid(type, r) = 1
<1>1. IsFiniteSet(Of(account, type, r))
  <2>1. IsFiniteSet(DOMAIN account)
    <3>1. DOMAIN account = 1 .. Len(account) /\ Len(account) \in Nat
      BY DEF WalletTypes
    <3> QED  BY <3>1, FS_Interval
  <2>2. Of(account, type, r) \in SUBSET DOMAIN account
    BY DEF Of, Posted
  <2> QED  BY <2>1, <2>2, FS_Subset
<1>2. Of(account, type, r) = {} <=> ~ Has(type, r)
  BY DEF Of, Posted, Has
<1>3. ASSUME UniqueInv, r \in Tasks \cup {Window}, NEW k \in Of(account, type, r)
      PROVE  Paid(type, r) = 1
  <2>1. \A j \in Of(account, type, r) : j = k
    BY <1>3 DEF Of, Posted, UniqueInv, Same
  <2>2. Of(account, type, r) = {k}
    BY <1>3, <2>1
  <2> QED  BY <2>2, FS_Singleton DEF Paid
<1>4. Paid(type, r) \in Nat /\ (Paid(type, r) = 0 <=> Of(account, type, r) = {})
  BY <1>1, FS_EmptySet, FS_CardinalityType DEF Paid
<1> QED  BY <1>2, <1>3, <1>4

WalletInv == PlacedInv /\ UniqueInv /\ WindowInv /\ DebitInv

(***************************************************************************)
(* Together they are an invariant.                                         *)
(***************************************************************************)
LEMMA WalletInvAlways == WalletSpec => []WalletInv
<1>1. WalletInit => WalletInv
  <2> SUFFICES ASSUME WalletInit PROVE WalletInv
    OBVIOUS
  <2>1. \A type, r : ~ Has(type, r)
    BY DEF WalletInit, Has
  <2>2. WindowInv /\ DebitInv
    BY <2>1 DEF WalletInit, WindowInv, DebitInv, Resolved
  <2> QED  BY <2>2, PlacedInit, UniqueInit DEF WalletInv
<1>2. WalletInv /\ [WalletNext]_walletVars => WalletInv'
  BY PlacedStep, UniqueStep, WindowStep, DebitStep DEF WalletInv
<1> QED  BY <1>1, <1>2, PTL DEF WalletSpec

(***************************************************************************)
(* Whatever resolutions of whatever claims overlap, crash or are repeated: *)
(* a fulfilled claim has been debited, an unresolved one has not.          *)
(***************************************************************************)
THEOREM ClaimsAlwaysDebited == WalletSpec => []ClaimDebits
<1>1. WalletInv => ClaimDebits
  <2> SUFFICES ASSUME WalletInv, NEW c \in Claims
               PROVE  /\ claims[c] = "fulfilled" => Paid("claim_fulfilled", c) > 0
                      /\ claims[c] \in {"none", "pending"} => Paid("claim_fulfilled", c) = 0
    BY DEF ClaimDebits
  <2>1. Paid("claim_fulfilled", c) \in Nat
        /\ (Paid("claim_fulfilled", c) = 0 <=> ~ Has("claim_fulfilled", c))
    BY PaidCounts DEF WalletInv, PlacedInv
  <2>2. /\ claims[c] = "fulfilled" => Has("claim_fulfilled", c)
        /\ claims[c] \in {"none", "pending"} => ~ Has("claim_fulfilled", c)
    BY DEF WalletInv, DebitInv, Resolved
  <2> QED  BY <2>1, <2>2
<1> QED  BY <1>1, WalletInvAlways, PTL

(***************************************************************************)
(* For any number of tasks in the window and of sessions completing them:  *)
(* one bonus when the window is complete, and none before.                 *)
(***************************************************************************)
THEOREM BonusAlwaysWithWindow == WalletSpec => []BonusWithWindow
<1>1. WalletInv => BonusWithWindow
  <2> SUFFICES ASSUME WalletInv PROVE BonusWithWindow
    OBVIOUS
  <2>1. Paid("series_bonus", Window) = IF Has("series_bonus", Window) THEN 1 ELSE 0
    BY PaidCounts DEF WalletInv, PlacedInv
  <2> QED  BY <2>1 DEF WalletInv, WindowInv, BonusWithWindow
<1> QED  BY <1>1, WalletInvAlways, PTL
=============================================================================
