-------------------------- MODULE CloudBatchProofs --------------------------
(***************************************************************************)
(* Whatever commands run at once, and wherever they die, a batch record is *)
(* never better than what was published, and no item is published before   *)
(* what it depends on; the waves of a plan are sound for every graph; and  *)
(* while one command runs at a time, failures spread, settled items stay,  *)
(* an apply passes nothing over, one item at most is forgotten for each    *)
(* death, and a rollback restores: for any number of items, operators and  *)
(* commands.                                                               *)
(*                                                                         *)
(* Every command saves a copy of the record that it read earlier, so the   *)
(* invariant is about the copies too: an item is successful in a copy only *)
(* if its revision was written (ItemsTrue), which nothing takes back.      *)
(* While no two commands overlap it says more: what a copy and the record  *)
(* have in common at each label (Knows), and how far the waves have been   *)
(* worked through (Thorough).                                              *)
(***************************************************************************)
EXTENDS CloudBatchProps, SequenceTheorems, FiniteSetTheorems, WellFoundedInduction, TLAPS

Revs == [Items -> [parent: Items \cup {Root}, pver: Nat, ver: Nat]]

ItemsTrue(items, files) ==
    \A i \in Items :
        /\ items[i].app <= files[i].ver
        /\ items[i].status \in Success => 1 <= items[i].app

\* A loop stands in a wave, and at an item of it while it works on one.
InWave == {"wave", "group", "item", "resume_item", "done_item", "failed_item", "expect",
           "resumed_item"}
InItem == {"done_item", "failed_item", "expect", "resumed_item"}

\* What a command holds in memory, when these are the revision files.
HeldTrue(u, files) ==
    /\ ItemsTrue(u.rec.items, files)
    /\ u.pc \in InWave => u.waves # <<>>
    /\ u.pc \in InItem => Head(u.waves) # <<>>
    /\ u.pc \in {"done_item", "resumed_item"} => 1 <= u.rec.items[u.item].app
    /\ u.pc \in InItem => u.was <= files[u.item].ver
    /\ u.pc = "lock" => u.cmd \in Locked

PlanHasWaves == plan # NoPlan => plan.waves # <<>>

IInv ==
    /\ TypeOK
    /\ DependenciesFirst
    /\ StatusTruthful
    /\ ItemsTrue(rec.items, revs)
    /\ PlanHasWaves
    /\ \A w \in Operators : HeldTrue(wk[w], revs)

\* A batch whose dependencies are not those of a valid graph is not exported, and no
\* command runs.
Validated ==
    \/ ValidGraph(graph.deps)
    \/ rec = NoRecord /\ plan = NoPlan /\ \A w \in Operators : At(w, "idle")

PlanOfGraph == plan # NoPlan => plan.waves = Waves(graph.deps, graph.conflicts)

\* Revisions are written again, never taken back.
RevsGrow == revs' \in Revs /\ \A i \in Items : revs[i].ver <= revs'[i].ver

-----------------------------------------------------------------------------
(* Recursive functions *)

\* A set of numbers has a least one.
LEMMA LeastOne ==
    ASSUME NEW S \in SUBSET Nat, S # {}
    PROVE  \E n \in S : \A m \in S : n <= m
<1> DEFINE R == OpToRel(<, Nat)
<1>1. \E x \in S : \A y \in S : ~ (<<y, x>> \in R)
  <2>1. IsWellFoundedOn(R, Nat)
    BY NatLessThanWellFounded
  <2> HIDE DEF R
  <2> QED
    BY <2>1, WFMin
<1>2. \A x, y \in Nat : x < y => <<x, y>> \in R
  BY DEF OpToRel
<1>3. PICK x \in S : \A y \in S : ~ (<<y, x>> \in R)
  BY <1>1
<1>4. \A y \in S : ~(y < x)
  BY <1>2, <1>3
<1> HIDE DEF R
<1> QED
  BY <1>4

\* What holds of 0, and of a number when it holds of the one before, holds up to n.
LEMMA UpTo ==
    ASSUME NEW n \in Nat, NEW Good, 0 \in Good, \A k \in 1..n : k - 1 \in Good => k \in Good
    PROVE  \A k \in 0..n : k \in Good
<1> SUFFICES ASSUME NEW k \in 0..n, k \notin Good PROVE FALSE
  OBVIOUS
<1> DEFINE Bad == {j \in 0..n : j \notin Good}
<1>1. Bad \in SUBSET Nat /\ Bad # {}
  OBVIOUS
<1>2. PICK j \in Bad : \A m \in Bad : j <= m
  BY <1>1, LeastOne
<1>3. j # 0 /\ j \in 1..n
  BY <1>2
<1>4. j - 1 \notin Good
  BY <1>2, <1>3
<1>5. j - 1 \in Bad
  BY <1>3, <1>4
<1> QED
  BY <1>2, <1>3, <1>5

\* A function computed from 0 up to n, a step at a time, is defined.
Iterated(f, n, base, step) == f[0] = base /\ \A k \in 1..n : f[k] = step[<<k, f[k - 1]>>]

LEMMA IterationDefined ==
    ASSUME NEW V, NEW n \in Nat, NEW base \in V, NEW step \in [(1..n) \X V -> V]
    PROVE  \E f \in [0..n -> V] : Iterated(f, n, base, step)
<1> DEFINE Good == {k \in 0..n : \E f \in [0..k -> V] : Iterated(f, k, base, step)}
<1>1. 0 \in Good
  <2> DEFINE f == [k \in 0..0 |-> base]
  <2>1. f \in [0..0 -> V] /\ Iterated(f, 0, base, step)
    BY DEF Iterated
  <2> QED
    BY <2>1
<1>2. ASSUME NEW k \in 1..n, k - 1 \in Good PROVE k \in Good
  <2>1. PICK f \in [0..(k - 1) -> V] : Iterated(f, k - 1, base, step)
    BY <1>2
  <2> DEFINE g == [j \in 0..k |-> IF j = k THEN step[<<k, f[k - 1]>>] ELSE f[j]]
  <2>2. f[k - 1] \in V /\ step[<<k, f[k - 1]>>] \in V
    BY <2>1
  <2>3. \A j \in 0..k : j # k => j \in 0..(k - 1)
    OBVIOUS
  <2>4. g \in [0..k -> V]
    BY <2>2, <2>3
  <2>5. g[k] = step[<<k, f[k - 1]>>] /\ \A j \in 0..(k - 1) : g[j] = f[j]
    OBVIOUS
  <2> HIDE DEF g
  <2>6. ASSUME NEW j \in 1..k PROVE g[j] = step[<<j, g[j - 1]>>]
    <3>1. CASE j = k
      BY <2>5, <3>1
    <3>2. CASE j # k
      <4>1. j \in 1..(k - 1) /\ j - 1 \in 0..(k - 1) /\ j \in 0..(k - 1)
        BY <3>2
      <4> QED
        BY <2>1, <2>5, <4>1 DEF Iterated
    <3> QED
      BY <3>1, <3>2
  <2>7. Iterated(g, k, base, step)
    BY <2>1, <2>5, <2>6 DEF Iterated
  <2> QED
    BY <2>4, <2>7
<1> HIDE DEF Good
<1>3. n \in Good
  BY <1>1, <1>2, UpTo
<1> QED
  BY <1>3 DEF Good

-----------------------------------------------------------------------------
(* Sorted sequences of items *)

Increasing(s) == \A a, b \in DOMAIN s : a < b => s[a] < s[b]

LEMMA ItemsAre == N \in Nat /\ Items = 1..N /\ IsFiniteSet(Items) /\ Cardinality(Items) = N
BY BoundsAssumption, FS_Interval DEF Items

LEMMA FiniteItems ==
    ASSUME NEW S \in SUBSET Items
    PROVE  IsFiniteSet(S) /\ Cardinality(S) \in Nat /\ Cardinality(S) <= N
BY ItemsAre, FS_Subset, FS_CardinalityType

LEMMA SortedExists ==
    ASSUME NEW S \in SUBSET Items
    PROVE  \E s \in [1..Cardinality(S) -> S] : Increasing(s)
<1> DEFINE Good == {m \in 0..N : \A T \in SUBSET (1..m) : \E s \in [1..Cardinality(T) -> T] : Increasing(s)}
<1>1. 0 \in Good
  <2>1. \A T \in SUBSET (1..0) : T = {}
    OBVIOUS
  <2>2. [j \in 1..0 |-> 0] \in [1..Cardinality({}) -> {}] /\ Increasing([j \in 1..0 |-> 0])
    BY FS_EmptySet DEF Increasing
  <2>3. \A T \in SUBSET (1..0) : \E s \in [1..Cardinality(T) -> T] : Increasing(s)
    BY <2>1, <2>2
  <2> QED
    BY <2>3, ItemsAre
<1>2. ASSUME NEW m \in 1..N, m - 1 \in Good PROVE m \in Good
  <2> SUFFICES ASSUME NEW T \in SUBSET (1..m) PROVE \E s \in [1..Cardinality(T) -> T] : Increasing(s)
    OBVIOUS
  <2>1. CASE m \notin T
    <3>1. T \in SUBSET (1..(m - 1))
      BY <2>1
    <3> QED
      BY <1>2, <3>1
  <2>2. CASE m \in T
    <3> DEFINE U == T \ {m}
    <3>1. U \in SUBSET (1..(m - 1)) /\ U \in SUBSET Items /\ T = U \cup {m}
      BY <2>2, ItemsAre
    <3>2. PICK s \in [1..Cardinality(U) -> U] : Increasing(s)
      BY <1>2, <3>1
    <3>3. Cardinality(U) \in Nat /\ Cardinality(T) = Cardinality(U) + 1
      BY <3>1, FiniteItems, FS_AddElement
    <3> DEFINE n == Cardinality(U)
               t == [j \in 1..(n + 1) |-> IF j = n + 1 THEN m ELSE s[j]]
    <3> HIDE DEF U
    <3>4. \A j \in 1..n : s[j] \in U /\ s[j] < m /\ s[j] \in Nat
      <4>1. \A j \in 1..n : s[j] \in U
        BY <3>2
      <4>2. \A x \in U : x < m /\ x \in Nat
        <5>1. m \in Nat
          BY ItemsAre
        <5> QED
          BY <3>1, <5>1
      <4> QED
        BY <4>1, <4>2
    <3>5. t \in [1..Cardinality(T) -> T]
      <4>1. \A j \in 1..(n + 1) : (j = n + 1 => t[j] = m) /\ (j # n + 1 => j \in 1..n /\ t[j] = s[j])
        BY <3>3
      <4>2. \A j \in 1..(n + 1) : t[j] \in T
        BY <2>2, <3>1, <3>4, <4>1
      <4> QED
        BY <3>3, <4>2
    <3>6. Increasing(t)
      <4> SUFFICES ASSUME NEW a \in 1..(n + 1), NEW b \in 1..(n + 1), a < b PROVE t[a] < t[b]
        BY DEF Increasing
      <4>1. a \in 1..n /\ t[a] = s[a]
        BY <3>3
      <4>2. CASE b = n + 1
        BY <3>3, <3>4, <4>1, <4>2
      <4>3. CASE b # n + 1
        <5>1. b \in 1..n /\ t[b] = s[b]
          BY <3>3, <4>3
        <5> QED
          BY <3>2, <4>1, <5>1 DEF Increasing
      <4> QED
        BY <4>2, <4>3
    <3> QED
      BY <3>5, <3>6
  <2> QED
    BY <2>1, <2>2
<1> HIDE DEF Good
<1>3. N \in Good
  BY <1>1, <1>2, UpTo, ItemsAre
<1> QED
  BY <1>3, ItemsAre DEF Good

Distinct(s) == \A a, b \in DOMAIN s : s[a] = s[b] => a = b

\* A sequence without repetitions is as long as the set of what is in it.
LEMMA DistinctLen ==
    ASSUME NEW S \in SUBSET Items, NEW n \in Nat, NEW s \in [1..n -> S], Distinct(s)
    PROVE  n <= Cardinality(S) /\ (n = Cardinality(S) => ToSet(s) = S)
<1>1. s \in Injection(1..n, S)
  BY DEF Injection, IsInjective, Distinct
<1>2. IsFiniteSet(S) /\ Cardinality(1..n) = n
  BY FiniteItems, FS_Interval
<1>3. n <= Cardinality(S) /\ (n = Cardinality(S) => s \in Surjection(1..n, S))
  BY <1>1, <1>2, FS_Injection
<1>4. s \in Surjection(1..n, S) => ToSet(s) = S
  BY DEF Surjection, ToSet
<1> QED
  BY <1>3, <1>4

LEMMA SortedIs ==
    ASSUME NEW S \in SUBSET Items
    PROVE  /\ SortedSeq(S) \in Seq(Items) /\ Len(SortedSeq(S)) = Cardinality(S)
           /\ Distinct(SortedSeq(S)) /\ ToSet(SortedSeq(S)) = S
<1> DEFINE s == SortedSeq(S)
           n == Cardinality(S)
<1>1. s \in [1..n -> S] /\ Increasing(s)
  BY SortedExists DEF SortedSeq, Increasing
<1>2. n \in Nat
  BY FiniteItems
<1> HIDE DEF s, n
<1>3. s \in Seq(Items) /\ Len(s) = n
  BY <1>1, <1>2
<1>4. Distinct(s)
  <2> SUFFICES ASSUME NEW a \in 1..n, NEW b \in 1..n, a < b PROVE s[a] # s[b]
    BY <1>1, <1>2 DEF Distinct
  <2>1. s[a] < s[b] /\ s[a] \in S /\ s[b] \in S
    BY <1>1, <1>2 DEF Increasing
  <2>2. \A x \in Items : x \in Nat
    BY ItemsAre
  <2>3. s[a] \in Nat /\ s[b] \in Nat
    BY <2>1, <2>2
  <2> QED
    BY <2>1, <2>3
<1>5. ToSet(s) = S
  BY <1>1, <1>2, <1>4, DistinctLen DEF n
<1> QED
  BY <1>3, <1>4, <1>5 DEF s, n

LEMMA InSet ==
    ASSUME NEW S, NEW s \in Seq(S)
    PROVE  ToSet(s) \in SUBSET S /\ \A x : x \in ToSet(s) <=> \E a \in 1..Len(s) : s[a] = x
BY DEF ToSet

LEMMA AppendSet ==
    ASSUME NEW S, NEW s \in Seq(S), NEW e \in S
    PROVE  /\ ToSet(Append(s, e)) = ToSet(s) \cup {e}
           /\ Distinct(s) /\ e \notin ToSet(s) => Distinct(Append(s, e))
<1> DEFINE t == Append(s, e)
           n == Len(s)
<1>1. /\ t \in Seq(S) /\ Len(t) = n + 1 /\ n \in Nat
      /\ \A a \in 1..n : t[a] = s[a]
      /\ t[n + 1] = e
  BY AppendProperties
<1>2. DOMAIN t = 1..(n + 1) /\ DOMAIN s = 1..n
  BY <1>1
<1> HIDE DEF t, n
<1>3. \A a \in 1..(n + 1) : a = n + 1 \/ a \in 1..n
  BY <1>1
<1>4. \A a \in 1..n : a \in 1..(n + 1) /\ n + 1 \in 1..(n + 1)
  BY <1>1
<1>5. n + 1 \in 1..(n + 1)
  BY <1>1
<1>6. ToSet(t) = ToSet(s) \cup {e}
  BY <1>1, <1>2, <1>3, <1>4, <1>5 DEF ToSet
<1>7. Distinct(s) /\ e \notin ToSet(s) => Distinct(t)
  BY <1>1, <1>2, <1>3 DEF Distinct, ToSet
<1> QED
  BY <1>6, <1>7 DEF t

LEMMA ConcatSet ==
    ASSUME NEW S, NEW s \in Seq(S), NEW t \in Seq(S)
    PROVE  /\ ToSet(s \o t) = ToSet(s) \cup ToSet(t)
           /\ Distinct(s) /\ Distinct(t) /\ ToSet(s) \cap ToSet(t) = {} => Distinct(s \o t)
<1> DEFINE u == s \o t
           m == Len(s)
           n == Len(t)
<1>1. /\ u \in Seq(S) /\ Len(u) = m + n /\ m \in Nat /\ n \in Nat
      /\ \A a \in 1..(m + n) : u[a] = IF a <= m THEN s[a] ELSE t[a - m]
  BY ConcatProperties
<1>2. DOMAIN u = 1..(m + n) /\ DOMAIN s = 1..m /\ DOMAIN t = 1..n
  BY <1>1
<1> HIDE DEF u, m, n
<1>3. \A a \in 1..(m + n) : \/ (a \in 1..m /\ u[a] = s[a])
                            \/ (a - m \in 1..n /\ a > m /\ u[a] = t[a - m])
  BY <1>1
<1>4. /\ \A a \in 1..m : a \in 1..(m + n) /\ u[a] = s[a]
      /\ \A a \in 1..n : a + m \in 1..(m + n) /\ u[a + m] = t[a]
  <2>1. \A a \in 1..n : a + m \in 1..(m + n) /\ ~(a + m <= m) /\ (a + m) - m = a
    BY <1>1
  <2> QED
    BY <1>1, <2>1
<1>5. ToSet(u) = ToSet(s) \cup ToSet(t)
  BY <1>2, <1>3, <1>4 DEF ToSet
<1>6. ASSUME Distinct(s), Distinct(t), ToSet(s) \cap ToSet(t) = {} PROVE Distinct(u)
  <2> SUFFICES ASSUME NEW a \in 1..(m + n), NEW b \in 1..(m + n), u[a] = u[b] PROVE a = b
    BY <1>2 DEF Distinct
  <2>1. CASE a \in 1..m /\ u[a] = s[a]
    <3>1. u[a] \in ToSet(s)
      BY <1>2, <2>1 DEF ToSet
    <3>2. b \in 1..m /\ u[b] = s[b]
      BY <1>2, <1>3, <1>6, <3>1 DEF ToSet
    <3> QED
      BY <1>2, <1>6, <2>1, <3>2 DEF Distinct
  <2>2. CASE a - m \in 1..n /\ a > m /\ u[a] = t[a - m]
    <3>1. u[a] \in ToSet(t)
      BY <1>2, <2>2 DEF ToSet
    <3>2. b - m \in 1..n /\ u[b] = t[b - m]
      BY <1>2, <1>3, <1>6, <3>1 DEF ToSet
    <3>3. a - m = b - m
      BY <1>2, <1>6, <2>2, <3>2 DEF Distinct
    <3> QED
      BY <1>1, <3>3
  <2> QED
    BY <1>3, <2>1, <2>2
<1> QED
  BY <1>5, <1>6 DEF u

LEMMA TailSet ==
    ASSUME NEW S, NEW s \in Seq(S), s # <<>>, Distinct(s)
    PROVE  /\ Head(s) \in ToSet(s) /\ ToSet(Tail(s)) = ToSet(s) \ {Head(s)}
           /\ Distinct(Tail(s))
<1> DEFINE t == Tail(s)
           n == Len(t)
<1>1. /\ t \in Seq(S) /\ Len(s) = n + 1 /\ n \in Nat /\ Head(s) = s[1]
      /\ \A a \in 1..n : t[a] = s[a + 1]
  BY HeadTailProperties, EmptySeq
<1>2. DOMAIN s = 1..(n + 1) /\ DOMAIN t = 1..n
  BY <1>1
<1> HIDE DEF t, n
<1>3. \A a \in 1..(n + 1) : a = 1 \/ (a - 1 \in 1..n /\ s[a] = t[a - 1])
  BY <1>1
<1>4. \A a \in 1..n : a + 1 \in 1..(n + 1) /\ a + 1 # 1
  BY <1>1
<1>5. 1 \in 1..(n + 1)
  BY <1>1
<1>6. ToSet(t) = ToSet(s) \ {s[1]}
  <2>1. \A a \in 1..n : s[a + 1] # s[1]
    BY <1>2, <1>4, <1>5 DEF Distinct
  <2>2. ToSet(t) \subseteq ToSet(s) \ {s[1]}
    BY <1>1, <1>2, <1>4, <2>1 DEF ToSet
  <2>3. ToSet(s) \ {s[1]} \subseteq ToSet(t)
    BY <1>2, <1>3 DEF ToSet
  <2> QED
    BY <2>2, <2>3
<1>7. Distinct(t)
  <2> SUFFICES ASSUME NEW a \in 1..n, NEW b \in 1..n, t[a] = t[b] PROVE a = b
    BY <1>2 DEF Distinct
  <2>1. a + 1 = b + 1
    BY <1>1, <1>2, <1>4 DEF Distinct
  <2> QED
    BY <1>1, <2>1
<1> QED
  BY <1>1, <1>2, <1>5, <1>6, <1>7 DEF t, ToSet

-----------------------------------------------------------------------------
(* The topological order *)

States == [ready: Seq(Items), remaining: [Items -> SUBSET Items], order: Seq(Items)]

\* Every item comes after what it depends on.
Ordered(deps, order) ==
    \A b \in DOMAIN order : \A d \in deps[order[b]] : \E a \in DOMAIN order : a < b /\ order[a] = d

OrderInv(deps, s) ==
    /\ Distinct(s.ready) /\ Distinct(s.order)
    /\ ToSet(s.ready) \cap ToSet(s.order) = {}
    /\ \A i \in Items : s.remaining[i] = deps[i] \ ToSet(s.order)
    /\ \A i \in Items : i \in ToSet(s.ready) \cup ToSet(s.order) <=> deps[i] \subseteq ToSet(s.order)
    /\ Ordered(deps, s.order)

LEMMA FirstReadyIs ==
    ASSUME NEW deps \in [Items -> SUBSET Items]
    PROVE  FirstReady(deps) \in States /\ OrderInv(deps, FirstReady(deps))
<1> DEFINE roots == {i \in Items : deps[i] = {}}
           s == FirstReady(deps)
<1>1. /\ SortedSeq(roots) \in Seq(Items) /\ Distinct(SortedSeq(roots)) /\ ToSet(SortedSeq(roots)) = roots
  BY SortedIs
<1>2. s.ready = SortedSeq(roots) /\ s.remaining = deps /\ s.order = <<>> /\ s \in States
  BY <1>1 DEF FirstReady, States
<1>3. ToSet(<<>>) = {} /\ Distinct(<<>>) /\ Ordered(deps, <<>>)
  BY DEF ToSet, Distinct, Ordered
<1> HIDE DEF s
<1> QED
  BY <1>1, <1>2, <1>3 DEF OrderInv, s

LEMMA OrderedAppend ==
    ASSUME NEW deps, NEW order \in Seq(Items), Ordered(deps, order), NEW i \in Items,
           deps[i] \subseteq ToSet(order)
    PROVE  Ordered(deps, Append(order, i))
<1> DEFINE t == Append(order, i)
           n == Len(order)
<1>1. /\ t \in Seq(Items) /\ Len(t) = n + 1 /\ n \in Nat
      /\ \A a \in 1..n : t[a] = order[a]
      /\ t[n + 1] = i
  BY AppendProperties
<1>2. DOMAIN t = 1..(n + 1) /\ DOMAIN order = 1..n
  BY <1>1
<1> HIDE DEF t, n
<1> SUFFICES ASSUME NEW b \in 1..(n + 1), NEW d \in deps[t[b]]
             PROVE  \E a \in 1..(n + 1) : a < b /\ t[a] = d
  BY <1>2 DEF Ordered, t
<1>3. CASE b = n + 1
  <2>1. PICK a \in 1..n : order[a] = d
    BY <1>1, <1>2, <1>3 DEF ToSet
  <2> QED
    BY <1>1, <1>3, <2>1
<1>4. CASE b # n + 1
  <2>1. b \in 1..n /\ t[b] = order[b]
    BY <1>1, <1>4
  <2>2. PICK a \in 1..n : a < b /\ order[a] = d
    BY <1>2, <2>1 DEF Ordered
  <2> QED
    BY <1>1, <2>2
<1> QED
  BY <1>3, <1>4

LEMMA VisitIs ==
    ASSUME NEW deps \in [Items -> SUBSET Items], NEW s \in States
    PROVE  /\ Visit(deps, s) \in States
           /\ OrderInv(deps, s) => OrderInv(deps, Visit(deps, s))
<1>1. CASE s.ready = <<>>
  BY <1>1 DEF Visit
<1>2. CASE s.ready # <<>>
  <2> DEFINE node == Head(s.ready)
             remaining == [i \in Items |-> s.remaining[i] \ {node}]
             freed == {i \in Items : node \in deps[i] /\ remaining[i] = {}}
             ready == Tail(s.ready) \o SortedSeq(freed)
             order == Append(s.order, node)
  <2>1. Visit(deps, s) = [ready |-> ready, remaining |-> remaining, order |-> order]
    BY <1>2 DEF Visit
  <2>2. s.ready \in Seq(Items) /\ s.remaining \in [Items -> SUBSET Items] /\ s.order \in Seq(Items)
    BY DEF States
  <2>3. node \in Items /\ Tail(s.ready) \in Seq(Items)
    BY <1>2, <2>2, HeadTailProperties
  <2>4. /\ SortedSeq(freed) \in Seq(Items) /\ Distinct(SortedSeq(freed)) /\ ToSet(SortedSeq(freed)) = freed
    BY SortedIs
  <2> HIDE DEF node, freed
  <2>5. ready \in Seq(Items) /\ order \in Seq(Items)
    BY <2>2, <2>3, <2>4, ConcatProperties, AppendProperties
  <2>6. remaining \in [Items -> SUBSET Items] /\ \A i \in Items : remaining[i] = s.remaining[i] \ {node}
    BY <2>2
  <2> HIDE DEF ready, order, remaining
  <2>7. Visit(deps, s) \in States
    BY <2>1, <2>5, <2>6 DEF States
  <2>8. ASSUME OrderInv(deps, s) PROVE OrderInv(deps, [ready |-> ready, remaining |-> remaining, order |-> order])
    <3>1. /\ node \in ToSet(s.ready) /\ ToSet(Tail(s.ready)) = ToSet(s.ready) \ {node}
          /\ Distinct(Tail(s.ready))
      BY <1>2, <2>2, <2>8, TailSet DEF node, OrderInv
    <3>2. ToSet(order) = ToSet(s.order) \cup {node} /\ Distinct(order)
      BY <2>2, <2>3, <2>8, <3>1, AppendSet DEF order, OrderInv
    <3>3. \A i \in Items : remaining[i] = deps[i] \ ToSet(order)
      BY <2>6, <2>8, <3>2 DEF OrderInv
    <3>4. freed = {i \in Items : node \in deps[i] /\ remaining[i] = {}}
      BY DEF freed, remaining
    <3>5. freed \cap (ToSet(s.ready) \cup ToSet(s.order)) = {}
      BY <2>8, <3>1, <3>4 DEF OrderInv
    <3>6. ToSet(ready) = (ToSet(s.ready) \ {node}) \cup freed /\ Distinct(ready)
      <4>1. ToSet(Tail(s.ready)) \cap ToSet(SortedSeq(freed)) = {}
        BY <2>4, <3>1, <3>5
      <4>2. /\ ToSet(ready) = ToSet(Tail(s.ready)) \cup ToSet(SortedSeq(freed))
            /\ Distinct(ready)
        BY <2>3, <2>4, <3>1, <4>1, ConcatSet DEF ready
      <4> QED
        BY <2>4, <3>1, <4>2
    <3>7. ToSet(ready) \cap ToSet(order) = {}
      BY <2>8, <3>1, <3>2, <3>5, <3>6 DEF OrderInv
    <3>8. \A i \in Items : i \in ToSet(ready) \cup ToSet(order) <=> deps[i] \subseteq ToSet(order)
      <4> SUFFICES ASSUME NEW i \in Items
                   PROVE  i \in ToSet(ready) \cup ToSet(order) <=> deps[i] \subseteq ToSet(order)
        OBVIOUS
      <4>1. i \in ToSet(ready) \cup ToSet(order) <=> i \in ToSet(s.ready) \cup ToSet(s.order) \cup freed
        BY <3>1, <3>2, <3>6
      <4>2. i \in ToSet(s.ready) \cup ToSet(s.order) <=> deps[i] \subseteq ToSet(s.order)
        BY <2>8 DEF OrderInv
      <4>3. i \in freed <=> node \in deps[i] /\ deps[i] \subseteq ToSet(order)
        BY <3>3, <3>4
      <4> QED
        BY <3>2, <4>1, <4>2, <4>3
    <3>9. Ordered(deps, order)
      <4>1. deps[node] \subseteq ToSet(s.order)
        BY <2>3, <2>8, <3>1 DEF OrderInv
      <4> QED
        BY <2>2, <2>3, <2>8, <4>1, OrderedAppend DEF OrderInv, order
    <3> QED
      BY <3>2, <3>3, <3>6, <3>7, <3>8, <3>9 DEF OrderInv
  <2> QED
    BY <2>1, <2>7, <2>8
<1> QED
  BY <1>1, <1>2

\* batch_dependency_topological_order, turn by turn.
LEMMA TurnByTurn ==
    ASSUME NEW deps \in [Items -> SUBSET Items]
    PROVE  \E after \in [0..N -> States] :
              /\ after[0] = FirstReady(deps)
              /\ \A k \in 1..N : after[k] = Visit(deps, after[k - 1])
              /\ TopologicalOrder(deps) = after[N].order
<1> DEFINE base == FirstReady(deps)
           step == [p \in (1..N) \X States |-> Visit(deps, p[2])]
           Body(f) == [n \in 0..N |-> IF n = 0 THEN FirstReady(deps) ELSE Visit(deps, f[n - 1])]
           after == CHOOSE f : f = Body(f)
<1>1. N \in Nat /\ DOMAIN deps = Items /\ Cardinality(DOMAIN deps) = N
  BY ItemsAre
<1>2. base \in States /\ step \in [(1..N) \X States -> States]
  BY FirstReadyIs, VisitIs
<1>3. \A k \in 1..N, s \in States : step[<<k, s>>] = Visit(deps, s)
  OBVIOUS
<1> HIDE DEF base, step
<1>4. PICK f \in [0..N -> States] : Iterated(f, N, base, step)
  BY <1>1, <1>2, IterationDefined
<1>5. \A k \in 1..N : k - 1 \in 0..N /\ f[k - 1] \in States /\ f[k] = Visit(deps, f[k - 1])
  <2>1. \A k \in 1..N : k - 1 \in 0..N
    BY <1>1
  <2> QED
    BY <1>3, <1>4, <2>1 DEF Iterated
<1>6. f[0] = FirstReady(deps)
  BY <1>4 DEF Iterated, base
<1>7. f = Body(f)
  BY <1>1, <1>5, <1>6
<1>8. after = Body(after)
  BY <1>7
<1>9. TopologicalOrder(deps) = after[N].order
  BY <1>1 DEF TopologicalOrder
<1> HIDE DEF after
<1>10. after[0] = FirstReady(deps) /\ \A k \in 1..N : after[k] = Visit(deps, after[k - 1])
  BY <1>1, <1>8
<1>11. after \in [0..N -> States]
  <2> DEFINE Good == {k \in 0..N : after[k] \in States}
  <2>1. 0 \in Good
    BY <1>1, <1>10, FirstReadyIs
  <2>2. \A k \in 1..N : k - 1 \in Good => k \in Good
    BY <1>10, VisitIs
  <2> HIDE DEF Good
  <2>3. \A k \in 0..N : k \in Good
    BY <1>1, <2>1, <2>2, UpTo
  <2> QED
    BY <1>8, <2>3 DEF Good
<1> QED
  BY <1>9, <1>10, <1>11

\* No item is ordered twice, and each comes after what it depends on; the order of a
\* valid graph has all of them.
LEMMA OrderSound ==
    ASSUME NEW deps \in [Items -> SUBSET Items]
    PROVE  LET order == TopologicalOrder(deps) IN
           /\ order \in Seq(Items) /\ Distinct(order) /\ Ordered(deps, order)
           /\ ValidGraph(deps) => Len(order) = N /\ ToSet(order) = Items
<1>1. PICK after \in [0..N -> States] :
              /\ after[0] = FirstReady(deps)
              /\ \A k \in 1..N : after[k] = Visit(deps, after[k - 1])
              /\ TopologicalOrder(deps) = after[N].order
  BY TurnByTurn
<1> DEFINE Good == {k \in 0..N : OrderInv(deps, after[k])}
<1>2. 0 \in Good
  BY <1>1, FirstReadyIs, ItemsAre
<1>3. ASSUME NEW k \in 1..N, k - 1 \in Good PROVE k \in Good
  BY <1>1, <1>3, VisitIs
<1>4. OrderInv(deps, after[N])
  <2> HIDE DEF Good
  <2>1. N \in Good
    BY <1>2, <1>3, UpTo, ItemsAre
  <2> QED
    BY <2>1 DEF Good
<1> DEFINE order == TopologicalOrder(deps)
<1>5. order \in Seq(Items) /\ Distinct(order) /\ Ordered(deps, order)
  BY <1>1, <1>4, ItemsAre DEF OrderInv, States
<1>6. ASSUME ValidGraph(deps) PROVE Len(order) = N /\ ToSet(order) = Items
  <2>1. Len(order) = N
    BY <1>6, ItemsAre DEF ValidGraph
  <2>2. order \in [1..N -> Items]
    BY <1>5, <2>1
  <2> QED
    BY <1>5, <2>1, <2>2, DistinctLen, ItemsAre
<1> QED
  BY <1>5, <1>6

-----------------------------------------------------------------------------
(* Waves laid end to end *)

\* g[k] is the first k waves, end to end.
EndToEnd(L, g) ==
    /\ g \in [0..Len(L) -> Seq(Items)]
    /\ g[0] = <<>>
    /\ \A k \in 1..Len(L) : g[k] = g[k - 1] \o L[k]
    /\ FlattenSeq(L) = g[Len(L)]

LEMMA FlattenIs ==
    ASSUME NEW L \in Seq(Seq(Items))
    PROVE  \E g : EndToEnd(L, g)
<1> DEFINE n == Len(L)
           step == [p \in (1..n) \X Seq(Items) |-> p[2] \o L[p[1]]]
           Body(f) == [k \in 1..n |-> IF k = 1 THEN L[k] ELSE f[k - 1] \o L[k]]
           flat == CHOOSE f : f = Body(f)
<1>1. n \in Nat /\ \A k \in 1..n : L[k] \in Seq(Items)
  OBVIOUS
<1>2. step \in [(1..n) \X Seq(Items) -> Seq(Items)]
  <2>1. \A k \in 1..n, s \in Seq(Items) : s \o L[k] \in Seq(Items)
    BY <1>1, ConcatProperties
  <2> HIDE DEF n
  <2> QED
    BY <2>1
<1>3. \A k \in 1..n, s \in Seq(Items) : step[<<k, s>>] = s \o L[k]
  OBVIOUS
<1> HIDE DEF step
<1>4. <<>> \in Seq(Items)
  BY EmptySeq
<1>5. PICK f \in [0..n -> Seq(Items)] : Iterated(f, n, <<>>, step)
  BY <1>1, <1>2, <1>4, IterationDefined
<1>6. f[0] = <<>> /\ \A k \in 1..n : k - 1 \in 0..n /\ f[k] = f[k - 1] \o L[k]
  <2>1. \A k \in 1..n : k - 1 \in 0..n
    BY <1>1
  <2> QED
    BY <1>3, <1>5, <2>1 DEF Iterated
<1>7. CASE n = 0
  <2>1. L = <<>>
    BY <1>7, EmptySeq
  <2>2. FlattenSeq(L) = <<>>
    BY <1>7, <2>1 DEF FlattenSeq
  <2> QED
    BY <1>5, <1>6, <1>7, <2>2 DEF EndToEnd
<1>8. CASE n # 0
  <2> DEFINE h == [k \in 1..n |-> f[k]]
  <2>1. \A k \in 1..n : h[k] = IF k = 1 THEN L[k] ELSE h[k - 1] \o L[k]
    <3> SUFFICES ASSUME NEW k \in 1..n PROVE h[k] = IF k = 1 THEN L[k] ELSE h[k - 1] \o L[k]
      OBVIOUS
    <3>1. CASE k = 1
      <4>1. <<>> \o L[k] = L[k]
        BY <1>1, ConcatEmptySeq
      <4>2. k - 1 = 0
        BY <3>1
      <4>3. f[k] = <<>> \o L[k]
        BY <1>6, <4>2
      <4> QED
        BY <3>1, <4>1, <4>3
    <3>2. CASE k # 1
      <4>1. k - 1 \in 1..n
        BY <1>1, <3>2
      <4> QED
        BY <1>6, <3>2, <4>1
    <3> QED
      BY <3>1, <3>2
  <2>2. h = Body(h)
    <3> HIDE DEF h
    <3>1. h = [k \in 1..n |-> h[k]]
      BY DEF h
    <3> QED
      BY <2>1, <3>1
  <2>3. flat = Body(flat)
    <3> HIDE DEF h
    <3> QED
      BY <2>2
  <2>4. FlattenSeq(L) = flat[n]
    BY <1>8 DEF FlattenSeq
  <2> HIDE DEF flat, h
  <2> DEFINE g == [k \in 0..n |-> IF k = 0 THEN <<>> ELSE flat[k]]
  <2>5. g[0] = <<>> /\ g[n] = FlattenSeq(L) /\ \A k \in 1..n : g[k] = flat[k] /\ k - 1 \in 0..n
    BY <1>1, <1>8, <2>4
  <2>6. \A k \in 1..n : g[k] = g[k - 1] \o L[k]
    <3> SUFFICES ASSUME NEW k \in 1..n PROVE g[k] = g[k - 1] \o L[k]
      OBVIOUS
    <3>1. CASE k = 1
      <4>1. <<>> \o L[k] = L[k]
        BY <1>1, ConcatEmptySeq
      <4>2. k - 1 = 0
        BY <3>1
      <4>3. flat[k] = L[k]
        BY <2>3, <3>1
      <4> QED
        BY <2>5, <4>1, <4>2, <4>3
    <3>2. CASE k # 1
      <4>1. k - 1 \in 1..n
        BY <1>1, <3>2
      <4> QED
        BY <2>3, <2>5, <3>2, <4>1
    <3> QED
      BY <3>1, <3>2
  <2>7. g \in [0..n -> Seq(Items)]
    <3> DEFINE Good == {k \in 0..n : g[k] \in Seq(Items)}
    <3>1. 0 \in Good
      BY <1>1, <1>4, <2>5
    <3>2. ASSUME NEW k \in 1..n, k - 1 \in Good PROVE k \in Good
      <4>1. g[k - 1] \in Seq(Items) /\ L[k] \in Seq(Items) /\ g[k] = g[k - 1] \o L[k]
        BY <1>1, <2>6, <3>2
      <4> HIDE DEF g
      <4>2. g[k] \in Seq(Items)
        BY <4>1, ConcatProperties
      <4> QED
        BY <1>1, <4>2
    <3> HIDE DEF Good
    <3>3. \A k \in 0..n : k \in Good
      BY <1>1, <3>1, <3>2, UpTo
    <3> QED
      BY <3>3 DEF Good
  <2> HIDE DEF g
  <2> QED
    BY <2>5, <2>6, <2>7 DEF EndToEnd
<1> QED
  BY <1>7, <1>8

\* What the first k waves hold.
Covered(L, k) == UNION {ToSet(L[l]) : l \in 1..k}

LEMMA FlattenCovers ==
    ASSUME NEW L \in Seq(Seq(Items)), NEW g, EndToEnd(L, g)
    PROVE  /\ \A k \in 0..Len(L) : ToSet(g[k]) = Covered(L, k)
           /\ ToSet(FlattenSeq(L)) = Covered(L, Len(L))
<1> DEFINE n == Len(L)
           Good == {k \in 0..n : ToSet(g[k]) = Covered(L, k)}
<1>1. n \in Nat /\ \A k \in 1..n : L[k] \in Seq(Items) /\ k - 1 \in 0..n /\ g[k - 1] \in Seq(Items)
  <2>1. n \in Nat /\ \A k \in 1..n : k - 1 \in 0..n /\ L[k] \in Seq(Items)
    OBVIOUS
  <2> QED
    BY <2>1 DEF EndToEnd
<1>2. 0 \in Good
  <2>1. ToSet(<<>>) = {} /\ 1..0 = {}
    BY DEF ToSet
  <2> QED
    BY <1>1, <2>1 DEF EndToEnd, Covered
<1>3. ASSUME NEW k \in 1..n, k - 1 \in Good PROVE k \in Good
  <2>1. ToSet(g[k]) = ToSet(g[k - 1]) \cup ToSet(L[k])
    <3>1. g[k] = g[k - 1] \o L[k]
      BY DEF EndToEnd
    <3> QED
      BY <1>1, <3>1, ConcatSet
  <2>2. 1..k = 1..(k - 1) \cup {k}
    BY <1>1
  <2>3. Covered(L, k) = Covered(L, k - 1) \cup ToSet(L[k])
    BY <2>2 DEF Covered
  <2>4. k \in 0..n
    BY <1>1
  <2> HIDE DEF n
  <2> QED
    BY <1>3, <2>1, <2>3, <2>4
<1> HIDE DEF Good
<1>4. \A k \in 0..n : k \in Good
  BY <1>1, <1>2, <1>3, UpTo
<1>5. \A k \in 0..n : ToSet(g[k]) = Covered(L, k)
  BY <1>4 DEF Good
<1>6. n \in 0..n /\ FlattenSeq(L) = g[n]
  BY <1>1 DEF EndToEnd
<1> QED
  BY <1>5, <1>6

\* L with item i put at the end of its wave m, or in a new wave after the others.
Grown(L, M, m, i) ==
    /\ M \in Seq(Seq(Items)) /\ m \in 1..Len(M)
    /\ Len(M) = IF m <= Len(L) THEN Len(L) ELSE Len(L) + 1
    /\ \A l \in 1..Len(M) : l # m => l <= Len(L) /\ M[l] = L[l]
    /\ M[m] = IF m <= Len(L) THEN Append(L[m], i) ELSE <<i>>

\* s and t sum up a and b, and b is more than a by one, at m.
Summed(n, a, s) ==
    /\ a \in [1..n -> Nat] /\ s \in [0..n -> Nat] /\ s[0] = 0
    /\ \A k \in 1..n : s[k] = s[k - 1] + a[k]

OneMore(n, p, m, a, b) ==
    /\ p = IF m <= n THEN n ELSE n + 1
    /\ \A l \in 1..p : l # m => l \in 1..n /\ b[l] = a[l]
    /\ b[m] = IF m <= n THEN a[m] + 1 ELSE 1

LEMMA SumsGrow ==
    ASSUME NEW n \in Nat, NEW p \in Nat, NEW m \in 1..p, NEW a, NEW b, NEW s, NEW t,
           Summed(n, a, s), Summed(p, b, t), OneMore(n, p, m, a, b)
    PROVE  t[p] = s[n] + 1
<1> USE DEF Summed, OneMore
<1> DEFINE Good == {k \in 0..n : t[k] = IF k >= m THEN s[k] + 1 ELSE s[k]}
<1>1. 0 \in Good
  OBVIOUS
<1>2. ASSUME NEW k \in 1..n, k - 1 \in Good PROVE k \in Good
  <2>1. k \in 1..p /\ k - 1 \in 0..n /\ k - 1 \in 0..p
    OBVIOUS
  <2>2. s[k] = s[k - 1] + a[k] /\ t[k] = t[k - 1] + b[k]
    BY <2>1
  <2>3. s[k - 1] \in Nat /\ t[k - 1] \in Nat /\ a[k] \in Nat /\ b[k] \in Nat
    BY <2>1
  <2>4. t[k - 1] = IF k - 1 >= m THEN s[k - 1] + 1 ELSE s[k - 1]
    BY <1>2
  <2>5. CASE k = m
    <3>1. b[k] = a[k] + 1 /\ ~(k - 1 >= m) /\ k >= m
      BY <2>5
    <3>2. t[k] = s[k] + 1
      BY <2>2, <2>3, <2>4, <3>1
    <3> QED
      BY <3>1, <3>2
  <2>6. CASE k # m
    <3>1. b[k] = a[k] /\ (k - 1 >= m <=> k >= m)
      BY <2>1, <2>6
    <3>2. t[k] = IF k >= m THEN s[k] + 1 ELSE s[k]
      BY <2>2, <2>3, <2>4, <3>1
    <3> QED
      BY <3>2
  <2> QED
    BY <2>5, <2>6
<1> HIDE DEF Good
<1>3. \A k \in 0..n : k \in Good
  BY <1>1, <1>2, UpTo
<1>4. t[n] = IF n >= m THEN s[n] + 1 ELSE s[n]
  <2>1. n \in Good
    BY <1>3
  <2> QED
    BY <2>1 DEF Good
<1>5. CASE m <= n
  BY <1>4, <1>5
<1>6. CASE ~(m <= n)
  <2>1. p = n + 1 /\ m = p /\ p - 1 = n /\ p \in 1..p
    BY <1>6
  <2>2. t[p] = t[n] + b[p] /\ b[p] = 1
    BY <1>6, <2>1
  <2> QED
    BY <1>4, <1>6, <2>2
<1> QED
  BY <1>5, <1>6

\* The lengths of the waves end to end.
LEMMA FlattenLen ==
    ASSUME NEW L \in Seq(Seq(Items)), NEW g, EndToEnd(L, g)
    PROVE  LET n == Len(L)
               a == [k \in 1..n |-> Len(L[k])]
               s == [k \in 0..n |-> Len(g[k])]
           IN Summed(n, a, s) /\ Len(FlattenSeq(L)) = s[n]
<1> DEFINE n == Len(L)
<1>1. n \in Nat /\ \A k \in 1..n : k - 1 \in 0..n /\ k \in 0..n /\ L[k] \in Seq(Items)
  OBVIOUS
<1>2. /\ g \in [0..n -> Seq(Items)] /\ g[0] = <<>> /\ \A k \in 1..n : g[k] = g[k - 1] \o L[k]
      /\ FlattenSeq(L) = g[n]
  BY DEF EndToEnd
<1> HIDE DEF n
<1>3. \A k \in 0..n : Len(g[k]) \in Nat
  BY <1>2, LenProperties
<1>4. \A k \in 1..n : Len(L[k]) \in Nat
  BY <1>1, LenProperties
<1>5. ASSUME NEW k \in 1..n PROVE Len(g[k]) = Len(g[k - 1]) + Len(L[k])
  <2>1. g[k - 1] \in Seq(Items) /\ L[k] \in Seq(Items) /\ g[k] = g[k - 1] \o L[k]
    BY <1>1, <1>2
  <2> QED
    BY <2>1, ConcatProperties
<1>6. Len(g[0]) = 0 /\ 0 \in 0..n /\ n \in 0..n
  BY <1>1, <1>2, EmptySeq
<1> DEFINE a == [k \in 1..n |-> Len(L[k])]
           s == [k \in 0..n |-> Len(g[k])]
<1>7. a \in [1..n -> Nat] /\ s \in [0..n -> Nat] /\ s[0] = 0 /\ Len(FlattenSeq(L)) = s[n]
  BY <1>2, <1>3, <1>4, <1>6
<1>8. \A k \in 1..n : s[k] = s[k - 1] + a[k]
  BY <1>1, <1>5
<1> QED
  BY <1>7, <1>8 DEF n, Summed

\* One more item is one more element, wherever it goes.
LEMMA FlattenGrows ==
    ASSUME NEW L \in Seq(Seq(Items)), NEW i \in Items, NEW M, NEW m, Grown(L, M, m, i)
    PROVE  /\ Len(FlattenSeq(M)) = Len(FlattenSeq(L)) + 1
           /\ ToSet(FlattenSeq(M)) = ToSet(FlattenSeq(L)) \cup {i}
<1> DEFINE n == Len(L)
           p == Len(M)
<1>1. /\ n \in Nat /\ p \in Nat /\ M \in Seq(Seq(Items)) /\ m \in 1..p
      /\ \A l \in 1..n : L[l] \in Seq(Items)
      /\ \A l \in 1..p : M[l] \in Seq(Items)
  BY DEF Grown
<1>2. PICK g : EndToEnd(L, g)
  BY FlattenIs
<1>3. PICK h : EndToEnd(M, h)
  BY <1>1, FlattenIs
<1>4. /\ g \in [0..n -> Seq(Items)] /\ h \in [0..p -> Seq(Items)] /\ g[0] = <<>> /\ h[0] = <<>>
      /\ \A k \in 1..n : g[k] = g[k - 1] \o L[k]
      /\ \A k \in 1..p : h[k] = h[k - 1] \o M[k]
      /\ FlattenSeq(L) = g[n] /\ FlattenSeq(M) = h[p]
  BY <1>2, <1>3 DEF EndToEnd
<1>5. /\ p = (IF m <= n THEN n ELSE n + 1)
      /\ \A l \in 1..p : l # m => l <= n /\ M[l] = L[l]
      /\ M[m] = (IF m <= n THEN Append(L[m], i) ELSE <<i>>)
  BY DEF Grown
<1>6. m <= n => Len(M[m]) = Len(L[m]) + 1 /\ ToSet(M[m]) = ToSet(L[m]) \cup {i}
  <2>1. m <= n => m \in 1..n
    BY <1>1
  <2> QED
    BY <1>1, <1>5, <2>1, AppendProperties, AppendSet
<1>7. m > n => m = n + 1 /\ Len(M[m]) = 1 /\ ToSet(M[m]) = {i}
  <2>1. Len(<<i>>) = 1 /\ ToSet(<<i>>) = {i}
    BY DEF ToSet
  <2> HIDE DEF n, p
  <2>2. m > n => ~(m <= n) /\ p = n + 1 /\ m = n + 1
    BY <1>1, <1>5
  <2>3. m > n => M[m] = <<i>>
    BY <1>5, <2>2
  <2> QED
    BY <2>1, <2>2, <2>3
<1> HIDE DEF n, p
<1>8. n <= p /\ 1..n \subseteq 1..p
  BY <1>1, <1>5
<1>9. Len(FlattenSeq(M)) = Len(FlattenSeq(L)) + 1
  <2> DEFINE a == [k \in 1..n |-> Len(L[k])]
             b == [k \in 1..p |-> Len(M[k])]
             s == [k \in 0..n |-> Len(g[k])]
             t == [k \in 0..p |-> Len(h[k])]
  <2>1. Summed(n, a, s) /\ Len(FlattenSeq(L)) = s[n]
    BY <1>2, FlattenLen DEF n
  <2>2. Summed(p, b, t) /\ Len(FlattenSeq(M)) = t[p]
    BY <1>1, <1>3, FlattenLen DEF p
  <2>3. \A l \in 1..p : l # m => l \in 1..n /\ b[l] = a[l]
    BY <1>1, <1>5
  <2>4. b[m] = IF m <= n THEN a[m] + 1 ELSE 1
    <3>1. b[m] = Len(M[m]) /\ m \in Nat /\ n \in Nat
      BY <1>1
    <3>2. CASE m <= n
      <4>1. m \in 1..n
        BY <1>1, <3>2
      <4>2. a[m] = Len(L[m])
        BY <4>1
      <4> HIDE DEF a, b
      <4> QED
        BY <1>6, <3>1, <3>2, <4>2
    <3>3. CASE ~(m <= n)
      <4>1. m > n
        BY <3>1, <3>3
      <4> HIDE DEF a, b
      <4> QED
        BY <1>7, <3>1, <3>3, <4>1
    <3> QED
      BY <3>2, <3>3
  <2> HIDE DEF a, b, s, t
  <2>5. t[p] = s[n] + 1
    <3>1. n \in Nat /\ p \in Nat /\ m \in 1..p
      BY <1>1
    <3>2. OneMore(n, p, m, a, b)
      BY <1>5, <2>3, <2>4 DEF OneMore
    <3> QED
      BY <2>1, <2>2, <3>1, <3>2, SumsGrow
  <2> QED
    BY <2>1, <2>2, <2>5
<1>10. ToSet(FlattenSeq(M)) = ToSet(FlattenSeq(L)) \cup {i}
  <2>1. ToSet(FlattenSeq(L)) = Covered(L, n) /\ ToSet(FlattenSeq(M)) = Covered(M, p)
    BY <1>1, <1>2, <1>3, FlattenCovers DEF n, p
  <2>2. ASSUME NEW x \in Covered(M, p) PROVE x \in Covered(L, n) \cup {i}
    <3>1. PICK l \in 1..p : x \in ToSet(M[l])
      BY DEF Covered
    <3> QED
      <4>1. CASE l # m
        <5>1. l <= n /\ M[l] = L[l]
          BY <1>5, <4>1
        <5>2. l \in 1..n
          BY <1>1, <5>1
        <5> QED
          BY <3>1, <5>1, <5>2 DEF Covered
      <4>2. CASE l = m /\ m <= n
        <5>1. m \in 1..n
          BY <1>1, <4>2
        <5> QED
          BY <1>6, <3>1, <4>2, <5>1 DEF Covered
      <4>3. CASE l = m /\ ~(m <= n)
        <5>1. m > n
          BY <1>1, <4>3
        <5> QED
          BY <1>7, <3>1, <4>3, <5>1
      <4> QED
        BY <4>1, <4>2, <4>3
  <2>3. ASSUME NEW x \in Covered(L, n) PROVE x \in Covered(M, p)
    <3>1. PICK l \in 1..n : x \in ToSet(L[l])
      BY DEF Covered
    <3>2. l \in 1..p /\ x \in ToSet(M[l])
      <4>1. l \in 1..p /\ l <= n
        BY <1>1, <1>8
      <4>2. CASE l # m
        BY <1>5, <3>1, <4>1, <4>2
      <4>3. CASE l = m
        BY <1>6, <3>1, <4>1, <4>3
      <4> QED
        BY <4>1, <4>2, <4>3
    <3> QED
      BY <3>2 DEF Covered
  <2>4. i \in Covered(M, p)
    BY <1>1, <1>6, <1>7 DEF Covered
  <2> QED
    BY <2>1, <2>2, <2>3, <2>4
<1> QED
  BY <1>9, <1>10

-----------------------------------------------------------------------------
(* The waves of a batch *)

\* Where an item is put.
LEMMA PlaceIs ==
    ASSUME NEW L \in Seq(Seq(Items)), NEW i \in Items, NEW conflicts
    PROVE  \E m : /\ Grown(L, Place(conflicts, L, i), m, i)
                  /\ m <= Len(L) => m \in 1..Len(L) /\ \A j \in ToSet(L[m]) : {i, j} \notin conflicts
<1> DEFINE n == Len(L)
           free == {k \in DOMAIN L : \A j \in ToSet(L[k]) : {i, j} \notin conflicts}
           M == Place(conflicts, L, i)
<1>1. n \in Nat /\ DOMAIN L = 1..n /\ \A l \in 1..n : L[l] \in Seq(Items)
  OBVIOUS
<1>2. CASE free = {}
  <2>1. M = Append(L, <<i>>)
    BY <1>2 DEF Place
  <2>2. <<i>> \in Seq(Items)
    OBVIOUS
  <2>3. /\ M \in Seq(Seq(Items)) /\ Len(M) = n + 1
        /\ \A l \in 1..n : M[l] = L[l]
        /\ M[n + 1] = <<i>>
    BY <2>1, <2>2, AppendProperties
  <2> HIDE DEF M
  <2>4. Grown(L, M, n + 1, i)
    <3>1. n + 1 \in 1..Len(M) /\ ~(n + 1 <= n)
      BY <1>1, <2>3
    <3>2. \A l \in 1..Len(M) : l # n + 1 => l <= n /\ M[l] = L[l]
      BY <1>1, <2>3
    <3> QED
      BY <2>3, <3>1, <3>2 DEF Grown
  <2>5. ~(n + 1 <= n)
    BY <1>1
  <2> QED
    BY <2>4, <2>5 DEF M
<1>3. CASE free # {}
  <2> DEFINE m == Min(free)
  <2>1. free \in SUBSET Nat
    BY <1>1
  <2>2. \E x \in free : \A y \in free : x <= y
    BY <1>3, <2>1, LeastOne
  <2>3. m \in free
    BY <2>2 DEF Min
  <2>4. M = [L EXCEPT ![m] = Append(L[m], i)]
    BY <1>3 DEF Place
  <2> HIDE DEF m
  <2>5. m \in 1..n /\ m <= n /\ \A j \in ToSet(L[m]) : {i, j} \notin conflicts
    BY <1>1, <2>3
  <2>6. Append(L[m], i) \in Seq(Items)
    BY <1>1, <2>5, AppendProperties
  <2> DEFINE e == Append(L[m], i)
  <2>7. /\ M \in Seq(Seq(Items)) /\ Len(M) = n
        /\ \A l \in 1..n : M[l] = IF l = m THEN e ELSE L[l]
    <3> HIDE DEF e, M
    <3>1. e \in Seq(Items) /\ M = [L EXCEPT ![m] = e]
      BY <2>4, <2>6 DEF e
    <3> QED
      BY <2>5, <3>1, ExceptSeq
  <2> HIDE DEF M, n
  <2>8. Grown(L, M, m, i)
    <3>1. ASSUME NEW l \in 1..Len(M), l # m PROVE l <= n /\ M[l] = L[l]
      <4>1. l \in 1..n /\ l <= n
        BY <1>1, <2>7
      <4> QED
        BY <2>7, <3>1, <4>1
    <3>2. M[m] = Append(L[m], i) /\ m \in 1..Len(M)
      BY <1>1, <2>5, <2>7
    <3>3. n = Len(L)
      BY DEF n
    <3> QED
      BY <2>5, <2>7, <3>1, <3>2, <3>3 DEF Grown
  <2> QED
    BY <2>5, <2>8 DEF M, n
<1> QED
  BY <1>2, <1>3

\* A wave has its items in the order of the first k of the sequence.
Along(wave, order, k) ==
    \E pos \in [DOMAIN wave -> 1..k] : Increasing(pos) /\ \A a \in DOMAIN wave : order[pos[a]] = wave[a]

LEMMA AlongAppend ==
    ASSUME NEW wave \in Seq(Items), NEW order \in Seq(Items), NEW k \in Nat, k + 1 \in DOMAIN order,
           Along(wave, order, k)
    PROVE  Along(wave, order, k + 1) /\ Along(Append(wave, order[k + 1]), order, k + 1)
<1> DEFINE n == Len(wave)
           longer == Append(wave, order[k + 1])
<1>1. n \in Nat /\ DOMAIN wave = 1..n
  OBVIOUS
<1>2. PICK pos \in [1..n -> 1..k] : Increasing(pos) /\ \A a \in 1..n : order[pos[a]] = wave[a]
  BY <1>1 DEF Along
<1>3. pos \in [1..n -> 1..(k + 1)]
  BY <1>2
<1>4. Along(wave, order, k + 1)
  BY <1>1, <1>2, <1>3 DEF Along
<1>5. order[k + 1] \in Items
  OBVIOUS
<1>6. /\ longer \in Seq(Items) /\ Len(longer) = n + 1
      /\ \A a \in 1..n : longer[a] = wave[a]
      /\ longer[n + 1] = order[k + 1]
  BY <1>5, AppendProperties
<1>7. DOMAIN longer = 1..(n + 1)
  BY <1>1, <1>6
<1> HIDE DEF n, longer
<1> DEFINE q == [a \in 1..(n + 1) |-> IF a = n + 1 THEN k + 1 ELSE pos[a]]
<1>8. \A a \in 1..(n + 1) : a # n + 1 => a \in 1..n /\ pos[a] \in 1..k
  BY <1>1, <1>2
<1>9. q \in [1..(n + 1) -> 1..(k + 1)]
  BY <1>8
<1>10. Increasing(q)
  <2> SUFFICES ASSUME NEW a \in 1..(n + 1), NEW b \in 1..(n + 1), a < b PROVE q[a] < q[b]
    BY DEF Increasing
  <2>1. a \in 1..n /\ q[a] = pos[a] /\ pos[a] \in 1..k
    BY <1>1, <1>8
  <2>2. CASE b = n + 1
    BY <2>1, <2>2
  <2>3. CASE b # n + 1
    <3>1. b \in 1..n /\ q[b] = pos[b]
      BY <1>8, <2>3
    <3> QED
      BY <1>2, <2>1, <3>1 DEF Increasing
  <2> QED
    BY <2>2, <2>3
<1>11. \A a \in 1..(n + 1) : order[q[a]] = longer[a]
  BY <1>2, <1>6, <1>8
<1> HIDE DEF q
<1> QED
  BY <1>4, <1>7, <1>9, <1>10, <1>11 DEF Along, longer

\* The first k items of the order, in waves.
Scheduled(conflicts, order, k, L) ==
    /\ L \in Seq(Seq(Items))
    /\ k > 0 => L # <<>>
    /\ \A l \in 1..Len(L) : Along(L[l], order, k)
    /\ \A l \in 1..Len(L) : \A i, j \in ToSet(L[l]) : i # j => {i, j} \notin conflicts
    /\ Len(FlattenSeq(L)) = k
    /\ ToSet(FlattenSeq(L)) = {order[x] : x \in 1..k}

LEMMA NothingScheduled ==
    ASSUME NEW conflicts, NEW order \in Seq(Items)
    PROVE  Scheduled(conflicts, order, 0, <<>>)
<1>1. FlattenSeq(<<>>) = <<>> /\ ToSet(<<>>) = {} /\ Len(<<>>) = 0
  BY DEF FlattenSeq, ToSet
<1> QED
  BY <1>1 DEF Scheduled

LEMMA PlacedIsScheduled ==
    ASSUME NEW conflicts, NEW order \in Seq(Items), NEW k \in Nat, k + 1 \in DOMAIN order,
           NEW L, Scheduled(conflicts, order, k, L)
    PROVE  Scheduled(conflicts, order, k + 1, Place(conflicts, L, order[k + 1]))
<1> DEFINE i == order[k + 1]
           M == Place(conflicts, L, i)
<1>1. i \in Items /\ L \in Seq(Seq(Items))
  BY DEF Scheduled
<1>2. PICK m : /\ Grown(L, M, m, i)
               /\ m <= Len(L) => m \in 1..Len(L) /\ \A j \in ToSet(L[m]) : {i, j} \notin conflicts
  BY <1>1, PlaceIs
<1> HIDE DEF M
<1> DEFINE n == Len(L)
           p == Len(M)
<1>3. n \in Nat /\ p \in Nat /\ m \in 1..p /\ M \in Seq(Seq(Items)) /\ \A l \in 1..n : L[l] \in Seq(Items)
  BY <1>1, <1>2 DEF Grown
<1>4. /\ \A l \in 1..p : l # m => l \in 1..n /\ M[l] = L[l]
      /\ m \in 1..n => M[m] = Append(L[m], i)
      /\ m \notin 1..n => M[m] = Append(<<>>, i)
  <2>1. Append(<<>>, i) = <<i>>
    OBVIOUS
  <2>2. \A l \in 1..p : l # m => l <= n /\ M[l] = L[l]
    BY <1>2 DEF Grown
  <2>3. M[m] = IF m <= n THEN Append(L[m], i) ELSE <<i>>
    BY <1>2 DEF Grown
  <2> HIDE DEF n, p
  <2> QED
    BY <1>3, <2>1, <2>2, <2>3
<1> HIDE DEF n, p, i
<1>5. \A l \in 1..n : /\ Along(L[l], order, k)
                      /\ \A x, y \in ToSet(L[l]) : x # y => {x, y} \notin conflicts
  BY DEF Scheduled, n
<1>6. Along(<<>>, order, k)
  <2>1. <<>> \in [{} -> 1..k] /\ DOMAIN <<>> = {} /\ Increasing(<<>>)
    BY DEF Increasing
  <2> QED
    BY <2>1 DEF Along
<1>7. \A l \in 1..p : Along(M[l], order, k + 1)
  <2>1. \A wave \in Seq(Items) : Along(wave, order, k) =>
           Along(wave, order, k + 1) /\ Along(Append(wave, i), order, k + 1)
    BY AlongAppend DEF i
  <2>2. <<>> \in Seq(Items)
    BY EmptySeq
  <2> QED
    BY <1>3, <1>4, <1>5, <1>6, <2>1, <2>2
<1>8. ASSUME NEW l \in 1..p, NEW x \in ToSet(M[l]), NEW y \in ToSet(M[l]), x # y
      PROVE  {x, y} \notin conflicts
  <2>1. CASE l # m
    BY <1>4, <1>5, <1>8, <2>1
  <2>2. CASE l = m /\ m \in 1..n
    <3>1. ToSet(M[m]) = ToSet(L[m]) \cup {i}
      <4>1. L[m] \in Seq(Items) /\ i \in Items /\ M[m] = Append(L[m], i)
        BY <1>1, <1>3, <1>4, <2>2
      <4> QED
        BY <4>1, AppendSet
    <3>2. \A j \in ToSet(L[m]) : {i, j} \notin conflicts /\ {j, i} \notin conflicts
      <4>1. m <= n
        BY <1>3, <2>2
      <4>2. \A j : {i, j} = {j, i}
        OBVIOUS
      <4> QED
        BY <1>2, <4>1, <4>2 DEF n
    <3> QED
      BY <1>5, <1>8, <2>2, <3>1, <3>2
  <2>3. CASE l = m /\ m \notin 1..n
    <3>1. Append(<<>>, i) = <<i>> /\ ToSet(<<i>>) = {i}
      BY DEF ToSet
    <3>2. ToSet(M[m]) = {i}
      BY <1>4, <2>3, <3>1
    <3> QED
      BY <1>8, <2>3, <3>2
  <2> QED
    BY <2>1, <2>2, <2>3
<1>9. Len(FlattenSeq(M)) = k + 1 /\ ToSet(FlattenSeq(M)) = {order[x] : x \in 1..(k + 1)}
  <2>1. Len(FlattenSeq(M)) = k + 1 /\ ToSet(FlattenSeq(M)) = {order[x] : x \in 1..k} \cup {i}
    BY <1>1, <1>2, FlattenGrows DEF Scheduled
  <2>2. 1..(k + 1) = 1..k \cup {k + 1}
    OBVIOUS
  <2> QED
    BY <2>1, <2>2 DEF i
<1>10. M # <<>>
  BY <1>3 DEF p
<1> QED
  BY <1>3, <1>7, <1>8, <1>9, <1>10 DEF Scheduled, M, i, p

\* All of them.
LEMMA WavesScheduled ==
    ASSUME NEW deps \in [Items -> SUBSET Items], NEW conflicts
    PROVE  LET order == TopologicalOrder(deps)
           IN Scheduled(conflicts, order, Len(order), Waves(deps, conflicts))
<1> DEFINE order == TopologicalOrder(deps)
           n == Len(order)
           V == Seq(Seq(Items))
           step == [q \in (1..n) \X V |-> Place(conflicts, q[2], order[q[1]])]
           Body(f) == [k \in 0..n |-> IF k = 0 THEN <<>> ELSE Place(conflicts, f[k - 1], order[k])]
           placed == CHOOSE f : f = Body(f)
<1>1. order \in Seq(Items) /\ n \in Nat
  BY OrderSound
<1>2. Waves(deps, conflicts) = placed[n]
  BY DEF Waves
<1>3. \A k \in 1..n : order[k] \in Items /\ k \in DOMAIN order
  BY <1>1
<1> HIDE DEF order, n
<1>4. \A L \in V, i \in Items : Place(conflicts, L, i) \in V
  BY PlaceIs DEF Grown
<1>5. step \in [(1..n) \X V -> V] /\ <<>> \in V
  BY <1>3, <1>4, EmptySeq
<1>6. \A k \in 1..n, L \in V : step[<<k, L>>] = Place(conflicts, L, order[k])
  OBVIOUS
<1> HIDE DEF V, step
<1>7. PICK f \in [0..n -> V] : Iterated(f, n, <<>>, step)
  BY <1>1, <1>5, IterationDefined
<1>8. f[0] = <<>> /\ \A k \in 1..n : f[k] = Place(conflicts, f[k - 1], order[k])
  <2>1. \A k \in 1..n : k - 1 \in 0..n
    BY <1>1
  <2> QED
    BY <1>6, <1>7, <2>1 DEF Iterated
<1>9. f = Body(f)
  BY <1>1, <1>7, <1>8
<1>10. placed = Body(placed)
  BY <1>9
<1> HIDE DEF placed
<1>11. placed[0] = <<>> /\ \A k \in 1..n : placed[k] = Place(conflicts, placed[k - 1], order[k])
  BY <1>1, <1>10
<1> DEFINE Good == {k \in 0..n : Scheduled(conflicts, order, k, placed[k])}
<1>12. 0 \in Good
  BY <1>1, <1>11, NothingScheduled
<1>13. ASSUME NEW k \in 1..n, k - 1 \in Good PROVE k \in Good
  <2>1. k - 1 \in Nat /\ (k - 1) + 1 = k
    BY <1>1
  <2>2. (k - 1) + 1 \in DOMAIN order
    BY <1>3, <2>1
  <2>3. Scheduled(conflicts, order, k - 1, placed[k - 1])
    BY <1>13
  <2>4. Scheduled(conflicts, order, (k - 1) + 1, Place(conflicts, placed[k - 1], order[(k - 1) + 1]))
    BY <1>1, <2>1, <2>2, <2>3, PlacedIsScheduled
  <2>5. Scheduled(conflicts, order, k, placed[k])
    BY <1>11, <2>1, <2>4
  <2> QED
    BY <1>1, <2>5
<1>14. n \in Good
  <2> HIDE DEF Good, Body
  <2>1. \A k \in 1..n : k - 1 \in Good => k \in Good
    BY <1>13
  <2>2. \A k \in 0..n : k \in Good
    BY <1>1, <1>12, <2>1, UpTo
  <2> QED
    BY <1>1, <2>2
<1> QED
  BY <1>2, <1>14 DEF order, n

\* What waits for another item of its wave comes after it.
LEMMA WaveInOrder ==
    ASSUME NEW deps, NEW order, Distinct(order), Ordered(deps, order), NEW k \in Nat, 1..k \subseteq DOMAIN order,
           DOMAIN order \subseteq Nat,
           NEW wave, DOMAIN wave \subseteq Nat, Along(wave, order, k),
           NEW i \in ToSet(wave), NEW j \in ToSet(wave), i \in deps[j]
    PROVE  Before(wave, i, j)
<1>1. PICK pos \in [DOMAIN wave -> 1..k] : Increasing(pos) /\ \A a \in DOMAIN wave : order[pos[a]] = wave[a]
  BY DEF Along
<1>2. PICK x \in DOMAIN wave, y \in DOMAIN wave : wave[x] = i /\ wave[y] = j
  BY DEF ToSet
<1>3. pos[x] \in 1..k /\ pos[y] \in 1..k /\ order[pos[x]] = i /\ order[pos[y]] = j
  BY <1>1, <1>2
<1>4. PICK a \in DOMAIN order : a < pos[y] /\ order[a] = i
  BY <1>3 DEF Ordered
<1>5. a = pos[x]
  BY <1>3, <1>4 DEF Distinct
<1>6. x # y /\ ~(y < x)
  <2>1. x # y
    BY <1>3, <1>4, <1>5
  <2>2. y < x => pos[y] < pos[x]
    BY <1>1, <1>2 DEF Increasing
  <2> QED
    BY <1>3, <1>4, <1>5, <2>1, <2>2
<1>7. x < y
  BY <1>2, <1>6
<1> QED
  BY <1>2, <1>7 DEF Before

\* The waves of a valid graph.
LEMMA WavesSound ==
    ASSUME NEW deps \in [Items -> SUBSET Items], NEW conflicts, ValidGraph(deps)
    PROVE  LET W == Waves(deps, conflicts) IN
           /\ W \in Seq(Seq(Items)) /\ W # <<>>
           /\ Len(FlattenSeq(W)) = N /\ ToSet(FlattenSeq(W)) = Items
           /\ \A l \in DOMAIN W : \A i, j \in ToSet(W[l]) :
                 /\ i # j => {i, j} \notin conflicts
                 /\ i \in deps[j] => Before(W[l], i, j)
<1> DEFINE W == Waves(deps, conflicts)
           order == TopologicalOrder(deps)
<1>1. /\ order \in Seq(Items) /\ Distinct(order) /\ Ordered(deps, order)
      /\ Len(order) = N /\ ToSet(order) = Items
  BY OrderSound
<1>2. Scheduled(conflicts, order, N, W)
  BY <1>1, WavesScheduled
<1>3. N \in Nat /\ N > 0 /\ DOMAIN order = 1..N
  BY <1>1, BoundsAssumption
<1> HIDE DEF W, order
<1>4. W \in Seq(Seq(Items)) /\ W # <<>> /\ DOMAIN W = 1..Len(W)
  BY <1>2, <1>3 DEF Scheduled
<1>5. Len(FlattenSeq(W)) = N /\ ToSet(FlattenSeq(W)) = Items
  <2>1. {order[x] : x \in 1..N} = ToSet(order)
    BY <1>3 DEF ToSet
  <2> QED
    BY <1>1, <1>2, <2>1 DEF Scheduled
<1>6. ASSUME NEW l \in DOMAIN W, NEW i \in ToSet(W[l]), NEW j \in ToSet(W[l])
      PROVE  /\ i # j => {i, j} \notin conflicts
             /\ i \in deps[j] => Before(W[l], i, j)
  <2>1. Along(W[l], order, N) /\ (i # j => {i, j} \notin conflicts)
    BY <1>2, <1>4 DEF Scheduled
  <2>2. DOMAIN W[l] \subseteq Nat /\ 1..N \subseteq DOMAIN order /\ DOMAIN order \subseteq Nat
    <3>1. W[l] \in Seq(Items)
      BY <1>4
    <3> QED
      BY <1>3, <3>1
  <2>3. i \in deps[j] => Before(W[l], i, j)
    BY <1>1, <1>3, <2>1, <2>2, WaveInOrder
  <2> QED
    BY <2>1, <2>3
<1> QED
  BY <1>4, <1>5, <1>6 DEF W

-----------------------------------------------------------------------------
(* What falls with an item *)

\* What has fallen after k items of the order were looked at.
FallsTo(deps, settled, i, order, fallen) ==
    /\ fallen \in [0..Len(order) -> SUBSET Items]
    /\ fallen[0] = {i}
    /\ \A k \in 1..Len(order) : fallen[k] = Fall(deps, settled, fallen[k - 1], order[k])

LEMMA DependentsIs ==
    ASSUME NEW deps \in [Items -> SUBSET Items], NEW settled, NEW i \in Items
    PROVE  LET order == TopologicalOrder(deps) IN
           \E fallen : /\ FallsTo(deps, settled, i, order, fallen)
                       /\ Dependents(deps, i, settled) = fallen[Len(order)] \ {i}
<1> DEFINE order == TopologicalOrder(deps)
           n == Len(order)
           V == SUBSET Items
           step == [q \in (1..n) \X V |-> Fall(deps, settled, q[2], order[q[1]])]
           Body(f) == [k \in 0..n |-> IF k = 0 THEN {i} ELSE Fall(deps, settled, f[k - 1], order[k])]
           fallen == CHOOSE f : f = Body(f)
<1>1. order \in Seq(Items) /\ n \in Nat
  BY OrderSound
<1>2. Dependents(deps, i, settled) = fallen[n] \ {i}
  BY DEF Dependents
<1>3. \A k \in 1..n : order[k] \in Items
  BY <1>1
<1> HIDE DEF order, n
<1>4. \A S \in V, j \in Items : Fall(deps, settled, S, j) \in V
  BY DEF Fall
<1>5. step \in [(1..n) \X V -> V] /\ {i} \in V
  BY <1>3, <1>4
<1>6. \A k \in 1..n, S \in V : step[<<k, S>>] = Fall(deps, settled, S, order[k])
  OBVIOUS
<1> HIDE DEF V, step
<1>7. PICK f \in [0..n -> V] : Iterated(f, n, {i}, step)
  BY <1>1, <1>5, IterationDefined
<1>8. f[0] = {i} /\ \A k \in 1..n : f[k] = Fall(deps, settled, f[k - 1], order[k])
  <2>1. \A k \in 1..n : k - 1 \in 0..n
    BY <1>1
  <2> QED
    BY <1>6, <1>7, <2>1 DEF Iterated
<1>9. f = Body(f)
  BY <1>1, <1>7, <1>8
<1>10. fallen = Body(fallen)
  BY <1>9
<1> HIDE DEF fallen
<1>11. fallen[0] = {i} /\ \A k \in 1..n : fallen[k] = Fall(deps, settled, fallen[k - 1], order[k])
  <2>1. \A k \in 0..n : fallen[k] = IF k = 0 THEN {i} ELSE Fall(deps, settled, fallen[k - 1], order[k])
    BY <1>10
  <2>2. 0 \in 0..n /\ \A k \in 1..n : k \in 0..n /\ k # 0
    BY <1>1
  <2> HIDE DEF Body
  <2> QED
    BY <2>1, <2>2
<1>12. fallen \in [0..n -> V]
  <2> DEFINE Good == {k \in 0..n : fallen[k] \in V}
  <2>1. 0 \in Good
    <3>1. 0 \in 0..n /\ fallen[0] \in V
      BY <1>1, <1>5, <1>11
    <3> QED
      BY <3>1
  <2>2. \A k \in 1..n : k - 1 \in Good => k \in Good
    BY <1>3, <1>4, <1>11
  <2> HIDE DEF Good
  <2>3. \A k \in 0..n : k \in Good
    BY <1>1, <2>1, <2>2, UpTo
  <2> QED
    BY <1>10, <2>3 DEF Good
<1> QED
  BY <1>2, <1>11, <1>12 DEF FallsTo, order, n, V

\* What falls is not settled, and waits for the item or for something else that falls.
LEMMA FallsForAReason ==
    ASSUME NEW deps \in [Items -> SUBSET Items], NEW settled, NEW i \in Items
    PROVE  LET hit == Dependents(deps, i, settled) IN
           \A j \in hit : j \in Items /\ j # i /\ j \notin settled /\ deps[j] \cap (hit \cup {i}) # {}
<1> DEFINE order == TopologicalOrder(deps)
           n == Len(order)
           hit == Dependents(deps, i, settled)
<1>1. PICK fallen : FallsTo(deps, settled, i, order, fallen) /\ hit = fallen[n] \ {i}
  BY DependentsIs
<1>2. n \in Nat /\ \A k \in 1..n : order[k] \in Items
  BY OrderSound
<1> HIDE DEF order, n, hit
<1>3. /\ fallen \in [0..n -> SUBSET Items] /\ fallen[0] = {i}
      /\ \A k \in 1..n : fallen[k] = Fall(deps, settled, fallen[k - 1], order[k])
  BY <1>1 DEF FallsTo, n
<1> DEFINE Good == {k \in 0..n : /\ i \in fallen[k]
                                 /\ \A j \in fallen[k] \ {i} : j \notin settled /\ deps[j] \cap fallen[k] # {}}
<1>4. 0 \in Good
  BY <1>2, <1>3
<1>5. ASSUME NEW k \in 1..n, k - 1 \in Good PROVE k \in Good
  <2> DEFINE S == fallen[k - 1]
  <2>1. i \in S /\ \A j \in S \ {i} : j \notin settled /\ deps[j] \cap S # {}
    BY <1>5
  <2>2. fallen[k] = (IF order[k] \notin settled /\ deps[order[k]] \cap S # {} THEN S \cup {order[k]} ELSE S)
    BY <1>3 DEF Fall
  <2>3. k \in 0..n
    BY <1>2
  <2> HIDE DEF S
  <2>4. i \in fallen[k] /\ S \subseteq fallen[k]
    BY <2>1, <2>2
  <2>5. ASSUME NEW j \in fallen[k] \ {i} PROVE j \notin settled /\ deps[j] \cap fallen[k] # {}
    <3>1. j \notin settled /\ deps[j] \cap S # {}
      BY <2>1, <2>2, <2>5
    <3> QED
      BY <2>4, <3>1
  <2> QED
    BY <2>3, <2>4, <2>5
<1>6. n \in Good
  <2> HIDE DEF Good
  <2> QED
    BY <1>2, <1>4, <1>5, UpTo
<1>7. fallen[n] = hit \cup {i} /\ fallen[n] \subseteq Items
  BY <1>1, <1>2, <1>3, <1>6
<1> QED
  BY <1>1, <1>6, <1>7 DEF hit

\* In a valid graph, everything that waits for what falls, and is not settled, falls.
LEMMA EverythingFalls ==
    ASSUME NEW deps \in [Items -> SUBSET Items], NEW settled, NEW i \in Items, ValidGraph(deps)
    PROVE  LET hit == Dependents(deps, i, settled) IN
           \A j \in Items : j # i /\ j \notin settled /\ deps[j] \cap (hit \cup {i}) # {} => j \in hit
<1> DEFINE order == TopologicalOrder(deps)
           n == Len(order)
           hit == Dependents(deps, i, settled)
<1>1. PICK fallen : FallsTo(deps, settled, i, order, fallen) /\ hit = fallen[n] \ {i}
  BY DependentsIs
<1>2. /\ n \in Nat /\ n = N /\ DOMAIN order = 1..n /\ \A k \in 1..n : order[k] \in Items
      /\ Distinct(order) /\ Ordered(deps, order) /\ ToSet(order) = Items
  BY OrderSound
<1> HIDE DEF order, n, hit
<1>3. /\ fallen \in [0..n -> SUBSET Items] /\ fallen[0] = {i}
      /\ \A k \in 1..n : fallen[k] = Fall(deps, settled, fallen[k - 1], order[k])
  BY <1>1 DEF FallsTo, n
\* After k turns, what has fallen is among the first k, and closed for them.
<1> DEFINE Seen(k) == {order[x] : x \in 1..k}
           Good == {k \in 0..n : /\ fallen[k] \subseteq Seen(k) \cup {i} /\ i \in fallen[k]
                                 /\ \A j \in Seen(k) : j \notin settled /\ deps[j] \cap fallen[k] # {}
                                       => j \in fallen[k]}
<1>4. 0 \in Good
  BY <1>2, <1>3
<1>5. ASSUME NEW k \in 1..n, k - 1 \in Good PROVE k \in Good
  <2>1. k \in 0..n /\ k - 1 \in 0..n /\ 1..k = 1..(k - 1) \cup {k}
    BY <1>2
  <2>2. Seen(k) = Seen(k - 1) \cup {order[k]}
    BY <2>1
  <2>3. fallen[k] = Fall(deps, settled, fallen[k - 1], order[k])
    BY <1>3
  <2>4. /\ fallen[k - 1] \subseteq Seen(k - 1) \cup {i} /\ i \in fallen[k - 1]
        /\ \A j \in Seen(k - 1) : j \notin settled /\ deps[j] \cap fallen[k - 1] # {} => j \in fallen[k - 1]
    BY <1>5
  \* The items before order[k] do not wait for it.
  <2>5. \A j \in Seen(k - 1) : order[k] \notin deps[j]
    <3> SUFFICES ASSUME NEW x \in 1..(k - 1), order[k] \in deps[order[x]] PROVE FALSE
      OBVIOUS
    <3>1. x \in 1..n /\ x < k
      BY <1>2
    <3>2. PICK a \in 1..n : a < x /\ order[a] = order[k]
      BY <1>2, <3>1 DEF Ordered
    <3>3. a = k
      BY <1>2, <3>2 DEF Distinct
    <3> QED
      BY <1>2, <3>1, <3>2, <3>3
  <2>6. order[k] \notin deps[order[k]]
    <3> SUFFICES ASSUME order[k] \in deps[order[k]] PROVE FALSE
      OBVIOUS
    <3>1. PICK a \in 1..n : a < k /\ order[a] = order[k]
      BY <1>2 DEF Ordered
    <3>2. a = k
      BY <1>2, <3>1 DEF Distinct
    <3> QED
      BY <1>2, <3>1, <3>2
  <2> HIDE DEF Seen
  <2>7. fallen[k] \subseteq fallen[k - 1] \cup {order[k]} /\ fallen[k - 1] \subseteq fallen[k]
    BY <2>3 DEF Fall
  <2>8. fallen[k] \subseteq Seen(k) \cup {i} /\ i \in fallen[k]
    BY <2>2, <2>4, <2>7
  <2>9. ASSUME NEW j \in Seen(k), j \notin settled, deps[j] \cap fallen[k] # {} PROVE j \in fallen[k]
    <3>1. order[k] \notin deps[j]
      BY <2>2, <2>5, <2>6
    <3>2. deps[j] \cap fallen[k - 1] # {}
      BY <2>7, <2>9, <3>1
    <3>3. CASE j \in Seen(k - 1)
      BY <2>4, <2>7, <2>9, <3>2, <3>3
    <3>4. CASE j = order[k]
      BY <2>3, <2>9, <3>2, <3>4 DEF Fall
    <3> QED
      BY <2>2, <3>3, <3>4
  <2> QED
    BY <2>1, <2>8, <2>9
<1>6. n \in Good
  <2> HIDE DEF Good
  <2> QED
    BY <1>2, <1>4, <1>5, UpTo
<1>7. Seen(n) = Items
  BY <1>2 DEF ToSet
<1> HIDE DEF Seen
<1>8. fallen[n] = hit \cup {i}
  BY <1>1, <1>6
<1> QED
  BY <1>1, <1>6, <1>7, <1>8 DEF hit

-----------------------------------------------------------------------------
(* Constants *)

LEMMA ItemsType == 1 \in Items /\ Items \subseteq Nat /\ Root \notin Items
BY BoundsAssumption DEF Items, Root

LEMMA GraphType ==
    ASSUME TypeOK
    PROVE  graph.deps \in [Items -> SUBSET Items]
BY BoundsAssumption DEF TypeOK

LEMMA NoRecordType == NoRecord \in Record
BY DEF NoRecord, Record, BatchStatuses, NewItem, Item, ItemStatuses, Terminal, Reasons, Sums, NoSum

LEMMA IdleType == Idle \in Worker
BY NoRecordType, ItemsType DEF Idle, Worker, Labels, Locked, Pointers, Root

LEMMA IdleTrue ==
    ASSUME NEW files \in Revs
    PROVE  HeldTrue(Idle, files) /\ ItemsTrue(NoRecord.items, files)
BY DEF HeldTrue, Idle, ItemsTrue, NoRecord, NewItem, InWave, InItem, Success, Revs

-----------------------------------------------------------------------------
(* Records and the copies of them *)

\* derive_batch_status is one of the statuses, and truthful.
LEMMA DerivedStatusTrue ==
    ASSUME NEW items \in [Items -> Item], NEW resumed \in BOOLEAN
    PROVE  /\ DerivedStatus(items, resumed) \in BatchStatuses
           /\ DerivedStatus(items, resumed) \in Success => \A i \in Items : items[i].status \in Success
           /\ DerivedStatus(items, resumed) = "failed" => \A i \in Items : items[i].status = "failed"
BY ItemsType DEF DerivedStatus, BatchStatuses, ItemStatuses, Terminal, Success

\* What is true of the items stays true while revisions are written.
LEMMA ItemsStayTrue ==
    ASSUME NEW items \in [Items -> Item], revs \in Revs, RevsGrow, ItemsTrue(items, revs)
    PROVE  ItemsTrue(items, revs')
BY DEF ItemsTrue, RevsGrow, Item, Revs

\* Marking items without a success keeps the copy true.
LEMMA MarkedTrue ==
    ASSUME TypeOK, NEW w \in Operators, ItemsTrue(wk[w].rec.items, revs), NEW S,
           NEW status \in ItemStatuses \ Success, NEW why \in Reasons
    PROVE  /\ Marked(w, S, status, why) \in [Items -> Item]
           /\ ItemsTrue(Marked(w, S, status, why), revs)
<1>1. wk[w].rec.items \in [Items -> Item]
  BY DEF TypeOK, Worker, Record
<1> QED
  BY <1>1 DEF Marked, ItemsTrue, Item

\* So does a success of the item that has just been dealt with.
LEMMA MarkedSuccessTrue ==
    ASSUME TypeOK, NEW w \in Operators, ItemsTrue(wk[w].rec.items, revs),
           1 <= wk[w].rec.items[wk[w].item].app, NEW status \in Success
    PROVE  /\ Marked(w, {wk[w].item}, status, "none") \in [Items -> Item]
           /\ ItemsTrue(Marked(w, {wk[w].item}, status, "none"), revs)
<1>1. wk[w].rec.items \in [Items -> Item]
  BY DEF TypeOK, Worker, Record
<1>2. status \in ItemStatuses
  BY DEF ItemStatuses, Terminal, Success
<1> QED
  BY <1>1, <1>2 DEF Marked, ItemsTrue, Item, Reasons

\* What a save of a true copy leaves on file.
LEMMA PersistTrue ==
    ASSUME TypeOK, NEW copy \in Record, NEW resumed \in BOOLEAN, NEW items \in [Items -> Item],
           ItemsTrue(items, revs), revs' = revs,
           rec' = [copy EXCEPT !.items = items, !.status = DerivedStatus(items, resumed)]
    PROVE  rec' \in Record /\ ItemsTrue(rec'.items, revs') /\ StatusTruthful'
<1>1. revs \in Revs
  BY DEF TypeOK, Revs
<1>2. /\ rec'.items = items /\ rec'.status = DerivedStatus(items, resumed)
      /\ rec' \in Record
  BY DerivedStatusTrue DEF Record
<1>3. StatusTruthful'
  BY <1>1, <1>2, DerivedStatusTrue DEF StatusTruthful, ItemsTrue, Item, Revs
<1> QED
  BY <1>2, <1>3

\* A command that saves true items under a status of its own.
LEMMA OwnStatusTrue ==
    ASSUME rec'.status \notin Success \cup {"failed"}
    PROVE  StatusTruthful'
BY DEF StatusTruthful

\* A step that leaves the record alone.
LEMMA SameRecord ==
    ASSUME IInv, RevsGrow, rec' = rec
    PROVE  ItemsTrue(rec'.items, revs') /\ StatusTruthful'
<1>1. rec.items \in [Items -> Item] /\ revs \in Revs
  BY DEF IInv, TypeOK, Record, Revs
<1>2. ItemsTrue(rec'.items, revs')
  BY <1>1, ItemsStayTrue DEF IInv
<1>3. StatusTruthful'
  BY <1>1 DEF IInv, StatusTruthful, RevsGrow, Item, Revs
<1> QED
  BY <1>2, <1>3

-----------------------------------------------------------------------------
(* Steps of a command *)

\* The others keep what they hold.
LEMMA OthersKeep ==
    ASSUME IInv, NEW w \in Operators, NEW u \in Worker, RevsGrow, wk' = [wk EXCEPT ![w] = u],
           HeldTrue(u, revs')
    PROVE  wk' \in [Operators -> Worker] /\ \A v \in Operators : HeldTrue(wk'[v], revs')
<1>1. wk' \in [Operators -> Worker] /\ wk'[w] = u
  BY DEF IInv, TypeOK
<1> SUFFICES ASSUME NEW v \in Operators \ {w} PROVE HeldTrue(wk'[v], revs')
  BY <1>1
<1>2. /\ wk'[v] = wk[v] /\ wk[v].rec.items \in [Items -> Item] /\ HeldTrue(wk[v], revs) /\ revs \in Revs
      /\ wk[v].item \in Items /\ wk[v].was \in Nat
  BY DEF IInv, TypeOK, Worker, Record, Revs
<1>3. ItemsTrue(wk[v].rec.items, revs')
  BY <1>2, ItemsStayTrue DEF HeldTrue
<1>4. wk[v].was <= revs[wk[v].item].ver => wk[v].was <= revs'[wk[v].item].ver
  <2>1. /\ revs[wk[v].item].ver \in Nat /\ revs'[wk[v].item].ver \in Nat
        /\ revs[wk[v].item].ver <= revs'[wk[v].item].ver
    BY <1>2 DEF RevsGrow, Revs
  <2> QED
    BY <1>2, <2>1
<1> QED
  BY <1>2, <1>3, <1>4 DEF HeldTrue

\* Steps that neither save the record nor call the service.
LEMMA MemoryStep ==
    ASSUME IInv, NEW w \in Operators, NEW u \in Worker, wk' = [wk EXCEPT ![w] = u],
           HeldTrue(u, revs), UNCHANGED <<graph, rec, serviceVars>>,
           plan' \in [sum: Sums, waves: Seq(Seq(Items))], PlanHasWaves',
           locks' \subseteq Locked, answered' \subseteq Items,
           overlaps' \in 0..MaxFaults, begun' \in 0..MaxCommands, crashes' \in 0..MaxFaults
    PROVE  IInv'
<1>1. RevsGrow
  BY DEF IInv, TypeOK, RevsGrow, serviceVars, Revs
<1>2. wk' \in [Operators -> Worker] /\ \A v \in Operators : HeldTrue(wk'[v], revs')
  BY <1>1, OthersKeep DEF serviceVars
<1>3. ItemsTrue(rec'.items, revs') /\ StatusTruthful'
  BY <1>1, SameRecord
<1>4. DependenciesFirst'
  BY DEF IInv, DependenciesFirst, serviceVars
<1>5. TypeOK'
  BY <1>2 DEF IInv, TypeOK, serviceVars
<1> QED
  BY <1>2, <1>3, <1>4, <1>5 DEF IInv

\* Steps that save the record.
LEMMA SaveStep ==
    ASSUME IInv, NEW w \in Operators, NEW u \in Worker, wk' = [wk EXCEPT ![w] = u],
           HeldTrue(u, revs),
           UNCHANGED <<graph, plan, locks, answered, serviceVars, bookVars, crashes>>,
           rec' \in Record, ItemsTrue(rec'.items, revs), StatusTruthful'
    PROVE  IInv'
<1>1. RevsGrow
  BY DEF IInv, TypeOK, RevsGrow, serviceVars, Revs
<1>2. wk' \in [Operators -> Worker] /\ \A v \in Operators : HeldTrue(wk'[v], revs')
  BY <1>1, OthersKeep DEF serviceVars
<1>3. DependenciesFirst' /\ PlanHasWaves'
  BY DEF IInv, DependenciesFirst, PlanHasWaves, serviceVars
<1>4. TypeOK'
  BY <1>2 DEF IInv, TypeOK, serviceVars, bookVars
<1> QED
  BY <1>2, <1>3, <1>4 DEF IInv, serviceVars

\* Calls of the service.
LEMMA ServiceStep ==
    ASSUME IInv, NEW w \in Operators, NEW u \in Worker, wk' = [wk EXCEPT ![w] = u],
           HeldTrue(u, revs'), UNCHANGED <<graph, fileVars, bookVars>>,
           crashes' \in 0..MaxFaults, RevsGrow, DependenciesFirst',
           apps' \in [Items -> AppStatuses], active' \in Pointers, stray' \subseteq Items
    PROVE  IInv'
<1>1. wk' \in [Operators -> Worker] /\ \A v \in Operators : HeldTrue(wk'[v], revs')
  BY OthersKeep
<1>2. ItemsTrue(rec'.items, revs') /\ StatusTruthful'
  BY SameRecord DEF fileVars
<1>3. TypeOK' /\ PlanHasWaves'
  BY <1>1 DEF IInv, TypeOK, PlanHasWaves, RevsGrow, Revs, fileVars, bookVars
<1> QED
  BY <1>1, <1>2, <1>3 DEF IInv

\* What is left of the waves when an item is done.
LEMMA AfterItemType ==
    ASSUME TypeOK, NEW w \in Operators, wk[w].waves # <<>>, HasItem(w)
    PROVE  AfterItem(w) \in Seq(Seq(Items)) /\ AfterItem(w) # <<>> /\ Current(w) \in Items
<1>1. wk[w].waves \in Seq(Seq(Items))
  BY DEF TypeOK, Worker
<1>2. Head(wk[w].waves) \in Seq(Items) /\ Tail(wk[w].waves) \in Seq(Seq(Items))
  BY <1>1, HeadTailProperties
<1>3. Tail(Head(wk[w].waves)) \in Seq(Items) /\ Current(w) \in Items
  BY <1>2, HeadTailProperties DEF HasItem, Current
<1>4. /\ <<Tail(Head(wk[w].waves))>> \in Seq(Seq(Items))
      /\ Len(<<Tail(Head(wk[w].waves))>>) = 1
  BY <1>3
<1>5. /\ AfterItem(w) \in Seq(Seq(Items))
      /\ Len(AfterItem(w)) = 1 + Len(Tail(wk[w].waves))
  BY <1>2, <1>4, ConcatProperties DEF AfterItem
<1>6. Len(Tail(wk[w].waves)) \in Nat
  BY <1>2, LenProperties
<1>7. AfterItem(w) # <<>>
  BY <1>5, <1>6, EmptySeq
<1> QED
  BY <1>3, <1>5, <1>7

\* What the invariant says of one command.
LEMMA Held ==
    ASSUME IInv, NEW w \in Operators
    PROVE  /\ wk[w] \in Worker /\ HeldTrue(wk[w], revs)
           /\ wk[w].rec \in Record /\ wk[w].rec.items \in [Items -> Item]
           /\ wk[w].waves \in Seq(Seq(Items)) /\ wk[w].item \in Items /\ wk[w].flag \in BOOLEAN
           /\ wk[w].was \in Nat
           /\ ItemsTrue(wk[w].rec.items, revs)
           /\ revs \in Revs /\ rec \in Record /\ rec.items \in [Items -> Item]
           /\ ItemsTrue(rec.items, revs)
BY DEF IInv, TypeOK, Worker, Record, Revs, HeldTrue

\* A command goes on, out of its waves.
LEMMA Moved ==
    ASSUME IInv, NEW w \in Operators, NEW label \in Labels \ (InWave \cup {"lock"})
    PROVE  /\ [wk[w] EXCEPT !.pc = label] \in Worker
           /\ HeldTrue([wk[w] EXCEPT !.pc = label], revs)
BY Held DEF Worker, HeldTrue, InWave, InItem

\* A command is at a new wave, or beyond its last one, or at a new item.
LEMMA NewWave ==
    ASSUME IInv, NEW w \in Operators, NEW waves \in Seq(Seq(Items)),
           NEW label \in {"wave", "group", "item", "resume_item", "finish"},
           label # "finish" => waves # <<>>
    PROVE  /\ [wk[w] EXCEPT !.pc = label, !.waves = waves] \in Worker
           /\ HeldTrue([wk[w] EXCEPT !.pc = label, !.waves = waves], revs)
BY Held DEF Worker, HeldTrue, InWave, InItem, Labels

-----------------------------------------------------------------------------
(* The actions *)

\* A save of the copy under a status of its own, with other items.
LEMMA OwnSave ==
    ASSUME IInv, NEW w \in Operators, NEW items \in [Items -> Item], ItemsTrue(items, revs),
           NEW sum \in Sums, NEW status \in BatchStatuses \ (Success \cup {"failed"}),
           rec' = [wk[w].rec EXCEPT !.status = status, !.items = items, !.plan = sum]
    PROVE  rec' \in Record /\ ItemsTrue(rec'.items, revs) /\ StatusTruthful'
BY Held, OwnStatusTrue DEF Record

\* A step within a command's memory.
LEMMA PureStep ==
    ASSUME IInv, NEW w \in Operators, NEW u \in Worker, wk' = [wk EXCEPT ![w] = u],
           HeldTrue(u, revs), UNCHANGED <<graph, fileVars, serviceVars, bookVars, crashes>>
    PROVE  IInv'
<1>1. /\ plan' \in [sum: Sums, waves: Seq(Seq(Items))] /\ PlanHasWaves'
      /\ locks' \subseteq Locked /\ answered' \subseteq Items
      /\ overlaps' \in 0..MaxFaults /\ begun' \in 0..MaxCommands /\ crashes' \in 0..MaxFaults
  BY DEF IInv, TypeOK, PlanHasWaves, fileVars, bookVars
<1>2. UNCHANGED <<graph, rec, serviceVars>>
  BY DEF fileVars
<1> QED
  BY <1>1, <1>2, MemoryStep

\* A save by Persist, after which the command goes on with the same items.
LEMMA PersistStep ==
    ASSUME IInv, NEW w \in Operators, NEW u \in Worker, wk' = [wk EXCEPT ![w] = u],
           HeldTrue(u, revs), NEW items \in [Items -> Item], ItemsTrue(items, revs), Persist(w, items),
           UNCHANGED <<graph, plan, locks, answered, serviceVars, bookVars, crashes>>
    PROVE  IInv'
<1>1. revs' = revs /\ TypeOK
  BY DEF serviceVars, IInv
<1>2. wk[w].rec \in Record /\ wk[w].flag \in BOOLEAN
  BY Held
<1>3. rec' \in Record /\ ItemsTrue(rec'.items, revs') /\ StatusTruthful'
  BY <1>1, <1>2, PersistTrue DEF Persist
<1> QED
  BY <1>1, <1>3, SaveStep

\* A command that starts is within the bounds.
LEMMA StartsType ==
    ASSUME IInv, NEW w \in Operators, NEW cmd, Starts(w, cmd)
    PROVE  overlaps' \in 0..MaxFaults /\ begun' \in 0..MaxCommands
BY BoundsAssumption DEF IInv, TypeOK, Starts

\* A command that starts with a true copy.
LEMMA StartStep ==
    ASSUME IInv, NEW w \in Operators, NEW cmd, Starts(w, cmd), NEW u \in Worker,
           wk' = [wk EXCEPT ![w] = u], HeldTrue(u, revs), UNCHANGED <<graph, fileVars, serviceVars, crashes>>
    PROVE  IInv'
<1>1. /\ plan' \in [sum: Sums, waves: Seq(Seq(Items))] /\ PlanHasWaves'
      /\ locks' \subseteq Locked /\ answered' \subseteq Items /\ crashes' \in 0..MaxFaults
      /\ overlaps' \in 0..MaxFaults /\ begun' \in 0..MaxCommands
  BY StartsType DEF IInv, TypeOK, PlanHasWaves, fileVars
<1>2. UNCHANGED <<graph, rec, serviceVars>>
  BY DEF fileVars
<1> QED
  BY <1>1, <1>2, MemoryStep

LEMMA InitHolds == Init => IInv
<1> SUFFICES ASSUME Init PROVE IInv
  OBVIOUS
<1>1. revs \in Revs /\ active \in Pointers /\ apps \in [Items -> AppStatuses]
  BY DEF Init, Revs, Root, Pointers, AppStatuses
<1>2. plan \in [sum: Sums, waves: Seq(Seq(Items))]
  BY DEF Init, NoPlan, Sums
<1>3. wk \in [Operators -> Worker] /\ \A w \in Operators : HeldTrue(wk[w], revs)
  BY <1>1, IdleType, IdleTrue DEF Init
<1>4. TypeOK
  BY <1>1, <1>2, <1>3, NoRecordType, BoundsAssumption DEF Init, TypeOK, Revs
<1>5. DependenciesFirst /\ PlanHasWaves
  BY DEF Init, DependenciesFirst, PlanHasWaves
<1>6. StatusTruthful /\ ItemsTrue(rec.items, revs)
  BY <1>1, IdleTrue DEF Init, StatusTruthful, NoRecord, Success
<1> QED
  BY <1>3, <1>4, <1>5, <1>6 DEF IInv

\* export_batch: the only step that writes the record while no command holds it.
LEMMA CreateHolds ==
    ASSUME IInv, NEW w \in Operators, Create(w)
    PROVE  IInv'
<1>1. /\ UNCHANGED <<graph, plan, locks, answered, apps, revs, active, stray, wk, crashes>>
      /\ rec' = [NoRecord EXCEPT !.status = "exported"]
  BY DEF Create, serviceVars
<1>2. overlaps' \in 0..MaxFaults /\ begun' \in 0..MaxCommands
  BY StartsType DEF Create
<1>3. rec' \in Record
  BY <1>1, NoRecordType DEF Record, BatchStatuses, ItemStatuses
<1>4. rec'.items = NoRecord.items /\ rec'.status = "exported"
  BY <1>1 DEF NoRecord
<1>5. ItemsTrue(rec'.items, revs') /\ StatusTruthful'
  BY <1>1, <1>4, Held, IdleTrue, OwnStatusTrue DEF Success
<1>6. TypeOK'
  BY <1>1, <1>2, <1>3 DEF IInv, TypeOK
<1> QED
  BY <1>1, <1>5, <1>6 DEF IInv, DependenciesFirst, PlanHasWaves

LEMMA BeginHolds ==
    ASSUME IInv, NEW w \in Operators, NEW cmd \in Locked, Begin(w, cmd)
    PROVE  IInv'
<1>1. PICK members \in IF cmd = "import" THEN Bundles ELSE {{}} :
          wk' = [wk EXCEPT ![w] = [Idle EXCEPT !.pc = "lock", !.cmd = cmd,
                     !.rec = IF cmd = "import" THEN rec ELSE NoRecord, !.todo = members]]
  BY DEF Begin
<1> DEFINE copy == IF cmd = "import" THEN rec ELSE NoRecord
           u == [Idle EXCEPT !.pc = "lock", !.cmd = cmd, !.rec = copy, !.todo = members]
<1>2. members \subseteq Items
  BY BoundsAssumption
<1>3. copy \in Record /\ ItemsTrue(copy.items, revs)
  BY Held, NoRecordType, IdleTrue
<1> HIDE DEF copy
<1>4. u \in Worker
  BY <1>2, <1>3, IdleType DEF Worker, Labels
<1>5. u.pc = "lock" /\ u.cmd = cmd /\ u.rec = copy
  BY DEF Idle
<1> HIDE DEF u
<1>6. HeldTrue(u, revs)
  BY <1>3, <1>5 DEF HeldTrue, InWave, InItem
<1>7. wk' = [wk EXCEPT ![w] = u]
  BY <1>1 DEF u, copy
<1> QED
  BY <1>4, <1>6, <1>7, StartStep DEF Begin

\* The lock files, and what is done under them short of a save.
LEMMA LockStepsHold ==
    ASSUME IInv, NEW w \in Operators,
           TakeLock(w) \/ Unlock(w) \/ ReadRecord(w) \/ ImportMember(w) \/ ImportedAll(w)
               \/ Reread(w) \/ PlanFails(w) \/ UndoBlocked(w)
    PROVE  IInv'
<1> USE Held
<1>1. CASE TakeLock(w)
  <2> DEFINE label == IF wk[w].cmd = "import" THEN "members" ELSE "read"
             u == [wk[w] EXCEPT !.pc = label]
  <2>1. u \in Worker /\ HeldTrue(u, revs)
    BY Moved DEF Labels, InWave
  <2>2. wk' = [wk EXCEPT ![w] = u]
    BY <1>1 DEF TakeLock, Goto, IInv, TypeOK
  <2>3. locks' \subseteq Locked
    BY <1>1 DEF TakeLock, At, HeldTrue, IInv, TypeOK
  <2>4. /\ UNCHANGED <<graph, rec, serviceVars>>
        /\ plan' \in [sum: Sums, waves: Seq(Seq(Items))] /\ PlanHasWaves' /\ answered' \subseteq Items
        /\ overlaps' \in 0..MaxFaults /\ begun' \in 0..MaxCommands /\ crashes' \in 0..MaxFaults
    BY <1>1 DEF TakeLock, bookVars, IInv, TypeOK, PlanHasWaves
  <2> QED
    BY <2>1, <2>2, <2>3, <2>4, MemoryStep
<1>2. CASE Unlock(w)
  <2> DEFINE u == IF wk[w].cmd = "import" THEN [wk[w] EXCEPT !.pc = "reread"] ELSE Idle
  <2>1. u \in Worker /\ HeldTrue(u, revs)
    BY Moved, IdleType, IdleTrue DEF Labels, InWave
  <2>2. wk' = [wk EXCEPT ![w] = u]
    BY <1>2 DEF Unlock, Goto, Stop, IInv, TypeOK
  <2>3. /\ UNCHANGED <<graph, rec, serviceVars>> /\ locks' \subseteq Locked
        /\ plan' \in [sum: Sums, waves: Seq(Seq(Items))] /\ PlanHasWaves' /\ answered' \subseteq Items
        /\ overlaps' \in 0..MaxFaults /\ begun' \in 0..MaxCommands /\ crashes' \in 0..MaxFaults
    BY <1>2 DEF Unlock, bookVars, IInv, TypeOK, PlanHasWaves
  <2> QED
    BY <2>1, <2>2, <2>3, MemoryStep
<1>3. CASE ReadRecord(w)
  <2>1. PICK label \in {"save_plan", "retried", "cancelled", "undo"}, todo \in SUBSET Items :
            wk' = [wk EXCEPT ![w].pc = label, ![w].rec = rec, ![w].todo = todo]
    BY <1>3 DEF ReadRecord
  <2> DEFINE u == [wk[w] EXCEPT !.pc = label, !.rec = rec, !.todo = todo]
  <2>2. u \in Worker /\ u.pc = label /\ u.rec = rec
    BY DEF Worker, Labels
  <2>3. wk' = [wk EXCEPT ![w] = u]
    BY <2>1 DEF IInv, TypeOK
  <2> HIDE DEF u
  <2>4. HeldTrue(u, revs)
    BY <2>2 DEF HeldTrue, InWave, InItem
  <2> QED
    BY <1>3, <2>2, <2>3, <2>4, PureStep DEF ReadRecord
<1>4. CASE ImportMember(w)
  <2>1. PICK todo \in SUBSET Items, got \in SUBSET Items, flag \in BOOLEAN :
            wk' = [wk EXCEPT ![w] = [wk[w] EXCEPT !.todo = todo, !.got = got, !.flag = flag]]
    <3>1. PICK i \in Lowest(wk[w].todo) :
             \/ \E valid \in BOOLEAN : wk' = [wk EXCEPT ![w].todo = wk[w].todo \ {i}, ![w].got = @ \cup {i},
                                                       ![w].flag = @ \/ ~valid]
             \/ wk' = [wk EXCEPT ![w].todo = wk[w].todo \ {i}, ![w].flag = TRUE]
      BY <1>4 DEF ImportMember
    <3>2. i \in Items /\ wk[w].todo \ {i} \in SUBSET Items /\ wk[w].got \in SUBSET Items
      BY DEF Lowest, Worker
    <3>3. CASE \E valid \in BOOLEAN : wk' = [wk EXCEPT ![w].todo = wk[w].todo \ {i}, ![w].got = @ \cup {i},
                                                       ![w].flag = @ \/ ~valid]
      <4>1. PICK valid \in BOOLEAN : wk' = [wk EXCEPT ![w].todo = wk[w].todo \ {i}, ![w].got = @ \cup {i},
                                                       ![w].flag = @ \/ ~valid]
        BY <3>3
      <4>2. (wk[w].flag \/ ~valid) \in BOOLEAN /\ wk[w].got \cup {i} \in SUBSET Items
        BY <3>2
      <4>3. wk' = [wk EXCEPT ![w] = [wk[w] EXCEPT !.todo = wk[w].todo \ {i}, !.got = wk[w].got \cup {i},
                                                  !.flag = wk[w].flag \/ ~valid]]
        BY <4>1 DEF IInv, TypeOK, Worker
      <4> QED
        BY <3>2, <4>2, <4>3
    <3>4. CASE wk' = [wk EXCEPT ![w].todo = wk[w].todo \ {i}, ![w].flag = TRUE]
      <4>1. wk' = [wk EXCEPT ![w] = [wk[w] EXCEPT !.todo = wk[w].todo \ {i}, !.got = wk[w].got, !.flag = TRUE]]
        BY <3>4 DEF IInv, TypeOK, Worker
      <4> QED
        BY <3>2, <4>1
    <3> QED
      BY <3>1, <3>3, <3>4
  <2> DEFINE u == [wk[w] EXCEPT !.todo = todo, !.got = got, !.flag = flag]
  <2>2. u \in Worker /\ HeldTrue(u, revs)
    BY DEF Worker, HeldTrue
  <2>3. /\ UNCHANGED <<graph, rec, serviceVars>> /\ locks' \subseteq Locked
        /\ plan' \in [sum: Sums, waves: Seq(Seq(Items))] /\ PlanHasWaves'
        /\ overlaps' \in 0..MaxFaults /\ begun' \in 0..MaxCommands /\ crashes' \in 0..MaxFaults
    BY <1>4 DEF ImportMember, bookVars, IInv, TypeOK, PlanHasWaves
  <2>4. answered' \subseteq Items
    <3>1. answered \subseteq Items /\ Lowest(wk[w].todo) \subseteq Items
      BY DEF Lowest, Worker, IInv, TypeOK
    <3>2. \E i \in Lowest(wk[w].todo) : answered' = answered \cup {i} \/ answered' = answered
      BY <1>4 DEF ImportMember
    <3> QED
      BY <3>1, <3>2
  <2> QED
    BY <2>1, <2>2, <2>3, <2>4, MemoryStep
<1>5. CASE ImportedAll(w) \/ PlanFails(w)
  <2> DEFINE u == [wk[w] EXCEPT !.pc = "unlock"]
  <2>1. u \in Worker /\ HeldTrue(u, revs)
    BY Moved DEF Labels, InWave
  <2>2. wk' = [wk EXCEPT ![w] = u]
    BY <1>5 DEF ImportedAll, PlanFails, Goto, IInv, TypeOK
  <2> QED
    BY <1>5, <2>1, <2>2, PureStep DEF ImportedAll, PlanFails
<1>6. CASE Reread(w)
  <2> DEFINE u == [wk[w] EXCEPT !.pc = "merge", !.rec = rec]
  <2>1. u \in Worker /\ HeldTrue(u, revs)
    BY DEF Worker, Labels, HeldTrue, InWave, InItem
  <2>2. wk' = [wk EXCEPT ![w] = u]
    BY <1>6 DEF Reread, IInv, TypeOK
  <2> QED
    BY <1>6, <2>1, <2>2, PureStep DEF Reread
<1>7. CASE UndoBlocked(w)
  <2> DEFINE u == [wk[w] EXCEPT !.todo = {}, !.flag = TRUE]
  <2>1. u \in Worker /\ HeldTrue(u, revs)
    BY DEF Worker, HeldTrue
  <2>2. wk' = [wk EXCEPT ![w] = u]
    BY <1>7 DEF UndoBlocked, IInv, TypeOK, Worker
  <2> QED
    BY <1>7, <2>1, <2>2, PureStep DEF UndoBlocked
<1> QED
  BY <1>1, <1>2, <1>3, <1>4, <1>5, <1>6, <1>7

\* The saves of the commands that hold a lock, all under a status of their own.
LEMMA LockedSavesHold ==
    ASSUME IInv, NEW w \in Operators,
           SaveImported(w) \/ SavePlanned(w) \/ SaveRetried(w) \/ SaveCancelled(w) \/ SaveRolledBack(w)
    PROVE  IInv'
<1> USE Held
<1> DEFINE unlock == [wk[w] EXCEPT !.pc = "unlock"]
           own == {"planned", "validation_partial", "responses_imported", "cancelled",
                   "rolled_back", "partially_rolled_back"}
<1>1. /\ unlock \in Worker /\ HeldTrue(unlock, revs)
      /\ Idle \in Worker /\ HeldTrue(Idle, revs)
  BY Moved, IdleType, IdleTrue DEF Labels, InWave
<1>2. wk' = [wk EXCEPT ![w] = unlock] \/ wk' = [wk EXCEPT ![w] = Idle]
  BY DEF SaveImported, SavePlanned, SaveRetried, SaveCancelled, SaveRolledBack, Goto, Stop, IInv, TypeOK
<1>3. UNCHANGED <<graph, plan, locks, answered, serviceVars, bookVars, crashes>>
  BY DEF SaveImported, SavePlanned, SaveRetried, SaveCancelled, SaveRolledBack
<1>4. PICK items \in [Items -> Item], sum \in Sums, status \in own :
         /\ rec' = [wk[w].rec EXCEPT !.status = status, !.items = items, !.plan = sum]
         /\ ItemsTrue(items, revs)
  <2>0. /\ wk[w].rec.plan \in Sums /\ wk[w].rec.items \in Sums
        /\ wk[w].rec.items \in [Items -> Item] /\ ItemsTrue(wk[w].rec.items, revs)
    BY DEF Record, Sums
  <2>1. CASE SaveImported(w)
    <3> DEFINE items == [i \in Items |-> IF i \in wk[w].got
                 THEN [wk[w].rec.items[i] EXCEPT !.status = "responses_imported", !.why = "none"]
                 ELSE wk[w].rec.items[i]]
               status == IF wk[w].flag THEN "validation_partial" ELSE "responses_imported"
    <3>1. rec' = [wk[w].rec EXCEPT !.status = status, !.items = items, !.plan = wk[w].rec.plan]
      BY <2>1 DEF SaveImported, Record
    <3>2. \A i \in Items :
             /\ items[i] \in Item /\ items[i].app = wk[w].rec.items[i].app
             /\ items[i].status \in Success => wk[w].rec.items[i].status \in Success
      BY <2>0 DEF Item, ItemStatuses, Reasons, Success
    <3>3. items \in [Items -> Item] /\ ItemsTrue(items, revs)
      BY <2>0, <3>2 DEF ItemsTrue
    <3> HIDE DEF items
    <3> QED
      BY <2>0, <3>1, <3>3
  <2>2. CASE SavePlanned(w)
    <3>1. rec' = [wk[w].rec EXCEPT !.status = "planned", !.items = wk[w].rec.items, !.plan = wk[w].rec.items]
      BY <2>2 DEF SavePlanned, Record
    <3> QED
      BY <2>0, <3>1
  <2>3. CASE SaveRetried(w)
    <3>1. rec' = [wk[w].rec EXCEPT !.status = "planned", !.items = wk[w].rec.items, !.plan = wk[w].rec.plan]
      BY <2>3 DEF SaveRetried, Record
    <3> QED
      BY <2>0, <3>1
  <2>4. CASE SaveCancelled(w)
    <3> DEFINE items == [i \in Items |->
                 IF wk[w].rec.items[i].status \in {"applied", "resumed", "failed"} THEN wk[w].rec.items[i]
                 ELSE [wk[w].rec.items[i] EXCEPT !.status = "cancelled", !.why = "none"]]
    <3>1. rec' = [wk[w].rec EXCEPT !.status = "cancelled", !.items = items, !.plan = wk[w].rec.plan]
      BY <2>4 DEF SaveCancelled, Record
    <3>2. \A i \in Items :
             /\ items[i] \in Item /\ items[i].app = wk[w].rec.items[i].app
             /\ items[i].status \in Success => wk[w].rec.items[i].status \in Success
      BY <2>0 DEF Item, ItemStatuses, Terminal, Reasons, Success
    <3>3. items \in [Items -> Item] /\ ItemsTrue(items, revs)
      BY <2>0, <3>2 DEF ItemsTrue
    <3> HIDE DEF items
    <3> QED
      BY <2>0, <3>1, <3>3
  <2>5. CASE SaveRolledBack(w)
    <3> DEFINE status == IF wk[w].flag THEN "partially_rolled_back" ELSE "rolled_back"
    <3>1. rec' = [wk[w].rec EXCEPT !.status = status, !.items = wk[w].rec.items, !.plan = wk[w].rec.plan]
      BY <2>5 DEF SaveRolledBack, Record
    <3> QED
      BY <2>0, <3>1
  <2> QED
    BY <2>1, <2>2, <2>3, <2>4, <2>5
<1>5. status \in BatchStatuses \ (Success \cup {"failed"})
  BY <1>4 DEF BatchStatuses, ItemStatuses, Terminal, Success
<1>6. rec' \in Record /\ ItemsTrue(rec'.items, revs) /\ StatusTruthful'
  BY <1>4, <1>5, OwnSave
<1> QED
  BY <1>1, <1>2, <1>3, <1>6, SaveStep

\* A plan has waves, whatever the batch.
LEMMA SavePlanHolds ==
    ASSUME IInv, Validated, NEW w \in Operators, SavePlan(w)
    PROVE  IInv'
<1> DEFINE u == [wk[w] EXCEPT !.pc = "planned"]
<1>1. u \in Worker /\ HeldTrue(u, revs)
  BY Moved DEF Labels, InWave
<1>2. wk' = [wk EXCEPT ![w] = u]
  BY DEF SavePlan, Goto, IInv, TypeOK
<1>3. Waves(graph.deps, graph.conflicts) \in Seq(Seq(Items)) \ {<<>>} /\ wk[w].rec.items \in Sums
  <2>1. graph.deps \in [Items -> SUBSET Items]
    BY GraphType DEF IInv
  <2>2. ValidGraph(graph.deps)
    BY DEF Validated, SavePlan, At
  <2> QED
    BY <2>1, <2>2, WavesSound, Held DEF Sums
<1>4. plan' \in [sum: Sums, waves: Seq(Seq(Items))] /\ PlanHasWaves'
  BY <1>3 DEF SavePlan, PlanHasWaves
<1>5. /\ UNCHANGED <<graph, rec, serviceVars>> /\ locks' \subseteq Locked /\ answered' \subseteq Items
      /\ overlaps' \in 0..MaxFaults /\ begun' \in 0..MaxCommands /\ crashes' \in 0..MaxFaults
  BY DEF SavePlan, bookVars, IInv, TypeOK
<1> QED
  BY <1>1, <1>2, <1>4, <1>5, MemoryStep

\* A command stops.
LEMMA StopHolds ==
    ASSUME IInv, NEW w \in Operators, Stop(w),
           UNCHANGED <<graph, fileVars, serviceVars, bookVars, crashes>>
    PROVE  IInv'
BY Held, IdleType, IdleTrue, PureStep DEF Stop

\* A command begins to loop over waves: apply over those of the plan, resume
\* over those it computes.
LEMMA StartLoopHolds ==
    ASSUME IInv, Validated, NEW w \in Operators, StartApply(w) \/ StartResume(w)
    PROVE  IInv'
<1>1. /\ plan.waves \in Seq(Seq(Items)) /\ active \in Pointers
      /\ Waves(graph.deps, graph.conflicts) \in Seq(Seq(Items)) \ {<<>>}
  <2>1. graph.deps \in [Items -> SUBSET Items]
    BY GraphType DEF IInv
  <2>2. ValidGraph(graph.deps)
    BY DEF Validated, StartApply, StartResume, SnapshotValid
  <2> QED
    BY <2>1, <2>2, WavesSound DEF IInv, TypeOK
<1>2. plan.waves # <<>>
  BY DEF StartApply, StartResume, SnapshotValid, IInv, PlanHasWaves
<1>3. PICK label \in {"wave", "group"}, cmd \in {"apply", "resume"}, waves \in Seq(Seq(Items)) \ {<<>>} :
         /\ Starts(w, cmd)
         /\ wk' = [wk EXCEPT ![w] = [Idle EXCEPT !.pc = label, !.cmd = cmd, !.rec = rec,
                                                 !.waves = waves, !.exp = active]]
  BY <1>1, <1>2 DEF StartApply, StartResume
<1> DEFINE u == [Idle EXCEPT !.pc = label, !.cmd = cmd, !.rec = rec, !.waves = waves, !.exp = active]
<1>4. u \in Worker
  BY <1>1, Held, IdleType DEF Worker, Labels
<1>5. u.pc = label /\ u.rec = rec /\ u.waves = waves
  BY DEF Idle
<1> HIDE DEF u
<1>6. HeldTrue(u, revs)
  BY <1>5, Held DEF HeldTrue, InItem
<1>7. wk' = [wk EXCEPT ![w] = u]
  BY <1>3 DEF u
<1> QED
  BY <1>3, <1>4, <1>6, <1>7, StartStep DEF StartApply, StartResume

\* A wave starts from the record on file.
LEMMA StartWaveHolds ==
    ASSUME IInv, NEW w \in Operators, StartWave(w)
    PROVE  IInv'
<1> DEFINE copy == [rec EXCEPT !.plan = plan.sum]
           u == [wk[w] EXCEPT !.pc = "item", !.rec = copy]
<1>1. copy \in Record /\ copy.items = rec.items
  BY Held DEF Record, IInv, TypeOK
<1> HIDE DEF copy
<1>2. u \in Worker /\ u.pc = "item" /\ u.rec = copy /\ u.waves = wk[w].waves
  BY <1>1, Held DEF Worker, Labels
<1>3. wk' = [wk EXCEPT ![w] = u]
  BY DEF StartWave, IInv, TypeOK, copy
<1>4. wk[w].waves # <<>>
  BY Held DEF StartWave, At, HeldTrue, InWave
<1> HIDE DEF u
<1>5. HeldTrue(u, revs)
  BY <1>1, <1>2, <1>4, Held DEF HeldTrue, InItem
<1> QED
  BY <1>2, <1>3, <1>5, PureStep DEF StartWave

\* A group starts from the items in memory.
LEMMA ReloadedTrue ==
    ASSUME IInv, NEW w \in Operators
    PROVE  Reloaded(w) \in Record /\ Reloaded(w).items = wk[w].rec.items
BY Held DEF Reloaded, Record, IInv, TypeOK

LEMMA StartGroupHolds ==
    ASSUME IInv, NEW w \in Operators, StartGroup(w)
    PROVE  IInv'
<1> DEFINE u == [wk[w] EXCEPT !.pc = "resume_item", !.rec = Reloaded(w)]
<1>1. u \in Worker /\ u.pc = "resume_item" /\ u.rec = Reloaded(w) /\ u.waves = wk[w].waves
  BY ReloadedTrue, Held DEF Worker, Labels
<1>2. wk' = [wk EXCEPT ![w] = u]
  BY DEF StartGroup, IInv, TypeOK
<1>3. wk[w].waves # <<>>
  BY Held DEF StartGroup, At, HeldTrue, InWave
<1> HIDE DEF u
<1>4. HeldTrue(u, revs)
  BY <1>1, <1>3, ReloadedTrue, Held DEF HeldTrue, InItem
<1> QED
  BY <1>1, <1>2, <1>4, PureStep DEF StartGroup

\* An item, or the rest of a wave, is passed over.
LEMMA SkipHolds ==
    ASSUME IInv, NEW w \in Operators, SkipItem(w) \/ SkipResume(w)
    PROVE  IInv'
<1>1. wk[w].pc \in {"item", "resume_item"} /\ HasItem(w) /\ wk[w].waves # <<>>
  BY Held DEF SkipItem, SkipResume, At, HeldTrue, InWave
<1>2. AfterItem(w) \in Seq(Seq(Items)) /\ AfterItem(w) # <<>>
  BY <1>1, AfterItemType DEF IInv
<1> DEFINE u == [wk[w] EXCEPT !.pc = wk[w].pc, !.waves = AfterItem(w)]
<1>3. u \in Worker /\ HeldTrue(u, revs)
  BY <1>1, <1>2, NewWave
<1>4. wk' = [wk EXCEPT ![w] = u]
  BY Held DEF SkipItem, SkipResume, IInv, TypeOK, Worker
<1> QED
  BY <1>3, <1>4, PureStep DEF SkipItem, SkipResume

LEMMA NextWaveHolds ==
    ASSUME IInv, NEW w \in Operators, NextWave(w)
    PROVE  IInv'
<1> DEFINE loop == IF wk[w].cmd = "apply" THEN "wave" ELSE "group"
           label == IF Tail(wk[w].waves) = <<>> THEN "finish" ELSE loop
           u == [wk[w] EXCEPT !.pc = label, !.waves = Tail(wk[w].waves)]
<1>1. wk[w].waves \in Seq(Seq(Items)) /\ wk[w].waves # <<>>
  BY Held DEF NextWave, HeldTrue, InWave
<1>2. Tail(wk[w].waves) \in Seq(Seq(Items))
  BY <1>1, HeadTailProperties
<1>3. u \in Worker /\ HeldTrue(u, revs)
  BY <1>2, NewWave
<1>4. wk' = [wk EXCEPT ![w] = u]
  BY Held DEF NextWave, IInv, TypeOK, Worker
<1> QED
  BY <1>3, <1>4, PureStep DEF NextWave

LEMMA ReadExpectedHolds ==
    ASSUME IInv, NEW w \in Operators, ReadExpected(w)
    PROVE  IInv'
<1> DEFINE loop == IF wk[w].cmd = "apply" THEN "item" ELSE "resume_item"
           next == [wk[w] EXCEPT !.pc = loop, !.exp = active, !.waves = AfterItem(w)]
           failed == [wk[w] EXCEPT !.pc = "failed_item"]
<1>1. wk[w].pc = "expect" /\ wk[w].waves # <<>> /\ HasItem(w)
  BY Held DEF ReadExpected, At, HeldTrue, InWave, InItem, HasItem
<1>2. AfterItem(w) \in Seq(Seq(Items)) /\ AfterItem(w) # <<>>
  BY <1>1, AfterItemType DEF IInv
<1>3. next \in Worker /\ HeldTrue(next, revs)
  <2>1. active \in Pointers
    BY DEF IInv, TypeOK
  <2>2. /\ next \in Worker /\ next.pc \in {"item", "resume_item"}
        /\ next.rec = wk[w].rec /\ next.waves = AfterItem(w)
    BY <1>2, <2>1, Held DEF Worker, Labels
  <2> QED
    BY <1>2, <2>2, Held DEF HeldTrue, InItem
<1>4. failed \in Worker /\ HeldTrue(failed, revs)
  BY <1>1, Held DEF Worker, Labels, HeldTrue, HasItem, InItem
<1>5. wk' = [wk EXCEPT ![w] = next] \/ wk' = [wk EXCEPT ![w] = failed]
  BY Held DEF ReadExpected, IInv, TypeOK
<1> QED
  BY <1>3, <1>4, <1>5, PureStep DEF ReadExpected

\* An item is dealt with, on file or in memory.
LEMMA ItemDone ==
    ASSUME IInv, NEW w \in Operators, wk[w].waves # <<>>, HasItem(w),
           NEW items \in [Items -> Item], ItemsTrue(items, revs),
           NEW label \in {"item", "resume_item"}
    PROVE  /\ [wk[w] EXCEPT !.pc = label, !.rec.items = items, !.waves = AfterItem(w)] \in Worker
           /\ HeldTrue([wk[w] EXCEPT !.pc = label, !.rec.items = items, !.waves = AfterItem(w)], revs)
<1>1. AfterItem(w) \in Seq(Seq(Items)) /\ AfterItem(w) # <<>>
  BY AfterItemType DEF IInv
<1> DEFINE copy == [wk[w].rec EXCEPT !.items = items]
           u == [wk[w] EXCEPT !.pc = label, !.rec = copy, !.waves = AfterItem(w)]
<1>2. copy \in Record /\ copy.items = items
  BY Held DEF Record
<1>3. u = [wk[w] EXCEPT !.pc = label, !.rec.items = items, !.waves = AfterItem(w)]
  BY Held DEF Worker
<1> HIDE DEF copy
<1>4. u \in Worker /\ u.pc = label /\ u.waves = AfterItem(w) /\ u.rec = copy
  <2>1. label \in Labels /\ AfterItem(w) \in Seq(Seq(Items)) /\ wk[w] \in Worker
    BY <1>1, Held DEF Labels
  <2> QED
    BY <1>2, <2>1 DEF Worker
<1> HIDE DEF u
<1>5. HeldTrue(u, revs)
  BY <1>1, <1>2, <1>4 DEF HeldTrue, InItem
<1> QED
  BY <1>3, <1>4, <1>5

\* The other items of the record are marked, and the command goes on at `label`.
LEMMA ItemsSaved ==
    ASSUME IInv, NEW w \in Operators, NEW items \in [Items -> Item], ItemsTrue(items, revs),
           NEW label \in {"finish", "expect"},
           label = "expect" =>
               wk[w].waves # <<>> /\ HasItem(w) /\ wk[w].was <= revs[wk[w].item].ver
    PROVE  /\ [wk[w] EXCEPT !.pc = label, !.rec.items = items] \in Worker
           /\ HeldTrue([wk[w] EXCEPT !.pc = label, !.rec.items = items], revs)
<1> DEFINE copy == [wk[w].rec EXCEPT !.items = items]
           u == [wk[w] EXCEPT !.pc = label, !.rec = copy]
<1>1. copy \in Record /\ copy.items = items
  BY Held DEF Record
<1>2. u = [wk[w] EXCEPT !.pc = label, !.rec.items = items]
  BY Held DEF Worker
<1> HIDE DEF copy
<1>3. /\ u \in Worker /\ u.pc = label /\ u.waves = wk[w].waves
      /\ u.rec = copy /\ u.was = wk[w].was /\ u.item = wk[w].item
  <2>1. label \in Labels /\ wk[w] \in Worker
    BY Held DEF Labels
  <2> QED
    BY <1>1, <2>1 DEF Worker
<1> HIDE DEF u
<1>4. HeldTrue(u, revs)
  BY <1>1, <1>3 DEF HeldTrue, InWave, InItem, HasItem
<1> QED
  BY <1>2, <1>3, <1>4

\* An item is blocked: apply saves that, resume does not.
LEMMA BlockHolds ==
    ASSUME IInv, NEW w \in Operators, BlockItem(w) \/ BlockResume(w)
    PROVE  IInv'
<1>1. wk[w].pc \in {"item", "resume_item"} /\ wk[w].waves # <<>> /\ HasItem(w)
  BY Held DEF BlockItem, BlockResume, AtResume, At, HeldTrue, InWave
<1>2. PICK why \in {"dependency", "pending"} :
         /\ wk' = [wk EXCEPT ![w].rec.items = Marked(w, {Current(w)}, "validation_partial", why),
                             ![w].waves = AfterItem(w)]
         /\ \/ /\ Persist(w, Marked(w, {Current(w)}, "validation_partial", why))
               /\ UNCHANGED <<graph, plan, locks, answered, serviceVars, bookVars, crashes>>
            \/ UNCHANGED <<graph, fileVars, serviceVars, bookVars, crashes>>
  BY DEF BlockItem, BlockResume
<1> DEFINE items == Marked(w, {Current(w)}, "validation_partial", why)
<1>3. items \in [Items -> Item] /\ ItemsTrue(items, revs)
  <2>1. "validation_partial" \in ItemStatuses \ Success /\ why \in Reasons
    BY DEF ItemStatuses, Success, Reasons
  <2> QED
    BY <2>1, Held, MarkedTrue DEF IInv
<1> HIDE DEF items
<1> DEFINE u == [wk[w] EXCEPT !.pc = wk[w].pc, !.rec.items = items, !.waves = AfterItem(w)]
<1>4. u \in Worker /\ HeldTrue(u, revs)
  BY <1>1, <1>3, ItemDone
<1>5. wk' = [wk EXCEPT ![w] = u]
  BY <1>2, Held DEF IInv, TypeOK, Worker, items
<1> HIDE DEF u
<1>6. CASE UNCHANGED <<graph, fileVars, serviceVars, bookVars, crashes>>
  BY <1>4, <1>5, <1>6, PureStep
<1>7. CASE /\ Persist(w, items)
           /\ UNCHANGED <<graph, plan, locks, answered, serviceVars, bookVars, crashes>>
  BY <1>3, <1>4, <1>5, <1>7, PersistStep
<1> QED
  BY <1>2, <1>6, <1>7 DEF items

\* The exception of one item.
LEMMA SaveFailedHolds ==
    ASSUME IInv, NEW w \in Operators, SaveFailed(w)
    PROVE  IInv'
<1> DEFINE i == wk[w].item
           settled == {j \in Items : Status(w, j) \in Terminal}
           hit == Dependents(graph.deps, i, settled \cup {i})
           items == [j \in Items |-> IF j \in hit THEN [Failed(w)[j] EXCEPT !.status = "validation_partial",
                                                                             !.why = "dependency"]
                                     ELSE Failed(w)[j]]
           label == IF wk[w].cmd = "apply" THEN "item" ELSE "resume_item"
           u == [wk[w] EXCEPT !.pc = label, !.rec.items = items, !.waves = AfterItem(w)]
<1>1. wk[w].waves # <<>> /\ HasItem(w) /\ wk[w].was <= revs[i].ver
  BY Held DEF SaveFailed, At, HeldTrue, InWave, InItem, HasItem
<1>2. Failed(w) \in [Items -> Item] /\ ItemsTrue(Failed(w), revs)
  <2> DEFINE marked == Marked(w, {i}, "failed", "none")
  <2>1. "failed" \in ItemStatuses \ Success /\ "none" \in Reasons
    BY DEF ItemStatuses, Terminal, Success, Reasons
  <2>2. marked \in [Items -> Item] /\ ItemsTrue(marked, revs) /\ i \in Items
    BY <2>1, Held, MarkedTrue DEF IInv
  <2> HIDE DEF marked
  <2> DEFINE it == [marked[i] EXCEPT !.app = wk[w].was]
  <2>3. it \in Item /\ it.app = wk[w].was /\ it.status = marked[i].status
    BY <2>2, Held DEF Item
  <2>4. Failed(w) = [marked EXCEPT ![i] = it]
    BY <2>2, Held DEF Failed, marked
  <2>5. marked[i].status = "failed"
    <3>1. marked[i] = [wk[w].rec.items[i] EXCEPT !.status = "failed", !.why = "none"]
      BY <2>2 DEF Marked, marked
    <3> QED
      BY <2>2, <3>1, Held DEF Item
  <2> HIDE DEF it
  <2> QED
    BY <1>1, <2>2, <2>3, <2>4, <2>5, Held DEF ItemsTrue, Success
<1>3. items \in [Items -> Item] /\ ItemsTrue(items, revs)
  <2> HIDE DEF hit
  <2>1. \A j \in Items : /\ items[j] \in Item /\ items[j].app = Failed(w)[j].app
                         /\ items[j].status \in Success => Failed(w)[j].status \in Success
    BY <1>2 DEF Item, ItemStatuses, Reasons, Success
  <2> QED
    BY <1>2, <2>1 DEF ItemsTrue
<1>4. /\ wk' = [wk EXCEPT ![w].pc = label, ![w].rec.items = items, ![w].waves = AfterItem(w)]
      /\ Persist(w, items)
      /\ UNCHANGED <<graph, plan, locks, answered, serviceVars, bookVars, crashes>>
  BY DEF SaveFailed
<1> HIDE DEF items
<1>5. u \in Worker /\ HeldTrue(u, revs)
  BY <1>1, <1>3, ItemDone
<1>6. wk' = [wk EXCEPT ![w] = u]
  BY <1>4, Held DEF IInv, TypeOK, Worker
<1> HIDE DEF u
<1> QED
  BY <1>3, <1>4, <1>5, <1>6, PersistStep

\* The success of an item is saved: the copy has its revision by then.
LEMMA SaveSuccessHolds ==
    ASSUME IInv, NEW w \in Operators, SaveApplied(w) \/ SaveResumed(w)
    PROVE  IInv'
<1>1. /\ wk[w].waves # <<>> /\ HasItem(w) /\ 1 <= wk[w].rec.items[wk[w].item].app
      /\ wk[w].was <= revs[wk[w].item].ver
  BY Held DEF SaveApplied, SaveResumed, At, HeldTrue, InWave, InItem, HasItem
<1>2. PICK status \in Success :
         /\ wk' = [wk EXCEPT ![w].pc = "expect", ![w].rec.items = Marked(w, {wk[w].item}, status, "none")]
         /\ Persist(w, Marked(w, {wk[w].item}, status, "none"))
         /\ UNCHANGED <<graph, plan, locks, answered, serviceVars, bookVars, crashes>>
  BY DEF SaveApplied, SaveResumed, Success
<1> DEFINE items == Marked(w, {wk[w].item}, status, "none")
<1>3. items \in [Items -> Item] /\ ItemsTrue(items, revs)
  BY <1>1, Held, MarkedSuccessTrue DEF IInv
<1> HIDE DEF items
<1> DEFINE u == [wk[w] EXCEPT !.pc = "expect", !.rec.items = items]
<1>4. u \in Worker /\ HeldTrue(u, revs)
  BY <1>1, <1>3, ItemsSaved
<1>5. wk' = [wk EXCEPT ![w] = u]
  BY <1>2, Held DEF IInv, TypeOK, Worker, items
<1> HIDE DEF u
<1> QED
  BY <1>2, <1>3, <1>4, <1>5, PersistStep DEF items

\* A resume that halts at an item marks what remains.
LEMMA HaltResumeHolds ==
    ASSUME IInv, NEW w \in Operators, HaltResume(w)
    PROVE  IInv'
<1> DEFINE items == Marked(w, {Current(w)} \cup Remaining(w), "validation_partial", "halted")
           u == [wk[w] EXCEPT !.pc = "finish", !.rec.items = items]
<1>1. "validation_partial" \in ItemStatuses \ Success /\ "halted" \in Reasons
  BY DEF ItemStatuses, Success, Reasons
<1>2. items \in [Items -> Item] /\ ItemsTrue(items, revs)
  BY <1>1, Held, MarkedTrue DEF IInv
<1>3. /\ wk' = [wk EXCEPT ![w].pc = "finish", ![w].rec.items = items]
      /\ Persist(w, items)
      /\ UNCHANGED <<graph, plan, locks, answered, serviceVars, bookVars, crashes>>
  BY DEF HaltResume
<1> HIDE DEF items
<1>4. u \in Worker /\ HeldTrue(u, revs)
  BY <1>2, ItemsSaved
<1>5. wk' = [wk EXCEPT ![w] = u]
  BY <1>3, Held DEF IInv, TypeOK, Worker
<1> HIDE DEF u
<1> QED
  BY <1>2, <1>3, <1>4, <1>5, PersistStep

\* One that halts before a group has read the rest of the record again.
LEMMA GroupStaleHolds ==
    ASSUME IInv, NEW w \in Operators, GroupStale(w)
    PROVE  IInv'
<1> DEFINE items == Marked(w, Remaining(w), "validation_partial", "halted")
           copy == [Reloaded(w) EXCEPT !.items = items]
           u == [wk[w] EXCEPT !.pc = "finish", !.rec = copy]
<1>1. "validation_partial" \in ItemStatuses \ Success /\ "halted" \in Reasons
  BY DEF ItemStatuses, Success, Reasons
<1>2. items \in [Items -> Item] /\ ItemsTrue(items, revs)
  BY <1>1, Held, MarkedTrue DEF IInv
<1>3. /\ wk' = [wk EXCEPT ![w].pc = "finish", ![w].rec = copy]
      /\ rec' = [Reloaded(w) EXCEPT !.items = items, !.status = DerivedStatus(items, wk[w].flag)]
      /\ UNCHANGED <<graph, plan, locks, answered, serviceVars, bookVars, crashes>>
  BY DEF GroupStale
<1> HIDE DEF items
<1>4. copy \in Record /\ copy.items = items
  BY <1>2, ReloadedTrue DEF Record
<1> HIDE DEF copy
<1>5. u \in Worker /\ u.pc = "finish" /\ u.rec = copy
  BY <1>4, Held DEF Worker, Labels
<1>6. wk' = [wk EXCEPT ![w] = u]
  BY <1>3 DEF IInv, TypeOK
<1> HIDE DEF u
<1>7. HeldTrue(u, revs)
  BY <1>2, <1>4, <1>5 DEF HeldTrue, InWave, InItem
<1>8. revs' = revs /\ TypeOK /\ wk[w].flag \in BOOLEAN /\ Reloaded(w) \in Record
  BY <1>3, Held, ReloadedTrue DEF serviceVars, IInv
<1>9. rec' \in Record /\ ItemsTrue(rec'.items, revs) /\ StatusTruthful'
  BY <1>2, <1>3, <1>8, PersistTrue
<1> QED
  BY <1>3, <1>5, <1>6, <1>7, <1>9, SaveStep

LEMMA FinishHolds ==
    ASSUME IInv, NEW w \in Operators, Finish(w)
    PROVE  IInv'
<1>1. Idle \in Worker /\ HeldTrue(Idle, revs)
  BY Held, IdleType, IdleTrue
<1> QED
  BY <1>1, Held, PersistStep DEF Finish, Stop

\* What a publication changes.
LEMMA PublishedTrue ==
    ASSUME IInv, NEW i \in Items, revs' = Published(i), UNCHANGED graph,
           \A d \in graph.deps[i] : 0 < revs[d].ver
    PROVE  RevsGrow /\ DependenciesFirst' /\ revs'[i].ver = revs[i].ver + 1
<1>1. revs \in Revs /\ active \in Pointers
  BY Held DEF IInv, TypeOK, Revs
<1>2. /\ revs' \in Revs /\ revs'[i].ver = revs[i].ver + 1
      /\ \A j \in Items \ {i} : revs'[j] = revs[j]
  BY <1>1 DEF Published, Revs, Pointers
<1>3. RevsGrow
  BY <1>1, <1>2 DEF RevsGrow, Revs
<1>4. DependenciesFirst'
  <2>1. \A j \in Items : graph.deps[j] \subseteq Items
    BY BoundsAssumption DEF IInv, TypeOK
  <2> SUFFICES ASSUME NEW j \in Items, revs'[j].ver > 0, NEW d \in graph.deps[j]
               PROVE  revs'[d].ver > 0
    BY DEF DependenciesFirst
  <2>2. d \in Items /\ revs[d].ver <= revs'[d].ver /\ revs[d].ver \in Nat /\ revs'[d].ver \in Nat
    BY <1>1, <1>3, <2>1 DEF RevsGrow, Revs
  <2>3. revs[d].ver > 0
    <3>1. CASE j = i
      BY <3>1, <2>2
    <3>2. CASE j # i
      BY <1>2, <3>2 DEF IInv, DependenciesFirst
    <3> QED
      BY <3>1, <3>2
  <2> QED
    BY <2>2, <2>3
<1> QED
  BY <1>2, <1>3, <1>4

\* An item that may be applied comes after what it depends on.
LEMMA RunnableReady ==
    ASSUME IInv, NEW w \in Operators, Runnable(w)
    PROVE  /\ wk[w].waves # <<>> /\ HasItem(w) /\ Current(w) \in Items
           /\ \A d \in graph.deps[Current(w)] : 0 < revs[d].ver
<1>1. wk[w].waves # <<>> /\ HasItem(w)
  BY Held DEF Runnable, At, HeldTrue, InWave
<1>2. Current(w) \in Items
  BY <1>1, AfterItemType DEF IInv
<1>3. \A d \in graph.deps[Current(w)] : d \in Items /\ wk[w].rec.items[d].status \in Success
  BY <1>2, BoundsAssumption DEF Runnable, Blockers, Status, IInv, TypeOK
<1>4. ASSUME NEW d \in graph.deps[Current(w)] PROVE 0 < revs[d].ver
  BY <1>3, Held DEF ItemsTrue, Item, Revs
<1> QED
  BY <1>1, <1>2, <1>4

\* A command that has called the service remembers what the item was.
LEMMA CalledTrue ==
    ASSUME IInv, NEW w \in Operators, Current(w) \in Items,
           NEW label \in {"done_item", "failed_item", "resumed_item"}
    PROVE  /\ Called(w, label) \in Worker /\ Called(w, label).pc = label
           /\ Called(w, label).rec = wk[w].rec /\ Called(w, label).waves = wk[w].waves
           /\ Called(w, label).item = Current(w)
           /\ Called(w, label).was <= revs[Current(w)].ver
<1>1. wk[w].rec.items[Current(w)].app \in Nat
      /\ wk[w].rec.items[Current(w)].app <= revs[Current(w)].ver
  BY Held DEF ItemsTrue, Item
<1> QED
  BY <1>1, Held DEF Called, Worker, Labels

\* An application: the copy gets the version just published.
LEMMA ApplyItemHolds ==
    ASSUME IInv, NEW w \in Operators, ApplyItem(w)
    PROVE  IInv'
<1> DEFINE i == Current(w)
<1>1. /\ wk[w].waves # <<>> /\ HasItem(w) /\ i \in Items
      /\ \A d \in graph.deps[i] : 0 < revs[d].ver
  BY RunnableReady DEF ApplyItem
<1>2. /\ UNCHANGED <<graph, fileVars, bookVars, crashes>> /\ crashes' \in 0..MaxFaults
      /\ graph' = graph
  BY DEF ApplyItem, IInv, TypeOK
<1>3. apps \in [Items -> AppStatuses] /\ active \in Pointers /\ stray \subseteq Items
  BY DEF IInv, TypeOK
<1> HIDE DEF i
<1>4. CASE /\ ServiceApplies(i)
           /\ wk' = [wk EXCEPT ![w] = [Called(w, "done_item") EXCEPT !.rec.items[i].app = revs[i].ver + 1]]
  <2>1. RevsGrow /\ DependenciesFirst' /\ revs'[i].ver = revs[i].ver + 1
    BY <1>1, <1>2, <1>4, PublishedTrue DEF ServiceApplies
  <2>2. apps' \in [Items -> AppStatuses] /\ active' \in Pointers /\ stray' \subseteq Items
    BY <1>1, <1>3, <1>4, Held DEF ServiceApplies, AppStatuses, Pointers, Revs
  <2> DEFINE items == [wk[w].rec.items EXCEPT ![i].app = revs[i].ver + 1]
             copy == [wk[w].rec EXCEPT !.items = items]
             u == [wk[w] EXCEPT !.pc = "done_item", !.item = i, !.was = wk[w].rec.items[i].app, !.rec = copy]
  <2>3. /\ items \in [Items -> Item] /\ items[i].app = revs'[i].ver /\ 1 <= items[i].app
        /\ \A j \in Items \ {i} : items[j] = wk[w].rec.items[j]
    <3>1. wk[w].rec.items[i] \in Item /\ revs[i].ver \in Nat
      BY <1>1, Held DEF Revs
    <3>2. [wk[w].rec.items[i] EXCEPT !.app = revs[i].ver + 1] \in Item
      BY <3>1 DEF Item
    <3>3. /\ items = [wk[w].rec.items EXCEPT ![i] = [wk[w].rec.items[i] EXCEPT !.app = revs[i].ver + 1]]
          /\ items[i] = [wk[w].rec.items[i] EXCEPT !.app = revs[i].ver + 1]
          /\ items[i].app = revs[i].ver + 1
      BY <1>1, <3>1, Held DEF Item
    <3>4. items \in [Items -> Item] /\ \A j \in Items \ {i} : items[j] = wk[w].rec.items[j]
      BY <1>1, <3>2, <3>3, Held
    <3> QED
      BY <2>1, <3>1, <3>3, <3>4
  <2>4. ItemsTrue(items, revs')
    <3>1. ItemsTrue(wk[w].rec.items, revs')
      BY <2>1, Held, ItemsStayTrue
    <3> HIDE DEF items
    <3>2. revs'[i].ver \in Nat
      BY <1>1, <2>1 DEF RevsGrow, Revs
    <3> QED
      BY <2>3, <3>1, <3>2 DEF ItemsTrue
  <2>5. wk' = [wk EXCEPT ![w] = u]
    <3> DEFINE v == [Called(w, "done_item") EXCEPT !.rec.items[i].app = revs[i].ver + 1]
    <3>1. v = u
      BY Held DEF Called, Worker, Record, i
    <3> QED
      BY <1>4, <3>1
  <2> HIDE DEF items
  <2>6. copy \in Record /\ copy.items = items
    BY <2>3, Held DEF Record
  <2> HIDE DEF copy
  <2>7. /\ u \in Worker /\ u.pc = "done_item" /\ u.rec = copy /\ u.item = i /\ u.waves = wk[w].waves
        /\ u.was = wk[w].rec.items[i].app
    BY <1>1, <2>6, Held DEF Worker, Labels, Item
  <2>8. wk[w].rec.items[i].app <= revs'[i].ver
    BY <1>1, <2>1, Held DEF ItemsTrue, RevsGrow, Revs, Item
  <2> HIDE DEF u
  <2>9. HeldTrue(u, revs')
    BY <1>1, <2>3, <2>4, <2>6, <2>7, <2>8 DEF HeldTrue, HasItem
  <2> QED
    BY <1>2, <2>1, <2>2, <2>5, <2>7, <2>9, ServiceStep
<1>5. CASE /\ ServiceRefuses(i)
           /\ wk' = [wk EXCEPT ![w] = Called(w, "failed_item")]
  <2> DEFINE u == Called(w, "failed_item")
  <2>1. /\ u \in Worker /\ u.pc = "failed_item" /\ u.rec = wk[w].rec /\ u.waves = wk[w].waves
        /\ u.item = i /\ u.was <= revs[i].ver
    BY <1>1, CalledTrue DEF i
  <2>2. wk' = [wk EXCEPT ![w] = u]
    BY <1>5
  <2> HIDE DEF u
  <2>3. UNCHANGED <<revs, active, stray>> /\ apps' \in [Items -> AppStatuses]
    BY <1>1, <1>3, <1>5 DEF ServiceRefuses, AppStatuses
  <2>4. RevsGrow /\ DependenciesFirst'
    BY <1>2, <2>3, Held DEF RevsGrow, Revs, IInv, DependenciesFirst
  <2>5. HeldTrue(u, revs')
    BY <1>1, <2>1, <2>3, Held DEF HeldTrue, HasItem
  <2> QED
    BY <1>2, <1>3, <2>1, <2>2, <2>3, <2>4, <2>5, ServiceStep
<1> QED
  BY <1>4, <1>5 DEF ApplyItem, i

\* The service does not touch the revision files.
LEMMA UnpublishedStep ==
    ASSUME IInv, NEW w \in Operators, NEW u \in Worker, wk' = [wk EXCEPT ![w] = u],
           HeldTrue(u, revs), UNCHANGED <<graph, fileVars, bookVars>>, UNCHANGED revs,
           crashes' \in 0..MaxFaults,
           apps' \in [Items -> AppStatuses], active' \in Pointers, stray' \subseteq Items
    PROVE  IInv'
<1>1. RevsGrow /\ DependenciesFirst' /\ HeldTrue(u, revs')
  BY Held DEF RevsGrow, Revs, IInv, DependenciesFirst
<1> QED
  BY <1>1, ServiceStep

\* What the service may leave of an application it resumes or rolls back.
LEMMA ServiceTypes ==
    ASSUME IInv, NEW i \in Items,
           \/ ServiceResumes(i) \/ ServiceFailsResume(i) \/ ServiceBreaksResume(i)
           \/ ServiceRefusesResume(i) \/ ServiceUndoes(i) \/ ServiceDiesUndoing(i)
    PROVE  /\ UNCHANGED revs
           /\ apps' \in [Items -> AppStatuses] /\ active' \in Pointers /\ stray' \subseteq Items
<1>1. /\ apps \in [Items -> AppStatuses] /\ active \in Pointers /\ stray \subseteq Items
      /\ [rev |-> revs[i].parent, pver |-> revs[i].pver].rev \in Items \cup {Root}
      /\ [rev |-> revs[i].parent, ver |-> revs[i].pver] \in Pointers
  BY Held DEF IInv, TypeOK, Pointers, Revs
<1>2. {"resumed", "resume_failed", "resuming", "rolled_back", "rolling_back"} \subseteq AppStatuses
  BY DEF AppStatuses
<1> QED
  BY <1>1, <1>2 DEF ServiceResumes, ServiceFailsResume, ServiceBreaksResume, ServiceRefusesResume,
                    ServiceUndoes, ServiceDiesUndoing, serviceVars

\* A resume of an item that is applied in the copy.
LEMMA ResumeItemHolds ==
    ASSUME IInv, NEW w \in Operators, ResumeItem(w)
    PROVE  IInv'
<1> DEFINE i == Current(w)
<1>1. wk[w].waves # <<>> /\ HasItem(w) /\ wk[w].rec.items[i].status = "applied"
  BY Held DEF ResumeItem, ResumeReady, AtResume, At, Status, HeldTrue, InWave
<1>2. i \in Items
  BY <1>1, AfterItemType DEF IInv
<1>3. 1 <= wk[w].rec.items[i].app
  BY <1>1, <1>2, Held DEF ItemsTrue, Success
<1>4. /\ UNCHANGED <<graph, fileVars, bookVars>> /\ crashes' \in 0..MaxFaults
  BY DEF ResumeItem, IInv, TypeOK
<1>5. UNCHANGED revs /\ apps' \in [Items -> AppStatuses] /\ active' \in Pointers /\ stray' \subseteq Items
  BY <1>2, ServiceTypes DEF ResumeItem
<1> HIDE DEF i
<1>6. PICK label \in {"resumed_item", "failed_item"}, flag \in BOOLEAN :
          wk' = [wk EXCEPT ![w] = [Called(w, label) EXCEPT !.flag = flag]]
  <2>1. \A label \in {"resumed_item", "failed_item"} : Called(w, label) \in Worker
    BY <1>2, CalledTrue DEF i
  <2>2. \A label \in {"resumed_item", "failed_item"} :
           Called(w, label) = [Called(w, label) EXCEPT !.flag = Called(w, label).flag]
    BY <2>1 DEF Worker
  <2>3. \A label \in {"resumed_item", "failed_item"} : Called(w, label).flag \in BOOLEAN
    BY <2>1 DEF Worker
  <2>4. \/ wk' = [wk EXCEPT ![w] = [Called(w, "resumed_item") EXCEPT !.flag = TRUE]]
        \/ wk' = [wk EXCEPT ![w] = Called(w, "resumed_item")]
        \/ wk' = [wk EXCEPT ![w] = Called(w, "failed_item")]
    BY DEF ResumeItem, i
  <2> QED
    BY <2>2, <2>3, <2>4
<1> DEFINE called == Called(w, label)
           u == [called EXCEPT !.flag = flag]
<1>7. /\ called \in Worker /\ called.pc = label /\ called.item = i /\ called.rec = wk[w].rec
      /\ called.waves = wk[w].waves /\ called.was <= revs[i].ver
  BY <1>2, CalledTrue DEF i
<1> HIDE DEF called
<1>8. /\ u \in Worker /\ u.pc = label /\ u.item = i /\ u.rec = wk[w].rec
      /\ u.waves = wk[w].waves /\ u.was <= revs[i].ver
  BY <1>7 DEF Worker
<1> HIDE DEF u
<1>9. HeldTrue(u, revs)
  BY <1>1, <1>3, <1>8, Held DEF HeldTrue, HasItem
<1>10. wk' = [wk EXCEPT ![w] = u]
  BY <1>6 DEF u, called
<1> QED
  BY <1>4, <1>5, <1>8, <1>9, <1>10, UnpublishedStep

LEMMA UndoItemHolds ==
    ASSUME IInv, NEW w \in Operators, UndoItem(w)
    PROVE  IInv'
<1>1. PICK i \in Highest(wk[w].todo) : ServiceUndoes(i) /\ wk' = [wk EXCEPT ![w].todo = wk[w].todo \ {i}]
  BY DEF UndoItem
<1>2. i \in Items /\ wk[w].todo \ {i} \subseteq Items
  BY Held DEF Highest, Worker
<1> DEFINE u == [wk[w] EXCEPT !.todo = wk[w].todo \ {i}]
<1>3. u \in Worker /\ HeldTrue(u, revs)
  BY <1>2, Held DEF Worker, HeldTrue
<1>4. wk' = [wk EXCEPT ![w] = u]
  BY <1>1 DEF IInv, TypeOK
<1>5. UNCHANGED revs /\ apps' \in [Items -> AppStatuses] /\ active' \in Pointers /\ stray' \subseteq Items
  BY <1>1, <1>2, ServiceTypes
<1>6. UNCHANGED <<graph, fileVars, bookVars>> /\ crashes' \in 0..MaxFaults
  BY DEF UndoItem, IInv, TypeOK
<1> QED
  BY <1>3, <1>4, <1>5, <1>6, UnpublishedStep

\* A process that dies takes its copy with it; what it published stays.
LEMMA CrashHolds ==
    ASSUME IInv, NEW w \in Operators, Crash(w) \/ CrashInService(w)
    PROVE  IInv'
<1>1. /\ wk' = [wk EXCEPT ![w] = Idle] /\ crashes' \in 0..MaxFaults
      /\ Idle \in Worker
      /\ UNCHANGED <<graph, fileVars, bookVars>>
  BY IdleType, BoundsAssumption DEF Crash, CrashInService, Stop, IInv, TypeOK
<1>2. apps \in [Items -> AppStatuses] /\ active \in Pointers /\ stray \subseteq Items
  BY DEF IInv, TypeOK
<1>3. HeldTrue(Idle, revs)
  BY Held, IdleTrue
<1>4. CASE Crash(w)
  BY <1>1, <1>2, <1>3, <1>4, UnpublishedStep DEF Crash, serviceVars
<1>5. CASE ResumeReady(w) /\ ServiceBreaksResume(Current(w))
  <2>1. wk[w].waves # <<>> /\ HasItem(w)
    BY <1>5, Held DEF ResumeReady, AtResume, At, HeldTrue, InWave
  <2>2. Current(w) \in Items
    BY <2>1, AfterItemType DEF IInv
  <2>3. UNCHANGED revs /\ apps' \in [Items -> AppStatuses] /\ active' \in Pointers /\ stray' \subseteq Items
    BY <1>5, <2>2, ServiceTypes
  <2> QED
    BY <1>1, <1>3, <2>3, UnpublishedStep
<1>6. CASE \E i \in Highest(wk[w].todo) : ServiceDiesUndoing(i)
  <2>1. PICK i \in Items : ServiceDiesUndoing(i)
    BY <1>6, Held DEF Highest, Worker
  <2>2. UNCHANGED revs /\ apps' \in [Items -> AppStatuses] /\ active' \in Pointers /\ stray' \subseteq Items
    BY <2>1, ServiceTypes
  <2> QED
    BY <1>1, <1>3, <2>2, UnpublishedStep
<1>7. CASE Runnable(w) /\ ServiceDies(Current(w))
  <2> DEFINE i == Current(w)
  <2>1. i \in Items /\ \A d \in graph.deps[i] : 0 < revs[d].ver
    BY <1>7, RunnableReady
  <2> HIDE DEF i
  <2>2. apps' \in [Items -> AppStatuses] /\ stray' \subseteq Items
    BY <1>2, <1>7 DEF ServiceDies, AppStatuses
  <2>3. CASE UNCHANGED <<revs, active>>
    BY <1>1, <1>2, <1>3, <2>2, <2>3, UnpublishedStep
  <2>4. CASE revs' = Published(i) /\ (UNCHANGED active \/ active' = [rev |-> i, ver |-> revs[i].ver + 1])
    <3>1. graph' = graph
      BY <1>1
    <3>2. RevsGrow /\ DependenciesFirst'
      BY <2>1, <2>4, <3>1, PublishedTrue
    <3>3. active' \in Pointers
      BY <1>2, <2>1, <2>4, Held DEF Pointers, Revs
    <3>4. HeldTrue(Idle, revs')
      BY <3>2, IdleTrue DEF RevsGrow
    <3> QED
      BY <1>1, <2>2, <3>2, <3>3, <3>4, ServiceStep
  <2> QED
    BY <1>7, <2>3, <2>4 DEF ServiceDies, i
<1> QED
  BY <1>4, <1>5, <1>6, <1>7 DEF CrashInService

-----------------------------------------------------------------------------
(* The theorems *)

LEMMA Inductive == IInv /\ Validated /\ [Next]_vars => IInv'
<1> SUFFICES ASSUME IInv, Validated, [Next]_vars PROVE IInv'
  OBVIOUS
<1>1. CASE UNCHANGED vars
  <2>1. /\ UNCHANGED <<graph, rec, plan, locks, answered, apps, revs, active, stray, wk>>
        /\ UNCHANGED <<begun, overlaps, crashes>>
    BY <1>1 DEF vars, fileVars, serviceVars, bookVars
  <2> QED
    BY <2>1 DEF IInv, TypeOK, DependenciesFirst, StatusTruthful, ItemsTrue, PlanHasWaves
<1>2. ASSUME NEW w \in Operators, Create(w) \/ LockedCommand(w) PROVE IInv'
  <2>1. CASE \E cmd \in Locked : Begin(w, cmd)
    BY <2>1, BeginHolds
  <2> QED
    BY <1>2, <2>1, CreateHolds, LockStepsHold, LockedSavesHold, SavePlanHolds, UndoItemHolds DEF LockedCommand
<1>3. ASSUME NEW w \in Operators, Apply(w) PROVE IInv'
  <2>1. CASE WaveRefused(w) \/ ItemRefused(w)
    BY <2>1, StopHolds DEF WaveRefused, ItemRefused
  <2> QED
    BY <1>3, <2>1, StartLoopHolds, StartWaveHolds, SkipHolds, BlockHolds, ApplyItemHolds, SaveSuccessHolds
       DEF Apply
<1>4. ASSUME NEW w \in Operators, Resume(w) PROVE IInv'
  <2>1. CASE ResumeRefused(w)
    BY <2>1, StopHolds DEF ResumeRefused
  <2> QED
    BY <1>4, <2>1, StartLoopHolds, StartGroupHolds, GroupStaleHolds, HaltResumeHolds, BlockHolds, SkipHolds,
       ResumeItemHolds, SaveSuccessHolds DEF Resume
<1> QED
  BY <1>1, <1>2, <1>3, <1>4, NextWaveHolds, ReadExpectedHolds, SaveFailedHolds, FinishHolds, CrashHolds DEF Next

\* No command changes the graph, and only plan-apply writes the plan.
LEMMA GraphFixed ==
    ASSUME Next
    PROVE  graph' = graph /\ (plan' = plan \/ \E w \in Operators : SavePlan(w))
<1> USE DEF fileVars
<1>1. PICK w \in Operators :
          Create(w) \/ LockedCommand(w) \/ Apply(w) \/ Resume(w) \/ NextWave(w) \/ ReadExpected(w)
              \/ SaveFailed(w) \/ Finish(w) \/ Crash(w) \/ CrashInService(w)
  BY DEF Next
<1>2. CASE Create(w) \/ NextWave(w) \/ ReadExpected(w) \/ SaveFailed(w) \/ Finish(w)
               \/ Crash(w) \/ CrashInService(w)
  BY <1>2 DEF Create, NextWave, ReadExpected, SaveFailed, Finish, Crash, CrashInService
<1>3. CASE LockedCommand(w)
  BY <1>3 DEF LockedCommand, Begin, TakeLock, Unlock, ReadRecord, ImportMember, ImportedAll, Reread,
              SaveImported, PlanFails, SavePlan, SavePlanned, SaveRetried, SaveCancelled, UndoItem,
              UndoBlocked, SaveRolledBack
<1>4. CASE Apply(w)
  BY <1>4 DEF Apply, StartApply, StartWave, WaveRefused, SkipItem, BlockItem, ItemRefused, ApplyItem,
              SaveApplied
<1>5. CASE Resume(w)
  BY <1>5 DEF Resume, StartResume, StartGroup, GroupStale, HaltResume, ResumeRefused, BlockResume,
              SkipResume, ResumeItem, SaveResumed
<1> QED
  BY <1>1, <1>2, <1>3, <1>4, <1>5

\* Nothing happens to a batch that is not exported.
LEMMA NothingRuns ==
    ASSUME rec = NoRecord, \A w \in Operators : At(w, "idle"), Next
    PROVE  \E w \in Operators : Create(w)
<1> USE DEF At
<1>1. PICK w \in Operators :
          Create(w) \/ LockedCommand(w) \/ Apply(w) \/ Resume(w) \/ NextWave(w) \/ ReadExpected(w)
              \/ SaveFailed(w) \/ Finish(w) \/ Crash(w) \/ CrashInService(w)
  BY DEF Next
<1>2. wk[w].pc = "idle"
  OBVIOUS
<1>3. ~NextWave(w) /\ ~ReadExpected(w) /\ ~SaveFailed(w) /\ ~Finish(w) /\ ~Crash(w) /\ ~CrashInService(w)
  BY <1>2 DEF NextWave, ReadExpected, SaveFailed, Finish, Crash, CrashInService, Runnable, ResumeReady,
              AtResume
<1>4. ~LockedCommand(w)
  BY <1>2 DEF LockedCommand, Begin, TakeLock, Unlock, ReadRecord, ImportMember, ImportedAll, Reread,
              SaveImported, PlanFails, SavePlan, SavePlanned, SaveRetried, SaveCancelled, UndoItem,
              UndoBlocked, SaveRolledBack
<1>5. ~Apply(w)
  BY <1>2 DEF Apply, StartApply, SnapshotValid, StartWave, WaveRefused, SkipItem, BlockItem, ItemRefused,
              ApplyItem, Runnable, SaveApplied
<1>6. ~Resume(w)
  BY <1>2 DEF Resume, StartResume, SnapshotValid, StartGroup, GroupStale, HaltResume, ResumeRefused,
              AtResume, BlockResume, SkipResume, ResumeItem, ResumeReady, SaveResumed
<1> QED
  BY <1>1, <1>3, <1>4, <1>5, <1>6

\* export_batch validates the graph before it writes anything, and the plan that is
\* written later is made from that graph.
LEMMA ValidatedHolds == Validated /\ PlanOfGraph /\ [Next]_vars => Validated' /\ PlanOfGraph'
<1> SUFFICES ASSUME Validated, PlanOfGraph, [Next]_vars PROVE Validated' /\ PlanOfGraph'
  OBVIOUS
<1>1. CASE UNCHANGED vars
  BY <1>1 DEF vars, fileVars, Validated, PlanOfGraph, At
<1>2. CASE Next
  <2>1. Validated'
    <3>1. CASE ValidGraph(graph.deps)
      BY <1>2, <3>1, GraphFixed DEF Validated
    <3>2. CASE ~ValidGraph(graph.deps)
      BY <1>2, <3>2, NothingRuns DEF Validated, Create
    <3> QED
      BY <3>1, <3>2
  <2>2. PlanOfGraph'
    BY <1>2, GraphFixed DEF PlanOfGraph, SavePlan
  <2> QED
    BY <2>1, <2>2
<1> QED
  BY <1>1, <1>2

\* What all the theorems about a batch rest on.
LEMMA Invariant == Spec => [](IInv /\ Validated /\ PlanOfGraph)
<1>1. Init => Validated /\ PlanOfGraph
  <2>1. Idle.pc = "idle"
    BY DEF Idle
  <2> QED
    BY <2>1 DEF Init, Validated, PlanOfGraph, At
<1> QED
  BY <1>1, InitHolds, Inductive, ValidatedHolds, PTL DEF Spec

\* The files of a batch, and the copies the commands hold, stay well-formed.
THEOREM TypeCorrect == Spec => []TypeOK
<1>1. IInv => TypeOK
  BY DEF IInv
<1> QED
  BY <1>1, Invariant, PTL

\* Whatever graph a batch comes with, the waves of its plan hold every item once, no two
\* of a wave write the same paths, and within a wave an item comes after what it depends
\* on (build_execution_waves).
THEOREM ScheduleAlwaysSound == Spec => []ScheduleSound
<1>1. IInv /\ Validated /\ PlanOfGraph => ScheduleSound
  <2> SUFFICES ASSUME IInv, Validated, PlanOfGraph, plan # NoPlan PROVE ScheduleSound
    BY DEF ScheduleSound
  <2>1. graph.deps \in [Items -> SUBSET Items] /\ ValidGraph(graph.deps)
    BY GraphType DEF IInv, Validated
  <2>2. plan.waves = Waves(graph.deps, graph.conflicts)
    BY DEF PlanOfGraph
  <2> QED
    BY <2>1, <2>2, WavesSound DEF ScheduleSound
<1> QED
  BY <1>1, Invariant, PTL

\* No item is published before what it depends on, whatever commands interleave
\* (batch_dependency_ready_set on a copy of the record).
THEOREM DependenciesAlwaysFirst == Spec => []DependenciesFirst
<1>1. IInv => DependenciesFirst
  BY DEF IInv
<1> QED
  BY <1>1, Invariant, PTL

\* The status of a batch never claims more than its items and the published
\* revisions bear out (derive_batch_status).
THEOREM StatusAlwaysTruthful == Spec => []StatusTruthful
<1>1. IInv => StatusTruthful
  BY DEF IInv
<1> QED
  BY <1>1, Invariant, PTL

-----------------------------------------------------------------------------
(* What a command knows when no other runs *)

\* The pointer ptr is that of a revision that has not been written since.
Live(ptr, files) == ptr.ver = IF ptr.rev = Root THEN 1 ELSE files[ptr.rev].ver

Importing == {"members", "unlock", "reread", "merge"}
\* Where a command that holds a lock has the record as it is.
Holding == {"members", "merge", "save_plan", "planned", "retried", "cancelled", "undo"}
\* Where a command is in its loop, and has nothing to save.
InLoop == {"wave", "item", "group", "resume_item", "failed_item", "expect", "resumed_item", "finish"}

\* A copy that says of an item what the record says, or that it is pending.
Pending(item) == [item EXCEPT !.status = "validation_partial", !.why = "pending"]
Ahead(items, file) ==
    \A i \in Items : items[i] = file[i] \/ (items[i] = Pending(file[i]) /\ file[i].status \notin ResumeTerminal)

\* What a command knows of the record r, when no other command runs.
Knows(u, r, files, ptr) ==
    /\ u.pc \in {"wave", "item", "done_item"} => u.cmd = "apply"
    /\ u.pc \in {"group", "resume_item", "resumed_item"} => u.cmd = "resume"
    /\ u.pc \in {"failed_item", "expect", "finish"} => u.cmd \in {"apply", "resume"}
    /\ u.pc \in Holding => u.rec = r
    /\ u.pc = "lock" /\ u.cmd = "import" => u.rec = r
    /\ u.pc \notin Importing => u.got = {}
    /\ \A i \in u.got : r.items[i].status \notin Terminal
    /\ u.pc \in InLoop /\ u.cmd = "apply" => u.rec.items = r.items
    /\ u.pc \in InLoop => Ahead(u.rec.items, r.items)
    /\ u.pc = "done_item" => /\ u.rec.items = [r.items EXCEPT ![u.item].app = files[u.item].ver]
                             /\ r.items[u.item].status \notin Terminal
    /\ u.pc = "failed_item" => /\ u.rec.items[u.item].status \notin ResumeTerminal
                               /\ u.was = r.items[u.item].app
    /\ u.pc = "resumed_item" => u.rec.items[u.item].status = "applied"
    /\ u.pc = "expect" => u.rec.items[u.item].status \in Success
    /\ u.pc \in {"done_item", "resumed_item", "expect"} => Live(ptr, files)

Alone == \A v, w \in Operators : v # w => wk[v] = Idle \/ wk[w] = Idle
Stopped == \A w \in Operators : At(w, "idle") => wk[w] = Idle

InApply == {"wave", "item", "done_item", "failed_item", "expect", "finish"}

\* The waves left, L, are those of W from item p of wave k on.
From(L, W, k, p) ==
    /\ k \in 1..Len(W) /\ p \in 0..Len(W[k])
    /\ Len(L) = Len(W) - k + 1
    /\ Len(L[1]) = Len(W[k]) - p
    /\ \A x \in 1..Len(L[1]) : L[1][x] = W[k][p + x]
    /\ \A l \in 2..Len(L) : L[l] = W[k + l - 1]

Left(L) == UNION {ToSet(L[l]) : l \in DOMAIN L}

\* No item is passed over but for something it depends on.
Excused(i, items, deps, order) ==
    \E d \in deps[i] : items[d].status \notin Success \/ Before(order, i, d)

Gone(L, items, deps, order) ==
    \A i \in Items \ Left(L) : items[i].status \in Terminal \/ Excused(i, items, deps, order)

Thorough(u, W, deps) ==
    u.cmd = "apply" /\ u.pc \in InApply =>
        /\ u.pc # "finish" => \E k, p : From(u.waves, W, k, p)
        /\ u.pc = "finish" => u.waves = <<>>
        /\ u.pc \in InItem => u.item = Head(Head(u.waves))
        /\ Gone(u.waves, u.rec.items, deps, FlattenSeq(W))

\* Where a command stands, and what it may rely on, given the files.
Course(u, r, files, ptr, p, deps) ==
    /\ Knows(u, r, files, ptr)
    /\ Thorough(u, p.waves, deps)
    /\ u.cmd = "apply" /\ u.pc \in InApply => p # NoPlan

Sequential ==
    /\ Alone /\ Stopped
    /\ \A w \in Operators : Course(wk[w], rec, revs, active, plan, graph.deps)

-----------------------------------------------------------------------------
(* Positions in the waves *)

LEMMA ConcatParts ==
    ASSUME NEW S, NEW s \in Seq(S), NEW t \in Seq(S), NEW u, u = s \o t
    PROVE  /\ Len(s) \in Nat /\ Len(t) \in Nat /\ Len(u) = Len(s) + Len(t)
           /\ \A x \in 1..Len(s) : u[x] = s[x]
           /\ \A x \in 1..Len(t) : u[Len(s) + x] = t[x]
<1> DEFINE m == Len(s)
           n == Len(t)
<1>1. m \in Nat /\ n \in Nat
  BY LenProperties
<1>2. /\ Len(u) = m + n
      /\ \A x \in 1..(m + n) : u[x] = IF x <= m THEN s[x] ELSE t[x - m]
  BY ConcatProperties
<1> HIDE DEF m, n
<1>3. \A x \in 1..m : x \in 1..(m + n) /\ x <= m
  BY <1>1
<1>4. \A x \in 1..n : m + x \in 1..(m + n) /\ ~(m + x <= m) /\ (m + x) - m = x
  BY <1>1
<1> QED
  BY <1>1, <1>2, <1>3, <1>4 DEF m, n

LEMMA PrefixOf ==
    ASSUME NEW W \in Seq(Seq(Items)), NEW g, EndToEnd(W, g), NEW k \in 0..Len(W), NEW j \in 0..Len(W), k <= j
    PROVE  Len(g[k]) <= Len(g[j]) /\ \A x \in 1..Len(g[k]) : g[j][x] = g[k][x]
<1> DEFINE n == Len(W)
           Good == {m \in 0..n : k <= m =>
                       Len(g[k]) <= Len(g[m]) /\ \A x \in 1..Len(g[k]) : g[m][x] = g[k][x]}
<1>1. n \in Nat /\ \A l \in 1..n : W[l] \in Seq(Items) /\ l - 1 \in 0..n
  OBVIOUS
<1>2. g \in [0..n -> Seq(Items)] /\ \A l \in 1..n : g[l] = g[l - 1] \o W[l]
  BY DEF EndToEnd
<1>3. k \in 0..n /\ j \in 0..n
  OBVIOUS
<1> HIDE DEF n
<1>4. \A l \in 0..n : g[l] \in Seq(Items) /\ Len(g[l]) \in Nat
  BY <1>2, LenProperties
<1>5. 0 \in Good
  <2>1. k <= 0 => k = 0
    BY <1>1, <1>3
  <2>2. 0 \in 0..n /\ Len(g[0]) <= Len(g[0])
    BY <1>1, <1>4
  <2> QED
    BY <2>1, <2>2
<1>6. ASSUME NEW m \in 1..n, m - 1 \in Good PROVE m \in Good
  <2>1. m \in 0..n
    BY <1>1
  <2> SUFFICES ASSUME k <= m PROVE Len(g[k]) <= Len(g[m]) /\ \A x \in 1..Len(g[k]) : g[m][x] = g[k][x]
    BY <2>1
  <2>2. CASE k = m
    BY <1>3, <1>4, <2>2
  <2>3. CASE k # m
    <3>1. k <= m - 1
      BY <1>1, <1>3, <2>3
    <3>2. Len(g[k]) <= Len(g[m - 1]) /\ \A x \in 1..Len(g[k]) : g[m - 1][x] = g[k][x]
      BY <1>6, <3>1
    <3>3. g[m - 1] \in Seq(Items) /\ W[m] \in Seq(Items) /\ g[m] = g[m - 1] \o W[m]
      BY <1>1, <1>2
    <3>4. /\ Len(g[m]) = Len(g[m - 1]) + Len(W[m]) /\ Len(W[m]) \in Nat /\ Len(g[m - 1]) \in Nat
          /\ \A x \in 1..Len(g[m - 1]) : g[m][x] = g[m - 1][x]
      <4> DEFINE a == g[m - 1]
                 b == W[m]
                 c == g[m]
      <4>1. a \in Seq(Items) /\ b \in Seq(Items) /\ c = a \o b
        BY <3>3
      <4> HIDE DEF a, b, c
      <4>2. Len(a) \in Nat /\ Len(b) \in Nat /\ Len(c) = Len(a) + Len(b) /\ \A x \in 1..Len(a) : c[x] = a[x]
        BY <4>1, ConcatParts
      <4> QED
        BY <4>2 DEF a, b, c
    <3>5. Len(g[k]) \in Nat
      BY <1>3, <1>4
    <3>6. \A x \in 1..Len(g[k]) : x \in 1..Len(g[m - 1])
      BY <3>2, <3>4, <3>5
    <3>7. Len(g[k]) <= Len(g[m])
      <4> DEFINE a == Len(g[k])
                 b == Len(g[m - 1])
                 c == Len(W[m])
                 d == Len(g[m])
      <4>1. a \in Nat /\ b \in Nat /\ c \in Nat /\ a <= b /\ d = b + c
        BY <3>2, <3>4, <3>5
      <4> HIDE DEF a, b, c, d
      <4>2. a <= d
        BY <4>1
      <4> QED
        BY <4>2 DEF a, d
    <3> QED
      BY <3>2, <3>4, <3>6, <3>7
  <2> QED
    BY <2>2, <2>3
<1>7. j \in Good
  <2> HIDE DEF Good
  <2> QED
    BY <1>1, <1>3, <1>5, <1>6, UpTo
<1> QED
  BY <1>7

\* Where item p of wave k is, end to end.
LEMMA PlaceOf ==
    ASSUME NEW W \in Seq(Seq(Items)), NEW g, EndToEnd(W, g), NEW k \in 1..Len(W), NEW p \in 1..Len(W[k])
    PROVE  /\ Len(g[k - 1]) \in Nat /\ Len(g[k - 1]) + p <= Len(g[k])
           /\ Len(g[k - 1]) + p \in DOMAIN FlattenSeq(W)
           /\ FlattenSeq(W)[Len(g[k - 1]) + p] = W[k][p]
<1> DEFINE n == Len(W)
           m == Len(g[k - 1])
<1>1. n \in Nat /\ k \in 0..n /\ k - 1 \in 0..n /\ n \in 0..n /\ k <= n /\ W[k] \in Seq(Items)
  OBVIOUS
<1>2. g[k - 1] \in Seq(Items) /\ g[k] = g[k - 1] \o W[k] /\ FlattenSeq(W) = g[n] /\ g[k] \in Seq(Items)
      /\ g[n] \in Seq(Items)
  BY <1>1 DEF EndToEnd
<1>3. Len(g[k]) <= Len(g[n]) /\ \A x \in 1..Len(g[k]) : g[n][x] = g[k][x]
  BY <1>1, PrefixOf
<1> DEFINE q == Len(W[k])
<1>4. p \in 1..q /\ q \in Nat
  BY <1>1, LenProperties
<1> HIDE DEF n, q
<1>5. /\ Len(g[k]) = m + q /\ m \in Nat
      /\ \A x \in 1..q : g[k][m + x] = W[k][x]
  <2> DEFINE a == g[k - 1]
             b == W[k]
             c == g[k]
  <2>1. a \in Seq(Items) /\ b \in Seq(Items) /\ c = a \o b
    BY <1>1, <1>2
  <2> HIDE DEF a, b, c
  <2>2. Len(a) \in Nat /\ Len(c) = Len(a) + Len(b) /\ \A x \in 1..Len(b) : c[Len(a) + x] = b[x]
    BY <2>1, ConcatParts
  <2> QED
    BY <2>2 DEF q, a, b, c
<1>6. Len(g[n]) \in Nat /\ DOMAIN g[n] = 1..Len(g[n])
  BY <1>2, LenProperties
<1> HIDE DEF m
<1>7. m + p \in 1..(m + q)
  BY <1>4, <1>5
<1>8. g[k][m + p] = W[k][p]
  BY <1>4, <1>5
<1>9. m + p \in DOMAIN g[n] /\ g[n][m + p] = W[k][p]
  BY <1>3, <1>5, <1>6, <1>7, <1>8
<1> QED
  BY <1>2, <1>5, <1>7, <1>9 DEF m

LEMMA BeforeInWaves ==
    ASSUME NEW W \in Seq(Seq(Items)), NEW k \in 1..Len(W), NEW p \in 1..Len(W[k]),
           NEW l \in 1..Len(W), NEW q \in 1..Len(W[l]), k < l \/ (k = l /\ p < q)
    PROVE  Before(FlattenSeq(W), W[k][p], W[l][q])
<1>1. PICK g : EndToEnd(W, g)
  BY FlattenIs
<1> DEFINE x == Len(g[k - 1]) + p
           y == Len(g[l - 1]) + q
<1>2. /\ Len(g[k - 1]) \in Nat /\ x <= Len(g[k])
      /\ x \in DOMAIN FlattenSeq(W) /\ FlattenSeq(W)[x] = W[k][p]
  BY <1>1, PlaceOf
<1>3. /\ Len(g[l - 1]) \in Nat /\ y \in DOMAIN FlattenSeq(W) /\ FlattenSeq(W)[y] = W[l][q]
  BY <1>1, PlaceOf
<1>4. k \in Nat /\ l \in Nat /\ p \in Nat /\ q \in Nat /\ q > 0
  BY LenProperties
<1>5. x < y
  <2>1. CASE k < l
    <3>1. k \in 0..Len(W) /\ l - 1 \in 0..Len(W) /\ k <= l - 1
      BY <1>4, <2>1
    <3>2. Len(g[k]) <= Len(g[l - 1])
      BY <1>1, <3>1, PrefixOf
    <3>3. Len(g[k]) \in Nat
      <4>1. g[k] \in Seq(Items)
        BY <1>1, <3>1 DEF EndToEnd
      <4> QED
        BY <4>1, LenProperties
    <3> DEFINE a == Len(g[k])
               b == Len(g[l - 1])
    <3>4. a \in Nat /\ b \in Nat /\ a <= b /\ x <= a /\ y = b + q /\ x \in Nat
      BY <1>2, <1>3, <1>4, <3>2, <3>3
    <3> HIDE DEF a, b, x, y
    <3> QED
      BY <1>4, <3>4
  <2>2. CASE k = l /\ p < q
    BY <1>2, <1>4, <2>2
  <2> QED
    BY <2>1, <2>2
<1> HIDE DEF x, y
<1> QED
  BY <1>2, <1>3, <1>5 DEF Before

LEMMA FromStart ==
    ASSUME NEW W \in Seq(Seq(Items)), W # <<>>
    PROVE  From(W, W, 1, 0)
<1>1. Len(W) \in Nat /\ Len(W) > 0 /\ 1 \in 1..Len(W)
  BY LenProperties, EmptySeq
<1>2. W[1] \in Seq(Items)
  BY <1>1
<1>3. Len(W[1]) \in Nat
  BY <1>2, LenProperties
<1> QED
  BY <1>1, <1>3 DEF From

\* What is left after one item more.
Beyond(L) == <<Tail(Head(L))>> \o Tail(L)

LEMMA BeyondIs ==
    ASSUME NEW L \in Seq(Seq(Items)), L # <<>>, Head(L) # <<>>
    PROVE  LET M == Beyond(L) IN
           /\ M \in Seq(Seq(Items)) /\ Len(M) = Len(L) /\ Len(L) \in Nat /\ Len(L) > 0
           /\ \A l \in 2..Len(L) : M[l] = L[l]
           /\ L[1] = Head(L) /\ L[1] \in Seq(Items) /\ M[1] \in Seq(Items)
           /\ Len(M[1]) \in Nat /\ Len(L[1]) = Len(M[1]) + 1
           /\ \A x \in 1..Len(M[1]) : M[1][x] = L[1][x + 1]
           /\ Head(Head(L)) = L[1][1]
<1> DEFINE M == Beyond(L)
           h == Head(L)
           s == <<Tail(h)>>
           t == Tail(L)
<1>1. /\ h \in Seq(Items) /\ t \in Seq(Seq(Items)) /\ Len(L) = Len(t) + 1 /\ Len(t) \in Nat /\ h = L[1]
      /\ \A x \in 1..Len(t) : t[x] = L[x + 1]
  BY HeadTailProperties, LenProperties, EmptySeq
<1> DEFINE r == Tail(h)
<1>2. /\ r \in Seq(Items) /\ Len(h) = Len(r) + 1 /\ Len(r) \in Nat /\ Head(h) = h[1]
      /\ \A x \in 1..Len(r) : r[x] = h[x + 1]
  <2>1. h \in Seq(Items) /\ h # <<>>
    BY <1>1
  <2> HIDE DEF h
  <2> QED
    BY <2>1, HeadTailProperties, LenProperties, EmptySeq
<1>3. s \in Seq(Seq(Items)) /\ Len(s) = 1 /\ s[1] = r
  BY <1>2
<1>4. M = s \o t
  BY DEF Beyond
<1>5. M \in Seq(Seq(Items))
  BY <1>1, <1>3, <1>4, ConcatProperties
<1> HIDE DEF s, t, r, M, h
<1>6. /\ Len(M) = 1 + Len(t) /\ \A x \in 1..1 : M[x] = s[x]
      /\ \A x \in 1..Len(t) : M[1 + x] = t[x]
  <2>1. /\ Len(M) = Len(s) + Len(t) /\ \A x \in 1..Len(s) : M[x] = s[x]
        /\ \A x \in 1..Len(t) : M[Len(s) + x] = t[x]
    <3>1. s \in Seq(Seq(Items)) /\ t \in Seq(Seq(Items)) /\ M = s \o t
      BY <1>1, <1>3, <1>4
    <3> QED
      BY <3>1, ConcatParts
  <2> QED
    BY <1>3, <2>1
<1>7. M[1] = r
  BY <1>3, <1>6
<1>8. ASSUME NEW l \in 2..Len(L) PROVE M[l] = L[l]
  <2>1. l - 1 \in 1..Len(t) /\ 1 + (l - 1) = l /\ (l - 1) + 1 = l
    BY <1>1
  <2> QED
    BY <1>1, <1>6, <2>1
<1> QED
  BY <1>1, <1>2, <1>5, <1>6, <1>7, <1>8 DEF h, M

LEMMA FromItem ==
    ASSUME NEW L \in Seq(Seq(Items)), NEW W \in Seq(Seq(Items)), L # <<>>, Head(L) # <<>>,
           NEW k, NEW p, From(L, W, k, p)
    PROVE  /\ From(Beyond(L), W, k, p + 1)
           /\ Left(L) \subseteq Left(Beyond(L)) \cup {Head(Head(L))}
<1> DEFINE M == Beyond(L)
           n == Len(L)
           q == Len(M[1])
<1>1. /\ M \in Seq(Seq(Items)) /\ Len(M) = n /\ n \in Nat /\ n > 0
      /\ \A l \in 2..n : M[l] = L[l]
      /\ L[1] \in Seq(Items) /\ M[1] \in Seq(Items)
      /\ q \in Nat /\ Len(L[1]) = q + 1
      /\ \A x \in 1..q : M[1][x] = L[1][x + 1]
      /\ Head(Head(L)) = L[1][1]
  BY BeyondIs
<1>2. /\ k \in 1..Len(W) /\ p \in 0..Len(W[k]) /\ n = Len(W) - k + 1
      /\ Len(L[1]) = Len(W[k]) - p
      /\ \A x \in 1..Len(L[1]) : L[1][x] = W[k][p + x]
      /\ \A l \in 2..n : L[l] = W[k + l - 1]
  BY DEF From
<1>3. Len(W[k]) \in Nat
  <2>1. W[k] \in Seq(Items)
    BY <1>2
  <2> QED
    BY <2>1, LenProperties
<1> HIDE DEF M, n, q
<1>4. p + 1 \in 0..Len(W[k]) /\ q = Len(W[k]) - (p + 1)
  <2> DEFINE r == Len(W[k])
             m == Len(L[1])
  <2>1. p \in 0..r /\ r \in Nat /\ m = r - p /\ m = q + 1 /\ q \in Nat
    BY <1>1, <1>2, <1>3
  <2> HIDE DEF r, m
  <2>2. p + 1 \in 0..r /\ q = r - (p + 1)
    BY <2>1
  <2> QED
    BY <2>2 DEF r
<1>5. ASSUME NEW x \in 1..q PROVE M[1][x] = W[k][(p + 1) + x]
  <2>1. x + 1 \in 1..(q + 1) /\ p + (x + 1) = (p + 1) + x
    BY <1>1, <1>2
  <2> QED
    BY <1>1, <1>2, <2>1
<1>6. From(M, W, k, p + 1)
  <2>1. Len(M) = Len(W) - k + 1 /\ Len(M[1]) = Len(W[k]) - (p + 1)
    BY <1>1, <1>2, <1>4 DEF q
  <2>2. \A x \in 1..Len(M[1]) : M[1][x] = W[k][(p + 1) + x]
    BY <1>5 DEF q
  <2>3. \A l \in 2..Len(M) : M[l] = W[k + l - 1]
    BY <1>1, <1>2
  <2> QED
    BY <1>2, <1>4, <2>1, <2>2, <2>3 DEF From
<1>7. ASSUME NEW i \in Left(L), i # L[1][1] PROVE i \in Left(M)
  <2>1. DOMAIN L = 1..n /\ DOMAIN M = 1..n
    BY <1>1 DEF n
  <2>2. PICK l \in 1..n : i \in ToSet(L[l])
    BY <2>1 DEF Left
  <2>3. CASE l = 1
    <3>1. DOMAIN L[1] = 1..(q + 1) /\ DOMAIN M[1] = 1..q
      BY <1>1 DEF q
    <3>2. PICK x \in 1..(q + 1) : L[1][x] = i
      BY <2>2, <2>3, <3>1 DEF ToSet
    <3>3. x - 1 \in 1..q /\ (x - 1) + 1 = x
      BY <1>1, <1>7, <3>2
    <3>4. M[1][x - 1] = i
      BY <1>1, <3>2, <3>3
    <3>5. i \in ToSet(M[1])
      BY <3>1, <3>3, <3>4 DEF ToSet
    <3>6. 1 \in 1..n
      BY <1>1
    <3> QED
      BY <2>1, <3>5, <3>6 DEF Left
  <2>4. CASE l # 1
    <3>1. l \in 2..n
      BY <1>1, <2>4
    <3>2. i \in ToSet(M[l])
      BY <1>1, <2>2, <3>1
    <3> QED
      BY <2>1, <3>2 DEF Left
  <2> QED
    BY <2>3, <2>4
<1> QED
  BY <1>1, <1>6, <1>7 DEF M

\* A wave that is done leaves the next one, or nothing.
LEMMA FromWave ==
    ASSUME NEW L \in Seq(Seq(Items)), NEW W \in Seq(Seq(Items)), L # <<>>, Head(L) = <<>>,
           NEW k, NEW p, From(L, W, k, p)
    PROVE  /\ Tail(L) # <<>> => From(Tail(L), W, k + 1, 0)
           /\ Left(L) \subseteq Left(Tail(L))
<1> DEFINE t == Tail(L)
           n == Len(t)
<1>1. /\ t \in Seq(Seq(Items)) /\ Len(L) = n + 1 /\ n \in Nat /\ L[1] = <<>>
      /\ \A x \in 1..n : t[x] = L[x + 1]
      /\ t # <<>> => n > 0
  BY HeadTailProperties, LenProperties, EmptySeq
<1>2. /\ k \in 1..Len(W) /\ Len(L) = Len(W) - k + 1
      /\ \A l \in 2..Len(L) : L[l] = W[k + l - 1]
  BY DEF From
<1>3. Len(W) \in Nat /\ DOMAIN L = 1..Len(L) /\ DOMAIN t = 1..n
  BY <1>1, LenProperties
<1> HIDE DEF t, n
<1>4. ASSUME t # <<>> PROVE From(t, W, k + 1, 0)
  <2>1. k + 1 \in 1..Len(W) /\ n = Len(W) - (k + 1) + 1
    BY <1>1, <1>2, <1>3, <1>4
  <2>2. ASSUME NEW l \in 1..n PROVE t[l] = W[(k + 1) + l - 1]
    <3>1. l + 1 \in 2..Len(L) /\ k + (l + 1) - 1 = (k + 1) + l - 1
      BY <1>1, <1>2
    <3> QED
      BY <1>1, <1>2, <3>1
  <2>3. t[1] = W[k + 1]
    <3>1. 1 \in 1..n /\ (k + 1) + 1 - 1 = k + 1
      BY <1>1, <1>2, <1>4
    <3> QED
      BY <2>2, <3>1
  <2>4. Len(W[k + 1]) \in Nat
    <3>1. W[k + 1] \in Seq(Items)
      BY <2>1
    <3> QED
      BY <3>1, LenProperties
  <2>5. \A l \in 2..n : t[l] = W[(k + 1) + l - 1]
    BY <1>1, <2>2
  <2>6. /\ 0 \in 0..Len(W[k + 1]) /\ Len(t[1]) = Len(W[k + 1]) - 0
        /\ \A x \in 1..Len(t[1]) : t[1][x] = W[k + 1][0 + x]
    BY <2>3, <2>4
  <2> QED
    BY <2>1, <2>5, <2>6 DEF From, n
<1>5. ASSUME NEW i \in Left(L) PROVE i \in Left(t)
  <2>1. PICK l \in 1..Len(L) : i \in ToSet(L[l])
    BY <1>3 DEF Left
  <2>2. l # 1
    <3>1. ToSet(<<>>) = {}
      BY DEF ToSet
    <3> QED
      BY <1>1, <2>1, <3>1
  <2>3. l - 1 \in 1..n /\ (l - 1) + 1 = l
    BY <1>1, <2>2
  <2>4. i \in ToSet(t[l - 1])
    BY <1>1, <2>1, <2>3
  <2> QED
    BY <1>3, <2>3, <2>4 DEF Left
<1> QED
  BY <1>4, <1>5 DEF t

\* What is not left comes before what is next.
LEMMA GonePast ==
    ASSUME NEW L \in Seq(Seq(Items)), NEW W \in Seq(Seq(Items)), L # <<>>, Head(L) # <<>>,
           ToSet(FlattenSeq(W)) = Items, NEW k, NEW p, From(L, W, k, p), NEW i \in Items \ Left(L)
    PROVE  Before(FlattenSeq(W), i, Head(Head(L)))
<1> DEFINE q == Len(L[1])
           r == Len(W[k])
           n == Len(L)
<1>1. /\ k \in 1..Len(W) /\ p \in 0..r /\ n = Len(W) - k + 1 /\ q = r - p
      /\ \A x \in 1..q : L[1][x] = W[k][p + x]
      /\ \A l \in 2..n : L[l] = W[k + l - 1]
  BY DEF From
<1>2. /\ n \in Nat /\ n > 0 /\ L[1] = Head(L) /\ L[1] \in Seq(Items) /\ q \in Nat /\ q > 0
      /\ Head(Head(L)) = L[1][1]
  <2>1. /\ Len(L) \in Nat /\ Len(L) > 0 /\ L[1] = Head(L) /\ L[1] \in Seq(Items)
        /\ Len(Beyond(L)[1]) \in Nat /\ Len(L[1]) = Len(Beyond(L)[1]) + 1
        /\ Head(Head(L)) = L[1][1]
    BY BeyondIs
  <2> QED
    BY <2>1
<1>3. Len(W) \in Nat /\ r \in Nat /\ DOMAIN L = 1..n /\ DOMAIN L[1] = 1..q
  <2>1. W[k] \in Seq(Items)
    BY <1>1
  <2> QED
    BY <1>2, <2>1, LenProperties
<1>4. PICK l \in 1..Len(W) : i \in ToSet(W[l])
  <2>1. PICK g : EndToEnd(W, g)
    BY FlattenIs
  <2>2. i \in Covered(W, Len(W))
    BY <2>1, FlattenCovers
  <2> QED
    BY <2>2 DEF Covered
<1>5. W[l] \in Seq(Items)
  OBVIOUS
<1>6. PICK x \in 1..Len(W[l]) : W[l][x] = i
  BY <1>4, <1>5 DEF ToSet
<1> HIDE DEF q, r, n
<1>7. p + 1 \in 1..r /\ W[k][p + 1] = Head(Head(L))
  BY <1>1, <1>2, <1>3
\* It is not later, for it is not left.
<1>8. l < k \/ (l = k /\ x < p + 1)
  <2>1. CASE l > k
    <3>1. l - k + 1 \in 2..n /\ k + (l - k + 1) - 1 = l
      BY <1>1, <1>3, <2>1
    <3>2. L[l - k + 1] = W[l] /\ l - k + 1 \in 1..n
      BY <1>1, <3>1
    <3> QED
      BY <1>3, <1>4, <3>2 DEF Left
  <2>2. CASE l = k /\ x >= p + 1
    <3>1. x - p \in 1..q /\ p + (x - p) = x
      BY <1>1, <1>3, <1>6, <2>2 DEF r
    <3>2. L[1][x - p] = i
      BY <1>1, <1>6, <2>2, <3>1
    <3>3. i \in ToSet(L[1]) /\ 1 \in 1..n
      BY <1>2, <1>3, <3>1, <3>2 DEF ToSet
    <3> QED
      BY <1>3, <3>3 DEF Left
  <2>3. k \in Nat /\ l \in Nat /\ x \in Nat /\ p \in Nat
    BY <1>1, <1>3, <1>5, <1>6
  <2> QED
    BY <2>1, <2>2, <2>3
<1>9. Before(FlattenSeq(W), W[l][x], W[k][p + 1])
  BY <1>1, <1>6, <1>7, <1>8, BeforeInWaves DEF r
<1> QED
  BY <1>6, <1>7, <1>9
-----------------------------------------------------------------------------
(* One command at a time *)

\* It is the turn of command w: no other is running.
Turn(w) ==
    /\ IInv /\ Validated /\ PlanOfGraph /\ Sequential
    /\ \A v \in Operators \ {w} : wk[v] = Idle

LEMMA IdleCourse ==
    ASSUME NEW r, NEW files, NEW ptr, NEW p, NEW deps
    PROVE  Course(Idle, r, files, ptr, p, deps)
BY DEF Course, Knows, Thorough, Idle, Holding, InLoop, Importing, InApply

LEMMA TurnStep ==
    ASSUME NEW w \in Operators, Turn(w), NEW u, wk' = [wk EXCEPT ![w] = u],
           u.pc = "idle" => u = Idle, Course(u, rec', revs', active', plan', graph'.deps)
    PROVE  Sequential'
<1>1. wk'[w] = u /\ \A v \in Operators \ {w} : wk'[v] = Idle
  BY DEF Turn, IInv, TypeOK
<1>2. \A v \in Operators : Course(wk'[v], rec', revs', active', plan', graph'.deps)
  BY <1>1, IdleCourse
<1>3. Alone' /\ Stopped'
  BY <1>1 DEF Alone, Stopped, At
<1> QED
  BY <1>2, <1>3 DEF Sequential

\* A command that stops knows nothing.
LEMMA TurnOver ==
    ASSUME NEW w \in Operators, Turn(w), wk' = [wk EXCEPT ![w] = Idle]
    PROVE  Sequential'
BY TurnStep, IdleCourse

LEMMA TurnHas ==
    ASSUME NEW w \in Operators, Turn(w)
    PROVE  /\ Course(wk[w], rec, revs, active, plan, graph.deps)
           /\ Knows(wk[w], rec, revs, active)
           /\ wk[w] \in Worker /\ wk[w].rec \in Record /\ wk[w].rec.items \in [Items -> Item]
           /\ rec \in Record /\ rec.items \in [Items -> Item] /\ revs \in Revs /\ active \in Pointers
           /\ wk[w].item \in Items
BY Held DEF Turn, Sequential, Course, IInv, TypeOK

\* Outside the loops there is little to know.
LEMMA OutsideCourse ==
    ASSUME NEW u, NEW r, NEW files, NEW ptr, NEW p, NEW deps, u.pc \notin InLoop \cup {"done_item"},
           u.pc \in Holding => u.rec = r,
           u.pc = "lock" /\ u.cmd = "import" => u.rec = r,
           u.pc \notin Importing => u.got = {},
           \A i \in u.got : r.items[i].status \notin Terminal
    PROVE  Course(u, r, files, ptr, p, deps)
BY DEF Course, Knows, Thorough, InLoop, InApply

\* What a save may do to an item without a failure.
Quietly(old, new) ==
    /\ old.status \in ResumeTerminal => new.status = old.status
    /\ new.status = "failed" => old.status = "failed"
    /\ new.why = "dependency" => old.why = "dependency"
    /\ new.app = old.app

\* What the theorems say of a step.
TerminalKept ==
    \A i \in Items : rec.items[i].status \in ResumeTerminal => rec'.items[i].status = rec.items[i].status

Spread ==
    /\ (\E f \in Items : NewlyFailed(f)) =>
          \A i \in Items : (\E d \in graph.deps[i] : NewlyFailed(d) \/ NewlyBlocked(d)) =>
              rec'.items[i].status \in Terminal \cup {"validation_partial"}
    /\ \A i \in Items : NewlyBlocked(i) =>
          \E d \in graph.deps[i] : rec'.items[d].status \in Failure

AppsKept(w) ==
    \A i \in Items : \/ rec'.items[i].app = rec.items[i].app
                     \/ At(w, "done_item") /\ i = wk[w].item /\ rec'.items[i].app = revs[i].ver

Orderly(w) == TerminalKept /\ Spread /\ AppsKept(w)

LEMMA QuietSave ==
    ASSUME NEW w \in Operators, Turn(w), \A i \in Items : Quietly(rec.items[i], rec'.items[i])
    PROVE  Orderly(w)
BY DEF Quietly, Orderly, TerminalKept, Spread, AppsKept, NewlyFailed, NewlyBlocked

LEMMA NoSave ==
    ASSUME NEW w \in Operators, Turn(w), rec' = rec
    PROVE  Orderly(w)
BY DEF Orderly, TerminalKept, Spread, AppsKept, NewlyFailed, NewlyBlocked

LEMMA CreateTurn ==
    ASSUME NEW w \in Operators, Turn(w), wk[w] = Idle, Create(w)
    PROVE  Sequential' /\ Orderly(w)
<1>1. wk' = [wk EXCEPT ![w] = Idle]
  BY DEF Create, Turn, IInv, TypeOK
<1>2. rec'.items = rec.items
  BY DEF Create, NoRecord
<1>3. \A i \in Items : Quietly(rec.items[i], rec'.items[i])
  BY <1>2 DEF Quietly
<1> QED
  BY <1>1, <1>3, TurnOver, QuietSave

LEMMA BeginTurn ==
    ASSUME NEW w \in Operators, Turn(w), NEW cmd \in Locked, Begin(w, cmd)
    PROVE  Sequential' /\ Orderly(w)
<1>1. PICK members :
          wk' = [wk EXCEPT ![w] = [Idle EXCEPT !.pc = "lock", !.cmd = cmd,
                     !.rec = IF cmd = "import" THEN rec ELSE NoRecord, !.todo = members]]
  BY DEF Begin
<1> DEFINE copy == IF cmd = "import" THEN rec ELSE NoRecord
           u == [Idle EXCEPT !.pc = "lock", !.cmd = cmd, !.rec = copy, !.todo = members]
<1>2. u.pc = "lock" /\ u.cmd = cmd /\ u.rec = copy /\ u.got = {}
  BY DEF Idle
<1>3. wk' = [wk EXCEPT ![w] = u]
  BY <1>1
<1> HIDE DEF u
<1>4. rec' = rec /\ UNCHANGED <<revs, active, plan, graph>>
  BY DEF Begin, fileVars, serviceVars
<1>5. Course(u, rec, revs, active, plan, graph.deps)
  BY <1>2, OutsideCourse DEF InLoop, Holding
<1> QED
  BY <1>2, <1>3, <1>4, <1>5, TurnStep, NoSave

\* A command that is outside the loops, and has saved nothing.
LEMMA OutsideStep ==
    ASSUME NEW w \in Operators, Turn(w), rec' = rec, NEW u, wk' = [wk EXCEPT ![w] = u],
           u.pc \notin InLoop \cup {"done_item", "idle"},
           u.pc \in Holding => u.rec = rec,
           u.pc = "lock" /\ u.cmd = "import" => u.rec = rec,
           u.pc \notin Importing => u.got = {},
           \A i \in u.got : rec.items[i].status \notin Terminal
    PROVE  Sequential' /\ Orderly(w)
<1>1. Course(u, rec', revs', active', plan', graph'.deps)
  BY OutsideCourse
<1> QED
  BY <1>1, TurnStep, NoSave

\* Under a lock, short of a save.
LEMMA LockTurn ==
    ASSUME NEW w \in Operators, Turn(w),
           TakeLock(w) \/ Unlock(w) \/ ReadRecord(w) \/ ImportMember(w) \/ ImportedAll(w)
               \/ Reread(w) \/ PlanFails(w) \/ SavePlan(w) \/ UndoItem(w) \/ UndoBlocked(w)
    PROVE  Sequential' /\ Orderly(w)
<1>1. rec' = rec
  BY DEF TakeLock, Unlock, ReadRecord, ImportMember, ImportedAll, Reread, PlanFails, SavePlan, UndoItem,
         UndoBlocked, fileVars
<1>2. /\ wk[w] \in Worker
      /\ wk[w].pc \in Holding => wk[w].rec = rec
      /\ wk[w].pc = "lock" /\ wk[w].cmd = "import" => wk[w].rec = rec
      /\ wk[w].pc \notin Importing => wk[w].got = {}
      /\ \A i \in wk[w].got : rec.items[i].status \notin Terminal
  BY TurnHas DEF Knows
<1> USE DEF At, Holding, InLoop, Importing
<1>3. CASE TakeLock(w)
  <2> DEFINE u == [wk[w] EXCEPT !.pc = IF wk[w].cmd = "import" THEN "members" ELSE "read"]
  <2>1. wk' = [wk EXCEPT ![w] = u] /\ wk[w].pc = "lock"
    BY <1>3 DEF TakeLock, Goto, Turn, IInv, TypeOK
  <2>2. /\ u.pc = IF wk[w].cmd = "import" THEN "members" ELSE "read"
        /\ u.rec = wk[w].rec /\ u.got = wk[w].got /\ u.cmd = wk[w].cmd
    BY <1>2 DEF Worker
  <2> HIDE DEF u
  <2> QED
    BY <1>1, <1>2, <2>1, <2>2, OutsideStep
<1>4. CASE Unlock(w)
  <2> DEFINE u == [wk[w] EXCEPT !.pc = "reread"]
  <2>1. (wk' = [wk EXCEPT ![w] = u] \/ wk' = [wk EXCEPT ![w] = Idle]) /\ wk[w].pc = "unlock"
    BY <1>4 DEF Unlock, Goto, Stop, Turn, IInv, TypeOK
  <2>2. u.pc = "reread" /\ u.rec = wk[w].rec /\ u.got = wk[w].got
    BY <1>2 DEF Worker
  <2> HIDE DEF u
  <2>3. CASE wk' = [wk EXCEPT ![w] = Idle]
    BY <1>1, <2>3, TurnOver, NoSave
  <2>4. CASE wk' = [wk EXCEPT ![w] = u]
    BY <1>1, <1>2, <2>1, <2>2, <2>4, OutsideStep
  <2> QED
    BY <2>1, <2>3, <2>4
<1>5. CASE ReadRecord(w)
  <2> DEFINE label == CASE wk[w].cmd = "plan" -> "save_plan"
                        [] wk[w].cmd = "retry" -> "retried"
                        [] wk[w].cmd = "cancel" -> "cancelled"
                        [] OTHER -> "undo"
             todo == {i \in Items : rec.items[i].status \in Success \/ rec.items[i].app > 0}
  <2>1. label \in {"save_plan", "retried", "cancelled", "undo"}
    OBVIOUS
  <2>4. wk' = [wk EXCEPT ![w].pc = label, ![w].rec = rec, ![w].todo = todo]
    BY <1>5 DEF ReadRecord
  <2> HIDE DEF label, todo
  <2> DEFINE u == [wk[w] EXCEPT !.pc = label, !.rec = rec, !.todo = todo]
  <2>2. wk' = [wk EXCEPT ![w] = u] /\ wk[w].pc = "read"
    BY <1>5, <2>4 DEF ReadRecord, Turn, IInv, TypeOK
  <2>3. u.pc = label /\ u.rec = rec /\ u.got = wk[w].got
    BY <1>2 DEF Worker
  <2> HIDE DEF u
  <2> QED
    BY <1>1, <1>2, <2>1, <2>2, <2>3, OutsideStep
<1>6. CASE ImportMember(w)
  <2>1. wk[w].pc = "members" /\ wk[w].rec = rec
    BY <1>2, <1>6 DEF ImportMember
  <2>2. PICK i, todo, got, flag :
            /\ wk' = [wk EXCEPT ![w] = [wk[w] EXCEPT !.todo = todo, !.got = got, !.flag = flag]]
            /\ got = wk[w].got \/ (got = wk[w].got \cup {i} /\ wk[w].rec.items[i].status \notin Terminal)
    <3>1. PICK i \in Lowest(wk[w].todo) :
             \/ /\ wk[w].rec.items[i].status \notin Terminal
                /\ \E valid \in BOOLEAN : wk' = [wk EXCEPT ![w].todo = wk[w].todo \ {i}, ![w].got = @ \cup {i},
                                                       ![w].flag = @ \/ ~valid]
             \/ wk' = [wk EXCEPT ![w].todo = wk[w].todo \ {i}, ![w].flag = TRUE]
      BY <1>6 DEF ImportMember
    <3>2. CASE wk' = [wk EXCEPT ![w].todo = wk[w].todo \ {i}, ![w].flag = TRUE]
      <4>1. wk' = [wk EXCEPT ![w] = [wk[w] EXCEPT !.todo = wk[w].todo \ {i}, !.got = wk[w].got, !.flag = TRUE]]
        BY <3>2 DEF Turn, IInv, TypeOK, Worker
      <4> QED
        BY <4>1
    <3>3. CASE /\ wk[w].rec.items[i].status \notin Terminal
               /\ \E valid \in BOOLEAN : wk' = [wk EXCEPT ![w].todo = wk[w].todo \ {i}, ![w].got = @ \cup {i},
                                                       ![w].flag = @ \/ ~valid]
      <4>1. PICK valid \in BOOLEAN : wk' = [wk EXCEPT ![w].todo = wk[w].todo \ {i}, ![w].got = @ \cup {i},
                                                       ![w].flag = @ \/ ~valid]
        BY <3>3
      <4>2. wk' = [wk EXCEPT ![w] = [wk[w] EXCEPT !.todo = wk[w].todo \ {i}, !.got = wk[w].got \cup {i},
                                                  !.flag = wk[w].flag \/ ~valid]]
        BY <4>1 DEF Turn, IInv, TypeOK, Worker
      <4> QED
        BY <3>3, <4>2
    <3> QED
      BY <3>1, <3>2, <3>3
  <2> DEFINE u == [wk[w] EXCEPT !.todo = todo, !.got = got, !.flag = flag]
  <2>3. u.pc = "members" /\ u.rec = rec /\ u.got = got
    BY <1>2, <2>1 DEF Worker
  <2>4. wk' = [wk EXCEPT ![w] = u]
    BY <2>2
  <2> HIDE DEF u
  <2>5. \A j \in got : rec.items[j].status \notin Terminal
    BY <1>2, <2>1, <2>2
  <2> QED
    BY <1>1, <1>2, <2>3, <2>4, <2>5, OutsideStep
<1>7. CASE ImportedAll(w) \/ PlanFails(w) \/ SavePlan(w)
  <2>1. PICK label \in {"unlock", "planned"} :
            /\ wk' = [wk EXCEPT ![w] = [wk[w] EXCEPT !.pc = label]]
            /\ label = "unlock" \/ wk[w].pc = "save_plan"
            /\ wk[w].pc \in {"members", "save_plan"}
    BY <1>7 DEF ImportedAll, PlanFails, SavePlan, Goto, Turn, IInv, TypeOK
  <2> DEFINE u == [wk[w] EXCEPT !.pc = label]
  <2>2. u.pc = label /\ u.rec = wk[w].rec /\ u.got = wk[w].got
    BY <1>2 DEF Worker
  <2>3. wk' = [wk EXCEPT ![w] = u]
    BY <2>1
  <2> HIDE DEF u
  <2> QED
    BY <1>1, <1>2, <2>1, <2>2, <2>3, OutsideStep
<1>8. CASE Reread(w)
  <2> DEFINE u == [wk[w] EXCEPT !.pc = "merge", !.rec = rec]
  <2>1. wk' = [wk EXCEPT ![w] = u] /\ wk[w].pc = "reread"
    BY <1>8 DEF Reread, Turn, IInv, TypeOK
  <2>2. u.pc = "merge" /\ u.rec = rec /\ u.got = wk[w].got
    BY <1>2 DEF Worker
  <2> HIDE DEF u
  <2> QED
    BY <1>1, <1>2, <2>1, <2>2, OutsideStep
<1>9. CASE UndoItem(w) \/ UndoBlocked(w)
  <2>1. PICK todo, flag : wk' = [wk EXCEPT ![w] = [wk[w] EXCEPT !.todo = todo, !.flag = flag]]
    <3>1. CASE UndoItem(w)
      <4>1. PICK i : wk' = [wk EXCEPT ![w].todo = wk[w].todo \ {i}]
        BY <3>1 DEF UndoItem
      <4>2. wk' = [wk EXCEPT ![w] = [wk[w] EXCEPT !.todo = wk[w].todo \ {i}, !.flag = wk[w].flag]]
        BY <4>1 DEF Turn, IInv, TypeOK, Worker
      <4> QED
        BY <4>2
    <3>2. CASE UndoBlocked(w)
      <4>1. wk' = [wk EXCEPT ![w] = [wk[w] EXCEPT !.todo = {}, !.flag = TRUE]]
        BY <3>2 DEF UndoBlocked, Turn, IInv, TypeOK, Worker
      <4> QED
        BY <4>1
    <3> QED
      BY <1>9, <3>1, <3>2
  <2> DEFINE u == [wk[w] EXCEPT !.todo = todo, !.flag = flag]
  <2>2. wk' = [wk EXCEPT ![w] = u] /\ wk[w].pc = "undo"
    BY <1>9, <2>1 DEF UndoItem, UndoBlocked
  <2>3. u.pc = wk[w].pc /\ u.rec = wk[w].rec /\ u.got = wk[w].got
    BY <1>2 DEF Worker
  <2> HIDE DEF u
  <2> QED
    BY <1>1, <1>2, <2>2, <2>3, OutsideStep
<1> QED
  BY <1>3, <1>4, <1>5, <1>6, <1>7, <1>8, <1>9
\* A save under a lock, after which the lock is to go.
LEMMA UnlockStep ==
    ASSUME NEW w \in Operators, Turn(w), wk[w].got = {}, wk' = [wk EXCEPT ![w].pc = "unlock"]
    PROVE  Sequential'
<1> DEFINE u == [wk[w] EXCEPT !.pc = "unlock"]
<1>1. wk' = [wk EXCEPT ![w] = u]
  BY DEF Turn, IInv, TypeOK
<1>2. u.pc = "unlock" /\ u.got = {}
  BY TurnHas DEF Worker
<1> HIDE DEF u
<1>3. Course(u, rec', revs', active', plan', graph'.deps)
  BY <1>2, OutsideCourse DEF InLoop, Holding
<1> QED
  BY <1>1, <1>2, <1>3, TurnStep

LEMMA SaveTurn ==
    ASSUME NEW w \in Operators, Turn(w),
           SaveImported(w) \/ SavePlanned(w) \/ SaveRetried(w) \/ SaveCancelled(w) \/ SaveRolledBack(w)
    PROVE  Sequential' /\ Orderly(w)
<1>1. /\ wk[w].rec = rec /\ rec \in Record /\ rec.items \in [Items -> Item]
      /\ wk[w].pc # "merge" => wk[w].got = {}
      /\ \A i \in wk[w].got : rec.items[i].status \notin Terminal
  BY TurnHas DEF Knows, Holding, Importing, SaveImported, SavePlanned, SaveRetried, SaveCancelled, SaveRolledBack,
                 At
<1>2. CASE SaveImported(w)
  <2> DEFINE items == [i \in Items |-> IF i \in wk[w].got
                          THEN [rec.items[i] EXCEPT !.status = "responses_imported", !.why = "none"]
                          ELSE rec.items[i]]
  <2>1. rec'.items = items
    BY <1>1, <1>2 DEF SaveImported, Record
  <2>2. \A i \in Items : Quietly(rec.items[i], items[i])
    BY <1>1 DEF Quietly, Item, Terminal, ResumeTerminal
  <2> HIDE DEF items
  <2> QED
    BY <1>2, <2>1, <2>2, TurnOver, QuietSave DEF SaveImported, Stop
<1>3. CASE SavePlanned(w) \/ SaveRetried(w) \/ SaveRolledBack(w)
  <2>1. rec'.items = rec.items
    BY <1>1, <1>3 DEF SavePlanned, SaveRetried, SaveRolledBack, Record
  <2>2. \A i \in Items : Quietly(rec.items[i], rec'.items[i])
    BY <2>1 DEF Quietly
  <2>3. wk[w].got = {} /\ wk' = [wk EXCEPT ![w].pc = "unlock"]
    BY <1>1, <1>3 DEF SavePlanned, SaveRetried, SaveRolledBack, At, Goto
  <2> QED
    BY <2>2, <2>3, UnlockStep, QuietSave
<1>4. CASE SaveCancelled(w)
  <2> DEFINE items == [i \in Items |->
                         IF rec.items[i].status \in {"applied", "resumed", "failed"} THEN rec.items[i]
                         ELSE [rec.items[i] EXCEPT !.status = "cancelled", !.why = "none"]]
  <2>1. rec'.items = items
    BY <1>1, <1>4 DEF SaveCancelled, Record
  <2>2. \A i \in Items : Quietly(rec.items[i], items[i])
    BY <1>1 DEF Quietly, Item, ResumeTerminal
  <2> HIDE DEF items
  <2>3. wk[w].got = {} /\ wk' = [wk EXCEPT ![w].pc = "unlock"]
    BY <1>1, <1>4 DEF SaveCancelled, At, Goto
  <2> QED
    BY <2>1, <2>2, <2>3, UnlockStep, QuietSave
<1> QED
  BY <1>2, <1>3, <1>4

-----------------------------------------------------------------------------
(* The loops of apply and resume *)

LEMMA PlanCovers ==
    ASSUME NEW w \in Operators, Turn(w), plan # NoPlan
    PROVE  /\ plan.waves \in Seq(Seq(Items)) /\ plan.waves # <<>>
           /\ ToSet(FlattenSeq(plan.waves)) = Items
           /\ ValidGraph(graph.deps)
<1>1. plan.waves \in Seq(Seq(Items)) /\ plan.waves # <<>>
  BY DEF Turn, IInv, TypeOK, PlanHasWaves
<1>2. graph.deps \in [Items -> SUBSET Items] /\ ValidGraph(graph.deps)
  BY GraphType DEF Turn, IInv, Validated
<1>3. plan.waves = Waves(graph.deps, graph.conflicts)
  BY DEF Turn, PlanOfGraph
<1> QED
  BY <1>1, <1>2, <1>3, WavesSound

\* At the start everything is left.
LEMMA EverythingLeft ==
    ASSUME NEW W \in Seq(Seq(Items)), ToSet(FlattenSeq(W)) = Items
    PROVE  Left(W) = Items
<1>1. PICK g : EndToEnd(W, g)
  BY FlattenIs
<1>2. Covered(W, Len(W)) = Items
  BY <1>1, FlattenCovers
<1>3. DOMAIN W = 1..Len(W)
  OBVIOUS
<1> QED
  BY <1>2, <1>3 DEF Covered, Left

\* No item but the one at hand succeeds, and none that is done with is reopened.
Steadily(old, new, c) ==
    \A i \in Items :
        /\ old[i].status \in Terminal => new[i].status \in Terminal
        /\ new[i].status \in Success => old[i].status \in Success \/ i = c

LEMMA GoneChange ==
    ASSUME NEW L \in Seq(Seq(Items)), NEW W \in Seq(Seq(Items)), L # <<>>, Head(L) # <<>>,
           ToSet(FlattenSeq(W)) = Items, NEW k, NEW p, From(L, W, k, p),
           NEW deps \in [Items -> SUBSET Items], NEW old, NEW new, Steadily(old, new, Head(Head(L))),
           Gone(L, old, deps, FlattenSeq(W))
    PROVE  Gone(L, new, deps, FlattenSeq(W))
<1> SUFFICES ASSUME NEW i \in Items \ Left(L), new[i].status \notin Terminal
             PROVE  Excused(i, new, deps, FlattenSeq(W))
  BY DEF Gone
<1>1. Excused(i, old, deps, FlattenSeq(W))
  BY DEF Gone, Steadily
<1>2. PICK d \in deps[i] : old[d].status \notin Success \/ Before(FlattenSeq(W), i, d)
  BY <1>1 DEF Excused
<1>3. d \in Items
  OBVIOUS
<1>4. CASE d = Head(Head(L))
  <2>1. Before(FlattenSeq(W), i, Head(Head(L)))
    BY GonePast
  <2> QED
    BY <1>4, <2>1 DEF Excused
<1>5. CASE d # Head(Head(L))
  BY <1>2, <1>3, <1>5 DEF Excused, Steadily
<1> QED
  BY <1>4, <1>5

LEMMA GoneAdvance ==
    ASSUME NEW L \in Seq(Seq(Items)), NEW W \in Seq(Seq(Items)), L # <<>>, Head(L) # <<>>,
           NEW k, NEW p, From(L, W, k, p), NEW deps, NEW items, Gone(L, items, deps, FlattenSeq(W)),
           LET c == Head(Head(L)) IN
           items[c].status \in Terminal \/ Excused(c, items, deps, FlattenSeq(W))
    PROVE  /\ From(Beyond(L), W, k, p + 1)
           /\ Gone(Beyond(L), items, deps, FlattenSeq(W))
<1>1. /\ From(Beyond(L), W, k, p + 1)
      /\ Left(L) \subseteq Left(Beyond(L)) \cup {Head(Head(L))}
  BY FromItem
<1> QED
  BY <1>1 DEF Gone
LEMMA ApplyHas ==
    ASSUME NEW w \in Operators, Turn(w), wk[w].cmd = "apply", wk[w].pc \in InApply \ {"finish"}
    PROVE  /\ plan # NoPlan /\ plan.waves \in Seq(Seq(Items)) /\ ToSet(FlattenSeq(plan.waves)) = Items
           /\ graph.deps \in [Items -> SUBSET Items]
           /\ wk[w].waves \in Seq(Seq(Items)) /\ wk[w].waves # <<>>
           /\ \E k, p : From(wk[w].waves, plan.waves, k, p)
           /\ Gone(wk[w].waves, wk[w].rec.items, graph.deps, FlattenSeq(plan.waves))
           /\ wk[w].pc \in InItem => HasItem(w) /\ wk[w].item = Current(w)
           /\ wk[w].pc # "done_item" => wk[w].rec.items = rec.items
           /\ wk[w].got = {} /\ wk[w].rec.items \in [Items -> Item]
<1>1. Knows(wk[w], rec, revs, active) /\ Thorough(wk[w], plan.waves, graph.deps) /\ plan # NoPlan
  BY TurnHas DEF Course
<1>2. HeldTrue(wk[w], revs) /\ wk[w].waves \in Seq(Seq(Items)) /\ wk[w].rec.items \in [Items -> Item]
  BY Held DEF Turn
<1>3. plan.waves \in Seq(Seq(Items)) /\ ToSet(FlattenSeq(plan.waves)) = Items
  BY <1>1, PlanCovers
<1>4. graph.deps \in [Items -> SUBSET Items]
  BY GraphType DEF Turn, IInv
<1>5. /\ \E k, p : From(wk[w].waves, plan.waves, k, p)
      /\ Gone(wk[w].waves, wk[w].rec.items, graph.deps, FlattenSeq(plan.waves))
      /\ wk[w].pc \in InItem => wk[w].item = Head(Head(wk[w].waves))
  BY <1>1 DEF Thorough
<1>6. /\ wk[w].waves # <<>>
      /\ wk[w].pc \in InItem => HasItem(w)
  BY <1>2 DEF HeldTrue, InWave, InApply, HasItem
<1>7. wk[w].got = {} /\ (wk[w].pc # "done_item" => wk[w].rec.items = rec.items)
  BY <1>1 DEF Knows, Importing, InApply, InLoop
<1> QED
  BY <1>1, <1>2, <1>3, <1>4, <1>5, <1>6, <1>7 DEF Current

LEMMA ApplyCourse ==
    ASSUME NEW u, NEW r, NEW files, NEW ptr, NEW p, NEW deps, u.cmd = "apply", u.pc \in {"wave", "item"},
           u.got = {}, u.rec.items = r.items, p # NoPlan, NEW k, NEW q, From(u.waves, p.waves, k, q),
           Gone(u.waves, u.rec.items, deps, FlattenSeq(p.waves))
    PROVE  Course(u, r, files, ptr, p, deps)
BY DEF Course, Knows, Thorough, Holding, InLoop, Importing, InApply, InItem, Ahead

LEMMA ResumeCourse ==
    ASSUME NEW u, NEW r, NEW files, NEW ptr, NEW p, NEW deps, u.cmd = "resume",
           u.pc \in {"group", "resume_item", "finish"}, u.got = {}, Ahead(u.rec.items, r.items)
    PROVE  Course(u, r, files, ptr, p, deps)
BY DEF Course, Knows, Thorough, Holding, InLoop, Importing

\* apply is done with its item.
LEMMA ApplyAdvance ==
    ASSUME NEW w \in Operators, Turn(w), wk[w].cmd = "apply", wk[w].pc \in InApply \ {"finish"}, HasItem(w),
           NEW items, rec'.items = items, UNCHANGED <<plan, graph>>, Steadily(wk[w].rec.items, items, Current(w)),
           items[Current(w)].status \in Terminal
               \/ Excused(Current(w), items, graph.deps, FlattenSeq(plan.waves)),
           NEW u, wk' = [wk EXCEPT ![w] = u], u.pc = "item", u.cmd = "apply", u.got = {}, u.rec.items = items,
           u.waves = AfterItem(w)
    PROVE  Sequential'
<1>1. /\ plan # NoPlan /\ plan.waves \in Seq(Seq(Items)) /\ ToSet(FlattenSeq(plan.waves)) = Items
      /\ graph.deps \in [Items -> SUBSET Items]
      /\ wk[w].waves \in Seq(Seq(Items)) /\ wk[w].waves # <<>> /\ Head(wk[w].waves) # <<>>
      /\ \E k, p : From(wk[w].waves, plan.waves, k, p)
      /\ Gone(wk[w].waves, wk[w].rec.items, graph.deps, FlattenSeq(plan.waves))
  BY ApplyHas DEF HasItem
<1>2. PICK k, p : From(wk[w].waves, plan.waves, k, p)
  BY <1>1
<1>3. Gone(wk[w].waves, items, graph.deps, FlattenSeq(plan.waves))
  BY <1>1, <1>2, GoneChange DEF Current
<1>4. u.waves = Beyond(wk[w].waves)
  BY DEF AfterItem, Beyond
<1>5. /\ From(u.waves, plan.waves, k, p + 1)
      /\ Gone(u.waves, items, graph.deps, FlattenSeq(plan.waves))
  BY <1>1, <1>2, <1>3, <1>4, GoneAdvance DEF Current
<1>6. Course(u, rec', revs', active', plan', graph'.deps)
  BY <1>1, <1>5, ApplyCourse
<1> QED
  BY <1>6, TurnStep

\* resume goes on with a copy that is not behind the record.
LEMMA ResumeAdvance ==
    ASSUME NEW w \in Operators, Turn(w), NEW u, wk' = [wk EXCEPT ![w] = u], u.cmd = "resume",
           u.pc \in {"group", "resume_item", "finish"}, u.got = {}, Ahead(u.rec.items, rec'.items)
    PROVE  Sequential'
BY ResumeCourse, TurnStep

LEMMA ResumeHas ==
    ASSUME NEW w \in Operators, Turn(w), wk[w].cmd = "resume", wk[w].pc \in InLoop
    PROVE  /\ wk[w].got = {} /\ wk[w].rec.items \in [Items -> Item] /\ rec.items \in [Items -> Item]
           /\ Ahead(wk[w].rec.items, rec.items)
           /\ wk[w] \in Worker /\ wk[w].rec \in Record
BY TurnHas DEF Knows, InLoop, Importing

LEMMA SkipItemTurn ==
    ASSUME NEW w \in Operators, Turn(w), SkipItem(w)
    PROVE  Sequential' /\ Orderly(w)
<1>1. wk[w].pc = "item" /\ HasItem(w) /\ rec' = rec /\ UNCHANGED <<plan, graph>>
  BY DEF SkipItem, At, fileVars
<1>2. wk[w].cmd = "apply"
  BY <1>1, TurnHas DEF Knows
<1>3. wk[w].rec.items = rec.items /\ wk[w].got = {}
  BY <1>1, <1>2, ApplyHas DEF InApply
<1>4. Status(w, Current(w)) \in Terminal
          \/ Excused(Current(w), rec.items, graph.deps, FlattenSeq(plan.waves))
  BY <1>3 DEF SkipItem, Blockers, Status, Excused
<1> DEFINE u == [wk[w] EXCEPT !.waves = AfterItem(w)]
<1>5. wk' = [wk EXCEPT ![w] = u]
  BY DEF SkipItem, Turn, IInv, TypeOK
<1>6. u.pc = "item" /\ u.cmd = "apply" /\ u.got = {} /\ u.rec = wk[w].rec /\ u.waves = AfterItem(w)
  BY <1>1, <1>2, <1>3, TurnHas DEF Worker
<1> HIDE DEF u
<1>7. Steadily(rec.items, rec.items, Current(w))
  BY DEF Steadily
<1> QED
  BY <1>1, <1>2, <1>3, <1>4, <1>5, <1>6, <1>7, ApplyAdvance, NoSave DEF Status, InApply

LEMMA PersistItems ==
    ASSUME NEW w \in Operators, Turn(w), NEW items, Persist(w, items)
    PROVE  rec'.items = items
BY TurnHas DEF Persist, Record

LEMMA BlockItemTurn ==
    ASSUME NEW w \in Operators, Turn(w), BlockItem(w)
    PROVE  Sequential' /\ Orderly(w)
<1> DEFINE c == Current(w)
           items == Marked(w, {c}, "validation_partial", "dependency")
<1>1. wk[w].pc = "item" /\ HasItem(w) /\ rec'.items = items /\ UNCHANGED <<plan, graph>>
  BY PersistItems DEF BlockItem, At
<1>2. wk[w].cmd = "apply"
  BY <1>1, TurnHas DEF Knows
<1>3. /\ wk[w].rec.items = rec.items /\ wk[w].got = {} /\ graph.deps \in [Items -> SUBSET Items]
      /\ rec.items \in [Items -> Item] /\ wk[w].waves # <<>>
  BY <1>1, <1>2, ApplyHas DEF InApply
<1>4. c \in Items
  BY <1>1, <1>3, AfterItemType DEF Turn, IInv
<1>5. PICK d \in Blockers(w, c) : Status(w, d) \in Failure
  BY DEF BlockItem
<1>6. d \in graph.deps[c] /\ d \in Items /\ rec.items[d].status \notin Success /\ rec.items[d].status \in Failure
      /\ rec.items[c].status \notin Terminal
  BY <1>3, <1>4, <1>5 DEF Blockers, Status, BlockItem
<1>7. /\ \A i \in Items : i # c => items[i] = rec.items[i]
      /\ items[c].status = "validation_partial" /\ items[c].app = rec.items[c].app
  BY <1>3, <1>4 DEF Marked, Item
<1>8. wk' = [wk EXCEPT ![w].rec.items = items, ![w].waves = AfterItem(w)]
  BY DEF BlockItem
<1> HIDE DEF items, c
<1>9. Orderly(w)
  <2>1. TerminalKept /\ AppsKept(w)
    BY <1>1, <1>6, <1>7 DEF TerminalKept, AppsKept, Terminal, ResumeTerminal
  <2>2. \A i \in Items : ~NewlyFailed(i) /\ (NewlyBlocked(i) => i = c)
    BY <1>1, <1>7 DEF NewlyFailed, NewlyBlocked
  <2>3. items[d].status \in Failure
    BY <1>6, <1>7 DEF Failure
  <2> QED
    BY <1>1, <1>6, <2>1, <2>2, <2>3 DEF Orderly, Spread
<1>10. Steadily(rec.items, items, c)
  BY <1>6, <1>7 DEF Steadily, Success
<1>11. Excused(c, items, graph.deps, FlattenSeq(plan.waves))
  BY <1>6, <1>7 DEF Excused, Success
<1> DEFINE u == [wk[w] EXCEPT !.rec.items = items, !.waves = AfterItem(w)]
<1>12. wk' = [wk EXCEPT ![w] = u]
  BY <1>8, Held DEF Turn, IInv, TypeOK, Worker
<1>13. u.pc = "item" /\ u.cmd = "apply" /\ u.got = {} /\ u.rec.items = items /\ u.waves = AfterItem(w)
  BY <1>1, <1>2, <1>3, TurnHas DEF Worker, Record
<1> HIDE DEF u
<1> QED
  BY <1>1, <1>2, <1>3, <1>9, <1>10, <1>11, <1>12, <1>13, ApplyAdvance DEF c, InApply
LEMMA StartApplyTurn ==
    ASSUME NEW w \in Operators, Turn(w), StartApply(w)
    PROVE  Sequential' /\ Orderly(w)
<1>1. rec' = rec /\ UNCHANGED <<plan, graph, revs, active>> /\ plan # NoPlan
  BY DEF StartApply, SnapshotValid, fileVars, serviceVars
<1>2. /\ plan.waves \in Seq(Seq(Items)) /\ plan.waves # <<>> /\ ToSet(FlattenSeq(plan.waves)) = Items
  BY <1>1, PlanCovers
<1> DEFINE u == [Idle EXCEPT !.pc = "wave", !.cmd = "apply", !.rec = rec, !.waves = plan.waves, !.exp = active]
<1>3. wk' = [wk EXCEPT ![w] = u]
  BY DEF StartApply
<1>4. u.pc = "wave" /\ u.cmd = "apply" /\ u.rec = rec /\ u.waves = plan.waves /\ u.got = {}
  BY DEF Idle
<1> HIDE DEF u
<1>5. From(u.waves, plan.waves, 1, 0)
  BY <1>2, <1>4, FromStart
<1>6. Gone(u.waves, u.rec.items, graph.deps, FlattenSeq(plan.waves))
  BY <1>2, <1>4, EverythingLeft DEF Gone
<1>7. Course(u, rec', revs', active', plan', graph'.deps)
  BY <1>1, <1>4, <1>5, <1>6, ApplyCourse
<1> QED
  BY <1>1, <1>3, <1>4, <1>7, TurnStep, NoSave

LEMMA StartResumeTurn ==
    ASSUME NEW w \in Operators, Turn(w), StartResume(w)
    PROVE  Sequential' /\ Orderly(w)
<1>1. rec' = rec
  BY DEF StartResume, fileVars
<1> DEFINE u == [Idle EXCEPT !.pc = "group", !.cmd = "resume", !.rec = rec,
                   !.waves = Waves(graph.deps, graph.conflicts), !.exp = active]
<1>2. wk' = [wk EXCEPT ![w] = u]
  BY DEF StartResume
<1>3. u.pc = "group" /\ u.cmd = "resume" /\ u.rec = rec /\ u.got = {}
  BY DEF Idle
<1> HIDE DEF u
<1> QED
  BY <1>1, <1>2, <1>3, ResumeAdvance, NoSave DEF Ahead

LEMMA StartWaveTurn ==
    ASSUME NEW w \in Operators, Turn(w), StartWave(w)
    PROVE  Sequential' /\ Orderly(w)
<1>1. rec' = rec /\ UNCHANGED <<plan, graph>> /\ wk[w].pc = "wave"
  BY DEF StartWave, At, fileVars
<1>2. wk[w].cmd = "apply"
  BY <1>1, TurnHas DEF Knows
<1>3. /\ wk[w].rec.items = rec.items /\ wk[w].got = {} /\ plan # NoPlan
      /\ \E k, p : From(wk[w].waves, plan.waves, k, p)
      /\ Gone(wk[w].waves, wk[w].rec.items, graph.deps, FlattenSeq(plan.waves))
  BY <1>1, <1>2, ApplyHas DEF InApply
<1>4. PICK k, p : From(wk[w].waves, plan.waves, k, p)
  BY <1>3
<1> DEFINE copy == [rec EXCEPT !.plan = plan.sum]
           u == [wk[w] EXCEPT !.pc = "item", !.rec = copy]
<1>5. wk' = [wk EXCEPT ![w] = u]
  BY DEF StartWave, Turn, IInv, TypeOK
<1>6. copy.items = rec.items
  BY TurnHas DEF Record
<1> HIDE DEF copy
<1>7. u.pc = "item" /\ u.cmd = "apply" /\ u.got = {} /\ u.rec = copy /\ u.waves = wk[w].waves
  BY <1>2, <1>3, TurnHas DEF Worker
<1> HIDE DEF u
<1>8. Course(u, rec', revs', active', plan', graph'.deps)
  BY <1>1, <1>3, <1>4, <1>6, <1>7, ApplyCourse
<1> QED
  BY <1>1, <1>5, <1>7, <1>8, TurnStep, NoSave

LEMMA StartGroupTurn ==
    ASSUME NEW w \in Operators, Turn(w), StartGroup(w)
    PROVE  Sequential' /\ Orderly(w)
<1>1. rec' = rec /\ wk[w].pc = "group"
  BY DEF StartGroup, At, fileVars
<1>2. wk[w].cmd = "resume"
  BY <1>1, TurnHas DEF Knows
<1>3. Ahead(wk[w].rec.items, rec.items) /\ wk[w].got = {}
  BY <1>1, <1>2, ResumeHas DEF InLoop
<1> DEFINE copy == Reloaded(w)
           u == [wk[w] EXCEPT !.pc = "resume_item", !.rec = copy]
<1>4. wk' = [wk EXCEPT ![w] = u]
  BY DEF StartGroup, Turn, IInv, TypeOK
<1>5. copy.items = wk[w].rec.items
  BY TurnHas DEF Record, Reloaded
<1> HIDE DEF copy
<1>6. u.pc = "resume_item" /\ u.cmd = "resume" /\ u.got = {} /\ u.rec = copy
  BY <1>2, <1>3, TurnHas DEF Worker
<1> HIDE DEF u
<1> QED
  BY <1>1, <1>3, <1>4, <1>5, <1>6, ResumeAdvance, NoSave

LEMMA NextWaveTurn ==
    ASSUME NEW w \in Operators, Turn(w), NextWave(w)
    PROVE  Sequential' /\ Orderly(w)
<1> DEFINE t == Tail(wk[w].waves)
           loop == IF wk[w].cmd = "apply" THEN "wave" ELSE "group"
           label == IF t = <<>> THEN "finish" ELSE loop
           u == [wk[w] EXCEPT !.pc = label, !.waves = t]
<1>1. rec' = rec /\ UNCHANGED <<plan, graph>> /\ wk[w].pc \in {"item", "resume_item"} /\ ~HasItem(w)
  BY DEF NextWave, fileVars
<1>2. wk' = [wk EXCEPT ![w] = u]
  BY DEF NextWave, Turn, IInv, TypeOK
<1>3. u.pc = label /\ u.waves = t /\ u.cmd = wk[w].cmd /\ u.rec = wk[w].rec /\ u.got = wk[w].got
  BY TurnHas DEF Worker
<1> HIDE DEF u
<1>4. CASE wk[w].pc = "item"
  <2>1. wk[w].cmd = "apply"
    BY <1>4, TurnHas DEF Knows
  <2>2. /\ wk[w].rec.items = rec.items /\ wk[w].got = {} /\ plan # NoPlan
        /\ plan.waves \in Seq(Seq(Items))
        /\ wk[w].waves \in Seq(Seq(Items)) /\ wk[w].waves # <<>> /\ Head(wk[w].waves) = <<>>
        /\ \E k, p : From(wk[w].waves, plan.waves, k, p)
        /\ Gone(wk[w].waves, wk[w].rec.items, graph.deps, FlattenSeq(plan.waves))
    BY <1>1, <1>4, <2>1, ApplyHas DEF InApply, HasItem
  <2>3. PICK k, p : From(wk[w].waves, plan.waves, k, p)
    BY <2>2
  <2>4. /\ t # <<>> => From(t, plan.waves, k + 1, 0)
        /\ Left(wk[w].waves) \subseteq Left(t)
    BY <2>2, <2>3, FromWave
  <2>5. Gone(t, wk[w].rec.items, graph.deps, FlattenSeq(plan.waves))
    BY <2>2, <2>4 DEF Gone
  <2>6. CASE t # <<>>
    <3>1. u.pc = "wave"
      BY <1>3, <2>1, <2>6
    <3> HIDE DEF t, label, loop
    <3>2. Course(u, rec', revs', active', plan', graph'.deps)
      BY <1>1, <1>3, <2>1, <2>2, <2>4, <2>5, <2>6, <3>1, ApplyCourse
    <3> QED
      BY <1>1, <1>2, <3>1, <3>2, TurnStep, NoSave
  <2>7. CASE t = <<>>
    <3>1. u.pc = "finish" /\ u.waves = <<>>
      BY <1>3, <2>7
    <3> HIDE DEF t, label, loop
    <3>2. Course(u, rec', revs', active', plan', graph'.deps)
      BY <1>1, <1>3, <2>1, <2>2, <2>5, <2>7, <3>1
         DEF Course, Knows, Thorough, Holding, InLoop, Importing, InItem, Ahead
    <3> QED
      BY <1>1, <1>2, <3>1, <3>2, TurnStep, NoSave
  <2> QED
    BY <2>6, <2>7
<1>5. CASE wk[w].pc = "resume_item"
  <2>1. wk[w].cmd = "resume"
    BY <1>5, TurnHas DEF Knows
  <2>2. Ahead(wk[w].rec.items, rec.items) /\ wk[w].got = {}
    BY <1>5, <2>1, ResumeHas DEF InLoop
  <2>3. u.pc \in {"group", "finish"}
    BY <1>3, <2>1
  <2> HIDE DEF label
  <2> QED
    BY <1>1, <1>2, <1>3, <2>1, <2>2, <2>3, ResumeAdvance, NoSave
<1> QED
  BY <1>1, <1>4, <1>5

LEMMA ReadExpectedTurn ==
    ASSUME NEW w \in Operators, Turn(w), ReadExpected(w)
    PROVE  Sequential' /\ Orderly(w)
<1>1. rec' = rec /\ UNCHANGED <<plan, graph>> /\ wk[w].pc = "expect"
  BY DEF ReadExpected, At, fileVars
<1>2. /\ wk[w].cmd \in {"apply", "resume"} /\ Live(active, revs)
      /\ wk[w].rec.items[wk[w].item].status \in Success
  BY <1>1, TurnHas DEF Knows
<1>3. Readable
  BY <1>2 DEF Live, Readable, Version
<1> DEFINE loop == IF wk[w].cmd = "apply" THEN "item" ELSE "resume_item"
           u == [wk[w] EXCEPT !.pc = loop, !.exp = active, !.waves = AfterItem(w)]
<1>4. wk' = [wk EXCEPT ![w] = u]
  BY <1>3 DEF ReadExpected, Turn, IInv, TypeOK
<1>5. u.pc = loop /\ u.waves = AfterItem(w) /\ u.cmd = wk[w].cmd /\ u.rec = wk[w].rec /\ u.got = wk[w].got
  BY TurnHas DEF Worker
<1> HIDE DEF u
<1>6. CASE wk[w].cmd = "apply"
  <2>1. /\ wk[w].rec.items = rec.items /\ wk[w].got = {} /\ HasItem(w) /\ wk[w].item = Current(w)
    BY <1>1, <1>6, ApplyHas DEF InApply, InItem
  <2>2. rec.items[Current(w)].status \in Terminal
    BY <1>2, <2>1 DEF Success, Terminal
  <2>3. Steadily(rec.items, rec.items, Current(w))
    BY DEF Steadily
  <2> QED
    BY <1>1, <1>4, <1>5, <1>6, <2>1, <2>2, <2>3, ApplyAdvance, NoSave DEF InApply
<1>7. CASE wk[w].cmd = "resume"
  <2>1. Ahead(wk[w].rec.items, rec.items) /\ wk[w].got = {}
    BY <1>1, <1>7, ResumeHas DEF InLoop
  <2> QED
    BY <1>1, <1>4, <1>5, <1>7, <2>1, ResumeAdvance, NoSave
<1> QED
  BY <1>2, <1>6, <1>7

LEMMA StopTurn ==
    ASSUME NEW w \in Operators, Turn(w),
           WaveRefused(w) \/ ItemRefused(w) \/ ResumeRefused(w) \/ Crash(w) \/ CrashInService(w)
    PROVE  Sequential' /\ Orderly(w)
BY TurnOver, NoSave DEF WaveRefused, ItemRefused, ResumeRefused, Crash, CrashInService, Stop, fileVars

\* What a save from a copy that is not behind does.
LEMMA AheadKept ==
    ASSUME NEW file \in [Items -> Item], NEW items, NEW i \in Items, Ahead(items, file)
    PROVE  /\ Quietly(file[i], items[i])
           /\ file[i].status \in ResumeTerminal => items[i] = file[i]
           /\ items[i].status # "validation_partial" => items[i] = file[i]
           /\ items[i].app = file[i].app
BY DEF Ahead, Pending, Quietly, Item, ResumeTerminal

LEMMA FinishTurn ==
    ASSUME NEW w \in Operators, Turn(w), Finish(w)
    PROVE  Sequential' /\ Orderly(w)
<1>1. rec'.items = wk[w].rec.items /\ wk[w].pc = "finish"
  BY PersistItems DEF Finish, At
<1>2. Ahead(wk[w].rec.items, rec.items) /\ rec.items \in [Items -> Item]
  BY <1>1, TurnHas DEF Knows, InLoop
<1>3. \A i \in Items : Quietly(rec.items[i], rec'.items[i])
  BY <1>1, <1>2, AheadKept
<1> QED
  BY <1>3, TurnOver, QuietSave DEF Finish, Stop
\* apply stays at its item.
LEMMA ApplyStays ==
    ASSUME NEW w \in Operators, Turn(w), wk[w].cmd = "apply", wk[w].pc \in InApply \ {"finish"}, HasItem(w),
           UNCHANGED <<plan, graph>>, NEW u, wk' = [wk EXCEPT ![w] = u], u.pc \in InItem, u.cmd = "apply",
           u.item = Current(w), u.waves = wk[w].waves, Steadily(wk[w].rec.items, u.rec.items, Current(w)),
           Knows(u, rec', revs', active')
    PROVE  Sequential'
<1>1. /\ plan # NoPlan /\ plan.waves \in Seq(Seq(Items)) /\ ToSet(FlattenSeq(plan.waves)) = Items
      /\ graph.deps \in [Items -> SUBSET Items]
      /\ wk[w].waves \in Seq(Seq(Items)) /\ wk[w].waves # <<>> /\ Head(wk[w].waves) # <<>>
      /\ \E k, p : From(wk[w].waves, plan.waves, k, p)
      /\ Gone(wk[w].waves, wk[w].rec.items, graph.deps, FlattenSeq(plan.waves))
  BY ApplyHas DEF HasItem
<1>5. PICK k, p : From(wk[w].waves, plan.waves, k, p)
  BY <1>1
<1> DEFINE new == u.rec.items
<1>6. Steadily(wk[w].rec.items, new, Head(Head(wk[w].waves)))
  BY DEF Current
<1> HIDE DEF new
<1>7. Gone(wk[w].waves, new, graph.deps, FlattenSeq(plan.waves))
  BY <1>1, <1>5, <1>6, GoneChange
<1>2. Gone(wk[w].waves, u.rec.items, graph.deps, FlattenSeq(plan.waves))
  BY <1>7 DEF new
<1>3. u.pc # "idle" /\ u.pc # "finish"
  BY DEF InItem
<1>4. Thorough(u, plan'.waves, graph'.deps)
  BY <1>1, <1>2, <1>3 DEF Thorough, Current
<1> QED
  BY <1>1, <1>3, <1>4, TurnStep DEF Course

LEMMA ApplyItemTurn ==
    ASSUME NEW w \in Operators, Turn(w), ApplyItem(w)
    PROVE  Sequential' /\ Orderly(w)
<1> DEFINE c == Current(w)
           version == revs[c].ver + 1
           items == wk[w].rec.items
<1>1. wk[w].pc = "item" /\ HasItem(w) /\ rec' = rec /\ UNCHANGED <<plan, graph>>
      /\ Status(w, c) \notin Terminal
  BY DEF ApplyItem, Runnable, At, fileVars
<1>2. wk[w].cmd = "apply"
  BY <1>1, TurnHas DEF Knows
<1>3. /\ items = rec.items /\ wk[w].got = {} /\ items \in [Items -> Item] /\ wk[w].waves # <<>>
      /\ wk[w].rec \in Record /\ wk[w] \in Worker /\ revs \in Revs
  BY <1>1, <1>2, ApplyHas, TurnHas DEF InApply
<1>4. c \in Items
  BY <1>1, <1>3, AfterItemType DEF Turn, IInv
<1> HIDE DEF c
<1>5. CASE ServiceApplies(c) /\ wk' = [wk EXCEPT ![w] = [Called(w, "done_item") EXCEPT !.rec.items[c].app = version]]
  <2> DEFINE done == [items EXCEPT ![c].app = version]
             copy == [wk[w].rec EXCEPT !.items = done]
             u == [wk[w] EXCEPT !.pc = "done_item", !.item = c, !.was = items[c].app, !.rec = copy]
  <2>1. /\ done \in [Items -> Item] /\ \A i \in Items : done[i].status = items[i].status
        /\ done = [rec.items EXCEPT ![c].app = version]
    BY <1>3, <1>4 DEF Item, Revs
  <2>2. wk' = [wk EXCEPT ![w] = u]
    BY <1>3, <1>4, <1>5 DEF Called, c, Worker, Record
  <2> HIDE DEF done
  <2>3. copy.items = done
    BY <1>3 DEF Record
  <2> HIDE DEF copy
  <2>4. /\ u.pc = "done_item" /\ u.item = c /\ u.rec = copy /\ u.waves = wk[w].waves /\ u.cmd = "apply"
        /\ u.got = {}
    BY <1>2, <1>3 DEF Worker
  <2> HIDE DEF u
  <2>5. Live(active', revs') /\ revs'[c].ver = version
    <3>1. revs' = [revs EXCEPT ![c] = [parent |-> active.rev, pver |-> active.ver, ver |-> version]]
      BY <1>4, <1>5 DEF ServiceApplies, Published
    <3>2. active' = [rev |-> c, ver |-> version]
      BY <1>5 DEF ServiceApplies
    <3> QED
      BY <1>3, <1>4, <3>1, <3>2, ItemsType DEF Live, Revs
  <2>6. Knows(u, rec', revs', active')
    BY <1>1, <1>3, <1>4, <2>1, <2>3, <2>4, <2>5 DEF Knows, Holding, InLoop, Importing, Status
  <2>7. Steadily(items, done, c)
    BY <2>1 DEF Steadily
  <2> QED
    BY <1>1, <1>2, <2>2, <2>3, <2>4, <2>6, <2>7, ApplyStays, NoSave DEF InItem, InApply, c
<1>6. CASE ServiceRefuses(c) /\ wk' = [wk EXCEPT ![w] = Called(w, "failed_item")]
  <2> DEFINE u == [wk[w] EXCEPT !.pc = "failed_item", !.item = c, !.was = items[c].app]
  <2>1. wk' = [wk EXCEPT ![w] = u]
    BY <1>6 DEF Called, c
  <2>2. /\ u.pc = "failed_item" /\ u.item = c /\ u.rec = wk[w].rec /\ u.waves = wk[w].waves /\ u.cmd = "apply"
        /\ u.got = {} /\ u.was = items[c].app
    BY <1>2, <1>3 DEF Worker
  <2> HIDE DEF u
  <2>3. Knows(u, rec', revs', active')
    BY <1>1, <1>3, <1>4, <2>2 DEF Knows, Holding, InLoop, Importing, Status, Ahead, Terminal, ResumeTerminal
  <2>4. Steadily(items, items, c)
    BY DEF Steadily
  <2> QED
    BY <1>1, <1>2, <2>1, <2>2, <2>3, <2>4, ApplyStays, NoSave DEF InItem, InApply, c
<1> QED
  BY <1>5, <1>6 DEF ApplyItem, c

LEMMA SaveAppliedTurn ==
    ASSUME NEW w \in Operators, Turn(w), SaveApplied(w)
    PROVE  Sequential' /\ Orderly(w)
<1> DEFINE i == wk[w].item
           old == wk[w].rec.items
           items == Marked(w, {i}, "applied", "none")
<1>1. wk[w].pc = "done_item" /\ rec'.items = items /\ UNCHANGED <<plan, graph, revs, active>>
  BY PersistItems DEF SaveApplied, At, serviceVars
<1>2. /\ wk[w].cmd = "apply" /\ Live(active, revs)
      /\ old = [rec.items EXCEPT ![i].app = revs[i].ver] /\ rec.items[i].status \notin Terminal
      /\ rec.items \in [Items -> Item] /\ old \in [Items -> Item] /\ i \in Items /\ revs \in Revs
      /\ wk[w] \in Worker /\ wk[w].rec \in Record
  BY <1>1, TurnHas DEF Knows
<1>3. HasItem(w) /\ i = Current(w) /\ wk[w].got = {}
  BY <1>1, <1>2, ApplyHas DEF InApply, InItem
<1>4. /\ \A j \in Items : j # i => items[j] = rec.items[j] /\ old[j] = rec.items[j]
      /\ items[i].status = "applied" /\ items[i].why = "none" /\ items[i].app = revs[i].ver
  <2>1. items = [j \in Items |-> IF j = i THEN [old[j] EXCEPT !.status = "applied", !.why = "none"] ELSE old[j]]
    BY DEF Marked
  <2>2. old[i] = [rec.items[i] EXCEPT !.app = revs[i].ver] /\ \A j \in Items : j # i => old[j] = rec.items[j]
    BY <1>2
  <2>3. old[i] \in Item /\ rec.items[i] \in Item /\ old[i].app = revs[i].ver
    BY <1>2, <2>2 DEF Item
  <2> HIDE DEF items, old
  <2>4. \A j \in Items : j # i => items[j] = old[j]
    BY <2>1
  <2>5. items[i] = [old[i] EXCEPT !.status = "applied", !.why = "none"]
    BY <1>2, <2>1
  <2> QED
    BY <2>2, <2>3, <2>4, <2>5 DEF Item
<1> DEFINE copy == [wk[w].rec EXCEPT !.items = items]
           u == [wk[w] EXCEPT !.pc = "expect", !.rec = copy]
<1>5. wk' = [wk EXCEPT ![w] = u]
  BY Held DEF SaveApplied, Turn, IInv, TypeOK, Worker
<1> HIDE DEF items, i, old
<1>6. copy.items = items
  BY <1>2 DEF Record
<1> HIDE DEF copy
<1>7. /\ u.pc = "expect" /\ u.item = i /\ u.rec = copy /\ u.waves = wk[w].waves /\ u.cmd = "apply"
      /\ u.got = {}
  BY <1>2, <1>3 DEF Worker, i
<1> HIDE DEF u
<1>8. Orderly(w)
  <2>1. TerminalKept /\ AppsKept(w)
    BY <1>1, <1>2, <1>4 DEF TerminalKept, AppsKept, Terminal, ResumeTerminal, At, i
  <2>2. \A j \in Items : ~NewlyFailed(j) /\ ~NewlyBlocked(j)
    BY <1>1, <1>4 DEF NewlyFailed, NewlyBlocked
  <2>3. Spread
    <3>1. graph.deps \in [Items -> SUBSET Items]
      BY GraphType DEF Turn, IInv
    <3> QED
      BY <2>2, <3>1 DEF Spread
  <2> QED
    BY <2>1, <2>3 DEF Orderly
<1>9. Knows(u, rec', revs', active')
  BY <1>1, <1>2, <1>4, <1>6, <1>7 DEF Knows, Holding, InLoop, Importing, Ahead, Success
<1>10. Steadily(old, items, i)
  BY <1>4 DEF Steadily, Terminal
<1> QED
  BY <1>1, <1>2, <1>3, <1>5, <1>6, <1>7, <1>8, <1>9, <1>10, ApplyStays DEF InItem, InApply, i, old
-----------------------------------------------------------------------------
(* The save of a failure *)

\* What is saved when item i has failed, with the items that fall with it.
FailedSave(old, new, i, hit, app) ==
    /\ new[i].status = "failed" /\ new[i].why = "none" /\ new[i].app = app
    /\ \A j \in hit : new[j].status = "validation_partial" /\ new[j].why = "dependency" /\ new[j].app = old[j].app
    /\ \A j \in Items \ (hit \cup {i}) : new[j] = old[j]

LEMMA FailedSaveIs ==
    ASSUME NEW w \in Operators, Turn(w), SaveFailed(w)
    PROVE  LET i == wk[w].item
               settled == {j \in Items : Status(w, j) \in Terminal}
               hit == Dependents(graph.deps, i, settled \cup {i})
           IN FailedSave(wk[w].rec.items, rec'.items, i, hit, wk[w].was)
<1> DEFINE i == wk[w].item
           old == wk[w].rec.items
           settled == {j \in Items : Status(w, j) \in Terminal}
           hit == Dependents(graph.deps, i, settled \cup {i})
           items == [j \in Items |-> IF j \in hit THEN [Failed(w)[j] EXCEPT !.status = "validation_partial",
                                                                             !.why = "dependency"]
                                     ELSE Failed(w)[j]]
<1>1. rec'.items = items
  BY PersistItems DEF SaveFailed
<1>2. i \in Items /\ old \in [Items -> Item]
  BY TurnHas
<1>3. \A j \in hit : j \in Items /\ j # i
  <2>1. graph.deps \in [Items -> SUBSET Items]
    BY GraphType DEF Turn, IInv
  <2> QED
    BY <1>2, <2>1, FallsForAReason
<1>4. /\ Failed(w)[i].status = "failed" /\ Failed(w)[i].why = "none" /\ Failed(w)[i].app = wk[w].was
      /\ \A j \in Items \ {i} : Failed(w)[j] = old[j]
  BY <1>2 DEF Failed, Marked, Item
<1> HIDE DEF hit
<1>5. \A j \in hit : /\ items[j].status = "validation_partial" /\ items[j].why = "dependency"
                     /\ items[j].app = old[j].app
  <2> TAKE j \in hit
  <2>1. j \in Items /\ Failed(w)[j] = old[j] /\ old[j] \in Item
    BY <1>2, <1>3, <1>4
  <2>2. items[j] = [old[j] EXCEPT !.status = "validation_partial", !.why = "dependency"]
    BY <2>1
  <2> QED
    BY <2>1, <2>2 DEF Item
<1>6. \A j \in Items \ hit : items[j] = Failed(w)[j]
  OBVIOUS
<1> HIDE DEF items, i, old
<1> QED
  BY <1>1, <1>2, <1>3, <1>4, <1>5, <1>6 DEF FailedSave, hit, i, old

LEMMA SaveFailedTurn ==
    ASSUME NEW w \in Operators, Turn(w), SaveFailed(w)
    PROVE  Sequential' /\ Orderly(w)
<1> DEFINE i == wk[w].item
           old == wk[w].rec.items
           settled == {j \in Items : Status(w, j) \in Terminal}
           hit == Dependents(graph.deps, i, settled \cup {i})
           items == rec'.items
<1>1. FailedSave(old, items, i, hit, wk[w].was)
  BY FailedSaveIs
<1>2. wk[w].pc = "failed_item" /\ UNCHANGED <<plan, graph>>
  BY DEF SaveFailed, At
<1>3. /\ i \in Items /\ old \in [Items -> Item] /\ rec.items \in [Items -> Item]
      /\ old[i].status \notin ResumeTerminal /\ wk[w].was = rec.items[i].app
      /\ Ahead(old, rec.items) /\ wk[w].cmd \in {"apply", "resume"} /\ wk[w].got = {}
      /\ wk[w] \in Worker /\ wk[w].rec \in Record
  BY <1>2, TurnHas DEF Knows, InLoop, Importing
<1>4. graph.deps \in [Items -> SUBSET Items] /\ ValidGraph(graph.deps)
  <2>1. ~At(w, "idle")
    BY <1>2 DEF At
  <2> QED
    BY <2>1, GraphType DEF Turn, IInv, Validated
<1>5. \A j \in hit : /\ j \in Items /\ j # i /\ old[j].status \notin Terminal
                     /\ graph.deps[j] \cap (hit \cup {i}) # {}
  <2>1. \A j \in hit : /\ j \in Items /\ j # i /\ j \notin settled \cup {i}
                       /\ graph.deps[j] \cap (hit \cup {i}) # {}
    <3> DEFINE fixed == settled \cup {i}
    <3> HIDE DEF fixed
    <3>1. LET fall == Dependents(graph.deps, i, fixed) IN
          \A j \in fall : /\ j \in Items /\ j # i /\ j \notin fixed
                          /\ graph.deps[j] \cap (fall \cup {i}) # {}
      BY <1>3, <1>4, FallsForAReason
    <3> QED
      BY <3>1 DEF fixed
  <2> HIDE DEF hit
  <2> QED
    BY <2>1 DEF Status
<1>6. \A j \in Items : j # i /\ old[j].status \notin Terminal /\ graph.deps[j] \cap (hit \cup {i}) # {}
                          => j \in hit
  BY <1>3, <1>4, EverythingFalls DEF Status
<1>7. PICK copy, label : /\ wk' = [wk EXCEPT ![w] = [wk[w] EXCEPT !.pc = label, !.rec = copy, !.waves = AfterItem(w)]]
                         /\ copy.items = items
                         /\ label = IF wk[w].cmd = "apply" THEN "item" ELSE "resume_item"
  <2> DEFINE saved == [j \in Items |-> IF j \in hit THEN [Failed(w)[j] EXCEPT !.status = "validation_partial",
                                                                               !.why = "dependency"]
                                       ELSE Failed(w)[j]]
             label == IF wk[w].cmd = "apply" THEN "item" ELSE "resume_item"
             copy == [wk[w].rec EXCEPT !.items = saved]
  <2>1. /\ rec'.items = saved
        /\ wk' = [wk EXCEPT ![w].pc = label, ![w].rec.items = saved, ![w].waves = AfterItem(w)]
    BY PersistItems DEF SaveFailed
  <2> HIDE DEF saved, label
  <2>2. wk' = [wk EXCEPT ![w] = [wk[w] EXCEPT !.pc = label, !.rec = copy, !.waves = AfterItem(w)]]
    BY <1>3, <2>1, Held DEF Turn, IInv, TypeOK, Worker
  <2>3. copy.items = items
    BY <1>3, <2>1 DEF Record
  <2> HIDE DEF copy
  <2> QED
    BY <2>2, <2>3 DEF label
<1> HIDE DEF hit, i, old, settled
<1>8. \A j \in Items : /\ old[j].app = rec.items[j].app
                       /\ Quietly(rec.items[j], old[j])
                       /\ rec.items[j].status \in ResumeTerminal => old[j] = rec.items[j]
                       /\ old[j].status # "validation_partial" => old[j] = rec.items[j]
  BY <1>3, AheadKept
<1>9. TerminalKept /\ AppsKept(w)
  <2>1. ASSUME NEW j \in Items
        PROVE  /\ rec.items[j].status \in ResumeTerminal => items[j].status = rec.items[j].status
               /\ items[j].app = rec.items[j].app
    <3>1. CASE j = i
      BY <1>1, <1>3, <1>8, <3>1 DEF FailedSave
    <3>2. CASE j \in hit
      BY <1>1, <1>5, <1>8, <3>2 DEF FailedSave, ResumeTerminal, Terminal
    <3>3. CASE j \notin hit \cup {i}
      BY <1>1, <1>8, <3>3 DEF FailedSave
    <3> QED
      BY <3>1, <3>2, <3>3
  <2> QED
    BY <2>1 DEF TerminalKept, AppsKept
<1>10. Spread
  <2>1. ASSUME NEW j \in Items, NewlyFailed(j) PROVE j = i
    BY <1>1, <1>8, <2>1 DEF FailedSave, NewlyFailed, Quietly
  <2>2. ASSUME NEW j \in Items, NewlyBlocked(j) PROVE j \in hit
    BY <1>1, <1>8, <2>2 DEF FailedSave, NewlyBlocked, Quietly
  <2>3. ASSUME NEW j \in Items, NEW d \in graph.deps[j], NewlyFailed(d) \/ NewlyBlocked(d)
        PROVE  items[j].status \in Terminal \cup {"validation_partial"}
    <3>1. d \in Items /\ d \in hit \cup {i}
      BY <1>4, <2>1, <2>2, <2>3
    <3>2. j = i \/ old[j].status \in Terminal \/ j \in hit
      BY <1>6, <3>1
    <3> QED
      BY <1>1, <1>5, <3>2 DEF FailedSave, Terminal
  <2>4. ASSUME NEW j \in Items, NewlyBlocked(j)
        PROVE  \E d \in graph.deps[j] : items[d].status \in Failure
    <3>1. PICK d \in graph.deps[j] : d \in hit \cup {i}
      BY <1>5, <2>2, <2>4
    <3> QED
      BY <1>1, <3>1 DEF FailedSave, Failure
  <2> QED
    BY <2>3, <2>4 DEF Spread
<1> DEFINE u == [wk[w] EXCEPT !.pc = label, !.rec = copy, !.waves = AfterItem(w)]
<1>11. wk' = [wk EXCEPT ![w] = u]
  BY <1>7
<1>12. u.pc = label /\ u.rec.items = items /\ u.waves = AfterItem(w) /\ u.cmd = wk[w].cmd /\ u.got = {}
  BY <1>3, <1>7 DEF Worker
<1> HIDE DEF u
<1>13. CASE wk[w].cmd = "apply"
  <2>1. HasItem(w) /\ i = Current(w)
    BY <1>2, <1>13, ApplyHas DEF InApply, InItem, i
  <2>2. Steadily(old, items, i)
    BY <1>1, <1>3, <1>5 DEF FailedSave, Steadily, Terminal, Success
  <2>3. items[i].status \in Terminal
    BY <1>1 DEF FailedSave, Terminal
  <2>4. /\ wk[w].pc \in InApply \ {"finish"} /\ rec'.items = items /\ Steadily(wk[w].rec.items, items, Current(w))
        /\ items[Current(w)].status \in Terminal /\ u.pc = "item" /\ u.cmd = "apply"
    BY <1>2, <1>7, <1>12, <1>13, <2>1, <2>2, <2>3 DEF InApply, old
  <2> HIDE DEF items
  <2>5. Sequential'
    BY <1>2, <1>11, <1>12, <1>13, <2>1, <2>4, ApplyAdvance
  <2> QED
    BY <1>9, <1>10, <2>5 DEF Orderly
<1>14. CASE wk[w].cmd = "resume"
  BY <1>7, <1>9, <1>10, <1>11, <1>12, <1>14, ResumeAdvance DEF Ahead, Orderly
<1> QED
  BY <1>3, <1>13, <1>14
-----------------------------------------------------------------------------
(* resume *)

\* What remains is marked: nothing that is resumed, failed or cancelled, and no failure.
LEMMA MarkedQuietly ==
    ASSUME NEW w \in Operators, Turn(w), wk[w].cmd = "resume", wk[w].pc \in InLoop, NEW S,
           \A i \in Items \cap S : Status(w, i) \notin ResumeTerminal, NEW why \in {"halted", "pending"},
           rec'.items = Marked(w, S, "validation_partial", why)
    PROVE  Orderly(w)
<1>1. /\ Ahead(wk[w].rec.items, rec.items) /\ rec.items \in [Items -> Item]
      /\ wk[w].rec.items \in [Items -> Item]
  BY ResumeHas
<1> SUFFICES ASSUME NEW i \in Items PROVE Quietly(rec.items[i], rec'.items[i])
  BY QuietSave
<1> DEFINE old == wk[w].rec.items
<1>2. /\ Quietly(rec.items[i], old[i])
      /\ rec.items[i].status \in ResumeTerminal => old[i] = rec.items[i]
      /\ old[i].app = rec.items[i].app
  BY <1>1, AheadKept
<1>3. CASE i \in S
  <2>1. rec'.items[i] = [old[i] EXCEPT !.status = "validation_partial", !.why = why]
    BY <1>3 DEF Marked
  <2>2. old[i] \in Item /\ old[i].status \notin ResumeTerminal
    BY <1>1, <1>3 DEF Status
  <2>3. rec.items[i].status \notin ResumeTerminal
    BY <1>2, <2>2
  <2> HIDE DEF old
  <2>4. rec'.items[i].status = "validation_partial" /\ rec'.items[i].why = why /\ rec'.items[i].app = old[i].app
    BY <2>1, <2>2 DEF Item
  <2> QED
    BY <1>2, <2>3, <2>4 DEF Quietly
<1>4. CASE i \notin S
  BY <1>2, <1>4 DEF Marked
<1> QED
  BY <1>3, <1>4

LEMMA HaltTurn ==
    ASSUME NEW w \in Operators, Turn(w), GroupStale(w) \/ HaltResume(w)
    PROVE  Sequential' /\ Orderly(w)
<1> DEFINE S == IF wk[w].pc = "group" THEN Remaining(w) ELSE {Current(w)} \cup Remaining(w)
           items == Marked(w, S, "validation_partial", "halted")
<1>1. wk[w].pc \in {"group", "resume_item"}
  BY DEF GroupStale, HaltResume, AtResume, At
<1>2. wk[w].cmd = "resume"
  BY <1>1, TurnHas DEF Knows
<1>3. wk[w].got = {} /\ wk[w] \in Worker /\ wk[w].rec \in Record /\ rec \in Record
  BY <1>1, <1>2, ResumeHas, TurnHas DEF InLoop
<1>4. \A i \in Items \cap S : Status(w, i) \notin ResumeTerminal
  <2>1. wk[w].pc = "resume_item" => Status(w, Current(w)) \notin ResumeTerminal
    BY DEF GroupStale, HaltResume, AtResume, At
  <2>2. \A i \in Remaining(w) : Status(w, i) \notin ResumeTerminal
    BY DEF Remaining
  <2>3. \A i \in S : i \in Remaining(w) \/ (wk[w].pc = "resume_item" /\ i = Current(w))
    BY <1>1
  <2> HIDE DEF S
  <2> QED
    BY <2>1, <2>2, <2>3
<1>5. PICK copy : /\ wk' = [wk EXCEPT ![w] = [wk[w] EXCEPT !.pc = "finish", !.rec = copy]]
                  /\ copy.items = items /\ rec'.items = items
  <2>1. CASE GroupStale(w)
    <3>1. S = Remaining(w)
      BY <2>1 DEF GroupStale, At
    <3> HIDE DEF S
    <3> HIDE DEF items
    <3> DEFINE copy == [Reloaded(w) EXCEPT !.items = items]
    <3>2. rec' = [Reloaded(w) EXCEPT !.items = items, !.status = DerivedStatus(items, wk[w].flag)]
      BY <2>1, <3>1 DEF GroupStale, items
    <3>3. wk' = [wk EXCEPT ![w].pc = "finish", ![w].rec = copy]
      BY <2>1, <3>1 DEF GroupStale, items
    <3>4. copy.items = items /\ rec'.items = items
      BY <1>3, <3>2 DEF Reloaded, Record
    <3> HIDE DEF copy
    <3>5. wk' = [wk EXCEPT ![w] = [wk[w] EXCEPT !.pc = "finish", !.rec = copy]]
      BY <3>3 DEF Turn, IInv, TypeOK
    <3> QED
      BY <3>4, <3>5
  <2>2. CASE HaltResume(w)
    <3>1. S = {Current(w)} \cup Remaining(w)
      BY <2>2 DEF HaltResume, AtResume, At
    <3> HIDE DEF S
    <3> HIDE DEF items
    <3> DEFINE copy == [wk[w].rec EXCEPT !.items = items]
    <3>2. rec'.items = items
      BY <2>2, <3>1, PersistItems DEF HaltResume, items
    <3>3. wk' = [wk EXCEPT ![w].pc = "finish", ![w].rec.items = items]
      BY <2>2, <3>1 DEF HaltResume, items
    <3>4. copy.items = items
      BY <1>3 DEF Record
    <3>5. wk' = [wk EXCEPT ![w] = [wk[w] EXCEPT !.pc = "finish", !.rec = copy]]
      BY <1>3, <3>3 DEF Turn, IInv, TypeOK, Worker
    <3> HIDE DEF copy
    <3> QED
      BY <3>2, <3>4, <3>5
  <2> QED
    BY <2>1, <2>2
<1> DEFINE u == [wk[w] EXCEPT !.pc = "finish", !.rec = copy]
<1>6. wk' = [wk EXCEPT ![w] = u]
  BY <1>5
<1>7. u.pc = "finish" /\ u.rec = copy /\ u.cmd = "resume" /\ u.got = {}
  BY <1>2, <1>3 DEF Worker
<1> HIDE DEF S
<1>8. Orderly(w)
  BY <1>1, <1>2, <1>4, <1>5, MarkedQuietly DEF InLoop
<1> HIDE DEF u, items
<1> QED
  BY <1>5, <1>6, <1>7, <1>8, ResumeAdvance DEF Ahead

LEMMA BlockResumeTurn ==
    ASSUME NEW w \in Operators, Turn(w), BlockResume(w)
    PROVE  Sequential' /\ Orderly(w)
<1> DEFINE c == Current(w)
           old == wk[w].rec.items
           items == Marked(w, {c}, "validation_partial", "pending")
<1>1. wk[w].pc = "resume_item" /\ HasItem(w) /\ rec' = rec /\ Status(w, c) \notin ResumeTerminal
  BY DEF BlockResume, AtResume, At, fileVars
<1>2. wk[w].cmd = "resume"
  BY <1>1, TurnHas DEF Knows
<1>3. /\ wk[w].got = {} /\ wk[w] \in Worker /\ wk[w].rec \in Record /\ Ahead(old, rec.items)
      /\ old \in [Items -> Item] /\ rec.items \in [Items -> Item]
  BY <1>1, <1>2, ResumeHas DEF InLoop
<1>4. Ahead(items, rec.items)
  <2> SUFFICES ASSUME NEW i \in Items
               PROVE  \/ items[i] = rec.items[i]
                      \/ items[i] = Pending(rec.items[i]) /\ rec.items[i].status \notin ResumeTerminal
    BY DEF Ahead
  <2>1. \/ old[i] = rec.items[i]
        \/ old[i] = Pending(rec.items[i]) /\ rec.items[i].status \notin ResumeTerminal
    BY <1>3 DEF Ahead
  <2>2. CASE i = c
    <3>1. items[i] = Pending(old[i])
      BY <2>2 DEF Marked, Pending
    <3>2. old[i].status \notin ResumeTerminal
      BY <1>1, <2>2 DEF Status
    <3>3. Pending(Pending(rec.items[i])) = Pending(rec.items[i])
      BY <1>3 DEF Pending, Item
    <3> QED
      BY <2>1, <3>1, <3>2, <3>3
  <2>3. CASE i # c
    BY <2>1, <2>3 DEF Marked
  <2> QED
    BY <2>2, <2>3
<1> DEFINE copy == [wk[w].rec EXCEPT !.items = items]
           u == [wk[w] EXCEPT !.rec = copy, !.waves = AfterItem(w)]
<1>5. wk' = [wk EXCEPT ![w] = u]
  BY <1>3 DEF BlockResume, Turn, IInv, TypeOK, Worker
<1> HIDE DEF items, old, c
<1>6. copy.items = items
  BY <1>3 DEF Record
<1> HIDE DEF copy
<1>7. u.pc = "resume_item" /\ u.rec = copy /\ u.cmd = "resume" /\ u.got = {}
  BY <1>1, <1>2, <1>3 DEF Worker
<1> HIDE DEF u
<1> QED
  BY <1>1, <1>4, <1>5, <1>6, <1>7, ResumeAdvance, NoSave

LEMMA SkipResumeTurn ==
    ASSUME NEW w \in Operators, Turn(w), SkipResume(w)
    PROVE  Sequential' /\ Orderly(w)
<1>1. wk[w].pc = "resume_item" /\ rec' = rec
  BY DEF SkipResume, At, fileVars
<1>2. wk[w].cmd = "resume"
  BY <1>1, TurnHas DEF Knows
<1>3. wk[w].got = {} /\ wk[w] \in Worker /\ Ahead(wk[w].rec.items, rec.items)
  BY <1>1, <1>2, ResumeHas DEF InLoop
<1> DEFINE u == [wk[w] EXCEPT !.waves = AfterItem(w)]
<1>4. wk' = [wk EXCEPT ![w] = u]
  BY DEF SkipResume, Turn, IInv, TypeOK
<1>5. u.pc = "resume_item" /\ u.rec = wk[w].rec /\ u.cmd = "resume" /\ u.got = {}
  BY <1>1, <1>2, <1>3 DEF Worker
<1> HIDE DEF u
<1> QED
  BY <1>1, <1>3, <1>4, <1>5, ResumeAdvance, NoSave

LEMMA ResumeItemTurn ==
    ASSUME NEW w \in Operators, Turn(w), ResumeItem(w)
    PROVE  Sequential' /\ Orderly(w)
<1> DEFINE c == Current(w)
           old == wk[w].rec.items
<1>1. /\ wk[w].pc = "resume_item" /\ HasItem(w) /\ rec' = rec /\ Status(w, c) = "applied"
      /\ UNCHANGED <<revs, active>>
  BY DEF ResumeItem, ResumeReady, AtResume, At, fileVars, ServiceResumes, ServiceFailsResume,
         ServiceBreaksResume, ServiceRefusesResume, serviceVars
<1>2. wk[w].cmd = "resume"
  BY <1>1, TurnHas DEF Knows
<1>3. /\ wk[w].got = {} /\ wk[w] \in Worker /\ Ahead(old, rec.items) /\ rec.items \in [Items -> Item]
  BY <1>1, <1>2, ResumeHas DEF InLoop
<1>4. c \in Items
  <2>1. wk[w].waves # <<>>
    BY <1>1, Held DEF Turn, HeldTrue, InWave
  <2> QED
    BY <1>1, <2>1, AfterItemType DEF Turn, IInv
<1>5. old[c].app = rec.items[c].app /\ old[c].status = "applied"
  BY <1>1, <1>3, <1>4, AheadKept DEF Status
<1>6. PICK label, flag :
          /\ wk' = [wk EXCEPT ![w] = [wk[w] EXCEPT !.pc = label, !.item = c, !.was = old[c].app, !.flag = flag]]
          /\ label = "failed_item" \/ (label = "resumed_item" /\ Resumable(c))
  <2>1. CASE ServiceResumes(c) /\ wk' = [wk EXCEPT ![w] = [Called(w, "resumed_item") EXCEPT !.flag = TRUE]]
    <3>1. wk' = [wk EXCEPT ![w] = [wk[w] EXCEPT !.pc = "resumed_item", !.item = c, !.was = old[c].app, !.flag = TRUE]]
      BY <2>1, <1>3 DEF Called, Worker
    <3> QED
      BY <2>1, <3>1 DEF ServiceResumes
  <2>2. ASSUME NEW label, wk' = [wk EXCEPT ![w] = Called(w, label)]
        PROVE  wk' = [wk EXCEPT ![w] = [wk[w] EXCEPT !.pc = label, !.item = c, !.was = old[c].app,
                                                     !.flag = wk[w].flag]]
    BY <2>2, <1>3 DEF Called, Worker
  <2>3. CASE ServiceFailsResume(c) /\ wk' = [wk EXCEPT ![w] = Called(w, "resumed_item")]
    BY <2>2, <2>3 DEF ServiceFailsResume
  <2>4. CASE /\ ServiceBreaksResume(c) \/ ServiceRefusesResume(c)
             /\ wk' = [wk EXCEPT ![w] = Called(w, "failed_item")]
    BY <2>2, <2>4
  <2> QED
    BY <2>1, <2>3, <2>4 DEF ResumeItem
<1> DEFINE u == [wk[w] EXCEPT !.pc = label, !.item = c, !.was = old[c].app, !.flag = flag]
<1>7. wk' = [wk EXCEPT ![w] = u]
  BY <1>6
<1> HIDE DEF c
<1>8. /\ u.pc = label /\ u.rec = wk[w].rec /\ u.cmd = "resume" /\ u.got = {} /\ u.item = c
      /\ u.was = old[c].app
  BY <1>2, <1>3 DEF Worker
<1> HIDE DEF u
<1>9. label = "resumed_item" => Live(active, revs)
  BY <1>4, <1>6, ItemsType DEF Resumable, Live
<1>10. Knows(u, rec', revs', active')
  BY <1>1, <1>3, <1>5, <1>6, <1>8, <1>9 DEF Knows, Holding, InLoop, Importing, ResumeTerminal
<1>11. Course(u, rec', revs', active', plan', graph'.deps) /\ u.pc # "idle"
  BY <1>6, <1>8, <1>10 DEF Course, Thorough
<1> QED
  BY <1>1, <1>7, <1>11, TurnStep, NoSave

LEMMA SaveResumedTurn ==
    ASSUME NEW w \in Operators, Turn(w), SaveResumed(w)
    PROVE  Sequential' /\ Orderly(w)
<1> DEFINE i == wk[w].item
           old == wk[w].rec.items
           items == Marked(w, {i}, "resumed", "none")
<1>1. wk[w].pc = "resumed_item" /\ rec'.items = items /\ UNCHANGED <<revs, active>>
  BY PersistItems DEF SaveResumed, At, serviceVars
<1>2. /\ wk[w].cmd = "resume" /\ Live(active, revs) /\ old[i].status = "applied" /\ i \in Items
  BY <1>1, TurnHas DEF Knows
<1>3. /\ wk[w].got = {} /\ wk[w] \in Worker /\ Ahead(old, rec.items) /\ rec.items \in [Items -> Item]
      /\ wk[w].rec \in Record /\ old \in [Items -> Item]
  BY <1>1, <1>2, ResumeHas DEF InLoop
<1>4. /\ \A j \in Items : j # i => items[j] = old[j]
      /\ items[i].status = "resumed" /\ items[i].why = "none" /\ items[i].app = old[i].app
  BY <1>2, <1>3 DEF Marked, Item
<1> DEFINE copy == [wk[w].rec EXCEPT !.items = items]
           u == [wk[w] EXCEPT !.pc = "expect", !.rec = copy]
<1>5. wk' = [wk EXCEPT ![w] = u]
  BY <1>3 DEF SaveResumed, Turn, IInv, TypeOK, Worker
<1> HIDE DEF items, i, old
<1>6. copy.items = items
  BY <1>3 DEF Record
<1> HIDE DEF copy
<1>7. u.pc = "expect" /\ u.item = i /\ u.rec = copy /\ u.cmd = "resume" /\ u.got = {}
  BY <1>2, <1>3 DEF Worker, i
<1> HIDE DEF u
<1>8. \A j \in Items : Quietly(rec.items[j], items[j])
  <2> TAKE j \in Items
  <2>1. /\ Quietly(rec.items[j], old[j]) /\ old[j].app = rec.items[j].app
        /\ old[j].status # "validation_partial" => old[j] = rec.items[j]
    BY <1>3, AheadKept
  <2>2. CASE j = i
    BY <1>2, <1>4, <2>1, <2>2 DEF Quietly, ResumeTerminal
  <2>3. CASE j # i
    BY <1>4, <2>1, <2>3
  <2> QED
    BY <2>2, <2>3
<1>9. Knows(u, rec', revs', active')
  BY <1>1, <1>2, <1>4, <1>6, <1>7 DEF Knows, Holding, InLoop, Importing, Ahead, Success
<1>10. Course(u, rec', revs', active', plan', graph'.deps) /\ u.pc # "idle"
  BY <1>7, <1>9 DEF Course, Thorough
<1> QED
  BY <1>1, <1>5, <1>8, <1>10, TurnStep, QuietSave
-----------------------------------------------------------------------------
(* One command at a time, until an operator starts a second one *)

OneByOne == overlaps = 0 => Sequential

Step(w) ==
    Create(w) \/ LockedCommand(w) \/ Apply(w) \/ Resume(w) \/ NextWave(w) \/ ReadExpected(w)
        \/ SaveFailed(w) \/ Finish(w) \/ Crash(w) \/ CrashInService(w)

LEMMA StartTurn ==
    ASSUME IInv, Validated, PlanOfGraph, OneByOne, NEW w \in Operators, NEW cmd, Starts(w, cmd), overlaps' = 0
    PROVE  Turn(w) /\ wk[w] = Idle
<1>1. overlaps \in Nat
  BY BoundsAssumption DEF IInv, TypeOK
<1>2. overlaps = 0 /\ \A v \in Operators \ {w} : At(v, "idle")
  BY <1>1 DEF Starts
<1>3. Sequential /\ At(w, "idle")
  BY <1>2 DEF OneByOne, Starts
<1> QED
  BY <1>2, <1>3 DEF Turn, Sequential, Stopped

LEMMA BusyTurn ==
    ASSUME IInv, Validated, PlanOfGraph, OneByOne, NEW w \in Operators, ~At(w, "idle"), overlaps = 0
    PROVE  Turn(w)
<1>1. Sequential /\ Idle.pc = "idle"
  BY DEF OneByOne, Idle
<1>2. wk[w] # Idle
  BY <1>1 DEF At
<1> QED
  BY <1>1, <1>2 DEF Turn, Sequential, Alone

\* A step that is not the start of a command is of one that runs.
LEMMA RunningTurn ==
    ASSUME IInv, Validated, PlanOfGraph, OneByOne, NEW w \in Operators, overlaps' = 0,
           \/ LockedCommand(w) /\ ~\E cmd \in Locked : Begin(w, cmd)
           \/ Apply(w) /\ ~StartApply(w)
           \/ Resume(w) /\ ~StartResume(w)
           \/ NextWave(w) \/ ReadExpected(w) \/ SaveFailed(w) \/ Finish(w) \/ Crash(w) \/ CrashInService(w)
    PROVE  Turn(w)
<1> USE DEF At, bookVars
<1> SUFFICES wk[w].pc # "idle" /\ overlaps' = overlaps
  BY BusyTurn
<1>1. CASE LockedCommand(w) /\ ~\E cmd \in Locked : Begin(w, cmd)
  BY <1>1 DEF LockedCommand, TakeLock, Unlock, ReadRecord, ImportMember, ImportedAll, Reread,
              SaveImported, PlanFails, SavePlan, SavePlanned, SaveRetried, SaveCancelled, UndoItem,
              UndoBlocked, SaveRolledBack
<1>2. CASE Apply(w) /\ ~StartApply(w)
  BY <1>2 DEF Apply, StartWave, WaveRefused, SkipItem, BlockItem, ItemRefused, Runnable, ApplyItem, SaveApplied
<1>3. CASE Resume(w) /\ ~StartResume(w)
  BY <1>3 DEF Resume, StartGroup, GroupStale, HaltResume, AtResume, ResumeRefused, BlockResume, SkipResume,
              ResumeReady, ResumeItem, SaveResumed
<1>4. CASE NextWave(w) \/ ReadExpected(w) \/ SaveFailed(w) \/ Finish(w) \/ Crash(w) \/ CrashInService(w)
  BY <1>4 DEF NextWave, ReadExpected, SaveFailed, Finish, Crash, CrashInService, Runnable, ResumeReady, AtResume
<1> QED
  BY <1>1, <1>2, <1>3, <1>4

LEMMA TurnHolds ==
    ASSUME IInv, Validated, PlanOfGraph, OneByOne, NEW w \in Operators, Step(w), overlaps' = 0
    PROVE  Turn(w) /\ Sequential' /\ Orderly(w)
<1>1. CASE Create(w)
  <2>1. Turn(w) /\ wk[w] = Idle
    BY <1>1, StartTurn DEF Create
  <2> QED
    BY <1>1, <2>1, CreateTurn
<1>2. CASE LockedCommand(w)
  <2>1. CASE \E cmd \in Locked : Begin(w, cmd)
    <3>1. PICK cmd \in Locked : Begin(w, cmd)
      BY <2>1
    <3>2. Turn(w)
      BY <3>1, StartTurn DEF Begin
    <3> QED
      BY <3>1, <3>2, BeginTurn
  <2>2. CASE ~\E cmd \in Locked : Begin(w, cmd)
    <3>1. Turn(w)
      BY <1>2, <2>2, RunningTurn
    <3> QED
      BY <1>2, <2>2, <3>1, LockTurn, SaveTurn DEF LockedCommand
  <2> QED
    BY <2>1, <2>2
<1>3. CASE Apply(w)
  <2>1. CASE StartApply(w)
    <3>1. Turn(w)
      BY <2>1, StartTurn DEF StartApply
    <3> QED
      BY <2>1, <3>1, StartApplyTurn
  <2>2. CASE ~StartApply(w)
    <3>1. Turn(w)
      BY <1>3, <2>2, RunningTurn
    <3> QED
      BY <1>3, <2>2, <3>1, StartWaveTurn, StopTurn, SkipItemTurn, BlockItemTurn, ApplyItemTurn, SaveAppliedTurn
         DEF Apply
  <2> QED
    BY <2>1, <2>2
<1>4. CASE Resume(w)
  <2>1. CASE StartResume(w)
    <3>1. Turn(w)
      BY <2>1, StartTurn DEF StartResume
    <3> QED
      BY <2>1, <3>1, StartResumeTurn
  <2>2. CASE ~StartResume(w)
    <3>1. Turn(w)
      BY <1>4, <2>2, RunningTurn
    <3> QED
      BY <1>4, <2>2, <3>1, StartGroupTurn, HaltTurn, StopTurn, BlockResumeTurn, SkipResumeTurn, ResumeItemTurn,
         SaveResumedTurn DEF Resume
  <2> QED
    BY <2>1, <2>2
<1>5. CASE NextWave(w) \/ ReadExpected(w) \/ SaveFailed(w) \/ Finish(w) \/ Crash(w) \/ CrashInService(w)
  <2>1. Turn(w)
    BY <1>5, RunningTurn
  <2> QED
    BY <1>5, <2>1, NextWaveTurn, ReadExpectedTurn, SaveFailedTurn, FinishTurn, StopTurn
<1> QED
  BY <1>1, <1>2, <1>3, <1>4, <1>5 DEF Step

LEMMA Unmoved ==
    ASSUME OneByOne, UNCHANGED vars
    PROVE  OneByOne'
BY DEF OneByOne, Sequential, Alone, Stopped, At, vars, fileVars, serviceVars, bookVars

LEMMA OneByOneHolds ==
    IInv /\ Validated /\ PlanOfGraph /\ OneByOne /\ [Next]_vars => OneByOne'
<1> SUFFICES ASSUME IInv, Validated, PlanOfGraph, OneByOne, [Next]_vars, overlaps' = 0 PROVE Sequential'
  BY DEF OneByOne
<1>1. CASE Next
  BY <1>1, TurnHolds DEF Next, Step
<1>2. CASE UNCHANGED vars
  BY <1>2, Unmoved DEF OneByOne
<1> QED
  BY <1>1, <1>2

\* What the theorems about one command at a time rest on.
LEMMA InvariantInTurn == Spec => [](IInv /\ Validated /\ PlanOfGraph /\ OneByOne)
<1>1. Init => OneByOne
  <2> SUFFICES ASSUME Init PROVE Sequential
    BY DEF OneByOne
  <2>1. \A w \in Operators : wk[w] = Idle
    BY DEF Init
  <2>2. Alone /\ Stopped
    BY <2>1 DEF Alone, Stopped
  <2> QED
    BY <2>1, <2>2, IdleCourse DEF Sequential
<1> QED
  BY <1>1, Invariant, OneByOneHolds, PTL DEF Spec

\* While one command runs at a time, no item that is resumed, failed or cancelled is
\* reopened, by whatever command, and wherever commands have died before
\* (TERMINAL_ITEM_STATUSES, BATCH_TERMINAL_STATUSES).
THEOREM NothingReopened == Spec => TerminalItemsStay
<1>1. ASSUME IInv, Validated, PlanOfGraph, OneByOne, [Next]_vars
      PROVE  [overlaps' = 0 => \A i \in Items :
                rec.items[i].status \in ResumeTerminal => rec'.items[i].status = rec.items[i].status]_vars
  BY <1>1, TurnHolds DEF Next, Step, Orderly, TerminalKept
<1> QED
  BY <1>1, InvariantInTurn, PTL DEF Spec, TerminalItemsStay

\* While one command runs at a time, the save that records a failure also blocks whatever
\* depends on the item, through any number of dependencies, and nothing else is blocked
\* (_propagate_dependency_blocks).
THEOREM FailuresSpread == Spec => FailureSpreads
<1>1. ASSUME IInv, Validated, PlanOfGraph, OneByOne, [Next]_vars
      PROVE  [overlaps' = 0 =>
                /\ (\E f \in Items : NewlyFailed(f)) =>
                      \A i \in Items : (\E d \in graph.deps[i] : NewlyFailed(d) \/ NewlyBlocked(d)) =>
                          rec'.items[i].status \in Terminal \cup {"validation_partial"}
                /\ \A i \in Items : NewlyBlocked(i) =>
                      \E d \in graph.deps[i] : rec'.items[d].status \in Failure]_vars
  BY <1>1, TurnHolds DEF Next, Step, Orderly, Spread
<1> QED
  BY <1>1, InvariantInTurn, PTL DEF Spec, FailureSpreads

\* While one command runs at a time, an apply that gets to its end has left no item
\* unsettled but for one it depends on that did not succeed, or was planned to come after
\* it (the loops of _apply_batch over the waves of the plan).
THEOREM NothingPassedOver == Spec => []ApplyExhaustive
<1>1. IInv /\ OneByOne => ApplyExhaustive
  <2> SUFFICES ASSUME OneByOne, NEW w \in Operators, overlaps = 0, At(w, "finish"), wk[w].cmd = "apply",
                      NEW i \in Items, Status(w, i) \notin Terminal
               PROVE  \E d \in graph.deps[i] :
                          Status(w, d) \notin Success \/ Before(FlattenSeq(plan.waves), i, d)
    BY DEF ApplyExhaustive
  <2>1. Thorough(wk[w], plan.waves, graph.deps)
    BY DEF OneByOne, Sequential, Course
  <2>2. /\ wk[w].waves = <<>>
        /\ Gone(wk[w].waves, wk[w].rec.items, graph.deps, FlattenSeq(plan.waves))
    BY <2>1 DEF Thorough, At, InApply
  <2>3. Left(wk[w].waves) = {}
    BY <2>2 DEF Left
  <2> QED
    BY <2>2, <2>3 DEF Gone, Status, Excused
<1> QED
  BY <1>1, InvariantInTurn, PTL
-----------------------------------------------------------------------------
(* What a crash loses *)

\* Published items of which the record does not know that they were.
Lost == {i \in Items \ InFlight : revs[i].ver # rec.items[i].app}
Remembered == overlaps = 0 => Cardinality(Lost) <= crashes

LEMMA LostIs ==
    ASSUME NEW S \in SUBSET Items, NEW T \in SUBSET Items, NEW c \in Nat
    PROVE  /\ IsFiniteSet(S) /\ Cardinality(S) \in Nat
           /\ S \subseteq T /\ Cardinality(T) <= c => Cardinality(S) <= c
           /\ \A i \in Items : S \subseteq T \cup {i} /\ Cardinality(T) <= c => Cardinality(S) <= c + 1
<1>1. \A A \in SUBSET Items : IsFiniteSet(A) /\ Cardinality(A) \in Nat
  BY ItemsAre, FS_Subset, FS_CardinalityType
<1>2. S \subseteq T => Cardinality(S) <= Cardinality(T)
  BY <1>1, FS_Subset
<1>3. ASSUME NEW i \in Items, S \subseteq T \cup {i} PROVE Cardinality(S) <= Cardinality(T) + 1
  <2>1. Cardinality(T \cup {i}) \in {Cardinality(T), Cardinality(T) + 1}
    BY <1>1, FS_AddElement
  <2>2. IsFiniteSet(T \cup {i}) /\ Cardinality(S) <= Cardinality(T \cup {i})
    BY <1>1, <1>3, FS_Subset
  <2> QED
    BY <1>1, <2>1, <2>2
<1> QED
  BY <1>1, <1>2, <1>3

\* Where one command runs, only its item can be in flight.
LEMMA InFlightIs ==
    ASSUME NEW w \in Operators, Turn(w)
    PROVE  InFlight = IF At(w, "done_item") THEN {wk[w].item} ELSE {}
<1>1. Idle.pc = "idle"
  BY DEF Idle
<1>2. \A v \in Operators : At(v, "done_item") => v = w
  BY <1>1 DEF Turn, At
<1> QED
  BY <1>2 DEF InFlight

LEMMA InFlightNext ==
    ASSUME NEW w \in Operators, Turn(w), NEW u, wk' = [wk EXCEPT ![w] = u], u.pc = "done_item"
    PROVE  InFlight' = {u.item}
<1>1. Idle.pc = "idle"
  BY DEF Idle
<1>2. wk'[w] = u /\ \A v \in Operators \ {w} : wk'[v] = Idle
  BY DEF Turn, IInv, TypeOK
<1>3. \A v \in Operators : wk'[v].pc = "done_item" <=> v = w
  BY <1>1, <1>2
<1> QED
  BY <1>2, <1>3 DEF InFlight, At

\* What a step changes besides the record.
LEMMA StepsTo ==
    ASSUME NEW w \in Operators, Turn(w), Step(w)
    PROVE  /\ \A v \in Operators \ {w} : wk'[v] = wk[v]
           /\ wk'[w].pc = "undo" => ReadRecord(w) \/ UndoItem(w) \/ UndoBlocked(w)
           /\ wk'[w].pc = "done_item" => ApplyItem(w)
           /\ revs' = revs \/ ApplyItem(w) \/ CrashInService(w)
           /\ (wk[w].pc # "done_item" /\ crashes' = crashes) \/ SaveApplied(w) \/ Crash(w) \/ CrashInService(w)
<1> USE DEF At, serviceVars
<1>1. wk \in [Operators -> Worker] /\ wk[w] \in Worker /\ Idle.pc = "idle"
  BY DEF Turn, IInv, TypeOK, Idle
<1>2. CASE SaveApplied(w)
  BY <1>1, <1>2 DEF SaveApplied, Worker
<1>19. CASE ApplyItem(w)
  <2> DEFINE c == Current(w)
             done == [Called(w, "done_item") EXCEPT !.rec.items[c].app = revs[c].ver + 1]
  <2>1. /\ wk' = [wk EXCEPT ![w] = done] \/ wk' = [wk EXCEPT ![w] = Called(w, "failed_item")]
        /\ wk[w].pc = "item" /\ crashes' = crashes
    BY <1>19 DEF ApplyItem, Runnable
  <2>2. done.pc = "done_item" /\ Called(w, "failed_item").pc = "failed_item"
    BY <1>1 DEF Called, Worker
  <2> HIDE DEF done
  <2> QED
    BY <1>1, <1>19, <2>1, <2>2
<1>20. CASE Crash(w) \/ CrashInService(w)
  BY <1>1, <1>20 DEF Crash, CrashInService, Stop
<1>3. CASE Create(w)
  BY <1>1, <1>3 DEF Create, Starts
<1>15. CASE \E cmd \in Locked : Begin(w, cmd)
  <2>1. PICK cmd \in Locked : Begin(w, cmd)
    BY <1>15
  <2>2. PICK members :
            wk' = [wk EXCEPT ![w] = [Idle EXCEPT !.pc = "lock", !.cmd = cmd,
                       !.rec = IF cmd = "import" THEN rec ELSE NoRecord, !.todo = members]]
    BY <2>1 DEF Begin
  <2>3. revs' = revs /\ crashes' = crashes /\ wk[w].pc = "idle"
    BY <2>1 DEF Begin, Starts
  <2>4. wk'[w].pc = "lock"
    BY <1>1, <2>2 DEF Idle
  <2> QED
    BY <1>1, <2>2, <2>3, <2>4
<1>4. CASE TakeLock(w) \/ Unlock(w) \/ ImportedAll(w) \/ Reread(w)
  BY <1>1, <1>4 DEF TakeLock, Unlock, ImportedAll, Reread, Goto, Stop, Worker
<1>16. CASE ImportMember(w)
  BY <1>1, <1>16 DEF ImportMember, Worker
<1>5. CASE ReadRecord(w)
  <2> DEFINE next == CASE wk[w].cmd = "plan" -> "save_plan"
                        [] wk[w].cmd = "retry" -> "retried"
                        [] wk[w].cmd = "cancel" -> "cancelled"
                        [] OTHER -> "undo"
             recorded == {i \in Items : rec.items[i].status \in Success \/ rec.items[i].app > 0}
  <2>1. /\ revs' = revs /\ crashes' = crashes /\ wk[w].pc = "read"
        /\ wk' = [wk EXCEPT ![w].pc = next, ![w].rec = rec, ![w].todo = recorded]
    BY <1>5 DEF ReadRecord
  <2>2. next # "done_item"
    OBVIOUS
  <2> HIDE DEF next, recorded
  <2> QED
    BY <1>1, <1>5, <2>1, <2>2 DEF Worker
<1>6. CASE SaveImported(w) \/ PlanFails(w) \/ SavePlan(w) \/ SavePlanned(w) \/ SaveRetried(w) \/ SaveCancelled(w)
  BY <1>1, <1>6 DEF SaveImported, PlanFails, SavePlan, SavePlanned, SaveRetried, SaveCancelled, Goto, Stop, Worker
<1>7. CASE UndoItem(w)
  <2>1. PICK i \in Highest(wk[w].todo) : ServiceUndoes(i) /\ wk' = [wk EXCEPT ![w].todo = @ \ {i}]
    BY <1>7 DEF UndoItem
  <2>2. wk[w].pc = "undo" /\ crashes' = crashes /\ revs' = revs
    BY <1>7, <2>1 DEF UndoItem, ServiceUndoes
  <2>3. wk'[w].pc = "undo" /\ \A v \in Operators \ {w} : wk'[v] = wk[v]
    BY <1>1, <2>1, <2>2 DEF Worker
  <2> QED
    BY <1>7, <2>2, <2>3
<1>21. CASE UndoBlocked(w)
  <2>1. wk' = [wk EXCEPT ![w].todo = {}, ![w].flag = TRUE]
    BY <1>21 DEF UndoBlocked
  <2>2. wk[w].pc = "undo" /\ crashes' = crashes /\ revs' = revs
    BY <1>21 DEF UndoBlocked
  <2>3. wk'[w].pc = "undo" /\ \A v \in Operators \ {w} : wk'[v] = wk[v]
    BY <1>1, <2>1, <2>2 DEF Worker
  <2> QED
    BY <1>21, <2>2, <2>3
<1>22. CASE SaveRolledBack(w)
  BY <1>1, <1>22 DEF SaveRolledBack, Goto, Worker
<1>8. CASE NextWave(w) \/ ReadExpected(w) \/ Finish(w)
  BY <1>1, <1>8 DEF NextWave, ReadExpected, Finish, Stop, Worker
<1>9. CASE SaveFailed(w)
  <2> DEFINE label == IF wk[w].cmd = "apply" THEN "item" ELSE "resume_item"
  <2>1. PICK items : wk' = [wk EXCEPT ![w].pc = label, ![w].rec.items = items, ![w].waves = AfterItem(w)]
    BY <1>9 DEF SaveFailed
  <2>2. label # "done_item" /\ label # "undo"
    OBVIOUS
  <2>3. revs' = revs /\ crashes' = crashes /\ wk[w].pc = "failed_item"
    BY <1>9 DEF SaveFailed
  <2> HIDE DEF label
  <2> QED
    BY <1>1, <2>1, <2>2, <2>3 DEF Worker
<1>10. CASE StartWave(w) \/ WaveRefused(w) \/ SkipItem(w) \/ BlockItem(w) \/ ItemRefused(w)
  BY <1>1, <1>10 DEF StartWave, WaveRefused, SkipItem, BlockItem, ItemRefused, Runnable, Stop, Worker
<1>11. CASE StartApply(w) \/ StartResume(w)
  <2>1. \/ wk' = [wk EXCEPT ![w] = [Idle EXCEPT !.pc = "wave", !.cmd = "apply", !.rec = rec,
                                        !.waves = plan.waves, !.exp = active]]
        \/ wk' = [wk EXCEPT ![w] = [Idle EXCEPT !.pc = "group", !.cmd = "resume", !.rec = rec,
                                        !.waves = Waves(graph.deps, graph.conflicts), !.exp = active]]
    BY <1>11 DEF StartApply, StartResume
  <2>2. revs' = revs /\ crashes' = crashes /\ wk[w].pc = "idle"
    BY <1>11 DEF StartApply, StartResume, Starts
  <2>3. wk'[w].pc \in {"wave", "group"}
    BY <1>1, <2>1 DEF Idle
  <2> QED
    BY <1>1, <2>1, <2>2, <2>3
<1>17. CASE StartGroup(w) \/ HaltResume(w)
  BY <1>1, <1>17 DEF StartGroup, HaltResume, AtResume, Worker
<1>18. CASE GroupStale(w)
  BY <1>1, <1>18 DEF GroupStale, Worker
<1>12. CASE ResumeRefused(w) \/ BlockResume(w) \/ SkipResume(w)
  BY <1>1, <1>12 DEF ResumeRefused, BlockResume, SkipResume, AtResume, Stop, Worker
<1>13. CASE ResumeItem(w)
  BY <1>1, <1>13 DEF ResumeItem, ResumeReady, AtResume, ServiceResumes, ServiceFailsResume, ServiceBreaksResume,
                     ServiceRefusesResume, Called, Worker
<1>14. CASE SaveResumed(w)
  BY <1>1, <1>14 DEF SaveResumed, Worker
<1> QED
  BY <1>2, <1>3, <1>4, <1>5, <1>6, <1>7, <1>8, <1>9, <1>10, <1>11, <1>12, <1>13, <1>14,
     <1>15, <1>16, <1>17, <1>18, <1>19, <1>20, <1>21, <1>22 DEF Step, LockedCommand, Apply, Resume

\* Everywhere but around the service's work for apply, and the end of a process.
Elsewhere(w) ==
    /\ revs' = revs /\ crashes' = crashes
    /\ ~At(w, "done_item") /\ \A v \in Operators : wk'[v].pc # "done_item"

LEMMA ElsewhereIs ==
    ASSUME NEW w \in Operators, Turn(w), Step(w)
    PROVE  Elsewhere(w) \/ ApplyItem(w) \/ SaveApplied(w) \/ Crash(w) \/ CrashInService(w)
<1>1. Idle.pc = "idle"
  BY DEF Idle
<1> QED
  BY <1>1, StepsTo DEF Elsewhere, Turn, At

\* Commands that overlapped are counted for ever.
LEMMA StillAlone ==
    ASSUME IInv, Validated, PlanOfGraph, NEW w \in Operators, Step(w), overlaps' = 0
    PROVE  overlaps = 0
<1>1. overlaps \in Nat
  BY BoundsAssumption DEF IInv, TypeOK
<1>2. ASSUME NEW cmd, Starts(w, cmd) PROVE overlaps = 0
  BY <1>1, <1>2 DEF Starts
<1> USE DEF bookVars
<1>3. CASE Create(w) \/ StartApply(w) \/ StartResume(w) \/ \E cmd \in Locked : Begin(w, cmd)
  BY <1>2, <1>3 DEF Create, StartApply, StartResume, Begin
<1>4. CASE LockedCommand(w) /\ ~\E cmd \in Locked : Begin(w, cmd)
  BY <1>4 DEF LockedCommand, TakeLock, Unlock, ReadRecord, ImportMember, ImportedAll, Reread,
              SaveImported, PlanFails, SavePlan, SavePlanned, SaveRetried, SaveCancelled, UndoItem,
              UndoBlocked, SaveRolledBack
<1>5. CASE Apply(w) /\ ~StartApply(w)
  BY <1>5 DEF Apply, StartWave, WaveRefused, SkipItem, BlockItem, ItemRefused, ApplyItem, SaveApplied
<1>6. CASE Resume(w) /\ ~StartResume(w)
  BY <1>6 DEF Resume, StartGroup, GroupStale, HaltResume, ResumeRefused, BlockResume, SkipResume,
              ResumeItem, SaveResumed
<1>7. CASE NextWave(w) \/ ReadExpected(w) \/ SaveFailed(w) \/ Finish(w) \/ Crash(w) \/ CrashInService(w)
  BY <1>7 DEF NextWave, ReadExpected, SaveFailed, Finish, Crash, CrashInService
<1> QED
  BY <1>3, <1>4, <1>5, <1>6, <1>7 DEF Step

LEMMA RememberedHolds ==
    ASSUME IInv, Validated, PlanOfGraph, OneByOne, Remembered, NEW w \in Operators, Step(w), overlaps' = 0
    PROVE  Cardinality(Lost') <= crashes'
<1> USE DEF At
<1>1. Turn(w) /\ Orderly(w)
  BY TurnHolds
<1>2. /\ wk \in [Operators -> Worker] /\ wk[w] \in Worker /\ revs \in Revs /\ rec.items \in [Items -> Item]
      /\ wk[w].item \in Items
  BY <1>1, TurnHas DEF IInv, TypeOK
<1>3. overlaps = 0
  BY StillAlone
<1>4. Cardinality(Lost) <= crashes /\ crashes \in Nat
  BY <1>3, BoundsAssumption DEF Remembered, IInv, TypeOK
<1>5. Lost \in SUBSET Items /\ Lost' \in SUBSET Items
  BY DEF Lost
<1>6. InFlight = IF wk[w].pc = "done_item" THEN {wk[w].item} ELSE {}
  BY <1>1, InFlightIs
\* It is enough that at most the item of a process that dies is lost.
<1>7. SUFFICES \/ Lost' \subseteq Lost /\ crashes' = crashes
               \/ crashes' = crashes + 1 /\ \E i \in Items : Lost' \subseteq Lost \cup {i}
  BY <1>4, <1>5, <1>7, LostIs
<1>8. ASSUME NEW i \in Items, i \notin InFlight, revs'[i].ver = revs[i].ver, rec'.items[i].app = rec.items[i].app,
             i \in Lost'
      PROVE  i \in Lost
  BY <1>8 DEF Lost
<1>9. CASE Elsewhere(w)
  <2>1. \A i \in Items : rec'.items[i].app = rec.items[i].app /\ revs'[i].ver = revs[i].ver /\ i \notin InFlight
    BY <1>1, <1>6, <1>9 DEF Elsewhere, Orderly, AppsKept
  <2> QED
    BY <1>5, <1>8, <1>9, <2>1 DEF Elsewhere
<1>10. CASE ApplyItem(w)
  <2> DEFINE c == Current(w)
  <2>1. /\ wk[w].pc = "item" /\ rec' = rec /\ crashes' = crashes
        /\ \/ ServiceApplies(c) /\ wk' = [wk EXCEPT ![w] = [Called(w, "done_item") EXCEPT !.rec.items[c].app = revs[c].ver + 1]]
           \/ ServiceRefuses(c)
    BY <1>10 DEF ApplyItem, Runnable, fileVars
  <2>2. \A i \in Items : i \notin InFlight /\ rec'.items[i].app = rec.items[i].app
    BY <1>6, <2>1
  <2>3. CASE ServiceRefuses(c)
    BY <1>5, <1>8, <2>1, <2>2, <2>3 DEF ServiceRefuses
  <2>4. CASE /\ ServiceApplies(c)
             /\ wk' = [wk EXCEPT ![w] = [Called(w, "done_item") EXCEPT !.rec.items[c].app = revs[c].ver + 1]]
    <3> HIDE DEF c
    <3> DEFINE u == [Called(w, "done_item") EXCEPT !.rec.items[c].app = revs[c].ver + 1]
    <3>1. u.pc = "done_item" /\ u.item = c /\ wk' = [wk EXCEPT ![w] = u]
      BY <1>2, <2>4 DEF Called, Worker, c
    <3> HIDE DEF u
    <3>2. InFlight' = {c}
      BY <1>1, <3>1, InFlightNext
    <3>3. \A i \in Items : i # c => revs'[i] = revs[i]
      BY <1>2, <2>4 DEF ServiceApplies, Published, Revs
    <3>4. c \notin Lost'
      BY <3>2 DEF Lost
    <3> QED
      BY <1>5, <1>8, <2>1, <2>2, <3>3, <3>4
  <2> QED
    BY <2>1, <2>3, <2>4
<1>11. CASE SaveApplied(w)
  <2> DEFINE i == wk[w].item
             items == Marked(w, {i}, "applied", "none")
  <2>1. /\ wk[w].pc = "done_item" /\ revs' = revs /\ crashes' = crashes /\ rec'.items = items
    BY <1>1, <1>11, PersistItems DEF SaveApplied, serviceVars
  <2>2. wk[w].rec.items = [rec.items EXCEPT ![i].app = revs[i].ver]
    BY <1>1, <2>1, TurnHas DEF Knows
  <2>3. items[i].app = revs[i].ver
    <3>1. wk[w].rec.items[i].app = revs[i].ver /\ wk[w].rec.items[i] \in Item
      BY <1>1, <1>2, <2>2, TurnHas DEF Item
    <3>2. items[i] = [wk[w].rec.items[i] EXCEPT !.status = "applied", !.why = "none"]
      BY <1>2 DEF Marked
    <3> QED
      BY <3>1, <3>2 DEF Item
  <2> HIDE DEF items
  <2>4. \A j \in Items : j # i => j \notin InFlight /\ rec'.items[j].app = rec.items[j].app
    BY <1>1, <1>6, <2>1 DEF Orderly, AppsKept
  <2>5. i \notin Lost'
    BY <2>1, <2>3 DEF Lost
  <2> QED
    BY <1>5, <1>8, <2>1, <2>4, <2>5
<1>12. CASE Crash(w)
  <2>1. rec' = rec /\ revs' = revs /\ crashes' = crashes + 1
    BY <1>12 DEF Crash, fileVars, serviceVars
  <2>2. \A j \in Items : j # wk[w].item => j \notin InFlight
    BY <1>6
  <2> QED
    BY <1>2, <1>5, <1>7, <1>8, <2>1, <2>2
<1>13. CASE CrashInService(w)
  <2>1. rec' = rec /\ crashes' = crashes + 1 /\ wk[w].pc # "done_item"
    BY <1>13 DEF CrashInService, fileVars, Runnable, ResumeReady, AtResume
  <2>2. \E c \in Items : \A j \in Items : j # c => revs'[j] = revs[j]
    <3>1. CASE revs' = revs
      BY <1>2, <3>1
    <3>2. CASE Runnable(w) /\ revs' = Published(Current(w))
      <4>1. \A j \in Items : j # Current(w) => revs'[j] = revs[j]
        BY <1>2, <3>2 DEF Published, Revs
      <4> QED
        BY <1>2, <4>1
    <3>3. revs' = revs \/ (Runnable(w) /\ revs' = Published(Current(w)))
      BY <1>13 DEF CrashInService, ServiceDies, ServiceBreaksResume, ServiceDiesUndoing
    <3> QED
      BY <3>1, <3>2, <3>3
  <2>3. PICK c \in Items : \A j \in Items : j # c => revs'[j] = revs[j]
    BY <2>2
  <2> QED
    BY <1>5, <1>6, <1>7, <1>8, <2>1, <2>3
<1> QED
  BY <1>1, <1>9, <1>10, <1>11, <1>12, <1>13, ElsewhereIs

\* While one command runs at a time, the record knows of every published item but the one
\* at hand, and one for each process that died (_persist_batch after each item).
THEOREM LittleForgotten == Spec => []NothingForgotten
<1>1. Init => Remembered
  <2> SUFFICES ASSUME Init PROVE Lost = {}
    BY FS_EmptySet DEF Remembered, Init
  <2>1. \A i \in Items : revs[i].ver = 0 /\ rec.items[i].app = 0
    BY DEF Init, NoRecord, NewItem
  <2> QED
    BY <2>1 DEF Lost
<1>2. ASSUME IInv, Validated, PlanOfGraph, OneByOne, Remembered, [Next]_vars PROVE Remembered'
  <2>1. CASE Next
    BY <1>2, <2>1, RememberedHolds DEF Next, Step, Remembered
  <2>2. CASE UNCHANGED vars
    BY <1>2, <2>2 DEF Remembered, Lost, InFlight, At, vars, fileVars, serviceVars, bookVars
  <2> QED
    BY <1>2, <2>1, <2>2
<1>3. Remembered => NothingForgotten
  BY DEF Remembered, Lost, NothingForgotten
<1> QED
  BY <1>1, <1>2, <1>3, InvariantInTurn, PTL DEF Spec
-----------------------------------------------------------------------------
(* What a rollback restores *)

\* No pointer, of the runtime or of a revision to its parent, names a version that is
\* yet to be written.
Written(ptr, files) == ptr.ver <= IF ptr.rev = Root THEN 1 ELSE files[ptr.rev].ver
Parent(i, files) == [rev |-> files[i].parent, ver |-> files[i].pver]

NeverAhead == Written(active, revs) /\ \A i \in Items : Written(Parent(i, revs), revs)

\* The parent a revision was made on is older, unless it was written again since.
Older(rank, files) ==
    \A i \in Items : Live(Parent(i, files), files) => rank[files[i].parent] < rank[i]

Recorded(r) == {i \in Items : r.items[i].status \in Success \/ r.items[i].app > 0}

\* A rollback has come down to the active revision: the items it is done with are younger.
Undone(u, r, st, ptr, rank) ==
    u.pc = "undo" /\ ~u.flag => \A i \in Recorded(r) \ u.todo : st[i] = "rolled_back" /\ rank[ptr.rev] < rank[i]

Ranked ==
    /\ NeverAhead
    /\ \E b \in Nat : \E rank \in [Items \cup {Root} -> 0..b] :
           /\ Older(rank, revs)
           /\ overlaps = 0 => \A w \in Operators : Undone(wk[w], rec, apps, active, rank)

\* A step publishes an item, goes back to the parent of one, or leaves the runtime alone.
Publishes(i) ==
    /\ Readable /\ revs' = Published(i)
    /\ active' = active \/ active' = [rev |-> i, ver |-> revs[i].ver + 1]
GoesBack(i) ==
    /\ Undoable(i) /\ revs' = revs
    /\ active' = Parent(i, revs)

LEMMA RuntimeMoves ==
    ASSUME IInv, NEW w \in Operators, Step(w)
    PROVE  \/ revs' = revs /\ active' = active
           \/ \E i \in Items : Publishes(i)
           \/ \E i \in Items : GoesBack(i)
<1> USE DEF serviceVars
<1>1. wk[w] \in Worker
  BY Held
<1>2. CASE Create(w) \/ \E cmd \in Locked : Begin(w, cmd)
  BY <1>2 DEF Create, Begin
<1>3. CASE LockedCommand(w) /\ ~UndoItem(w) /\ ~\E cmd \in Locked : Begin(w, cmd)
  BY <1>3 DEF LockedCommand, TakeLock, Unlock, ReadRecord, ImportMember, ImportedAll, Reread,
              SaveImported, PlanFails, SavePlan, SavePlanned, SaveRetried, SaveCancelled,
              UndoBlocked, SaveRolledBack
<1>4. CASE UndoItem(w)
  <2>1. PICK i \in Highest(wk[w].todo) : ServiceUndoes(i)
    BY <1>4 DEF UndoItem
  <2>2. i \in Items
    BY <1>1, <2>1 DEF Highest, Worker
  <2> QED
    BY <2>1, <2>2 DEF ServiceUndoes, GoesBack, Parent
<1>5. CASE Apply(w) /\ ~ApplyItem(w)
  BY <1>5 DEF Apply, StartApply, StartWave, WaveRefused, SkipItem, BlockItem, ItemRefused, SaveApplied
<1>6. CASE ApplyItem(w)
  <2>1. Current(w) \in Items
    BY <1>6, RunnableReady DEF ApplyItem
  <2>2. ServiceApplies(Current(w)) \/ ServiceRefuses(Current(w))
    BY <1>6 DEF ApplyItem
  <2> QED
    BY <2>1, <2>2 DEF ServiceApplies, ServiceRefuses, Publishes
<1>7. CASE Resume(w)
  BY <1>7 DEF Resume, StartResume, StartGroup, GroupStale, HaltResume, ResumeRefused, BlockResume, SkipResume,
              ResumeItem, ServiceResumes, ServiceFailsResume, ServiceBreaksResume, ServiceRefusesResume, SaveResumed
<1>8. CASE NextWave(w) \/ ReadExpected(w) \/ SaveFailed(w) \/ Finish(w) \/ Crash(w)
  BY <1>8 DEF NextWave, ReadExpected, SaveFailed, Finish, Crash
<1>9. CASE CrashInService(w)
  <2>1. CASE Runnable(w) /\ ServiceDies(Current(w))
    <3>1. Current(w) \in Items
      BY <2>1, RunnableReady
    <3> QED
      BY <2>1, <3>1 DEF ServiceDies, Publishes
  <2>2. CASE ServiceBreaksResume(Current(w))
    BY <2>2 DEF ServiceBreaksResume
  <2>3. CASE \E i \in Highest(wk[w].todo) : ServiceDiesUndoing(i)
    <3>1. PICK i \in Highest(wk[w].todo) : ServiceDiesUndoing(i)
      BY <2>3
    <3>2. i \in Items
      BY <1>1, <3>1 DEF Highest, Worker
    <3> QED
      BY <3>1, <3>2 DEF ServiceDiesUndoing, GoesBack, Parent
  <2> QED
    BY <1>9, <2>1, <2>2, <2>3 DEF CrashInService
<1> QED
  BY <1>2, <1>3, <1>4, <1>5, <1>6, <1>7, <1>8, <1>9 DEF Step, LockedCommand

LEMMA PublishedIs ==
    ASSUME IInv, NEW i \in Items, Readable, revs' = Published(i)
    PROVE  /\ \A j \in Items \ {i} : revs'[j] = revs[j]
           /\ Parent(i, revs') = active /\ revs'[i].ver = revs[i].ver + 1
           /\ \A ptr \in Pointers : Written(ptr, revs) => Written(ptr, revs')
           /\ \A ptr \in Pointers : Written(ptr, revs) /\ Live(ptr, revs') => Live(ptr, revs) /\ ptr.rev # i
<1>1. revs \in Revs /\ active \in Pointers /\ Root \notin Items
  BY ItemsType DEF IInv, TypeOK, Revs
<1>2. /\ \A j \in Items \ {i} : revs'[j] = revs[j]
      /\ revs'[i].parent = active.rev /\ revs'[i].pver = active.ver /\ revs'[i].ver = revs[i].ver + 1
  BY <1>1 DEF Published, Revs, Pointers
<1>3. \A j \in Items : revs[j].ver \in Nat /\ revs'[j].ver \in Nat /\ revs[j].ver <= revs'[j].ver
  BY <1>1, <1>2 DEF Revs
<1>4. Parent(i, revs') = active
  BY <1>1, <1>2 DEF Parent, Pointers
<1>5. ASSUME NEW ptr \in Pointers, Written(ptr, revs)
      PROVE  Written(ptr, revs') /\ (Live(ptr, revs') => Live(ptr, revs) /\ ptr.rev # i)
  <2>1. ptr.rev \in Items \cup {Root} /\ ptr.ver \in Nat
    BY DEF Pointers
  <2>2. CASE ptr.rev = Root
    BY <1>1, <1>5, <2>2 DEF Written, Live
  <2>3. CASE ptr.rev \in Items
    <3>1. ptr.ver <= revs[ptr.rev].ver
      BY <1>1, <1>5, <2>3 DEF Written
    <3>2. ptr.ver <= revs'[ptr.rev].ver
      BY <1>3, <2>1, <2>3, <3>1
    <3>3. ptr.rev = i => ptr.ver # revs'[ptr.rev].ver
      BY <1>2, <1>3, <2>1, <3>1
    <3>4. ptr.rev # i => revs'[ptr.rev] = revs[ptr.rev]
      BY <1>2, <2>3
    <3> QED
      BY <1>1, <2>3, <3>2, <3>3, <3>4 DEF Written, Live
  <2> QED
    BY <2>1, <2>2, <2>3
<1> QED
  BY <1>2, <1>4, <1>5

LEMMA NeverAheadHolds ==
    ASSUME IInv, NeverAhead, NEW w \in Operators, Step(w)
    PROVE  NeverAhead'
<1>1. /\ revs \in Revs /\ active \in Pointers /\ Root \notin Items
      /\ \A i \in Items : Parent(i, revs) \in Pointers
  BY ItemsType DEF IInv, TypeOK, Revs, Parent, Pointers
<1>2. CASE revs' = revs /\ active' = active
  BY <1>2 DEF NeverAhead
<1>3. ASSUME NEW i \in Items, GoesBack(i) PROVE NeverAhead'
  BY <1>3 DEF NeverAhead, GoesBack
<1>4. ASSUME NEW i \in Items, Publishes(i) PROVE NeverAhead'
  <2>1. /\ \A j \in Items \ {i} : revs'[j] = revs[j]
        /\ Parent(i, revs') = active /\ revs'[i].ver = revs[i].ver + 1
        /\ \A ptr \in Pointers : Written(ptr, revs) => Written(ptr, revs')
    BY <1>4, PublishedIs DEF Publishes
  <2>2. Written(active, revs')
    BY <1>1, <2>1 DEF NeverAhead
  <2>3. Written(active', revs')
    <3>1. CASE active' = [rev |-> i, ver |-> revs[i].ver + 1]
      BY <1>1, <2>1, <3>1 DEF Written, Revs
    <3> QED
      BY <1>4, <2>2, <3>1 DEF Publishes
  <2>4. ASSUME NEW j \in Items PROVE Written(Parent(j, revs'), revs')
    <3>1. CASE j # i
      <4>1. Parent(j, revs') = Parent(j, revs)
        BY <2>1, <3>1 DEF Parent
      <4> QED
        BY <1>1, <2>1, <4>1 DEF NeverAhead
    <3> QED
      BY <2>1, <2>2, <3>1
  <2> QED
    BY <2>3, <2>4 DEF NeverAhead
<1> QED
  BY <1>2, <1>3, <1>4, RuntimeMoves

LEMMA StepOfRanks ==
    ASSUME IInv, NeverAhead, NEW b \in Nat, NEW rank \in [Items \cup {Root} -> 0..b], Older(rank, revs),
           NEW w \in Operators, Step(w)
    PROVE  \/ revs' = revs
           \/ /\ \E i \in Items : revs'[i].ver # revs[i].ver
              /\ \E r \in [Items \cup {Root} -> 0..(b + 1)] : Older(r, revs')
<1>1. CASE revs' = revs
  BY <1>1
<1>2. ASSUME NEW i \in Items, GoesBack(i) PROVE revs' = revs
  BY <1>2 DEF GoesBack
<1>3. ASSUME NEW i \in Items, Publishes(i)
      PROVE  /\ revs'[i].ver # revs[i].ver
             /\ \E r \in [Items \cup {Root} -> 0..(b + 1)] : Older(r, revs')
  <2>1. /\ revs \in Revs /\ active \in Pointers /\ Root \notin Items
        /\ \A j \in Items : Parent(j, revs) \in Pointers
    BY ItemsType DEF IInv, TypeOK, Revs, Parent, Pointers
  <2>2. /\ \A j \in Items \ {i} : revs'[j] = revs[j]
        /\ Parent(i, revs') = active /\ revs'[i].ver = revs[i].ver + 1
        /\ \A ptr \in Pointers : Written(ptr, revs) /\ Live(ptr, revs') => Live(ptr, revs) /\ ptr.rev # i
    BY <1>3, PublishedIs DEF Publishes
  <2> DEFINE r == [x \in Items \cup {Root} |-> IF x = i THEN b + 1 ELSE rank[x]]
  <2>3. r \in [Items \cup {Root} -> 0..(b + 1)]
    OBVIOUS
  <2>4. \A x \in Items \cup {Root} : rank[x] \in Nat /\ rank[x] <= b /\ r[x] = IF x = i THEN b + 1 ELSE rank[x]
    OBVIOUS
  <2> HIDE DEF r
  <2>5. ASSUME NEW j \in Items, Live(Parent(j, revs'), revs') PROVE r[revs'[j].parent] < r[j]
    <3>1. CASE j = i
      <4>1. revs'[j].parent = active.rev /\ active.rev \in Items \cup {Root} /\ active.rev # i
        <5>1. Parent(j, revs').rev = revs'[j].parent
          BY DEF Parent
        <5> QED
          BY <2>1, <2>2, <2>5, <3>1, <5>1 DEF NeverAhead, Pointers
      <4> QED
        BY <2>4, <3>1, <4>1
    <3>2. CASE j # i
      <4>1. revs'[j] = revs[j] /\ Parent(j, revs') = Parent(j, revs) /\ Parent(j, revs).rev = revs[j].parent
        BY <2>2, <3>2 DEF Parent
      <4>2. Live(Parent(j, revs), revs) /\ revs[j].parent # i /\ revs[j].parent \in Items \cup {Root}
        BY <2>1, <2>2, <2>5, <4>1 DEF NeverAhead, Pointers
      <4>3. rank[revs[j].parent] < rank[j]
        BY <4>2 DEF Older
      <4> QED
        BY <2>4, <3>2, <4>1, <4>2, <4>3
    <3> QED
      BY <3>1, <3>2
  <2>6. Older(r, revs')
    BY <2>5 DEF Older
  <2> QED
    BY <2>1, <2>2, <2>3, <2>6 DEF Revs
<1> QED
  BY <1>1, <1>2, <1>3, RuntimeMoves

\* A rollback stays on its way down.
LEMMA StillUndone ==
    ASSUME NEW w \in Operators, Turn(w), Step(w), revs' = revs,
           NEW b \in Nat, NEW rank \in [Items \cup {Root} -> 0..b], Older(rank, revs),
           Undone(wk[w], rec, apps, active, rank), NEW v \in Operators
    PROVE  Undone(wk'[v], rec', apps', active', rank)
<1> USE DEF At
<1>1. /\ wk \in [Operators -> Worker] /\ wk[w] \in Worker /\ apps \in [Items -> AppStatuses]
      /\ revs \in Revs /\ active \in Pointers /\ Idle.pc = "idle" /\ wk[w].flag \in BOOLEAN
  BY TurnHas DEF Turn, IInv, TypeOK, Idle, Worker
<1>2. SUFFICES ASSUME wk'[v].pc = "undo", ~wk'[v].flag, NEW j \in Recorded(rec') \ wk'[v].todo
               PROVE  apps'[j] = "rolled_back" /\ rank[active'.rev] < rank[j]
  BY DEF Undone
<1>3. v = w /\ (ReadRecord(w) \/ UndoItem(w) \/ UndoBlocked(w))
  BY <1>1, <1>2, StepsTo DEF Turn
<1>4. CASE ReadRecord(w)
  <2> DEFINE next == CASE wk[w].cmd = "plan" -> "save_plan"
                        [] wk[w].cmd = "retry" -> "retried"
                        [] wk[w].cmd = "cancel" -> "cancelled"
                        [] OTHER -> "undo"
  <2>1. rec' = rec /\ wk' = [wk EXCEPT ![w].pc = next, ![w].rec = rec, ![w].todo = Recorded(rec)]
    BY <1>4 DEF ReadRecord, fileVars, Recorded
  <2> HIDE DEF next
  <2>2. wk'[w].todo = Recorded(rec')
    BY <1>1, <2>1 DEF Worker
  <2> QED
    BY <1>2, <1>3, <2>2
<1>5. CASE UndoBlocked(w)
  <2>1. wk' = [wk EXCEPT ![w].todo = {}, ![w].flag = TRUE]
    BY <1>5 DEF UndoBlocked
  <2>2. wk'[w].flag = TRUE
    BY <1>1, <2>1 DEF Worker
  <2> QED
    BY <1>2, <1>3, <2>2
<1>6. CASE UndoItem(w)
  <2>1. PICK i \in Highest(wk[w].todo) : ServiceUndoes(i) /\ wk' = [wk EXCEPT ![w].todo = @ \ {i}]
    BY <1>6 DEF UndoItem
  <2>2. i \in Items /\ wk[w].todo \subseteq Items
    BY <1>1, <2>1 DEF Highest, Worker
  <2>3. wk[w].pc = "undo" /\ rec' = rec
    BY <1>6 DEF UndoItem, fileVars
  <2>4. wk'[w].todo = wk[w].todo \ {i} /\ wk'[w].flag = wk[w].flag
    BY <1>1, <2>1 DEF Worker
  <2>5. /\ apps' = [apps EXCEPT ![i] = "rolled_back"] /\ active' = Parent(i, revs)
        /\ active.rev = i /\ Version(revs[i].parent) = revs[i].pver
    BY <2>1 DEF ServiceUndoes, Undoable, Parent
  <2>6. Live(Parent(i, revs), revs)
    BY <2>5 DEF Live, Parent, Version
  <2>7. active'.rev = revs[i].parent /\ rank[revs[i].parent] < rank[i]
    BY <2>2, <2>5, <2>6 DEF Older, Parent
  <2>8. CASE j = i
    BY <1>1, <2>2, <2>5, <2>7, <2>8
  <2>9. CASE j # i
    <3>1. j \in Recorded(rec) \ wk[w].todo /\ j \in Items /\ ~wk[w].flag
      BY <1>2, <1>3, <2>3, <2>4, <2>9 DEF Recorded
    <3>2. apps[j] = "rolled_back" /\ rank[i] < rank[j]
      BY <2>3, <2>5, <3>1 DEF Undone
    <3>3. rank[revs[i].parent] \in Nat /\ rank[i] \in Nat /\ rank[j] \in Nat
      BY <1>1, <2>2, <3>1 DEF Revs
    <3> QED
      BY <1>1, <2>5, <2>7, <2>9, <3>1, <3>2, <3>3
  <2> QED
    BY <2>8, <2>9
<1> QED
  BY <1>3, <1>4, <1>5, <1>6

LEMMA RankedHolds ==
    ASSUME IInv, Validated, PlanOfGraph, OneByOne, Ranked, NEW w \in Operators, Step(w)
    PROVE  Ranked'
<1>1. NeverAhead'
  BY NeverAheadHolds DEF Ranked
<1>2. PICK b \in Nat : \E rank \in [Items \cup {Root} -> 0..b] :
              /\ Older(rank, revs)
              /\ overlaps = 0 => \A v \in Operators : Undone(wk[v], rec, apps, active, rank)
  BY DEF Ranked
<1>3. PICK rank \in [Items \cup {Root} -> 0..b] :
              /\ Older(rank, revs)
              /\ overlaps = 0 => \A v \in Operators : Undone(wk[v], rec, apps, active, rank)
  BY <1>2
<1>4. overlaps' = 0 => Turn(w) /\ overlaps = 0
  BY TurnHolds, StillAlone
<1>5. CASE revs' = revs
  <2>1. Older(rank, revs')
    BY <1>3, <1>5
  <2>2. overlaps' = 0 => \A v \in Operators : Undone(wk'[v], rec', apps', active', rank)
    BY <1>3, <1>4, <1>5, StillUndone
  <2> QED
    BY <1>1, <2>1, <2>2 DEF Ranked
<1>6. CASE /\ \E i \in Items : revs'[i].ver # revs[i].ver
           /\ \E r \in [Items \cup {Root} -> 0..(b + 1)] : Older(r, revs')
  <2>1. PICK r \in [Items \cup {Root} -> 0..(b + 1)] : Older(r, revs')
    BY <1>6
  <2>2. revs' # revs
    BY <1>6
  <2>3. ASSUME overlaps' = 0, NEW v \in Operators PROVE wk'[v].pc # "undo"
    <3>1. Idle.pc = "idle"
      BY DEF Idle
    <3>2. ~ReadRecord(w) /\ ~UndoItem(w) /\ ~UndoBlocked(w)
      BY <2>2 DEF ReadRecord, UndoItem, ServiceUndoes, UndoBlocked, serviceVars
    <3> QED
      BY <1>4, <2>3, <3>1, <3>2, StepsTo DEF Turn
  <2>4. overlaps' = 0 => \A v \in Operators : Undone(wk'[v], rec', apps', active', r)
    BY <2>3 DEF Undone
  <2>5. b + 1 \in Nat
    OBVIOUS
  <2> QED
    BY <1>1, <2>1, <2>4, <2>5 DEF Ranked
<1> QED
  BY <1>3, <1>5, <1>6, StepOfRanks DEF Ranked

LEMMA RankedFirst == Init => Ranked
<1> SUFFICES ASSUME Init PROVE Ranked
  OBVIOUS
<1> DEFINE rank == [x \in Items \cup {Root} |-> IF x = Root THEN 0 ELSE 1]
<1>1. /\ Root \notin Items /\ active = [rev |-> Root, ver |-> 1]
      /\ \A i \in Items : revs[i].parent = Root /\ revs[i].pver = 1
  BY ItemsType DEF Init
<1>2. NeverAhead
  BY <1>1 DEF NeverAhead, Written, Parent
<1>3. rank \in [Items \cup {Root} -> 0..1] /\ \A i \in Items : rank[Root] < rank[i]
  BY <1>1
<1> HIDE DEF rank
<1>4. Older(rank, revs)
  BY <1>1, <1>3 DEF Older
<1>5. \A w \in Operators : wk[w].pc # "undo"
  BY DEF Init, Idle
<1>6. \A w \in Operators : Undone(wk[w], rec, apps, active, rank)
  BY <1>5 DEF Undone
<1>7. 1 \in Nat
  OBVIOUS
<1> QED
  BY <1>2, <1>3, <1>4, <1>6, <1>7 DEF Ranked

\* Only a rollback records that the batch is rolled back.
LEMMA RolledBackBy ==
    ASSUME NEW w \in Operators, Step(w), rec.status # "rolled_back", rec'.status = "rolled_back",
           IInv
    PROVE  SaveRolledBack(w)
<1>1. wk[w].rec \in Record /\ rec \in Record
  BY Held
<1>2. ASSUME NEW items, NEW resumed PROVE DerivedStatus(items, resumed) # "rolled_back"
  BY DEF DerivedStatus
<1>3. ASSUME NEW items PROVE ~Persist(w, items)
  <2> DEFINE s == DerivedStatus(items, wk[w].flag)
  <2>1. s # "rolled_back"
    BY <1>2
  <2> HIDE DEF s
  <2>2. [wk[w].rec EXCEPT !.items = items, !.status = s].status = s
    BY <1>1 DEF Record
  <2> QED
    BY <2>1, <2>2 DEF Persist, s
<1>4. CASE rec' = rec
  BY <1>4
<1>5. CASE Create(w)
  BY <1>5 DEF Create, NoRecord
<1>6. CASE SaveImported(w) \/ SavePlanned(w) \/ SaveRetried(w) \/ SaveCancelled(w)
  BY <1>1, <1>6 DEF SaveImported, SavePlanned, SaveRetried, SaveCancelled, Record
<1>7. CASE GroupStale(w)
  <2> DEFINE items == Marked(w, Remaining(w), "validation_partial", "halted")
             s == DerivedStatus(items, wk[w].flag)
  <2>1. rec' = [Reloaded(w) EXCEPT !.items = items, !.status = s]
    BY <1>7 DEF GroupStale
  <2>2. s # "rolled_back"
    BY <1>2
  <2> HIDE DEF items, s
  <2>3. [Reloaded(w) EXCEPT !.items = items, !.status = s].status = s
    BY <1>1 DEF Reloaded, Record
  <2> QED
    BY <2>1, <2>2, <2>3
<1>8. ~BlockItem(w) /\ ~SaveApplied(w) /\ ~HaltResume(w) /\ ~SaveResumed(w) /\ ~Finish(w)
  BY <1>3 DEF BlockItem, SaveApplied, HaltResume, SaveResumed, Finish
<1>9. ~SaveFailed(w)
  BY <1>3 DEF SaveFailed
<1>10. CASE LockedCommand(w)
  BY <1>4, <1>6, <1>10 DEF LockedCommand, Begin, TakeLock, Unlock, ReadRecord, ImportMember, ImportedAll, Reread,
              PlanFails, SavePlan, UndoItem, UndoBlocked, fileVars
<1>11. CASE Apply(w)
  BY <1>4, <1>8, <1>11 DEF Apply, StartApply, StartWave, WaveRefused, SkipItem, ItemRefused, ApplyItem, fileVars
<1>12. CASE Resume(w)
  BY <1>4, <1>7, <1>8, <1>12 DEF Resume, StartResume, StartGroup, ResumeRefused, BlockResume, SkipResume,
              ResumeItem, fileVars
<1>13. CASE NextWave(w) \/ ReadExpected(w) \/ Crash(w) \/ CrashInService(w)
  BY <1>4, <1>13 DEF NextWave, ReadExpected, Crash, CrashInService, fileVars
<1> QED
  BY <1>5, <1>8, <1>9, <1>10, <1>11, <1>12, <1>13 DEF Step

\* While one command runs at a time, a batch is recorded as rolled back only when every
\* application it recorded has been, and the active revision is of none of them
\* (rollback_batch), wherever commands have died before.
THEOREM EverythingUndone == Spec => RollbackRestores
<1>1. ASSUME IInv, Validated, PlanOfGraph, OneByOne, Ranked, [Next]_vars PROVE Ranked'
  <2>1. CASE Next
    BY <1>1, <2>1, RankedHolds DEF Next, Step
  <2>2. CASE UNCHANGED vars
    BY <1>1, <2>2 DEF Ranked, NeverAhead, vars, fileVars, serviceVars, bookVars
  <2> QED
    BY <1>1, <2>1, <2>2
<1>2. ASSUME IInv, Validated, PlanOfGraph, OneByOne, Ranked, [Next]_vars
      PROVE  [overlaps = 0 /\ rec.status # "rolled_back" /\ rec'.status = "rolled_back" =>
                \A i \in Items : rec.items[i].app > 0 => apps[i] = "rolled_back" /\ active.rev # i]_vars
  <2> SUFFICES ASSUME NEW w \in Operators, Step(w), overlaps = 0, rec.status # "rolled_back",
                      rec'.status = "rolled_back", NEW i \in Items, rec.items[i].app > 0
               PROVE  apps[i] = "rolled_back" /\ active.rev # i
    BY <1>2 DEF Next, Step
  <2>1. SaveRolledBack(w)
    BY <1>2, RolledBackBy
  <2>2. wk[w].pc = "undo" /\ wk[w].todo = {}
    BY <2>1 DEF SaveRolledBack, At
  <2>3. ~wk[w].flag
    <3>1. rec' = [wk[w].rec EXCEPT !.status = IF wk[w].flag THEN "partially_rolled_back" ELSE "rolled_back"]
      BY <2>1 DEF SaveRolledBack
    <3>2. wk[w].rec \in Record
      BY <1>2, Held
    <3> QED
      BY <3>1, <3>2 DEF Record
  <2>4. PICK b \in Nat : \E rank \in [Items \cup {Root} -> 0..b] :
                \A v \in Operators : Undone(wk[v], rec, apps, active, rank)
    BY <1>2 DEF Ranked
  <2>5. PICK rank \in [Items \cup {Root} -> 0..b] : \A v \in Operators : Undone(wk[v], rec, apps, active, rank)
    BY <2>4
  <2>6. i \in Recorded(rec) \ wk[w].todo
    BY <2>2 DEF Recorded
  <2>7. apps[i] = "rolled_back" /\ rank[active.rev] < rank[i]
    BY <2>2, <2>3, <2>5, <2>6 DEF Undone
  <2>8. rank[i] \in Nat
    OBVIOUS
  <2> QED
    BY <2>7, <2>8
<1> QED
  BY <1>1, <1>2, RankedFirst, InvariantInTurn, PTL DEF Spec, RollbackRestores
=============================================================================
