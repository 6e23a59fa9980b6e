--------------------------- MODULE CachePruningProofs ---------------------------
(***************************************************************************)
(* Proofs about CachePruning, for any number of resources, SVG images      *)
(* among them, any sizes and any capacities: the sizes and the lists are   *)
(* exact, a prune loop follows no pointer to what is gone, and pruning     *)
(* ends only when enough is gone or nothing can go.                        *)
(*                                                                         *)
(* What a loop of the code computes is a recursive function over the       *)
(* number of its rounds. That there is one is proved by taking the least   *)
(* number of rounds for which there is none; what it computes by           *)
(* induction, stated once for sets of numbers.                             *)
(***************************************************************************)
EXTENDS CachePruning, SequenceTheorems, FiniteSetTheorems, WellFoundedInduction, TLAPS

LEMMA LeastNumber ==
    ASSUME NEW T, T \subseteq Nat, T # {}
    PROVE  \E n \in T : \A m \in T : n <= m
<1> DEFINE R == {ss \in Nat \X Nat : ss[1] < ss[2]}
<1>1. IsWellFoundedOn(R, Nat)
  BY NatLessThanWellFounded DEF OpToRel
<1>2. \A m, n \in Nat : m < n => <<m, n>> \in R
  OBVIOUS
<1> HIDE DEF R
<1>3. PICK n \in T : \A m \in T : <<m, n>> \notin R
  BY <1>1, WFMin
<1>4. ASSUME NEW m \in T PROVE n <= m
  <2>1. ~(m < n)
    BY <1>2, <1>3, Zenon
  <2> QED  BY <2>1
<1> QED  BY <1>4

LEMMA Induction ==
    ASSUME NEW n \in Nat, NEW J, 0 \in J, \A i \in 1..n : i - 1 \in J => i \in J
    PROVE  \A i \in 0..n : i \in J
<1> DEFINE T == {i \in 0..n : i \notin J}
<1>1. SUFFICES ASSUME T # {} PROVE FALSE
  OBVIOUS
<1>2. T \subseteq Nat
  OBVIOUS
<1>3. PICK k \in T : \A m \in T : k <= m
  <2> HIDE DEF T
  <2> QED  BY <1>1, <1>2, LeastNumber
<1>4. k \in 1..n /\ k - 1 \in 0..n /\ ~(k <= k - 1)
  BY <1>3
<1> QED  BY <1>3, <1>4

LEMMA GreatestNumber ==
    ASSUME NEW n \in Nat, NEW T, T \subseteq 1..n, T # {}
    PROVE  \E k \in T : \A m \in T : k >= m
<1> DEFINE U == {n - k : k \in T}
<1>1. U \subseteq Nat /\ U # {}
  <2>1. \A k \in T : n - k \in Nat
    OBVIOUS
  <2> QED  BY <2>1
<1>2. PICK u \in U : \A m \in U : u <= m
  <2> HIDE DEF U
  <2> QED  BY <1>1, LeastNumber
<1>3. PICK k \in T : u = n - k
  BY <1>2
<1>4. ASSUME NEW m \in T PROVE k >= m
  <2>1. u <= n - m
    BY <1>2
  <2> QED  BY <1>3, <2>1
<1> QED  BY <1>4

(***************************************************************************)
(* fastLog2().                                                             *)
(***************************************************************************)
LogStep(f, i) == IF i <= 1 THEN 0 ELSE 1 + f[(i + 1) \div 2]

Logs(n, f) == f = [i \in 0..n |-> LogStep(f, i)]

LEMMA Half == \A i \in Nat : i > 1 => (i + 1) \div 2 \in Nat /\ (i + 1) \div 2 < i
OBVIOUS

LEMMA HalfIsMonotonic == \A i, j \in Nat : i <= j => (i + 1) \div 2 <= (j + 1) \div 2
OBVIOUS

LEMMA LogsExist ==
    ASSUME NEW n \in Nat PROVE \E f : Logs(n, f)
<1> DEFINE J == {k \in 0..n : \E f : Logs(k, f)}
<1>1. 0 \in J
  <2> DEFINE f == [i \in 0..0 |-> 0]
  <2>1. Logs(0, f)
    BY DEF Logs, LogStep
  <2> QED  BY <2>1
<1>2. ASSUME NEW k \in 1..n, k - 1 \in J PROVE k \in J
  <2>1. PICK f : Logs(k - 1, f)
    BY <1>2
  <2> DEFINE g == [i \in 0..k |-> IF i = k THEN LogStep(f, k) ELSE f[i]]
             h == [i \in 0..k |-> LogStep(g, i)]
  <2>2. ASSUME NEW i \in 0..k PROVE g[i] = LogStep(g, i)
    <3>1. i > 1 => (i + 1) \div 2 \in 0..k /\ (i + 1) \div 2 # k
      BY Half
    <3>2. i > 1 => g[(i + 1) \div 2] = f[(i + 1) \div 2]
      BY <3>1
    <3>3. LogStep(g, i) = LogStep(f, i)
      <4> HIDE DEF g
      <4> QED  BY <3>2 DEF LogStep
    <3>4. CASE i = k
      BY <3>3, <3>4
    <3>5. CASE i # k
      <4>1. i \in 0..(k - 1)
        BY <3>5
      <4>2. f[i] = LogStep(f, i)
        BY <2>1, <4>1 DEF Logs
      <4> QED  BY <3>3, <3>5, <4>2
    <3> QED  BY <3>4, <3>5
  <2>3. g = h
    <3>1. g = [i \in 0..k |-> g[i]] /\ \A i \in 0..k : g[i] = h[i]
      BY <2>2
    <3> HIDE DEF g
    <3> QED  BY <3>1
  <2> HIDE DEF g
  <2>4. Logs(k, g)
    BY <2>3 DEF Logs
  <2> QED  BY <2>4
<1>3. n \in 0..n
  OBVIOUS
<1> HIDE DEF J
<1>4. n \in J
  BY <1>1, <1>2, <1>3, Induction
<1> QED  BY <1>4 DEF J

LEMMA MaxSizeIsNat == MaxSize \in Nat \ {0} /\ Overhead = 1
BY ConstantsAssumption DEF MaxSize, Overhead

LEMMA LogIs ==
    \A i \in 0..MaxSize : FastLog2[i] = IF i <= 1 THEN 0 ELSE 1 + FastLog2[(i + 1) \div 2]
<1> DEFINE f == CHOOSE f : Logs(MaxSize, f)
<1>1. Logs(MaxSize, f)
  BY MaxSizeIsNat, LogsExist
<1>2. FastLog2 = f
  BY DEF FastLog2, Logs, LogStep
<1> HIDE DEF f
<1> QED  BY <1>1, <1>2 DEF Logs, LogStep

LEMMA LogIsMonotonic ==
    \A j \in 0..MaxSize : /\ FastLog2[j] \in Nat
                          /\ \A i \in 0..j : FastLog2[i] <= FastLog2[j]
<1> DEFINE L == FastLog2
           P(j) == \A k \in 0..j : /\ L[k] \in Nat
                                   /\ \A i \in 0..k : L[i] <= L[k]
           J == {j \in 0..MaxSize : P(j)}
<1>0. MaxSize \in Nat
  BY MaxSizeIsNat
<1>a. \A i \in 0..MaxSize : L[i] = IF i <= 1 THEN 0 ELSE 1 + L[(i + 1) \div 2]
  BY LogIs
<1> HIDE DEF L
<1>1. 0 \in J
  <2>1. 0 \in 0..MaxSize /\ L[0] = 0
    BY <1>0, <1>a
  <2> QED  BY <2>1
<1>2. ASSUME NEW j \in 1..MaxSize, j - 1 \in J PROVE j \in J
  <2>1. \A k \in 0..(j - 1) : /\ L[k] \in Nat
                              /\ \A i \in 0..k : L[i] <= L[k]
    BY <1>2
  <2>2. L[j] \in Nat
    <3>1. CASE j <= 1
      BY <1>0, <1>a, <3>1
    <3>2. CASE j > 1
      <4>1. (j + 1) \div 2 \in 0..(j - 1)
        BY <3>2, Half
      <4>2. L[(j + 1) \div 2] \in Nat
        BY <2>1, <4>1
      <4> QED  BY <1>0, <1>a, <3>2, <4>2
    <3> QED  BY <3>1, <3>2
  <2>3. ASSUME NEW i \in 0..j PROVE L[i] <= L[j]
    <3>1. CASE i = j
      BY <2>2, <3>1
    <3>2. CASE i <= 1
      <4>1. L[i] = 0
        BY <1>0, <1>a, <3>2
      <4> QED  BY <2>2, <4>1
    <3>3. CASE i > 1 /\ i # j
      <4>1. /\ (i + 1) \div 2 \in 0..(j - 1) /\ (j + 1) \div 2 \in 0..(j - 1)
            /\ (i + 1) \div 2 <= (j + 1) \div 2
        BY <3>3, Half, HalfIsMonotonic
      <4> DEFINE a == (i + 1) \div 2
                 b == (j + 1) \div 2
      <4>2. L[i] = 1 + L[a] /\ L[j] = 1 + L[b]
        BY <1>0, <1>a, <3>3
      <4> HIDE DEF a, b
      <4>3. a \in 0..b /\ L[a] \in Nat /\ L[b] \in Nat
        BY <2>1, <4>1 DEF a, b
      <4>4. L[a] <= L[b]
        BY <2>1, <4>1, <4>3 DEF b
      <4> QED  BY <4>2, <4>3, <4>4
    <3> QED  BY <3>1, <3>2, <3>3
  <2>4. ASSUME NEW k \in 0..j PROVE L[k] \in Nat /\ \A i \in 0..k : L[i] <= L[k]
    <3>1. k = j \/ k \in 0..(j - 1)
      OBVIOUS
    <3> QED  BY <2>1, <2>2, <2>3, <3>1
  <2> QED  BY <2>4
<1> HIDE DEF J
<1>3. \A j \in 0..MaxSize : j \in J
  BY <1>0, <1>1, <1>2, Induction
<1>4. ASSUME NEW j \in 0..MaxSize PROVE L[j] \in Nat /\ \A i \in 0..j : L[i] <= L[j]
  <2>1. P(j) /\ j \in 0..j
    BY <1>3 DEF J
  <2> QED  BY <2>1
<1> QED  BY <1>4 DEF L

LEMMA LogInQueues == \A i \in 0..MaxSize : FastLog2[i] \in Queues
<1> TAKE i \in 0..MaxSize
<1>1. i \in 0..MaxSize /\ MaxSize \in 0..MaxSize
  BY MaxSizeIsNat
<1>2. FastLog2[i] \in Nat /\ FastLog2[MaxSize] \in Nat /\ FastLog2[i] <= FastLog2[MaxSize]
  BY <1>1, LogIsMonotonic
<1> QED  BY <1>2 DEF Queues

LEMMA LastQueueIsNat == FastLog2[MaxSize] \in Nat
<1>1. MaxSize \in 0..MaxSize
  BY MaxSizeIsNat
<1> QED  BY <1>1, LogIsMonotonic

LEMMA Quotient ==
    \A a \in Nat, b \in Nat \ {0} : a \div b \in Nat /\ a \div b <= a
OBVIOUS

LEMMA QuotientIsMonotonic ==
    \A a, c \in Nat, b \in Nat \ {0} : a <= c => a \div b <= c \div b
OBVIOUS

(***************************************************************************)
(* Loops. What a loop computes is a function of the number of rounds.      *)
(***************************************************************************)
LoopStep(l, w, i) ==
    IF l.of = "sizes" THEN w + l.sizes[l.list[i]]
    ELSE IF l.of = "deletions" THEN DeleteNext(w)
    ELSE IF l.of = "live" THEN PruneOne(w, l.list[i], l.target)
    ELSE IF l.of = "queue" THEN FlushOne(w, l.list[i], l.target)
    ELSE SweepOne(w, l.queue + 1 - i, l.target)

Rounds(l, start, n, f) == f = [i \in 0..n |-> IF i = 0 THEN start ELSE LoopStep(l, f[i - 1], i)]

LEMMA RoundsExist ==
    ASSUME NEW l, NEW start, NEW n \in Nat PROVE \E f : Rounds(l, start, n, f)
<1> DEFINE J == {k \in 0..n : \E f : Rounds(l, start, k, f)}
<1>1. 0 \in J
  <2> DEFINE f == [i \in 0..0 |-> start]
  <2>1. Rounds(l, start, 0, f)
    BY DEF Rounds
  <2> QED  BY <2>1
<1>2. ASSUME NEW k \in 1..n, k - 1 \in J PROVE k \in J
  <2>1. PICK f : Rounds(l, start, k - 1, f)
    BY <1>2
  <2> DEFINE g == [i \in 0..k |-> IF i = k THEN LoopStep(l, f[k - 1], k) ELSE f[i]]
             h == [i \in 0..k |-> IF i = 0 THEN start ELSE LoopStep(l, g[i - 1], i)]
  <2>2. ASSUME NEW i \in 0..k PROVE g[i] = IF i = 0 THEN start ELSE LoopStep(l, g[i - 1], i)
    <3>1. CASE i = 0
      <4>1. 0 \in 0..(k - 1) /\ 0 # k
        OBVIOUS
      <4> QED  BY <2>1, <3>1, <4>1 DEF Rounds
    <3>2. CASE i # 0
      <4>1. i - 1 \in 0..k /\ i - 1 # k /\ i - 1 \in 0..(k - 1)
        BY <3>2
      <4>2. g[i - 1] = f[i - 1]
        BY <4>1
      <4>3. CASE i = k
        BY <3>2, <4>2, <4>3
      <4>4. CASE i # k
        <5>1. i \in 0..(k - 1)
          BY <4>4
        <5>2. f[i] = LoopStep(l, f[i - 1], i)
          BY <2>1, <3>2, <5>1 DEF Rounds
        <5> QED  BY <3>2, <4>2, <4>4, <5>2
      <4> QED  BY <4>3, <4>4
    <3> QED  BY <3>1, <3>2
  <2>3. g = h
    <3>1. g = [i \in 0..k |-> g[i]] /\ \A i \in 0..k : g[i] = h[i]
      BY <2>2
    <3> HIDE DEF g
    <3> QED  BY <3>1
  <2> HIDE DEF g
  <2>4. Rounds(l, start, k, g)
    BY <2>3 DEF Rounds
  <2> QED  BY <2>4
<1>3. n \in 0..n
  OBVIOUS
<1> HIDE DEF J
<1>4. n \in J
  BY <1>1, <1>2, <1>3, Induction
<1> QED  BY <1>4 DEF J

(***************************************************************************)
(* Sums.                                                                   *)
(***************************************************************************)
Sums(w, list, f) == f = [i \in 0..Len(list) |-> IF i = 0 THEN 0 ELSE f[i - 1] + w[list[i]]]

LEMMA SumsExist ==
    ASSUME NEW w, NEW list, Len(list) \in Nat PROVE \E f : Sums(w, list, f)
<1> DEFINE l == [of |-> "sizes", sizes |-> w, list |-> list]
<1>1. PICK f : Rounds(l, 0, Len(list), f)
  BY RoundsExist
<1>2. \A i : LoopStep(l, f[i - 1], i) = f[i - 1] + w[list[i]]
  BY DEF LoopStep
<1> DEFINE g == [i \in 0..Len(list) |-> IF i = 0 THEN 0 ELSE f[i - 1] + w[list[i]]]
<1> HIDE DEF l
<1>3. f = g
  <2>1. \A i \in 0..Len(list) : f[i] = g[i]
    BY <1>1, <1>2 DEF Rounds
  <2>2. f = [i \in 0..Len(list) |-> f[i]]
    BY <1>1 DEF Rounds
  <2> HIDE DEF g
  <2> QED  BY <2>1, <2>2
<1> QED  BY <1>3 DEF Sums

Order == SetToSeq(Resources)

LEMMA OrderOfResources ==
    /\ Order \in Seq(Resources) /\ Len(Order) \in Nat /\ IsInjective(Order)
    /\ DOMAIN Order = 1..Len(Order)
    /\ \A r \in Resources : \E i \in 1..Len(Order) : Order[i] = r
<1> DEFINE n == Cardinality(Resources)
           P(f) == f \in [1..n -> Resources] /\ IsInjective(f)
           Q(f) == \A r \in Resources : \E i \in 1..n : f[i] = r
<1>1. n \in Nat /\ \E f : P(f) /\ Q(f)
  <2>1. n \in Nat /\ ExistsBijection(1..n, Resources)
    BY ConstantsAssumption, FS_CardinalityType
  <2>2. PICK f \in Bijection(1..n, Resources) : TRUE
    BY <2>1 DEF ExistsBijection
  <2>3. P(f) /\ Q(f)
    BY <2>2 DEF Bijection, Injection, Surjection, IsInjective
  <2> QED  BY <2>1, <2>3
<1>2. Order = CHOOSE f \in [1..n -> Resources] : IsInjective(f)
  BY DEF Order, SetToSeq
<1>3. P(Order)
  BY <1>1, <1>2
<1>4. Len(Order) = n /\ DOMAIN Order = 1..n /\ Order \in Seq(Resources)
  BY <1>1, <1>3
<1>5. Q(Order)
  <2>1. Order \in Injection(1..n, Resources)
    BY <1>3 DEF Injection, IsInjective
  <2>2. IsFiniteSet(1..n) /\ Cardinality(1..n) = n /\ IsFiniteSet(Resources)
    BY <1>1, FS_Interval, ConstantsAssumption
  <2>3. Order \in Surjection(1..n, Resources)
    BY <2>1, <2>2, FS_Injection
  <2> QED  BY <2>3 DEF Surjection
<1> HIDE DEF n
<1> QED  BY <1>1, <1>3, <1>4, <1>5

LEMMA TotalIs ==
    ASSUME NEW w
    PROVE  \E f : /\ Total(w) = f[Len(Order)] /\ f[0] = 0
                  /\ \A i \in 1..Len(Order) : f[i] = f[i - 1] + w[Order[i]]
<1> DEFINE f == CHOOSE f : Sums(w, Order, f)
<1>1. Sums(w, Order, f)
  BY OrderOfResources, SumsExist
<1>2. Total(w) = f[Len(Order)]
  BY DEF Total, Sums, Order
<1> HIDE DEF f
<1>3. /\ Len(Order) \in Nat /\ 0 \in 0..Len(Order)
      /\ \A i \in 1..Len(Order) : i \in 0..Len(Order) /\ i # 0
  BY OrderOfResources
<1> QED  BY <1>1, <1>2, <1>3 DEF Sums

\* A sum changes by what one of its terms changes.
LEMMA TotalChanges ==
    ASSUME NEW w \in [Resources -> Int], NEW v \in [Resources -> Int], NEW x \in Resources,
           \A r \in Resources \ {x} : v[r] = w[r]
    PROVE  Total(w) \in Int /\ Total(v) = Total(w) + v[x] - w[x]
<1> DEFINE n == Len(Order)
<1>1. PICK f : /\ Total(w) = f[n] /\ f[0] = 0
               /\ \A i \in 1..n : f[i] = f[i - 1] + w[Order[i]]
  BY TotalIs
<1>2. PICK g : /\ Total(v) = g[n] /\ g[0] = 0
               /\ \A i \in 1..n : g[i] = g[i - 1] + v[Order[i]]
  BY TotalIs
<1>3. n \in Nat /\ \A i \in 1..n : Order[i] \in Resources
  BY OrderOfResources, ElementOfSeq
<1>4. PICK k \in 1..n : Order[k] = x /\ \A i \in 1..n : Order[i] = x => i = k
  BY OrderOfResources DEF IsInjective
<1> HIDE DEF n
<1> DEFINE d == v[x] - w[x]
           J == {i \in 0..n : f[i] \in Int /\ g[i] = f[i] + (IF i < k THEN 0 ELSE d)}
<1>5. 0 \in J
  BY <1>1, <1>2, <1>3
<1>6. ASSUME NEW i \in 1..n, i - 1 \in J PROVE i \in J
  <2>1. /\ f[i - 1] \in Int /\ g[i - 1] = f[i - 1] + (IF i - 1 < k THEN 0 ELSE d)
        /\ f[i] = f[i - 1] + w[Order[i]] /\ g[i] = g[i - 1] + v[Order[i]]
        /\ Order[i] \in Resources /\ w[Order[i]] \in Int /\ v[Order[i]] \in Int
        /\ d \in Int /\ i \in 0..n /\ w[x] \in Int /\ v[x] \in Int
    BY <1>1, <1>2, <1>3, <1>6
  <2>2. CASE i = k
    <3>1. Order[i] = x /\ i - 1 < k /\ ~(i < k)
      BY <1>4, <2>2
    <3> QED  BY <2>1, <3>1
  <2>3. CASE i # k
    <3>1. v[Order[i]] = w[Order[i]] /\ (i - 1 < k <=> i < k)
      BY <1>4, <2>1, <2>3
    <3> HIDE DEF d
    <3> QED  BY <2>1, <3>1
  <2> QED  BY <2>2, <2>3
<1> HIDE DEF J
<1>7. n \in J
  BY <1>3, <1>5, <1>6, Induction
<1>8. ~(n < k) /\ f[n] \in Int /\ g[n] = f[n] + d /\ v[x] \in Int /\ w[x] \in Int
  BY <1>3, <1>7 DEF J
<1> QED  BY <1>1, <1>2, <1>8

LEMMA TotalBounds ==
    ASSUME NEW w \in [Resources -> Nat]
    PROVE  /\ Total(w) \in Nat
           /\ \A x \in Resources : w[x] <= Total(w)
           /\ (\A x \in Resources : w[x] = 0) => Total(w) = 0
<1> DEFINE n == Len(Order)
<1>1. PICK f : /\ Total(w) = f[n] /\ f[0] = 0
               /\ \A i \in 1..n : f[i] = f[i - 1] + w[Order[i]]
  BY TotalIs
<1>2. n \in Nat /\ \A i \in 1..n : Order[i] \in Resources
  BY OrderOfResources, ElementOfSeq
<1>3. \A x \in Resources : \E k \in 1..n : Order[k] = x
  BY OrderOfResources
<1> HIDE DEF n
<1> DEFINE P(i) == /\ f[i] \in Nat
                   /\ \A k \in 1..i : w[Order[k]] <= f[i]
                   /\ (\A x \in Resources : w[x] = 0) => f[i] = 0
           J == {i \in 0..n : P(i)}
<1>4. 0 \in J
  BY <1>1, <1>2
<1>5. ASSUME NEW i \in 1..n, i - 1 \in J PROVE i \in J
  <2>1. /\ f[i - 1] \in Nat /\ f[i] = f[i - 1] + w[Order[i]]
        /\ Order[i] \in Resources /\ w[Order[i]] \in Nat /\ i \in 0..n
        /\ (\A x \in Resources : w[x] = 0) => f[i - 1] = 0
    BY <1>1, <1>2, <1>5
  <2>2. ASSUME NEW k \in 1..i PROVE w[Order[k]] <= f[i]
    <3>1. CASE k = i
      BY <2>1, <3>1
    <3>2. CASE k # i
      <4>1. k \in 1..(i - 1) /\ k \in 1..n
        BY <1>2, <3>2
      <4>2. w[Order[k]] <= f[i - 1] /\ w[Order[k]] \in Nat
        BY <1>2, <1>5, <4>1
      <4> QED  BY <2>1, <4>2
    <3> QED  BY <3>1, <3>2
  <2>3. f[i] \in Nat /\ ((\A x \in Resources : w[x] = 0) => f[i] = 0)
    BY <2>1
  <2> QED  BY <2>1, <2>2, <2>3
<1> HIDE DEF J
<1>6. n \in J
  BY <1>2, <1>4, <1>5, Induction
<1>7. P(n)
  BY <1>6 DEF J
<1> QED  BY <1>1, <1>3, <1>7

(***************************************************************************)
(* Lists without repetitions.                                              *)
(***************************************************************************)
LEMMA RemovedAt ==
    ASSUME NEW S, NEW s \in Seq(S), IsInjective(s), NEW k \in 1..Len(s)
    PROVE  /\ RemoveFirst(s, s[k]) \in Seq(S)
           /\ Len(RemoveFirst(s, s[k])) = Len(s) - 1
           /\ \A i \in 1..(Len(s) - 1) :
                 RemoveFirst(s, s[k])[i] = IF i < k THEN s[i] ELSE s[i + 1]
<1> DEFINE n == Len(s)
           I == {i \in 1..n : s[i] = s[k]}
           a == SubSeq(s, 1, k - 1)
           b == SubSeq(s, k + 1, n)
<1>1. n \in Nat /\ DOMAIN s = 1..n /\ k \in 1..n /\ \A i \in 1..n : s[i] \in S
  BY ElementOfSeq
<1>2. I = {k}
  BY <1>1 DEF IsInjective
<1>3. Min({k}) = k
  BY <1>1 DEF Min
<1>4. SelectInSeq(s, LAMBDA v : v = s[k]) = k
  BY <1>2, <1>3 DEF SelectInSeq
<1>5. RemoveFirst(s, s[k]) = a \o b
  BY <1>1, <1>4 DEF RemoveFirst, RemoveAt
<1>6. /\ a \in Seq(S) /\ Len(a) = k - 1
      /\ \A i \in 1..(k - 1) : a[i] = s[i]
  <2>1. 1 \in Int /\ k - 1 \in Int /\ \A i \in 1..(k - 1) : s[i] \in S
    BY <1>1
  <2>2. /\ a \in Seq(S) /\ Len(a) = IF 1 <= k - 1 THEN (k - 1) - 1 + 1 ELSE 0
        /\ \A i \in 1..((k - 1) - 1 + 1) : a[i] = s[1 + i - 1]
    BY <2>1, SubSeqProperties
  <2>3. \A i \in 1..(k - 1) : i \in 1..((k - 1) - 1 + 1) /\ 1 + i - 1 = i
    BY <1>1
  <2> HIDE DEF a
  <2> QED  BY <1>1, <2>2, <2>3
<1>7. /\ b \in Seq(S) /\ Len(b) = n - k
      /\ \A i \in 1..(n - k) : b[i] = s[k + i]
  <2>1. k + 1 \in Int /\ n \in Int /\ \A i \in (k + 1)..n : s[i] \in S
    BY <1>1
  <2>2. /\ b \in Seq(S) /\ Len(b) = IF k + 1 <= n THEN n - (k + 1) + 1 ELSE 0
        /\ \A i \in 1..(n - (k + 1) + 1) : b[i] = s[(k + 1) + i - 1]
    BY <2>1, SubSeqProperties
  <2>3. ASSUME NEW i \in 1..(n - k) PROVE i \in 1..(n - (k + 1) + 1) /\ (k + 1) + i - 1 = k + i
    BY <1>1
  <2> HIDE DEF b
  <2>4. Len(b) = n - k
    <3>1. Len(b) = IF k + 1 <= n THEN n - (k + 1) + 1 ELSE 0
      BY <2>2
    <3>2. n \in Nat /\ k \in 1..n
      BY <1>1
    <3> HIDE DEF n
    <3> QED  BY <3>1, <3>2
  <2>5. \A i \in 1..(n - k) : b[i] = s[k + i]
    <3> TAKE i \in 1..(n - k)
    <3>1. b[i] = s[(k + 1) + i - 1]
      BY <2>2, <2>3
    <3> QED  BY <2>3, <3>1
  <2> QED  BY <2>2, <2>4, <2>5
<1> HIDE DEF a, b, I
<1> DEFINE c == a \o b
<1>8. /\ c \in Seq(S) /\ Len(c) = Len(a) + Len(b)
      /\ \A i \in 1..(Len(a) + Len(b)) : c[i] = IF i <= Len(a) THEN a[i] ELSE b[i - Len(a)]
  BY <1>6, <1>7, ConcatProperties
<1>9. c = RemoveFirst(s, s[k])
  BY <1>5
<1> HIDE DEF c, n
<1>10. ASSUME NEW i \in 1..(n - 1) PROVE c[i] = IF i < k THEN s[i] ELSE s[i + 1]
  <2>1. i \in 1..(Len(a) + Len(b)) /\ (i <= Len(a) <=> i < k)
    BY <1>1, <1>6, <1>7
  <2>2. CASE i < k
    <3>1. i \in 1..(k - 1)
      BY <2>2
    <3> QED  BY <1>6, <1>8, <2>1, <2>2, <3>1
  <2>3. CASE ~(i < k)
    <3>1. i - Len(a) \in 1..(n - k) /\ k + (i - Len(a)) = i + 1
      BY <1>1, <1>6, <2>3
    <3> QED  BY <1>7, <1>8, <2>1, <2>3, <3>1
  <2> QED  BY <2>2, <2>3
<1>11. Len(c) = n - 1
  BY <1>1, <1>6, <1>7, <1>8
<1> QED  BY <1>8, <1>9, <1>10, <1>11 DEF n

LEMMA RemovedFrom ==
    ASSUME NEW S, NEW s \in Seq(S), IsInjective(s), NEW e
    PROVE  /\ RemoveFirst(s, e) \in Seq(S) /\ IsInjective(RemoveFirst(s, e))
           /\ ToSet(RemoveFirst(s, e)) = ToSet(s) \ {e}
<1> DEFINE t == RemoveFirst(s, e)
           n == Len(s)
<1>1. n \in Nat /\ DOMAIN s = 1..n
  OBVIOUS
<1>2. CASE \A k \in 1..n : s[k] # e
  <2>1. t = s
    BY <1>2 DEF RemoveFirst
  <2> QED  BY <1>1, <1>2, <2>1 DEF ToSet
<1>3. CASE \E k \in 1..n : s[k] = e
  <2>1. PICK k \in 1..n : s[k] = e
    BY <1>3
  <2>2. /\ t \in Seq(S) /\ Len(t) = n - 1
        /\ \A i \in 1..(n - 1) : t[i] = IF i < k THEN s[i] ELSE s[i + 1]
    BY <2>1, RemovedAt
  <2> HIDE DEF t, n
  <2>3. DOMAIN t = 1..(n - 1)
    BY <2>2
  <2>4. \A i, j \in 1..n : s[i] = s[j] => i = j
    BY <1>1 DEF IsInjective
  <2>5. ASSUME NEW i \in 1..(n - 1), NEW j \in 1..(n - 1), t[i] = t[j] PROVE i = j
    <3>1. i \in 1..n /\ i + 1 \in 1..n /\ j \in 1..n /\ j + 1 \in 1..n
      BY <1>1
    <3>2. /\ i < k /\ j < k => i = j
          /\ ~(i < k) /\ ~(j < k) => i + 1 = j + 1
          /\ i < k /\ ~(j < k) => i = j + 1
          /\ ~(i < k) /\ j < k => i + 1 = j
      BY <2>2, <2>4, <2>5, <3>1
    <3> QED  BY <1>1, <3>2
  <2>6. ASSUME NEW x \in ToSet(t) PROVE x \in ToSet(s) \ {e}
    <3>1. PICK i \in 1..(n - 1) : t[i] = x
      BY <2>3 DEF ToSet
    <3>2. i \in 1..n /\ i + 1 \in 1..n
      BY <1>1
    <3>3. CASE i < k
      <4>1. x = s[i] /\ i # k
        BY <2>2, <3>1, <3>3
      <4> QED  BY <1>1, <2>1, <2>4, <3>2, <4>1 DEF ToSet
    <3>4. CASE ~(i < k)
      <4>1. x = s[i + 1] /\ i + 1 # k
        BY <2>2, <3>1, <3>4
      <4> QED  BY <1>1, <2>1, <2>4, <3>2, <4>1 DEF ToSet
    <3> QED  BY <3>3, <3>4
  <2>7. ASSUME NEW x \in ToSet(s) \ {e} PROVE x \in ToSet(t)
    <3>1. PICK i \in 1..n : s[i] = x
      BY <1>1 DEF ToSet
    <3>2. i # k
      BY <2>1, <3>1
    <3>3. CASE i < k
      <4>1. i \in 1..(n - 1)
        BY <1>1, <3>3
      <4> QED  BY <2>2, <2>3, <3>1, <3>3, <4>1 DEF ToSet
    <3>4. CASE ~(i < k)
      <4>1. i - 1 \in 1..(n - 1) /\ ~(i - 1 < k) /\ (i - 1) + 1 = i
        BY <1>1, <3>2, <3>4
      <4> QED  BY <2>2, <2>3, <3>1, <4>1 DEF ToSet
    <3> QED  BY <3>3, <3>4
  <2>8. IsInjective(t) /\ ToSet(t) = ToSet(s) \ {e}
    BY <2>3, <2>5, <2>6, <2>7 DEF IsInjective
  <2> QED  BY <2>2, <2>8 DEF t
<1> QED  BY <1>2, <1>3

LEMMA PutFirst ==
    ASSUME NEW S, NEW s \in Seq(S), NEW e \in S
    PROVE  /\ <<e>> \o s \in Seq(S)
           /\ ToSet(<<e>> \o s) = ToSet(s) \cup {e}
           /\ IsInjective(s) /\ e \notin ToSet(s) => IsInjective(<<e>> \o s)
<1> DEFINE t == <<e>> \o s
           n == Len(s)
<1>1. <<e>> \in Seq(S) /\ Len(<<e>>) = 1 /\ <<e>>[1] = e
  OBVIOUS
<1>2. n \in Nat /\ DOMAIN s = 1..n
  OBVIOUS
<1>3. /\ t \in Seq(S) /\ Len(t) = 1 + n
      /\ \A i \in 1..(1 + n) : t[i] = IF i <= 1 THEN <<e>>[i] ELSE s[i - 1]
  BY <1>1, <1>2, ConcatProperties
<1> HIDE DEF t, n
<1>4. DOMAIN t = 1..(1 + n)
  BY <1>3
<1>5. 1 \in DOMAIN t /\ t[1] = e
  BY <1>1, <1>2, <1>3, <1>4
<1>6. ASSUME NEW i \in DOMAIN t, i # 1 PROVE i - 1 \in DOMAIN s /\ t[i] = s[i - 1]
  <2>1. i - 1 \in 1..n /\ ~(i <= 1)
    BY <1>2, <1>4, <1>6
  <2> QED  BY <1>2, <1>3, <1>4, <2>1
<1>7. ASSUME NEW i \in DOMAIN s PROVE i + 1 \in DOMAIN t /\ t[i + 1] = s[i]
  <2>1. i + 1 \in 1..(1 + n) /\ ~(i + 1 <= 1) /\ (i + 1) - 1 = i
    BY <1>2
  <2> QED  BY <1>2, <1>3, <1>4, <2>1
<1>8. ToSet(t) = ToSet(s) \cup {e}
  BY <1>5, <1>6, <1>7 DEF ToSet
<1>9. ASSUME IsInjective(s), e \notin ToSet(s) PROVE IsInjective(t)
  <2>1. \A i \in DOMAIN t : i # 1 => t[i] # e
    BY <1>6, <1>9 DEF ToSet
  <2>2. ASSUME NEW i \in DOMAIN t, NEW j \in DOMAIN t, t[i] = t[j] PROVE i = j
    <3>1. CASE i = 1 \/ j = 1
      BY <1>5, <2>1, <2>2, <3>1
    <3>2. CASE i # 1 /\ j # 1
      <4>1. i - 1 = j - 1
        BY <1>6, <1>9, <2>2, <3>2 DEF IsInjective
      <4> QED  BY <1>2, <1>4, <4>1
    <3> QED  BY <3>1, <3>2
  <2> QED  BY <2>2 DEF IsInjective
<1> QED  BY <1>3, <1>8, <1>9 DEF t

(***************************************************************************)
(* The queue of a resource.                                                *)
(***************************************************************************)
LEMMA SizeInRange ==
    ASSUME NEW c \in Cache, NEW r \in Resources PROVE Size(c, r) \in 1..MaxSize
<1>1. /\ c.encoded[r] \in 0..MaxEncoded /\ c.decoded[r] \in 0..MaxDecoded
      /\ MaxEncoded \in Nat /\ MaxDecoded \in Nat
  BY ConstantsAssumption DEF Cache
<1> QED  BY <1>1 DEF Size, MaxSize, Overhead

LEMMA QueueInQueues ==
    ASSUME NEW c \in Cache, NEW r \in Resources PROVE QueueOf(c, r) \in Queues
<1> DEFINE a == IF c.access[r] = 0 THEN 1 ELSE c.access[r]
<1>1. a \in Nat \ {0}
  BY ConstantsAssumption DEF Cache
<1>2. Size(c, r) \in Nat /\ Size(c, r) \in 1..MaxSize /\ MaxSize \in Nat
  BY SizeInRange, MaxSizeIsNat
<1> HIDE DEF a
<1>3. Size(c, r) \div a \in Nat /\ Size(c, r) \div a <= Size(c, r)
  BY <1>1, <1>2, Quotient
<1>4. Size(c, r) \div a \in 0..MaxSize
  BY <1>2, <1>3
<1> QED  BY <1>4, LogInQueues DEF QueueOf, a

\* A resource that shrinks moves to a lower queue, if at all.
LEMMA LowerQueue ==
    ASSUME NEW c \in Cache, NEW d \in Cache, NEW r \in Resources,
           d.access[r] = c.access[r], Size(d, r) <= Size(c, r)
    PROVE  QueueOf(d, r) <= QueueOf(c, r)
<1> DEFINE a == IF c.access[r] = 0 THEN 1 ELSE c.access[r]
           m == Size(d, r)
           n == Size(c, r)
<1>1. a \in Nat \ {0}
  BY ConstantsAssumption DEF Cache
<1>2. m \in Nat /\ n \in Nat /\ n \in 1..MaxSize /\ MaxSize \in Nat /\ m <= n
  BY SizeInRange, MaxSizeIsNat
<1>3. QueueOf(d, r) = FastLog2[m \div a] /\ QueueOf(c, r) = FastLog2[n \div a]
  BY DEF QueueOf
<1> HIDE DEF a, m, n
<1>4. m \div a \in Nat /\ n \div a \in Nat /\ n \div a <= n /\ m \div a <= n \div a
  BY <1>1, <1>2, Quotient, QuotientIsMonotonic
<1>5. n \div a \in 0..MaxSize /\ m \div a \in 0..(n \div a)
  BY <1>2, <1>4
<1> QED  BY <1>3, <1>5, LogIsMonotonic

(***************************************************************************)
(* The books, of any cache. A resource that is about to change leaves the  *)
(* lists; they are then exact for the others.                              *)
(***************************************************************************)
SameUses(c, d) ==
    /\ d.loading = c.loading /\ d.handled = c.handled /\ d.preloads = c.preloads
    /\ d.page = c.page /\ d.embeds = c.embeds /\ d.revalidates = c.revalidates
    /\ d.pruning = c.pruning /\ d.capacity = c.capacity

InLists(c, S) ==
    \A q \in Queues : /\ ToSet(c.lists[q]) = {x \in S : QueueOf(c, x) = q}
                      /\ IsInjective(c.lists[q])

InLive(c, S) ==
    /\ IsInjective(c.live)
    /\ \A x \in ToSet(c.live) : x \in S /\ HasClients(c, x) /\ c.decoded[x] > 0

LiveSizeOf(c, r) == IF r \in c.inCache /\ HasClients(c, r) THEN Size(c, r) ELSE 0

DeadSizeOf(c, r) == IF r \in c.inCache /\ ~HasClients(c, r) THEN Size(c, r) ELSE 0

Sized(c) ==
    /\ c.liveSize = Total([r \in Resources |-> LiveSizeOf(c, r)])
    /\ c.deadSize = Total([r \in Resources |-> DeadSizeOf(c, r)])

LEMMA ListsChange ==
    ASSUME NEW c \in Cache, NEW l \in [Queues -> Seq(Resources)]
    PROVE  LET d == [c EXCEPT !.lists = l]
           IN  /\ d \in Cache /\ SameUses(c, d) /\ d.lists = l
               /\ d.alive = c.alive /\ d.inCache = c.inCache /\ d.recent = c.recent
               /\ d.encoded = c.encoded /\ d.decoded = c.decoded /\ d.access = c.access
               /\ d.live = c.live /\ d.liveSize = c.liveSize /\ d.deadSize = c.deadSize
BY DEF Cache, SameUses

LEMMA LiveChanges ==
    ASSUME NEW c \in Cache, NEW l \in Seq(Resources)
    PROVE  LET d == [c EXCEPT !.live = l]
           IN  /\ d \in Cache /\ SameUses(c, d) /\ d.live = l
               /\ d.alive = c.alive /\ d.inCache = c.inCache /\ d.recent = c.recent
               /\ d.encoded = c.encoded /\ d.decoded = c.decoded /\ d.access = c.access
               /\ d.lists = c.lists /\ d.liveSize = c.liveSize /\ d.deadSize = c.deadSize
BY DEF Cache, SameUses

\* Nothing but the books and the sizes of resources is different.
SameResources(c, d) ==
    /\ SameUses(c, d)
    /\ d.alive = c.alive /\ d.inCache = c.inCache /\ d.recent = c.recent /\ d.access = c.access

LEMMA SameClients ==
    ASSUME NEW c, NEW d, d.page = c.page, d.embeds = c.embeds
    PROVE  \A r : HasClients(d, r) = HasClients(c, r)
BY DEF HasClients

LEMMA Inserted ==
    ASSUME NEW c \in Cache, NEW r \in c.inCache, InLists(c, c.inCache \ {r})
    PROVE  LET d == InsertInLRUList(c, r)
           IN  /\ d \in Cache /\ SameResources(c, d)
               /\ d.encoded = c.encoded /\ d.decoded = c.decoded
               /\ d.live = c.live /\ d.liveSize = c.liveSize /\ d.deadSize = c.deadSize
               /\ InLists(d, d.inCache)
<1> DEFINE q == QueueOf(c, r)
           l == [c.lists EXCEPT ![q] = <<r>> \o @]
           d == [c EXCEPT !.lists = l]
<1>0. r \in Resources /\ c.lists \in [Queues -> Seq(Resources)]
  BY DEF Cache
<1>1. q \in Queues
  BY <1>0, QueueInQueues
<1>2. /\ <<r>> \o c.lists[q] \in Seq(Resources)
      /\ ToSet(<<r>> \o c.lists[q]) = ToSet(c.lists[q]) \cup {r}
      /\ IsInjective(c.lists[q]) /\ r \notin ToSet(c.lists[q]) => IsInjective(<<r>> \o c.lists[q])
  <2>1. c.lists[q] \in Seq(Resources)
    BY <1>0, <1>1
  <2> HIDE DEF q
  <2> QED  BY <1>0, <2>1, PutFirst
<1>3. InsertInLRUList(c, r) = d
  BY <1>0, <1>1 DEF InsertInLRUList, Cache
<1>4. l \in [Queues -> Seq(Resources)]
  BY <1>0, <1>1, <1>2
<1>5. \A p \in Queues : l[p] = IF p = q THEN <<r>> \o c.lists[q] ELSE c.lists[p]
  BY <1>0, <1>1
<1> HIDE DEF l, d, q
<1>6. /\ d \in Cache /\ SameUses(c, d) /\ d.lists = l
      /\ d.alive = c.alive /\ d.inCache = c.inCache /\ d.recent = c.recent
      /\ d.encoded = c.encoded /\ d.decoded = c.decoded /\ d.access = c.access
      /\ d.live = c.live /\ d.liveSize = c.liveSize /\ d.deadSize = c.deadSize
  BY <1>4, ListsChange DEF d
<1>7. \A x : QueueOf(d, x) = QueueOf(c, x)
  BY <1>6 DEF QueueOf, Size
<1>8. ASSUME NEW p \in Queues
      PROVE  /\ ToSet(d.lists[p]) = {x \in d.inCache : QueueOf(d, x) = p}
             /\ IsInjective(d.lists[p])
  <2>1. /\ ToSet(c.lists[p]) = {x \in c.inCache \ {r} : QueueOf(c, x) = p}
        /\ IsInjective(c.lists[p])
    BY DEF InLists
  <2>2. CASE p = q
    <3>1. r \notin ToSet(c.lists[p]) /\ QueueOf(c, r) = q
      BY <2>1 DEF q
    <3> QED  BY <1>2, <1>5, <1>6, <1>7, <2>1, <2>2, <3>1
  <2>3. CASE p # q
    <3>1. QueueOf(c, r) # p
      BY <2>3 DEF q
    <3> QED  BY <1>5, <1>6, <1>7, <2>1, <2>3, <3>1
  <2> QED  BY <2>2, <2>3
<1>9. InLists(d, d.inCache)
  BY <1>8 DEF InLists
<1> QED  BY <1>3, <1>6, <1>9 DEF SameResources

LEMMA Unlisted ==
    ASSUME NEW c \in Cache, NEW r \in c.inCache, c.access[r] # 0, InLists(c, c.inCache)
    PROVE  LET d == RemoveFromLRUList(c, r)
           IN  /\ d \in Cache /\ SameResources(c, d)
               /\ d.encoded = c.encoded /\ d.decoded = c.decoded
               /\ d.live = c.live /\ d.liveSize = c.liveSize /\ d.deadSize = c.deadSize
               /\ InLists(d, d.inCache \ {r})
               /\ d.lists = [c.lists EXCEPT ![QueueOf(c, r)] = RemoveFirst(@, r)]
<1> DEFINE q == QueueOf(c, r)
           l == [c.lists EXCEPT ![q] = RemoveFirst(@, r)]
           d == [c EXCEPT !.lists = l]
<1>0. r \in Resources /\ c.lists \in [Queues -> Seq(Resources)]
  BY DEF Cache
<1>1. q \in Queues
  BY <1>0, QueueInQueues
<1>2. /\ RemoveFirst(c.lists[q], r) \in Seq(Resources)
      /\ ToSet(RemoveFirst(c.lists[q], r)) = ToSet(c.lists[q]) \ {r}
      /\ IsInjective(RemoveFirst(c.lists[q], r))
  <2>1. c.lists[q] \in Seq(Resources) /\ IsInjective(c.lists[q])
    BY <1>0, <1>1 DEF InLists
  <2> HIDE DEF q
  <2> QED  BY <2>1, RemovedFrom
<1>3. RemoveFromLRUList(c, r) = d
  BY <1>0, <1>1 DEF RemoveFromLRUList, Cache
<1>4. l \in [Queues -> Seq(Resources)]
  BY <1>0, <1>1, <1>2
<1>5. \A p \in Queues : l[p] = IF p = q THEN RemoveFirst(c.lists[q], r) ELSE c.lists[p]
  BY <1>0, <1>1
<1>l. l = [c.lists EXCEPT ![QueueOf(c, r)] = RemoveFirst(@, r)]
  OBVIOUS
<1> HIDE DEF l, d, q
<1>6. /\ d \in Cache /\ SameUses(c, d) /\ d.lists = l
      /\ d.alive = c.alive /\ d.inCache = c.inCache /\ d.recent = c.recent
      /\ d.encoded = c.encoded /\ d.decoded = c.decoded /\ d.access = c.access
      /\ d.live = c.live /\ d.liveSize = c.liveSize /\ d.deadSize = c.deadSize
  BY <1>4, ListsChange DEF d
<1>7. \A x : QueueOf(d, x) = QueueOf(c, x)
  BY <1>6 DEF QueueOf, Size
<1>8. ASSUME NEW p \in Queues
      PROVE  /\ ToSet(d.lists[p]) = {x \in d.inCache \ {r} : QueueOf(d, x) = p}
             /\ IsInjective(d.lists[p])
  <2>1. /\ ToSet(c.lists[p]) = {x \in c.inCache : QueueOf(c, x) = p}
        /\ IsInjective(c.lists[p])
    BY DEF InLists
  <2>2. CASE p = q
    BY <1>2, <1>5, <1>6, <1>7, <2>1, <2>2
  <2>3. CASE p # q
    <3>1. QueueOf(c, r) # p
      BY <2>3 DEF q
    <3> QED  BY <1>5, <1>6, <1>7, <2>1, <2>3, <3>1
  <2> QED  BY <2>2, <2>3
<1>9. InLists(d, d.inCache \ {r})
  BY <1>8 DEF InLists
<1> QED  BY <1>l, <1>3, <1>6, <1>9 DEF SameResources

LEMMA LeavesLive ==
    ASSUME NEW c \in Cache, NEW r, IsInjective(c.live),
           \A x \in ToSet(c.live) \ {r} : x \in c.inCache /\ HasClients(c, x) /\ c.decoded[x] > 0
    PROVE  LET d == RemoveFromLive(c, r)
           IN  /\ d \in Cache /\ SameResources(c, d)
               /\ d.encoded = c.encoded /\ d.decoded = c.decoded
               /\ d.lists = c.lists /\ d.liveSize = c.liveSize /\ d.deadSize = c.deadSize
               /\ InLive(d, d.inCache \ {r})
<1> DEFINE l == RemoveFirst(c.live, r)
           d == [c EXCEPT !.live = l]
<1>1. l \in Seq(Resources) /\ IsInjective(l) /\ ToSet(l) = ToSet(c.live) \ {r}
  <2>1. c.live \in Seq(Resources)
    BY DEF Cache
  <2> QED  BY <2>1, RemovedFrom
<1>2. RemoveFromLive(c, r) = d
  BY DEF RemoveFromLive, Cache
<1> HIDE DEF l, d
<1>3. /\ d \in Cache /\ SameUses(c, d) /\ d.live = l
      /\ d.alive = c.alive /\ d.inCache = c.inCache /\ d.recent = c.recent
      /\ d.encoded = c.encoded /\ d.decoded = c.decoded /\ d.access = c.access
      /\ d.lists = c.lists /\ d.liveSize = c.liveSize /\ d.deadSize = c.deadSize
  BY <1>1, LiveChanges DEF d
<1>4. \A x : HasClients(d, x) = HasClients(c, x)
  BY <1>3, SameClients DEF SameUses
<1>5. InLive(d, d.inCache \ {r})
  BY <1>1, <1>3, <1>4 DEF InLive
<1> QED  BY <1>2, <1>3, <1>5 DEF SameResources

\* The sizes of the others say nothing of a resource that changes.
LEMMA Resized ==
    ASSUME NEW c \in Cache, NEW d \in Cache, NEW r \in Resources, Sized(c),
           \A x \in Resources \ {r} : LiveSizeOf(d, x) = LiveSizeOf(c, x)
                                      /\ DeadSizeOf(d, x) = DeadSizeOf(c, x),
           d.liveSize = c.liveSize + LiveSizeOf(d, r) - LiveSizeOf(c, r),
           d.deadSize = c.deadSize + DeadSizeOf(d, r) - DeadSizeOf(c, r)
    PROVE  Sized(d)
<1>1. \A x \in Resources : /\ LiveSizeOf(c, x) \in Int /\ DeadSizeOf(c, x) \in Int
                           /\ LiveSizeOf(d, x) \in Int /\ DeadSizeOf(d, x) \in Int
  BY SizeInRange, MaxSizeIsNat DEF LiveSizeOf, DeadSizeOf
<1> DEFINE lc == [x \in Resources |-> LiveSizeOf(c, x)]
           ld == [x \in Resources |-> LiveSizeOf(d, x)]
           dc == [x \in Resources |-> DeadSizeOf(c, x)]
           dd == [x \in Resources |-> DeadSizeOf(d, x)]
<1>2. /\ lc \in [Resources -> Int] /\ ld \in [Resources -> Int]
      /\ dc \in [Resources -> Int] /\ dd \in [Resources -> Int]
  BY <1>1
<1>3. /\ \A x \in Resources \ {r} : ld[x] = lc[x] /\ dd[x] = dc[x]
      /\ ld[r] = LiveSizeOf(d, r) /\ lc[r] = LiveSizeOf(c, r)
      /\ dd[r] = DeadSizeOf(d, r) /\ dc[r] = DeadSizeOf(c, r)
  OBVIOUS
<1>4. /\ Sized(c) <=> c.liveSize = Total(lc) /\ c.deadSize = Total(dc)
      /\ Sized(d) <=> d.liveSize = Total(ld) /\ d.deadSize = Total(dd)
  BY DEF Sized
<1> HIDE DEF lc, ld, dc, dd
<1>5. Total(ld) = Total(lc) + ld[r] - lc[r]
  BY <1>2, <1>3, TotalChanges
<1>6. Total(dd) = Total(dc) + dd[r] - dc[r]
  BY <1>2, <1>3, TotalChanges
<1> QED  BY <1>3, <1>4, <1>5, <1>6

LEMMA Adjusted ==
    ASSUME NEW c \in Cache, NEW live, NEW delta \in Int
    PROVE  LET d == AdjustSize(c, live, delta)
           IN  /\ d \in Cache /\ SameResources(c, d)
               /\ live => d.liveSize = c.liveSize + delta /\ d.deadSize = c.deadSize
               /\ ~live => d.liveSize = c.liveSize /\ d.deadSize = c.deadSize + delta
               /\ d.encoded = c.encoded /\ d.decoded = c.decoded
               /\ d.lists = c.lists /\ d.live = c.live
<1> DEFINE d == AdjustSize(c, live, delta)
<1>1. c.liveSize \in Int /\ c.deadSize \in Int
  BY DEF Cache
<1>2. CASE live
  <2>1. c.liveSize + delta \in Int
    BY <1>1
  <2>2. d = [c EXCEPT !.liveSize = c.liveSize + delta]
    BY <1>2 DEF AdjustSize
  <2> HIDE DEF d
  <2>3. /\ d \in Cache /\ SameResources(c, d)
        /\ d.liveSize = c.liveSize + delta /\ d.deadSize = c.deadSize
        /\ d.encoded = c.encoded /\ d.decoded = c.decoded
        /\ d.lists = c.lists /\ d.live = c.live
    BY <2>1, <2>2 DEF Cache, SameUses, SameResources
  <2> QED  BY <1>2, <2>3 DEF d
<1>3. CASE ~live
  <2>1. c.deadSize + delta \in Int
    BY <1>1
  <2>2. d = [c EXCEPT !.deadSize = c.deadSize + delta]
    BY <1>3 DEF AdjustSize
  <2> HIDE DEF d
  <2>3. /\ d \in Cache /\ SameResources(c, d)
        /\ d.liveSize = c.liveSize /\ d.deadSize = c.deadSize + delta
        /\ d.encoded = c.encoded /\ d.decoded = c.decoded
        /\ d.lists = c.lists /\ d.live = c.live
    BY <2>1, <2>2 DEF Cache, SameUses, SameResources
  <2> QED  BY <1>3, <2>3 DEF d
<1> QED  BY <1>2, <1>3

LEMMA Moved ==
    ASSUME NEW c \in Cache, NEW r \in Resources, NEW k \in {-1, 1}
    PROVE  LET d == MoveSize(c, r, k)
           IN  /\ d \in Cache /\ SameResources(c, d)
               /\ d.liveSize = c.liveSize + k * Size(c, r)
               /\ d.deadSize = c.deadSize - k * Size(c, r)
               /\ d.encoded = c.encoded /\ d.decoded = c.decoded
               /\ d.lists = c.lists /\ d.live = c.live
<1> DEFINE a == c.liveSize + k * Size(c, r)
           b == c.deadSize - k * Size(c, r)
           d == MoveSize(c, r, k)
<1>1. c.liveSize \in Int /\ c.deadSize \in Int
  BY DEF Cache
<1>2. Size(c, r) \in Int /\ k \in Int
  BY SizeInRange, MaxSizeIsNat
<1>3. k * Size(c, r) \in Int
  BY <1>2
<1>4. a \in Int /\ b \in Int
  BY <1>1, <1>3
<1>5. d = [c EXCEPT !.liveSize = a, !.deadSize = b]
  BY DEF MoveSize, Cache
<1> HIDE DEF a, b, d
<1>6. /\ d \in Cache /\ SameResources(c, d) /\ d.liveSize = a /\ d.deadSize = b
      /\ d.encoded = c.encoded /\ d.decoded = c.decoded
      /\ d.lists = c.lists /\ d.live = c.live
  BY <1>4, <1>5 DEF Cache, SameUses, SameResources
<1> QED  BY <1>6 DEF a, b, d

(***************************************************************************)
(* A cache whose books are exact.                                          *)
(***************************************************************************)
Alive(c) ==
    /\ c \in Cache /\ c.inCache \subseteq c.alive
    /\ \A r \in Resources : r \in c.alive <=> c.access[r] # 0

Exact(c) == Alive(c) /\ InLists(c, c.inCache) /\ InLive(c, c.inCache) /\ Sized(c)

LEMMA OtherSizes ==
    ASSUME NEW c \in Cache, NEW d \in Cache, NEW r \in Resources, SameResources(c, d),
           \A x \in Resources \ {r} : d.encoded[x] = c.encoded[x] /\ d.decoded[x] = c.decoded[x]
    PROVE  \A x \in Resources \ {r} :
              /\ Size(d, x) = Size(c, x) /\ QueueOf(d, x) = QueueOf(c, x)
              /\ LiveSizeOf(d, x) = LiveSizeOf(c, x) /\ DeadSizeOf(d, x) = DeadSizeOf(c, x)
<1>1. \A x : HasClients(d, x) = HasClients(c, x)
  BY SameClients DEF SameResources, SameUses
<1>2. \A x \in Resources \ {r} : Size(d, x) = Size(c, x)
  BY DEF Size
<1> QED  BY <1>1, <1>2 DEF QueueOf, LiveSizeOf, DeadSizeOf, SameResources

LEMMA ResizedIs ==
    ASSUME NEW c, Exact(c), NEW r \in c.inCache,
           NEW m \in 0..MaxEncoded, NEW n \in 0..MaxDecoded
    PROVE  LET d == Resize(c, r, m, n)
           IN  /\ d \in Cache /\ SameResources(c, d)
               /\ d.encoded = [c.encoded EXCEPT ![r] = m]
               /\ d.decoded = [c.decoded EXCEPT ![r] = n]
               /\ InLists(d, d.inCache)
               /\ d.live = c.live /\ d.liveSize = c.liveSize /\ d.deadSize = c.deadSize
<1> DEFINE u == RemoveFromLRUList(c, r)
           v == [u EXCEPT !.encoded[r] = m, !.decoded[r] = n]
           d == InsertInLRUList(v, r)
<1>1. c \in Cache /\ r \in Resources /\ c.access[r] # 0 /\ InLists(c, c.inCache)
  BY DEF Exact, Alive, Cache
<1>2. /\ u \in Cache /\ SameResources(c, u)
      /\ u.encoded = c.encoded /\ u.decoded = c.decoded
      /\ u.live = c.live /\ u.liveSize = c.liveSize /\ u.deadSize = c.deadSize
      /\ InLists(u, u.inCache \ {r})
  BY <1>1, Unlisted
<1>v. v = [u EXCEPT !.encoded[r] = m, !.decoded[r] = n]
  OBVIOUS
<1> HIDE DEF u, v, d
<1>3. /\ v \in Cache /\ SameResources(u, v)
      /\ v.encoded = [u.encoded EXCEPT ![r] = m]
      /\ v.decoded = [u.decoded EXCEPT ![r] = n]
      /\ v.lists = u.lists /\ v.live = u.live
      /\ v.liveSize = u.liveSize /\ v.deadSize = u.deadSize
  BY <1>1, <1>2, <1>v DEF Cache, SameUses, SameResources
<1>4. InLists(v, v.inCache \ {r})
  <2>1. u.encoded \in [Resources -> 0..MaxEncoded] /\ u.decoded \in [Resources -> 0..MaxDecoded]
    BY <1>2 DEF Cache
  <2>4. \A x \in Resources \ {r} : v.encoded[x] = u.encoded[x] /\ v.decoded[x] = u.decoded[x]
    BY <1>3, <2>1
  <2>2. \A x \in Resources \ {r} :
           /\ Size(v, x) = Size(u, x) /\ QueueOf(v, x) = QueueOf(u, x)
           /\ LiveSizeOf(v, x) = LiveSizeOf(u, x) /\ DeadSizeOf(v, x) = DeadSizeOf(u, x)
    BY <1>1, <1>2, <1>3, <2>4, OtherSizes
  <2>3. v.inCache = u.inCache /\ u.inCache \subseteq Resources
    BY <1>2, <1>3 DEF SameResources, Cache
  <2> QED  BY <1>2, <1>3, <2>2, <2>3 DEF InLists
<1>5. r \in v.inCache
  BY <1>2, <1>3 DEF SameResources
<1>6. /\ d \in Cache /\ SameResources(v, d)
      /\ d.encoded = v.encoded /\ d.decoded = v.decoded
      /\ d.live = v.live /\ d.liveSize = v.liveSize /\ d.deadSize = v.deadSize
      /\ InLists(d, d.inCache)
  BY <1>3, <1>4, <1>5, Inserted DEF d
<1>7. SameResources(c, d)
  BY <1>2, <1>3, <1>6 DEF SameResources, SameUses
<1>8. d = Resize(c, r, m, n)
  BY DEF Resize, d, v, u
<1> QED  BY <1>2, <1>3, <1>6, <1>7, <1>8

\* The books do not depend on what is not in the cache.
LEMMA BooksStay ==
    ASSUME NEW c, Exact(c), NEW d, Alive(d),
           d.inCache = c.inCache, d.lists = c.lists, d.live = c.live,
           d.liveSize = c.liveSize, d.deadSize = c.deadSize,
           \A x \in c.inCache : /\ d.encoded[x] = c.encoded[x] /\ d.decoded[x] = c.decoded[x]
                                /\ d.access[x] = c.access[x]
                                /\ HasClients(d, x) = HasClients(c, x)
    PROVE  Exact(d)
<1>1. \A x \in c.inCache : Size(d, x) = Size(c, x) /\ QueueOf(d, x) = QueueOf(c, x)
  BY DEF Size, QueueOf
<1>2. InLists(d, d.inCache)
  BY <1>1 DEF Exact, InLists
<1>3. InLive(d, d.inCache)
  BY DEF Exact, InLive
<1>4. \A x \in Resources : LiveSizeOf(d, x) = LiveSizeOf(c, x) /\ DeadSizeOf(d, x) = DeadSizeOf(c, x)
  BY <1>1 DEF LiveSizeOf, DeadSizeOf
<1>5. /\ [x \in Resources |-> LiveSizeOf(d, x)] = [x \in Resources |-> LiveSizeOf(c, x)]
      /\ [x \in Resources |-> DeadSizeOf(d, x)] = [x \in Resources |-> DeadSizeOf(c, x)]
  BY <1>4
<1>6. Sized(d)
  BY <1>5 DEF Exact, Sized
<1> QED  BY <1>2, <1>3, <1>6 DEF Exact

LEMMA JoinsLive ==
    ASSUME NEW c \in Cache, NEW r \in c.inCache, HasClients(c, r), c.decoded[r] > 0,
           InLive(c, c.inCache), r \notin ToSet(c.live)
    PROVE  LET d == [c EXCEPT !.live = <<r>> \o @]
           IN  /\ d \in Cache /\ SameResources(c, d)
               /\ d.encoded = c.encoded /\ d.decoded = c.decoded
               /\ d.lists = c.lists /\ d.liveSize = c.liveSize /\ d.deadSize = c.deadSize
               /\ InLive(d, d.inCache)
<1> DEFINE l == <<r>> \o c.live
           d == [c EXCEPT !.live = l]
<1>1. r \in Resources /\ c.live \in Seq(Resources)
  BY DEF Cache
<1>2. l \in Seq(Resources) /\ IsInjective(l) /\ ToSet(l) = ToSet(c.live) \cup {r}
  BY <1>1, PutFirst DEF InLive
<1>3. d = [c EXCEPT !.live = <<r>> \o @]
  BY DEF Cache
<1> HIDE DEF l, d
<1>4. /\ d \in Cache /\ SameUses(c, d) /\ d.live = l
      /\ d.alive = c.alive /\ d.inCache = c.inCache /\ d.recent = c.recent
      /\ d.encoded = c.encoded /\ d.decoded = c.decoded /\ d.access = c.access
      /\ d.lists = c.lists /\ d.liveSize = c.liveSize /\ d.deadSize = c.deadSize
  BY <1>2, LiveChanges DEF d
<1>5. \A x : HasClients(d, x) = HasClients(c, x)
  BY <1>4, SameClients DEF SameUses
<1>6. InLive(d, d.inCache)
  BY <1>2, <1>4, <1>5 DEF InLive
<1> QED  BY <1>3, <1>4, <1>6 DEF SameResources

\* setDecodedSize() and setEncodedSize() in the cache, once the list is right.
LEMMA Regrown ==
    ASSUME NEW c, Exact(c), NEW r \in c.inCache,
           NEW u \in Cache, SameResources(c, u), InLists(u, u.inCache), InLive(u, u.inCache),
           \A x \in Resources \ {r} : u.encoded[x] = c.encoded[x] /\ u.decoded[x] = c.decoded[x],
           u.liveSize = c.liveSize, u.deadSize = c.deadSize,
           NEW delta \in Int, Size(u, r) = Size(c, r) + delta
    PROVE  LET d == AdjustSize(u, HasClients(c, r), delta)
           IN  /\ Exact(d) /\ SameResources(c, d)
               /\ d.encoded = u.encoded /\ d.decoded = u.decoded
               /\ HasClients(c, r) => d.liveSize = c.liveSize + delta /\ d.deadSize = c.deadSize
               /\ ~HasClients(c, r) => d.liveSize = c.liveSize /\ d.deadSize = c.deadSize + delta
<1> DEFINE h == HasClients(c, r)
           d == AdjustSize(u, h, delta)
<1>1. c \in Cache /\ r \in Resources
      /\ c.encoded \in [Resources -> 0..MaxEncoded] /\ c.decoded \in [Resources -> 0..MaxDecoded]
  BY DEF Exact, Alive, Cache
<1>h. h = HasClients(c, r)
  OBVIOUS
<1> HIDE DEF h
<1>2. /\ d \in Cache /\ SameResources(u, d)
      /\ h => d.liveSize = u.liveSize + delta /\ d.deadSize = u.deadSize
      /\ ~h => d.liveSize = u.liveSize /\ d.deadSize = u.deadSize + delta
      /\ d.encoded = u.encoded /\ d.decoded = u.decoded
      /\ d.lists = u.lists /\ d.live = u.live
  BY <1>1, Adjusted
<1> HIDE DEF d
<1>3. SameResources(c, d)
  BY <1>2 DEF SameResources, SameUses
<1>4. \A x : HasClients(d, x) = HasClients(u, x) /\ HasClients(d, x) = HasClients(c, x)
  BY <1>2, <1>3, SameClients DEF SameResources, SameUses
<1>5. Alive(d)
  BY <1>2, <1>3 DEF Exact, Alive, SameResources
<1>6. InLists(d, d.inCache)
  BY <1>2 DEF InLists, QueueOf, Size, SameResources
<1>7. InLive(d, d.inCache)
  BY <1>2, <1>4 DEF InLive, SameResources
<1>8. \A x \in Resources \ {r} : d.encoded[x] = c.encoded[x] /\ d.decoded[x] = c.decoded[x]
  BY <1>2
<1>9. \A x \in Resources \ {r} :
         /\ Size(d, x) = Size(c, x) /\ QueueOf(d, x) = QueueOf(c, x)
         /\ LiveSizeOf(d, x) = LiveSizeOf(c, x) /\ DeadSizeOf(d, x) = DeadSizeOf(c, x)
  BY <1>1, <1>2, <1>3, <1>8, OtherSizes
<1>10. Size(d, r) = Size(c, r) + delta /\ Size(c, r) \in Int
  <2>1. Size(d, r) = Size(u, r)
    BY <1>2 DEF Size
  <2> QED  BY <1>1, <2>1, SizeInRange, MaxSizeIsNat
<1>11. /\ d.liveSize = c.liveSize + LiveSizeOf(d, r) - LiveSizeOf(c, r)
       /\ d.deadSize = c.deadSize + DeadSizeOf(d, r) - DeadSizeOf(c, r)
  <2>1. r \in d.inCache /\ c.liveSize \in Int /\ c.deadSize \in Int
    BY <1>1, <1>3 DEF SameResources, Cache
  <2>2. CASE h
    <3>1. /\ LiveSizeOf(d, r) = Size(d, r) /\ LiveSizeOf(c, r) = Size(c, r)
          /\ DeadSizeOf(d, r) = 0 /\ DeadSizeOf(c, r) = 0
      BY <1>h, <1>4, <2>1, <2>2 DEF LiveSizeOf, DeadSizeOf
    <3> QED  BY <1>2, <1>10, <2>1, <2>2, <3>1
  <2>3. CASE ~h
    <3>1. /\ LiveSizeOf(d, r) = 0 /\ LiveSizeOf(c, r) = 0
          /\ DeadSizeOf(d, r) = Size(d, r) /\ DeadSizeOf(c, r) = Size(c, r)
      BY <1>h, <1>4, <2>1, <2>3 DEF LiveSizeOf, DeadSizeOf
    <3> QED  BY <1>2, <1>10, <2>1, <2>3, <3>1
  <2> QED  BY <2>2, <2>3
<1>12. Sized(d)
  BY <1>1, <1>2, <1>9, <1>11, Resized DEF Exact
<1>13. Exact(d)
  BY <1>5, <1>6, <1>7, <1>12 DEF Exact
<1> QED  BY <1>h, <1>2, <1>3, <1>13 DEF d

LEMMA DecodedSizeSet ==
    ASSUME NEW c, Exact(c), NEW r \in Resources, NEW n \in 0..MaxDecoded
    PROVE  LET d == SetDecodedSize(c, r, n)
               delta == n - c.decoded[r]
           IN  /\ Exact(d) /\ SameResources(c, d)
               /\ d.encoded = c.encoded /\ d.decoded = [c.decoded EXCEPT ![r] = n]
               /\ d.liveSize = IF r \in c.inCache /\ HasClients(c, r)
                               THEN c.liveSize + delta ELSE c.liveSize
               /\ d.deadSize = IF r \in c.inCache /\ ~HasClients(c, r)
                               THEN c.deadSize + delta ELSE c.deadSize
<1> DEFINE d == SetDecodedSize(c, r, n)
           delta == n - c.decoded[r]
<1>0. /\ c \in Cache /\ c.liveSize \in Int /\ c.deadSize \in Int
      /\ c.encoded \in [Resources -> 0..MaxEncoded] /\ c.decoded \in [Resources -> 0..MaxDecoded]
      /\ c.encoded[r] \in 0..MaxEncoded /\ c.decoded[r] \in 0..MaxDecoded /\ delta \in Int
  <2>1. c \in Cache
    BY DEF Exact, Alive
  <2>2. /\ c.liveSize \in Int /\ c.deadSize \in Int
        /\ c.encoded \in [Resources -> 0..MaxEncoded] /\ c.decoded \in [Resources -> 0..MaxDecoded]
    BY <2>1 DEF Cache
  <2>3. c.encoded[r] \in 0..MaxEncoded /\ c.decoded[r] \in 0..MaxDecoded
    BY <2>2
  <2> QED  BY <2>1, <2>2, <2>3
<1>1. CASE n = c.decoded[r]
  <2>1. d = c
    BY <1>1 DEF SetDecodedSize
  <2>2. delta = 0 /\ c.decoded = [c.decoded EXCEPT ![r] = n]
    BY <1>0, <1>1
  <2> HIDE DEF d, delta
  <2>3. SameResources(c, c)
    BY DEF SameResources, SameUses
  <2> QED  BY <1>0, <2>1, <2>2, <2>3 DEF d, delta
<1>2. CASE n # c.decoded[r] /\ r \notin c.inCache
  <2>1. d = [c EXCEPT !.decoded[r] = n]
    BY <1>2 DEF SetDecodedSize
  <2> HIDE DEF d
  <2>2. /\ d \in Cache /\ SameResources(c, d)
        /\ d.encoded = c.encoded /\ d.decoded = [c.decoded EXCEPT ![r] = n]
        /\ d.lists = c.lists /\ d.live = c.live
        /\ d.liveSize = c.liveSize /\ d.deadSize = c.deadSize
    BY <1>0, <2>1 DEF Cache, SameUses, SameResources
  <2>3. Alive(d) /\ \A x : HasClients(d, x) = HasClients(c, x)
    BY <2>2, SameClients DEF Exact, Alive, SameResources, SameUses
  <2>4. \A x \in c.inCache : d.decoded[x] = c.decoded[x]
    BY <1>0, <1>2, <2>2 DEF Cache
  <2>5. Exact(d)
    BY <2>2, <2>3, <2>4, BooksStay DEF SameResources
  <2> HIDE DEF delta
  <2> QED  BY <1>0, <1>2, <2>2, <2>5 DEF d
<1>3. CASE n # c.decoded[r] /\ r \in c.inCache
  <2> DEFINE m == c.encoded[r]
             u == Resize(c, r, m, n)
             v == IF n = 0 THEN RemoveFromLive(u, r)
                  ELSE IF HasClients(c, r) /\ r \notin ToSet(c.live)
                  THEN [u EXCEPT !.live = <<r>> \o @] ELSE u
  <2>1. d = AdjustSize(v, HasClients(c, r), delta)
    BY <1>3 DEF SetDecodedSize
  <2>2. /\ u \in Cache /\ SameResources(c, u)
        /\ u.encoded = [c.encoded EXCEPT ![r] = m] /\ u.decoded = [c.decoded EXCEPT ![r] = n]
        /\ InLists(u, u.inCache)
        /\ u.live = c.live /\ u.liveSize = c.liveSize /\ u.deadSize = c.deadSize
    BY <1>0, <1>3, ResizedIs
  <2> HIDE DEF u, d, delta
  <2>3. /\ \A x : HasClients(u, x) = HasClients(c, x)
        /\ u.inCache = c.inCache
        /\ \A x \in Resources \ {r} : u.decoded[x] = c.decoded[x]
        /\ u.decoded[r] = n
    BY <1>0, <2>2, SameClients DEF SameResources, SameUses
  <2>4. /\ IsInjective(c.live)
        /\ \A x \in ToSet(c.live) : x \in Resources /\ x \in c.inCache /\ HasClients(c, x) /\ c.decoded[x] > 0
    BY <1>0 DEF Exact, InLive, Cache
  <2>5. /\ v \in Cache /\ SameResources(u, v)
        /\ v.encoded = u.encoded /\ v.decoded = u.decoded
        /\ v.lists = u.lists /\ v.liveSize = u.liveSize /\ v.deadSize = u.deadSize
        /\ InLive(v, v.inCache)
    <3>1. CASE n = 0
      <4>1. v = RemoveFromLive(u, r)
        BY <3>1
      <4> HIDE DEF v
      <4>2. /\ v \in Cache /\ SameResources(u, v)
            /\ v.encoded = u.encoded /\ v.decoded = u.decoded
            /\ v.lists = u.lists /\ v.liveSize = u.liveSize /\ v.deadSize = u.deadSize
            /\ InLive(v, v.inCache \ {r})
        BY <2>2, <2>3, <2>4, <4>1, LeavesLive
      <4> QED  BY <4>2 DEF InLive
    <3>2. CASE n # 0
      <4>1. n > 0
        BY <3>2
      <4>2. InLive(u, u.inCache)
        BY <2>2, <2>3, <2>4, <4>1 DEF InLive
      <4>3. CASE HasClients(c, r) /\ r \notin ToSet(c.live)
        <5>1. v = [u EXCEPT !.live = <<r>> \o @]
          BY <3>2, <4>3
        <5> HIDE DEF v
        <5> QED  BY <1>3, <2>2, <2>3, <4>1, <4>2, <4>3, <5>1, JoinsLive
      <4>4. CASE ~(HasClients(c, r) /\ r \notin ToSet(c.live))
        <5>1. v = u
          BY <3>2, <4>4
        <5> HIDE DEF v
        <5> QED  BY <2>2, <4>2, <5>1 DEF SameResources, SameUses
      <4> QED  BY <4>3, <4>4
    <3> QED  BY <3>1, <3>2
  <2> HIDE DEF v
  <2>6. InLists(v, v.inCache)
    BY <2>2, <2>5 DEF InLists, QueueOf, Size, SameResources
  <2>7. SameResources(c, v)
    BY <2>2, <2>5 DEF SameResources, SameUses
  <2>9. /\ Exact(d) /\ SameResources(c, d)
        /\ d.encoded = v.encoded /\ d.decoded = v.decoded
        /\ HasClients(c, r) => d.liveSize = c.liveSize + delta /\ d.deadSize = c.deadSize
        /\ ~HasClients(c, r) => d.liveSize = c.liveSize /\ d.deadSize = c.deadSize + delta
    <3> HIDE DEF m
    <3>1. \A x \in Resources \ {r} : v.encoded[x] = c.encoded[x] /\ v.decoded[x] = c.decoded[x]
      BY <1>0, <2>2, <2>5
    <3>2. v.liveSize = c.liveSize /\ v.deadSize = c.deadSize
      BY <2>2, <2>5
    <3>3. Size(v, r) = Size(c, r) + delta
      <4>1. v.encoded[r] = c.encoded[r] /\ v.decoded[r] = n
        BY <1>0, <2>2, <2>5 DEF m
      <4> QED  BY <1>0, <4>1 DEF Size, Overhead, delta
    <3> QED  BY <1>0, <1>3, <2>1, <2>5, <2>6, <2>7, <3>1, <3>2, <3>3, Regrown
  <2>10. d.encoded = c.encoded /\ d.decoded = [c.decoded EXCEPT ![r] = n]
    BY <1>0, <2>2, <2>5, <2>9
  <2>11. CASE HasClients(c, r)
    BY <1>0, <1>3, <2>9, <2>10, <2>11 DEF d, delta
  <2>12. CASE ~HasClients(c, r)
    BY <1>0, <1>3, <2>9, <2>10, <2>12 DEF d, delta
  <2> QED  BY <2>11, <2>12
<1> QED  BY <1>1, <1>2, <1>3

LEMMA EncodedSizeSet ==
    ASSUME NEW c, Exact(c), NEW r \in Resources, NEW m \in 0..MaxEncoded
    PROVE  LET d == SetEncodedSize(c, r, m)
           IN  /\ Exact(d) /\ SameResources(c, d)
               /\ d.decoded = c.decoded /\ d.encoded = [c.encoded EXCEPT ![r] = m]
<1> DEFINE d == SetEncodedSize(c, r, m)
           delta == m - c.encoded[r]
<1>0. /\ c \in Cache
      /\ c.encoded \in [Resources -> 0..MaxEncoded] /\ c.decoded \in [Resources -> 0..MaxDecoded]
      /\ c.encoded[r] \in 0..MaxEncoded /\ c.decoded[r] \in 0..MaxDecoded /\ delta \in Int
  <2>1. c \in Cache
    BY DEF Exact, Alive
  <2>2. c.encoded \in [Resources -> 0..MaxEncoded] /\ c.decoded \in [Resources -> 0..MaxDecoded]
    BY <2>1 DEF Cache
  <2>3. c.encoded[r] \in 0..MaxEncoded /\ c.decoded[r] \in 0..MaxDecoded
    BY <2>2
  <2> QED  BY <2>1, <2>2, <2>3
<1>1. CASE m = c.encoded[r]
  <2>1. d = c
    BY <1>1 DEF SetEncodedSize
  <2>2. c.encoded = [c.encoded EXCEPT ![r] = m]
    BY <1>0, <1>1
  <2> HIDE DEF d, delta
  <2>3. SameResources(c, c)
    BY DEF SameResources, SameUses
  <2> QED  BY <1>0, <2>1, <2>2, <2>3 DEF d
<1>2. CASE m # c.encoded[r] /\ r \notin c.inCache
  <2>1. d = [c EXCEPT !.encoded[r] = m]
    BY <1>2 DEF SetEncodedSize
  <2> HIDE DEF d, delta
  <2>2. /\ d \in Cache /\ SameResources(c, d)
        /\ d.decoded = c.decoded /\ d.encoded = [c.encoded EXCEPT ![r] = m]
        /\ d.lists = c.lists /\ d.live = c.live
        /\ d.liveSize = c.liveSize /\ d.deadSize = c.deadSize
    BY <1>0, <2>1 DEF Cache, SameUses, SameResources
  <2>3. Alive(d) /\ \A x : HasClients(d, x) = HasClients(c, x)
    BY <2>2, SameClients DEF Exact, Alive, SameResources, SameUses
  <2>4. \A x \in c.inCache : d.encoded[x] = c.encoded[x]
    BY <1>0, <1>2, <2>2 DEF Cache
  <2>5. Exact(d)
    BY <2>2, <2>3, <2>4, BooksStay DEF SameResources
  <2> QED  BY <2>2, <2>5 DEF d
<1>3. CASE m # c.encoded[r] /\ r \in c.inCache
  <2> DEFINE n == c.decoded[r]
             u == Resize(c, r, m, n)
  <2>1. d = AdjustSize(u, HasClients(c, r), delta)
    BY <1>3 DEF SetEncodedSize
  <2>2. /\ u \in Cache /\ SameResources(c, u)
        /\ u.encoded = [c.encoded EXCEPT ![r] = m] /\ u.decoded = [c.decoded EXCEPT ![r] = n]
        /\ InLists(u, u.inCache)
        /\ u.live = c.live /\ u.liveSize = c.liveSize /\ u.deadSize = c.deadSize
    BY <1>0, <1>3, ResizedIs
  <2>3. [c.decoded EXCEPT ![r] = n] = c.decoded
    BY <1>0
  <2> HIDE DEF u, d, delta, n
  <2>4. /\ \A x : HasClients(u, x) = HasClients(c, x)
        /\ u.inCache = c.inCache /\ u.decoded = c.decoded
    BY <2>2, <2>3, SameClients DEF SameResources, SameUses
  <2>5. InLive(u, u.inCache)
    BY <2>2, <2>4 DEF Exact, InLive
  <2>6. \A x \in Resources \ {r} : u.encoded[x] = c.encoded[x] /\ u.decoded[x] = c.decoded[x]
    BY <1>0, <2>2, <2>4
  <2>7. Size(u, r) = Size(c, r) + delta
    <3>1. u.encoded[r] = m /\ u.decoded[r] = c.decoded[r]
      BY <1>0, <2>2, <2>4
    <3> QED  BY <1>0, <3>1 DEF Size, Overhead, delta
  <2>8. /\ Exact(d) /\ SameResources(c, d)
        /\ d.encoded = u.encoded /\ d.decoded = u.decoded
    BY <1>0, <1>3, <2>1, <2>2, <2>5, <2>6, <2>7, Regrown
  <2> QED  BY <2>2, <2>4, <2>8 DEF d
<1> QED  BY <1>1, <1>2, <1>3

(***************************************************************************)
(* What destroying decoded data leaves: the books, all uses, and smaller   *)
(* resources. Enough is what pruning is for.                               *)
(***************************************************************************)
Shrunk(c, d) ==
    /\ Exact(d) /\ SameResources(c, d)
    /\ \A x \in Resources : Size(d, x) <= Size(c, x)
    /\ d.liveSize <= c.liveSize /\ d.deadSize <= c.deadSize

Enough(c) == DeadFits(c) \/ \A r \in c.inCache : ~Evictable(c, r)

LEMMA ShrunkIsTransitive ==
    ASSUME NEW a, NEW b, NEW c, Exact(a), Shrunk(a, b), Shrunk(b, c)
    PROVE  Shrunk(a, c)
<1>1. SameResources(a, c)
  BY DEF Shrunk, SameResources, SameUses
<1>2. /\ a.liveSize \in Int /\ a.deadSize \in Int /\ b.liveSize \in Int /\ b.deadSize \in Int
      /\ c.liveSize \in Int /\ c.deadSize \in Int
      /\ a \in Cache /\ b \in Cache /\ c \in Cache
  BY DEF Shrunk, Exact, Alive, Cache
<1>3. \A x \in Resources : Size(a, x) \in Int /\ Size(b, x) \in Int /\ Size(c, x) \in Int
  BY <1>2, SizeInRange, MaxSizeIsNat
<1>4. \A x \in Resources : Size(c, x) <= Size(a, x)
  BY <1>3 DEF Shrunk
<1> QED  BY <1>1, <1>2, <1>4 DEF Shrunk

LEMMA ShrunkIsReflexive == \A c : Exact(c) => Shrunk(c, c)
<1> TAKE c
<1> HAVE Exact(c)
<1>1. c \in Cache /\ c.liveSize \in Int /\ c.deadSize \in Int
  BY DEF Exact, Alive, Cache
<1>2. \A x \in Resources : Size(c, x) \in Int
  BY <1>1, SizeInRange, MaxSizeIsNat
<1> QED  BY <1>1, <1>2 DEF Shrunk, SameResources, SameUses

LEMMA DecodedDataDestroyed ==
    ASSUME NEW c, Exact(c), NEW r \in Resources
    PROVE  /\ Shrunk(c, DestroyDecodedData(c, r)) /\ DestroyDecodedData(c, r).encoded = c.encoded
           /\ DestroyDecodedData(c, r).decoded = [c.decoded EXCEPT ![r] = 0]
<1> DEFINE d == SetDecodedSize(c, r, 0)
           delta == 0 - c.decoded[r]
<1>0. /\ c \in Cache /\ c.liveSize \in Int /\ c.deadSize \in Int
      /\ c.encoded \in [Resources -> 0..MaxEncoded] /\ c.decoded \in [Resources -> 0..MaxDecoded]
      /\ MaxDecoded \in Nat /\ MaxEncoded \in Nat
  BY ConstantsAssumption DEF Exact, Alive, Cache
<1>1. /\ Exact(d) /\ SameResources(c, d)
      /\ d.encoded = c.encoded /\ d.decoded = [c.decoded EXCEPT ![r] = 0]
      /\ d.liveSize = IF r \in c.inCache /\ HasClients(c, r)
                      THEN c.liveSize + delta ELSE c.liveSize
      /\ d.deadSize = IF r \in c.inCache /\ ~HasClients(c, r)
                      THEN c.deadSize + delta ELSE c.deadSize
  <2>1. 0 \in 0..MaxDecoded
    BY <1>0
  <2> QED  BY <2>1, DecodedSizeSet
<1> HIDE DEF d
<1>2. delta \in Int /\ delta <= 0
  BY <1>0
<1> HIDE DEF delta
<1>3. d.liveSize <= c.liveSize /\ d.deadSize <= c.deadSize
  BY <1>0, <1>1, <1>2
<1>4. ASSUME NEW x \in Resources PROVE Size(d, x) <= Size(c, x)
  <2>1. /\ c.encoded[x] \in 0..MaxEncoded /\ c.decoded[x] \in 0..MaxDecoded
        /\ d.encoded[x] = c.encoded[x] /\ (d.decoded[x] = 0 \/ d.decoded[x] = c.decoded[x])
    BY <1>0, <1>1
  <2> QED  BY <2>1, <1>0 DEF Size, Overhead
<1> QED  BY <1>1, <1>3, <1>4 DEF Shrunk, DestroyDecodedData, d

LEMMA CapacityIs ==
    \A c \in Cache : /\ {c.capacity.min, c.capacity.max, c.capacity.total} \subseteq Nat
                     /\ c.capacity.min <= c.capacity.max /\ c.capacity.max <= c.capacity.total
                     /\ DeadCapacity(c) \in Nat /\ DeadCapacity(c) <= c.capacity.max
<1> TAKE c \in Cache
<1>1. /\ {c.capacity.min, c.capacity.max, c.capacity.total} \subseteq Nat
      /\ c.capacity.min <= c.capacity.max /\ c.capacity.max <= c.capacity.total
      /\ c.liveSize \in Int
  BY ConstantsAssumption DEF Cache
<1> QED  BY <1>1 DEF DeadCapacity, MinOf, MaxOf

\* Enough stays enough.
LEMMA EnoughStays ==
    ASSUME NEW c, NEW d, Exact(c), Shrunk(c, d)
    PROVE  /\ DeadCapacity(c) <= DeadCapacity(d)
           /\ DeadFits(c) => DeadFits(d)
           /\ \A x : Evictable(d, x) = Evictable(c, x)
           /\ Enough(c) => Enough(d)
<1>1. /\ c \in Cache /\ d \in Cache /\ d.capacity = c.capacity /\ d.inCache = c.inCache
      /\ c.liveSize \in Int /\ c.deadSize \in Int /\ d.liveSize \in Int /\ d.deadSize \in Int
      /\ d.liveSize <= c.liveSize /\ d.deadSize <= c.deadSize
  BY DEF Shrunk, Exact, Alive, Cache, SameResources, SameUses
<1>2. /\ {c.capacity.min, c.capacity.max, c.capacity.total} \subseteq Nat
      /\ DeadCapacity(c) \in Nat /\ DeadCapacity(d) \in Nat
  BY <1>1, CapacityIs
<1>3. DeadCapacity(c) <= DeadCapacity(d)
  BY <1>1, <1>2 DEF DeadCapacity, MinOf, MaxOf
<1>4. DeadFits(c) => DeadFits(d)
  BY <1>1, <1>2, <1>3 DEF DeadFits
<1>5. \A x : Evictable(d, x) = Evictable(c, x)
  BY SameClients DEF Shrunk, SameResources, SameUses, Evictable
<1> QED  BY <1>1, <1>3, <1>4, <1>5 DEF Enough

(***************************************************************************)
(* Operations on the cache. What is not about the books: a resource that   *)
(* is being validated is alive and out of the cache, and has one validator.*)
(***************************************************************************)
Linked(c) ==
    /\ \A n \in Resources : c.revalidates[n] # None => c.revalidates[n] \in c.alive \ c.inCache
    /\ \A n, m \in Resources :
          c.revalidates[n] # None /\ c.revalidates[n] = c.revalidates[m] => n = m

Good(c) == Exact(c) /\ Linked(c)

\* Only uses are different.
SameBooks(c, d) ==
    /\ d \in Cache
    /\ d.alive = c.alive /\ d.inCache = c.inCache
    /\ d.encoded = c.encoded /\ d.decoded = c.decoded /\ d.access = c.access
    /\ d.lists = c.lists /\ d.live = c.live
    /\ d.liveSize = c.liveSize /\ d.deadSize = c.deadSize

LEMMA UsesChange ==
    ASSUME NEW c, Exact(c), NEW d, SameBooks(c, d),
           \A x \in c.inCache : HasClients(d, x) = HasClients(c, x)
    PROVE  Exact(d)
<1>1. Alive(d)
  BY DEF Exact, Alive, SameBooks
<1> QED  BY <1>1, BooksStay DEF SameBooks

LEMMA TakenOut ==
    ASSUME NEW c, Exact(c), NEW r \in Resources
    PROVE  LET d == TakeOut(c, r)
           IN  /\ Exact(d) /\ SameUses(c, d) /\ d.inCache = c.inCache \ {r}
               /\ d.alive = c.alive /\ d.encoded = c.encoded /\ d.decoded = c.decoded
               /\ d.access = c.access /\ d.recent = c.recent
               /\ r \in c.inCache => d.lists = [c.lists EXCEPT ![QueueOf(c, r)] = RemoveFirst(@, r)]
               /\ ~HasClients(c, r) => d.liveSize = c.liveSize /\ d.deadSize <= c.deadSize
<1> DEFINE h == HasClients(c, r)
           u == RemoveFromLRUList(c, r)
           v == RemoveFromLive(u, r)
           w == [v EXCEPT !.inCache = @ \ {r}]
           delta == -Size(c, r)
           d == TakeOut(c, r)
<1>a. c \in Cache /\ c.liveSize \in Int /\ c.deadSize \in Int
  BY DEF Exact, Alive, Cache
<1>0. c \in Cache /\ c.liveSize \in Int /\ c.deadSize \in Int /\ Size(c, r) \in Nat
  BY <1>a, SizeInRange, MaxSizeIsNat
<1>1. CASE r \notin c.inCache
  <2>1. d = c /\ c.inCache = c.inCache \ {r}
    BY <1>1 DEF TakeOut
  <2> HIDE DEF d
  <2> QED  BY <1>0, <1>1, <2>1 DEF SameUses, d
<1>2. CASE r \in c.inCache
  <2>1. /\ u \in Cache /\ SameResources(c, u)
        /\ u.encoded = c.encoded /\ u.decoded = c.decoded
        /\ u.live = c.live /\ u.liveSize = c.liveSize /\ u.deadSize = c.deadSize
        /\ InLists(u, u.inCache \ {r})
        /\ u.lists = [c.lists EXCEPT ![QueueOf(c, r)] = RemoveFirst(@, r)]
    <3>1. c.access[r] # 0 /\ InLists(c, c.inCache)
      BY <1>2 DEF Exact, Alive
    <3> HIDE DEF u
    <3> QED  BY <1>0, <1>2, <3>1, Unlisted DEF u
  <2>d. d = AdjustSize(w, h, delta)
    BY <1>2 DEF TakeOut, OutOfLists
  <2>w. w = [v EXCEPT !.inCache = v.inCache \ {r}]
    OBVIOUS
  <2>h. delta \in Int /\ delta = -Size(c, r)
    BY <1>0
  <2> HIDE DEF u
  <2>2. /\ \A x : HasClients(u, x) = HasClients(c, x)
        /\ u.inCache = c.inCache
    BY <2>1, SameClients DEF SameResources, SameUses
  <2>3. /\ v \in Cache /\ SameResources(u, v)
        /\ v.encoded = u.encoded /\ v.decoded = u.decoded
        /\ v.lists = u.lists /\ v.liveSize = u.liveSize /\ v.deadSize = u.deadSize
        /\ InLive(v, v.inCache \ {r})
    <3>1. IsInjective(u.live) /\ \A x \in ToSet(u.live) \ {r} : x \in u.inCache /\ HasClients(u, x) /\ u.decoded[x] > 0
      BY <2>1, <2>2 DEF Exact, InLive
    <3> HIDE DEF v
    <3> QED  BY <2>1, <3>1, LeavesLive DEF v
  <2> HIDE DEF v, w, delta, d, h
  <2>4. /\ w \in Cache /\ SameUses(v, w) /\ w.inCache = v.inCache \ {r}
        /\ w.alive = v.alive /\ w.recent = v.recent /\ w.access = v.access
        /\ w.encoded = v.encoded /\ w.decoded = v.decoded
        /\ w.lists = v.lists /\ w.live = v.live
        /\ w.liveSize = v.liveSize /\ w.deadSize = v.deadSize
    BY <2>3, <2>w DEF Cache, SameUses
  <2>5. /\ d \in Cache /\ SameResources(w, d)
        /\ h => d.liveSize = w.liveSize + delta /\ d.deadSize = w.deadSize
        /\ ~h => d.liveSize = w.liveSize /\ d.deadSize = w.deadSize + delta
        /\ d.encoded = w.encoded /\ d.decoded = w.decoded
        /\ d.lists = w.lists /\ d.live = w.live
    BY <2>4, <2>d, <2>h, Adjusted
  <2>6. /\ SameUses(c, d) /\ d.inCache = c.inCache \ {r} /\ d.alive = c.alive
        /\ d.encoded = c.encoded /\ d.decoded = c.decoded
        /\ d.access = c.access /\ d.recent = c.recent
        /\ d.lists = u.lists /\ d.live = v.live
        /\ h => d.liveSize = c.liveSize + delta /\ d.deadSize = c.deadSize
        /\ ~h => d.liveSize = c.liveSize /\ d.deadSize = c.deadSize + delta
    BY <2>1, <2>3, <2>4, <2>5 DEF SameUses, SameResources
  <2>7. /\ \A x : HasClients(d, x) = HasClients(c, x) /\ HasClients(d, x) = HasClients(v, x)
        /\ \A x : Size(d, x) = Size(c, x)
        /\ \A x : QueueOf(d, x) = QueueOf(c, x) /\ QueueOf(d, x) = QueueOf(u, x)
    <3>1. \A x : HasClients(d, x) = HasClients(c, x)
      BY <2>6, SameClients DEF SameUses
    <3>2. \A x : HasClients(d, x) = HasClients(v, x)
      BY <2>1, <2>2, <2>3, <3>1, SameClients DEF SameUses, SameResources
    <3>3. \A x : Size(d, x) = Size(c, x) /\ Size(d, x) = Size(u, x)
      BY <2>1, <2>6 DEF Size
    <3> QED  BY <2>1, <2>6, <3>1, <3>2, <3>3 DEF QueueOf, SameResources
  <2>8. InLists(d, d.inCache)
    BY <2>1, <2>2, <2>6, <2>7 DEF InLists
  <2>9. InLive(d, d.inCache)
    BY <2>1, <2>2, <2>3, <2>6, <2>7 DEF InLive, SameResources
  <2>10. /\ \A x \in Resources \ {r} : LiveSizeOf(d, x) = LiveSizeOf(c, x)
                                       /\ DeadSizeOf(d, x) = DeadSizeOf(c, x)
         /\ LiveSizeOf(d, r) = 0 /\ DeadSizeOf(d, r) = 0
         /\ LiveSizeOf(c, r) = IF h THEN Size(c, r) ELSE 0
         /\ DeadSizeOf(c, r) = IF h THEN 0 ELSE Size(c, r)
    BY <1>2, <2>6, <2>7 DEF LiveSizeOf, DeadSizeOf, h
  <2>11. Sized(d)
    <3>1. /\ d.liveSize = c.liveSize + LiveSizeOf(d, r) - LiveSizeOf(c, r)
          /\ d.deadSize = c.deadSize + DeadSizeOf(d, r) - DeadSizeOf(c, r)
      BY <1>0, <2>h, <2>6, <2>10
    <3> QED  BY <1>0, <2>5, <2>10, <3>1, Resized DEF Exact
  <2>12. Alive(d)
    BY <2>5, <2>6 DEF Exact, Alive
  <2>13. Exact(d)
    BY <2>8, <2>9, <2>11, <2>12 DEF Exact
  <2>14. ~h => d.liveSize = c.liveSize /\ d.deadSize <= c.deadSize
    BY <1>0, <2>h, <2>6
  <2> QED  BY <2>1, <2>6, <2>13, <2>14 DEF d, h
<1> QED  BY <1>1, <1>2

\* A resource that is requested again.
LEMMA AccessedAgain ==
    ASSUME NEW c, Exact(c), NEW r \in c.inCache, c.access[r] < MaxAccess
    PROVE  LET d == ResourceAccessed(c, r) IN Exact(d) /\ SameUses(c, d) /\ d.inCache = c.inCache /\ d.alive = c.alive
<1> DEFINE u == RemoveFromLRUList(c, r)
           n == c.access[r] + 1
           v == [u EXCEPT !.access[r] = @ + 1]
           d == ResourceAccessed(c, r)
<1>0. /\ c \in Cache /\ r \in Resources /\ c.access[r] # 0 /\ InLists(c, c.inCache)
      /\ c.access \in [Resources -> 0..MaxAccess] /\ n \in 0..MaxAccess /\ n # 0
  <2>1. c \in Cache /\ InLists(c, c.inCache) /\ c.inCache \subseteq c.alive
    BY DEF Exact, Alive
  <2>2. r \in Resources /\ c.access \in [Resources -> 0..MaxAccess]
    BY <2>1 DEF Cache
  <2>3. c.access[r] # 0
    BY <2>1, <2>2 DEF Exact, Alive
  <2>4. c.access[r] \in 0..MaxAccess /\ MaxAccess \in Nat
    BY <2>2, ConstantsAssumption
  <2> QED  BY <2>1, <2>2, <2>3, <2>4
<1>1. /\ u \in Cache /\ SameResources(c, u)
      /\ u.encoded = c.encoded /\ u.decoded = c.decoded
      /\ u.live = c.live /\ u.liveSize = c.liveSize /\ u.deadSize = c.deadSize
      /\ InLists(u, u.inCache \ {r})
  BY <1>0, Unlisted
<1>d. d = InsertInLRUList(v, r)
  BY <1>0 DEF ResourceAccessed
<1> HIDE DEF u
<1>2. u.access = c.access /\ u.inCache = c.inCache
  BY <1>1 DEF SameResources
<1>v. v = [u EXCEPT !.access = [c.access EXCEPT ![r] = n]]
  BY <1>1, <1>2 DEF Cache
<1>a. [c.access EXCEPT ![r] = n] \in [Resources -> 0..MaxAccess]
  BY <1>0
<1>b. [c.access EXCEPT ![r] = n][r] = n /\ \A x \in Resources \ {r} : [c.access EXCEPT ![r] = n][x] = c.access[x]
  BY <1>0
<1> DEFINE a == [c.access EXCEPT ![r] = n]
<1> HIDE DEF n, v, d, a
<1>3. /\ v \in Cache /\ SameUses(u, v) /\ v.access = a
      /\ v.alive = u.alive /\ v.inCache = u.inCache /\ v.recent = u.recent
      /\ v.encoded = u.encoded /\ v.decoded = u.decoded
      /\ v.lists = u.lists /\ v.live = u.live
      /\ v.liveSize = u.liveSize /\ v.deadSize = u.deadSize
  BY <1>1, <1>a, <1>v DEF Cache, SameUses, a
<1>4. \A x \in Resources \ {r} : QueueOf(v, x) = QueueOf(u, x)
  BY <1>b, <1>2, <1>3 DEF QueueOf, Size, a
<1>5. InLists(v, v.inCache \ {r})
  <2>1. v.inCache = u.inCache /\ u.inCache \subseteq Resources
    BY <1>1, <1>3 DEF Cache
  <2> QED  BY <1>1, <1>3, <1>4, <2>1 DEF InLists
<1>6. /\ d \in Cache /\ SameResources(v, d)
      /\ d.encoded = v.encoded /\ d.decoded = v.decoded
      /\ d.live = v.live /\ d.liveSize = v.liveSize /\ d.deadSize = v.deadSize
      /\ InLists(d, d.inCache)
  <2>1. r \in v.inCache
    BY <1>2, <1>3
  <2> QED  BY <1>3, <1>5, <1>d, <2>1, Inserted
<1>7. /\ SameUses(c, d) /\ d.inCache = c.inCache /\ d.alive = c.alive /\ d.access = a
      /\ d.encoded = c.encoded /\ d.decoded = c.decoded
      /\ d.live = c.live /\ d.liveSize = c.liveSize /\ d.deadSize = c.deadSize
  BY <1>1, <1>2, <1>3, <1>6 DEF SameResources, SameUses
<1>8. \A x : HasClients(d, x) = HasClients(c, x) /\ Size(d, x) = Size(c, x)
  BY <1>7, SameClients DEF SameUses, Size
<1>9. Alive(d)
  BY <1>0, <1>b, <1>6, <1>7 DEF Exact, Alive, a
<1>10. InLive(d, d.inCache)
  BY <1>7, <1>8 DEF Exact, InLive
<1>11. Sized(d)
  <2>1. \A x \in Resources : LiveSizeOf(d, x) = LiveSizeOf(c, x) /\ DeadSizeOf(d, x) = DeadSizeOf(c, x)
    BY <1>7, <1>8 DEF LiveSizeOf, DeadSizeOf
  <2>2. /\ [x \in Resources |-> LiveSizeOf(d, x)] = [x \in Resources |-> LiveSizeOf(c, x)]
        /\ [x \in Resources |-> DeadSizeOf(d, x)] = [x \in Resources |-> DeadSizeOf(c, x)]
    BY <2>1
  <2> QED  BY <1>7, <2>2 DEF Exact, Sized
<1>12. Exact(d)
  BY <1>6, <1>9, <1>10, <1>11 DEF Exact
<1> QED  BY <1>7, <1>12 DEF d

\* A resource enters the cache: it is in a list now, and its size is counted.
LEMMA Entered ==
    ASSUME NEW c, Exact(c), NEW r \in Resources \ c.inCache,
           NEW d, Alive(d), d.inCache = c.inCache \cup {r}, InLists(d, d.inCache), InLive(d, d.inCache),
           d.encoded = c.encoded, d.decoded = c.decoded, d.page = c.page, d.embeds = c.embeds,
           HasClients(c, r) => d.liveSize = c.liveSize + Size(c, r) /\ d.deadSize = c.deadSize,
           ~HasClients(c, r) => d.liveSize = c.liveSize /\ d.deadSize = c.deadSize + Size(c, r)
    PROVE  Exact(d)
<1> DEFINE h == HasClients(c, r)
           delta == Size(c, r)
<1>a. c \in Cache /\ c.liveSize \in Int /\ c.deadSize \in Int /\ d \in Cache
  BY DEF Exact, Alive, Cache
<1>b. delta \in Int
  BY <1>a, SizeInRange, MaxSizeIsNat
<1>1. /\ h => d.liveSize = c.liveSize + delta /\ d.deadSize = c.deadSize
      /\ ~h => d.liveSize = c.liveSize /\ d.deadSize = c.deadSize + delta
  OBVIOUS
<1>2. \A x : HasClients(d, x) = HasClients(c, x) /\ Size(d, x) = Size(c, x)
  BY SameClients DEF Size
<1>5. /\ \A x \in Resources \ {r} : LiveSizeOf(d, x) = LiveSizeOf(c, x)
                                    /\ DeadSizeOf(d, x) = DeadSizeOf(c, x)
      /\ LiveSizeOf(c, r) = 0 /\ DeadSizeOf(c, r) = 0
      /\ h => LiveSizeOf(d, r) = delta /\ DeadSizeOf(d, r) = 0
      /\ ~h => LiveSizeOf(d, r) = 0 /\ DeadSizeOf(d, r) = delta
  BY <1>2 DEF LiveSizeOf, DeadSizeOf
<1> HIDE DEF h, delta
<1>6. /\ d.liveSize = c.liveSize + LiveSizeOf(d, r) - LiveSizeOf(c, r)
      /\ d.deadSize = c.deadSize + DeadSizeOf(d, r) - DeadSizeOf(c, r)
  BY <1>a, <1>b, <1>1, <1>5
<1>7. Sized(d)
  BY <1>a, <1>5, <1>6, Resized DEF Exact
<1> QED  BY <1>7 DEF Exact

\* A resource is created; v is what it revalidates, or None.
LEMMA CreatedIs ==
    ASSUME NEW c, Exact(c), NEW r \in Resources \ c.alive, NEW v \in Resources \cup {None}
    PROVE  LET d == Created(c, r, v)
           IN  /\ Exact(d) /\ d.inCache = c.inCache \cup {r} /\ d.alive = c.alive \cup {r}
               /\ d.revalidates = [c.revalidates EXCEPT ![r] = v] /\ d.pruning = c.pruning
<1> DEFINE h == HasClients(c, r)
           delta == Size(c, r)
           b == [c EXCEPT !.alive = @ \cup {r}, !.inCache = @ \cup {r}, !.loading = @ \cup {r},
                          !.handled = @ \cup {r}, !.revalidates[r] = v]
           a == AdjustSize(b, h, delta)
           n == 1
           u == [a EXCEPT !.access[r] = @ + 1]
           d == ResourceAccessed(b, r)
<1>0. /\ c \in Cache /\ c.liveSize \in Int /\ c.deadSize \in Int
      /\ c.access[r] = 0 /\ r \notin c.inCache /\ r \in Resources
      /\ c.access \in [Resources -> 0..MaxAccess] /\ n \in 0..MaxAccess /\ n # 0
      /\ c.revalidates \in [Resources -> Resources \cup {None}]
  BY ConstantsAssumption DEF Exact, Alive, Cache
<1>s. delta \in Int /\ delta = Size(c, r)
  BY <1>0, SizeInRange, MaxSizeIsNat
<1>1. /\ b \in Cache /\ b.alive = c.alive \cup {r} /\ b.inCache = c.inCache \cup {r}
      /\ b.revalidates = [c.revalidates EXCEPT ![r] = v]
      /\ b.access = c.access /\ b.encoded = c.encoded /\ b.decoded = c.decoded
      /\ b.page = c.page /\ b.embeds = c.embeds /\ b.pruning = c.pruning
      /\ b.lists = c.lists /\ b.live = c.live
      /\ b.liveSize = c.liveSize /\ b.deadSize = c.deadSize
  <2> DEFINE b1 == [c EXCEPT !.alive = @ \cup {r}, !.inCache = @ \cup {r}]
             b2 == [b1 EXCEPT !.loading = @ \cup {r}, !.handled = @ \cup {r}]
             Same(e) == /\ e.access = c.access /\ e.encoded = c.encoded /\ e.decoded = c.decoded
                        /\ e.page = c.page /\ e.embeds = c.embeds /\ e.pruning = c.pruning
                        /\ e.lists = c.lists /\ e.live = c.live
                        /\ e.liveSize = c.liveSize /\ e.deadSize = c.deadSize
  <2>1. b1 = [c EXCEPT !.alive = c.alive \cup {r}, !.inCache = c.inCache \cup {r}]
    OBVIOUS
  <2>2. b2 = [b1 EXCEPT !.loading = b1.loading \cup {r}, !.handled = b1.handled \cup {r}]
    OBVIOUS
  <2>3. b = [b2 EXCEPT !.revalidates = [b2.revalidates EXCEPT ![r] = v]]
    OBVIOUS
  <2> HIDE DEF b, b1, b2
  <2>4. /\ b1 \in Cache /\ Same(b1) /\ b1.revalidates = c.revalidates
        /\ b1.alive = c.alive \cup {r} /\ b1.inCache = c.inCache \cup {r}
    BY <1>0, <2>1 DEF Cache
  <2>5. /\ b2 \in Cache /\ Same(b2) /\ b2.revalidates = c.revalidates
        /\ b2.alive = c.alive \cup {r} /\ b2.inCache = c.inCache \cup {r}
    BY <1>0, <2>2, <2>4 DEF Cache
  <2>6. [c.revalidates EXCEPT ![r] = v] \in [Resources -> Resources \cup {None}]
    BY <1>0
  <2>7. b = [b2 EXCEPT !.revalidates = [c.revalidates EXCEPT ![r] = v]]
    BY <2>3, <2>5
  <2> QED  BY <2>5, <2>6, <2>7 DEF Cache
<1>c. d = Created(c, r, v)
  BY DEF Created
<1> HIDE DEF b
<1>2. /\ \A x : HasClients(b, x) = HasClients(c, x)
      /\ \A x : Size(b, x) = Size(c, x)
  BY <1>1, SameClients DEF Size
<1>d. d = InsertInLRUList(u, r)
  <2>1. b.access[r] = 0 /\ RemoveFromLRUList(b, r) = b
    BY <1>0, <1>1 DEF RemoveFromLRUList
  <2>2. HasClients(b, r) = h /\ Size(b, r) = delta
    BY <1>2
  <2> QED  BY <2>1, <2>2 DEF ResourceAccessed
<1> HIDE DEF d, delta, h
<1>3. /\ a \in Cache /\ SameResources(b, a)
      /\ h => a.liveSize = b.liveSize + delta /\ a.deadSize = b.deadSize
      /\ ~h => a.liveSize = b.liveSize /\ a.deadSize = b.deadSize + delta
      /\ a.encoded = b.encoded /\ a.decoded = b.decoded
      /\ a.lists = b.lists /\ a.live = b.live
  BY <1>1, <1>s, Adjusted
<1> HIDE DEF a
<1>u. u = [a EXCEPT !.access = [c.access EXCEPT ![r] = n]]
  <2>1. a.access = c.access /\ c.access[r] + 1 = n
    BY <1>0, <1>1, <1>3 DEF SameResources
  <2> QED  BY <1>3, <2>1 DEF Cache
<1>e. [c.access EXCEPT ![r] = n] \in [Resources -> 0..MaxAccess]
  BY <1>0
<1>f. [c.access EXCEPT ![r] = n][r] = n /\ \A x \in Resources \ {r} : [c.access EXCEPT ![r] = n][x] = c.access[x]
  BY <1>0
<1> DEFINE e == [c.access EXCEPT ![r] = n]
<1> HIDE DEF n, u, e
<1>4. /\ u \in Cache /\ SameUses(a, u) /\ u.access = e
      /\ u.alive = a.alive /\ u.inCache = a.inCache
      /\ u.encoded = a.encoded /\ u.decoded = a.decoded
      /\ u.lists = a.lists /\ u.live = a.live
      /\ u.liveSize = a.liveSize /\ u.deadSize = a.deadSize
  BY <1>3, <1>e, <1>u DEF Cache, SameUses, e
<1>5. /\ u.alive = c.alive \cup {r} /\ u.inCache = c.inCache \cup {r}
      /\ u.encoded = c.encoded /\ u.decoded = c.decoded
      /\ u.page = c.page /\ u.embeds = c.embeds /\ u.pruning = c.pruning
      /\ u.revalidates = [c.revalidates EXCEPT ![r] = v]
      /\ u.lists = c.lists /\ u.live = c.live
  BY <1>1, <1>3, <1>4 DEF SameResources, SameUses
<1>6. \A x \in Resources \ {r} : QueueOf(u, x) = QueueOf(c, x)
  BY <1>f, <1>4, <1>5 DEF QueueOf, Size, e
<1>7. InLists(u, u.inCache \ {r}) /\ r \in u.inCache
  <2>1. u.inCache \ {r} = c.inCache /\ \A x \in c.inCache : x \in Resources \ {r}
    BY <1>0, <1>5 DEF Cache
  <2> QED  BY <1>5, <1>6, <2>1 DEF Exact, InLists
<1>8. /\ d \in Cache /\ SameResources(u, d)
      /\ d.encoded = u.encoded /\ d.decoded = u.decoded
      /\ d.live = u.live /\ d.liveSize = u.liveSize /\ d.deadSize = u.deadSize
      /\ InLists(d, d.inCache)
  BY <1>4, <1>7, <1>d, Inserted
<1>9. /\ d.alive = c.alive \cup {r} /\ d.inCache = c.inCache \cup {r} /\ d.access = e
      /\ d.encoded = c.encoded /\ d.decoded = c.decoded
      /\ d.page = c.page /\ d.embeds = c.embeds /\ d.pruning = c.pruning
      /\ d.revalidates = [c.revalidates EXCEPT ![r] = v]
      /\ d.live = c.live
  BY <1>4, <1>5, <1>8 DEF SameResources, SameUses
<1>10. Alive(d)
  BY <1>0, <1>f, <1>8, <1>9 DEF Exact, Alive, e
<1>11. InLive(d, d.inCache)
  <2>1. \A x : HasClients(d, x) = HasClients(c, x)
    BY <1>9, SameClients
  <2> QED  BY <1>9, <2>1 DEF Exact, InLive
<1>12. /\ h => d.liveSize = c.liveSize + delta /\ d.deadSize = c.deadSize
       /\ ~h => d.liveSize = c.liveSize /\ d.deadSize = c.deadSize + delta
  BY <1>1, <1>3, <1>4, <1>8
<1>13. Exact(d)
  BY <1>0, <1>8, <1>9, <1>10, <1>11, <1>12, Entered DEF h, delta
<1> QED  BY <1>9, <1>13, <1>c

\* A resource returns to the cache.
LEMMA PutBackIs ==
    ASSUME NEW c, Exact(c), NEW r \in c.alive \ c.inCache
    PROVE  LET d == PutBack(c, r)
           IN  /\ Exact(d) /\ SameUses(c, d) /\ d.inCache = c.inCache \cup {r} /\ d.alive = c.alive
<1> DEFINE h == HasClients(c, r)
           delta == Size(c, r)
           b == [c EXCEPT !.inCache = @ \cup {r}]
           u == InsertInLRUList(b, r)
           v == IF c.decoded[r] > 0 /\ HasClients(c, r) THEN [u EXCEPT !.live = <<r>> \o @] ELSE u
           d == PutBack(c, r)
<1>0. /\ c \in Cache /\ r \in Resources \ c.inCache
  BY DEF Exact, Alive, Cache
<1>s. delta \in Int
  BY <1>0, SizeInRange, MaxSizeIsNat
<1>1. /\ b \in Cache /\ SameUses(c, b) /\ b.alive = c.alive /\ b.inCache = c.inCache \cup {r}
      /\ b.access = c.access /\ b.encoded = c.encoded /\ b.decoded = c.decoded
      /\ b.lists = c.lists /\ b.live = c.live
      /\ b.liveSize = c.liveSize /\ b.deadSize = c.deadSize
  BY <1>0 DEF Cache, SameUses
<1>d. d = AdjustSize(v, h, delta)
  BY DEF PutBack, ReturnsLive
<1> HIDE DEF b, d, delta, h
<1>2. InLists(b, b.inCache \ {r}) /\ r \in b.inCache
  <2>1. \A x : QueueOf(b, x) = QueueOf(c, x)
    BY <1>1 DEF QueueOf, Size
  <2>2. b.inCache \ {r} = c.inCache
    BY <1>0, <1>1
  <2> QED  BY <1>1, <2>1, <2>2 DEF Exact, InLists
<1>3. /\ u \in Cache /\ SameResources(b, u)
      /\ u.encoded = b.encoded /\ u.decoded = b.decoded
      /\ u.live = b.live /\ u.liveSize = b.liveSize /\ u.deadSize = b.deadSize
      /\ InLists(u, u.inCache)
  BY <1>1, <1>2, Inserted
<1> HIDE DEF u
<1>4. /\ \A x : HasClients(u, x) = HasClients(c, x)
      /\ u.inCache = c.inCache \cup {r} /\ u.decoded = c.decoded /\ u.live = c.live
  BY <1>1, <1>3, SameClients DEF SameResources, SameUses
<1>5. InLive(u, u.inCache) /\ r \notin ToSet(u.live)
  BY <1>0, <1>4 DEF Exact, InLive
<1>6. /\ v \in Cache /\ SameResources(u, v)
      /\ v.encoded = u.encoded /\ v.decoded = u.decoded
      /\ v.lists = u.lists /\ v.liveSize = u.liveSize /\ v.deadSize = u.deadSize
      /\ InLive(v, v.inCache)
  <2>1. CASE c.decoded[r] > 0 /\ HasClients(c, r)
    <3>1. v = [u EXCEPT !.live = <<r>> \o @]
      BY <2>1
    <3>2. r \in u.inCache /\ HasClients(u, r) /\ u.decoded[r] > 0
      BY <1>4, <2>1
    <3> HIDE DEF v
    <3> QED  BY <1>3, <1>5, <3>1, <3>2, JoinsLive
  <2>2. CASE ~(c.decoded[r] > 0 /\ HasClients(c, r))
    <3>1. v = u
      BY <2>2
    <3> HIDE DEF v
    <3> QED  BY <1>3, <1>5, <3>1 DEF SameResources, SameUses
  <2> QED  BY <2>1, <2>2
<1> HIDE DEF v
<1>7. InLists(v, v.inCache)
  BY <1>3, <1>6 DEF InLists, QueueOf, Size, SameResources
<1>8. /\ d \in Cache /\ SameResources(v, d)
      /\ h => d.liveSize = v.liveSize + delta /\ d.deadSize = v.deadSize
      /\ ~h => d.liveSize = v.liveSize /\ d.deadSize = v.deadSize + delta
      /\ d.encoded = v.encoded /\ d.decoded = v.decoded
      /\ d.lists = v.lists /\ d.live = v.live
  BY <1>s, <1>6, <1>d, Adjusted
<1>9. /\ SameUses(c, d) /\ d.inCache = c.inCache \cup {r} /\ d.alive = c.alive
      /\ d.access = c.access /\ d.encoded = c.encoded /\ d.decoded = c.decoded
      /\ h => d.liveSize = c.liveSize + delta /\ d.deadSize = c.deadSize
      /\ ~h => d.liveSize = c.liveSize /\ d.deadSize = c.deadSize + delta
  BY <1>1, <1>3, <1>6, <1>8 DEF SameResources, SameUses
<1>10. InLists(d, d.inCache) /\ InLive(d, d.inCache)
  <2>1. d.page = v.page /\ d.embeds = v.embeds
    BY <1>8 DEF SameResources, SameUses
  <2>2. \A x : HasClients(d, x) = HasClients(v, x) /\ QueueOf(d, x) = QueueOf(v, x)
    BY <1>8, <2>1, SameClients DEF SameResources, QueueOf, Size
  <2> QED  BY <1>6, <1>7, <1>8, <2>2 DEF InLists, InLive, SameResources
<1>11. Alive(d)
  BY <1>8, <1>9 DEF Exact, Alive
<1>12. Exact(d)
  BY <1>0, <1>9, <1>10, <1>11, Entered DEF h, delta, SameUses
<1> QED  BY <1>9, <1>12 DEF d

LEMMA JoinedIs ==
    ASSUME NEW c, Exact(c), NEW r \in Resources
    PROVE  LET d == Joined(c, r)
               joins == ~HasClients(c, r) /\ r \in c.inCache
           IN  /\ d \in Cache /\ SameResources(c, d)
               /\ d.encoded = c.encoded /\ d.decoded = c.decoded
               /\ d.lists = c.lists /\ d.live = c.live
               /\ joins => d.liveSize = c.liveSize + Size(c, r) /\ d.deadSize = c.deadSize - Size(c, r)
               /\ ~joins => d.liveSize = c.liveSize /\ d.deadSize = c.deadSize
<1> DEFINE d == MoveSize(c, r, 1)
<1>1. c \in Cache
  BY DEF Exact, Alive
<1>2. Size(c, r) \in Int /\ c.liveSize \in Int /\ c.deadSize \in Int
  <2>1. Size(c, r) \in Int
    BY <1>1, SizeInRange, MaxSizeIsNat
  <2> QED  BY <1>1, <2>1 DEF Cache
<1>3. /\ d \in Cache /\ SameResources(c, d)
      /\ d.liveSize = c.liveSize + 1 * Size(c, r) /\ d.deadSize = c.deadSize - 1 * Size(c, r)
      /\ d.encoded = c.encoded /\ d.decoded = c.decoded
      /\ d.lists = c.lists /\ d.live = c.live
  BY <1>1, Moved
<1> HIDE DEF d
<1>4. d.liveSize = c.liveSize + Size(c, r) /\ d.deadSize = c.deadSize - Size(c, r)
  BY <1>2, <1>3
<1>5. CASE ~HasClients(c, r) /\ r \in c.inCache
  <2>1. Joined(c, r) = d
    BY <1>5 DEF Joined, d
  <2> QED  BY <1>3, <1>4, <1>5, <2>1
<1>6. CASE ~(~HasClients(c, r) /\ r \in c.inCache)
  <2>1. Joined(c, r) = c
    BY <1>6 DEF Joined
  <2> QED  BY <1>1, <1>6, <2>1 DEF SameResources, SameUses
<1> QED  BY <1>5, <1>6

\* A resource has a client, its first or another one.
LEMMA Gained ==
    ASSUME NEW c, Exact(c), NEW r \in Resources, NEW d, SameBooks(Joined(c, r), d),
           HasClients(d, r), \A x \in c.inCache \ {r} : HasClients(d, x) = HasClients(c, x)
    PROVE  Exact(d) /\ d.inCache = c.inCache /\ d.alive = c.alive
<1> DEFINE j == Joined(c, r)
           joins == ~HasClients(c, r) /\ r \in c.inCache
<1>0. c \in Cache /\ c.liveSize \in Int /\ c.deadSize \in Int /\ c.inCache \subseteq Resources
  BY DEF Exact, Alive, Cache
<1>1. Size(c, r) \in Int
  BY <1>0, SizeInRange, MaxSizeIsNat
<1>2. /\ j \in Cache /\ SameResources(c, j)
      /\ j.encoded = c.encoded /\ j.decoded = c.decoded
      /\ j.lists = c.lists /\ j.live = c.live
      /\ joins => j.liveSize = c.liveSize + Size(c, r) /\ j.deadSize = c.deadSize - Size(c, r)
      /\ ~joins => j.liveSize = c.liveSize /\ j.deadSize = c.deadSize
  BY JoinedIs
<1>j. SameBooks(j, d)
  OBVIOUS
<1>b. joins <=> ~HasClients(c, r) /\ r \in c.inCache
  OBVIOUS
<1> HIDE DEF j, joins
<1>3. /\ d \in Cache /\ d.inCache = c.inCache /\ d.alive = c.alive /\ d.access = c.access
      /\ d.encoded = c.encoded /\ d.decoded = c.decoded
      /\ d.lists = c.lists /\ d.live = c.live
      /\ joins => d.liveSize = c.liveSize + Size(c, r) /\ d.deadSize = c.deadSize - Size(c, r)
      /\ ~joins => d.liveSize = c.liveSize /\ d.deadSize = c.deadSize
  BY <1>2, <1>j DEF SameBooks, SameResources
<1>4. \A x : Size(d, x) = Size(c, x) /\ QueueOf(d, x) = QueueOf(c, x)
  BY <1>3 DEF Size, QueueOf
<1>5. Alive(d)
  BY <1>3 DEF Exact, Alive
<1>6. InLists(d, d.inCache)
  BY <1>3, <1>4 DEF Exact, InLists
<1>7. InLive(d, d.inCache)
  BY <1>3 DEF Exact, InLive
<1>8. /\ \A x \in Resources \ {r} : LiveSizeOf(d, x) = LiveSizeOf(c, x)
                                    /\ DeadSizeOf(d, x) = DeadSizeOf(c, x)
      /\ joins => /\ LiveSizeOf(c, r) = 0 /\ DeadSizeOf(c, r) = Size(c, r)
                  /\ LiveSizeOf(d, r) = Size(c, r) /\ DeadSizeOf(d, r) = 0
      /\ ~joins => LiveSizeOf(d, r) = LiveSizeOf(c, r) /\ DeadSizeOf(d, r) = DeadSizeOf(c, r)
      /\ LiveSizeOf(c, r) \in Int /\ DeadSizeOf(c, r) \in Int
  BY <1>1, <1>3, <1>4, <1>b DEF LiveSizeOf, DeadSizeOf
<1>9. /\ d.liveSize = c.liveSize + LiveSizeOf(d, r) - LiveSizeOf(c, r)
      /\ d.deadSize = c.deadSize + DeadSizeOf(d, r) - DeadSizeOf(c, r)
  BY <1>0, <1>1, <1>3, <1>8
<1>10. Sized(d)
  BY <1>0, <1>3, <1>8, <1>9, Resized DEF Exact
<1> QED  BY <1>3, <1>5, <1>6, <1>7, <1>10 DEF Exact

(***************************************************************************)
(* Deletion. It touches nothing in the cache but the clients of resources, *)
(* and if one loses its last client the cache is pruned.                   *)
(***************************************************************************)
Quiet(c, d) ==
    /\ d.liveSize = c.liveSize /\ d.deadSize = c.deadSize
    /\ \A x \in c.inCache : HasClients(d, x) = HasClients(c, x)

Kept(c, d) ==
    /\ d.inCache = c.inCache /\ d.lists = c.lists
    /\ d.loading = c.loading /\ d.handled = c.handled /\ d.preloads = c.preloads
    /\ d.revalidates = c.revalidates /\ d.pruning = c.pruning /\ d.capacity = c.capacity
    /\ \A x \in c.inCache : QueueOf(d, x) = QueueOf(c, x)

Deleting(c, w) ==
    /\ Good(w.cache) /\ Kept(c, w.cache) /\ w.prune \in BOOLEAN
    /\ w.next # None => /\ w.next \in Resources \ w.cache.inCache
                        /\ CanDelete(w.cache, w.next) /\ ~w.prune
    /\ ~w.prune => Quiet(c, w.cache)

LEMMA LeftIs ==
    ASSUME NEW c, Good(c), NEW r \in Resources, HasClients(c, r), NEW b, SameBooks(c, b),
           \A x \in Resources \ {r} : HasClients(b, x) = HasClients(c, x),
           b.loading = c.loading, b.handled = c.handled, b.preloads = c.preloads,
           b.revalidates = c.revalidates, b.pruning = c.pruning, b.capacity = c.capacity
    PROVE  Deleting(c, Left(b, r))
<1>0. /\ c \in Cache /\ b \in Cache /\ c.liveSize \in Int /\ c.deadSize \in Int
      /\ Exact(c) /\ r # None /\ c.inCache \subseteq Resources
  <2>1. c \in Cache /\ b \in Cache /\ Exact(c) /\ r # None
    BY ConstantsAssumption DEF Good, Exact, Alive, SameBooks
  <2> QED  BY <2>1 DEF Cache
<1>1. /\ \A x : Size(b, x) = Size(c, x) /\ QueueOf(b, x) = QueueOf(c, x)
      /\ Size(b, r) \in Int
  <2>1. \A x : Size(b, x) = Size(c, x)
    BY DEF SameBooks, Size
  <2>2. Size(b, r) \in Int
    BY <1>0, SizeInRange, MaxSizeIsNat
  <2> QED  BY <2>1, <2>2 DEF SameBooks, QueueOf
<1>2. Kept(c, b) /\ Linked(b)
  BY <1>1 DEF Kept, SameBooks, Good, Linked
<1>3. CASE ~HasClients(b, r) /\ r \in b.inCache
  <2> DEFINE u == MoveSize(b, r, -1)
             d == RemoveFromLive(u, r)
  <2>1. /\ u \in Cache /\ SameResources(b, u)
        /\ u.liveSize = b.liveSize + (-1) * Size(b, r)
        /\ u.deadSize = b.deadSize - (-1) * Size(b, r)
        /\ u.encoded = b.encoded /\ u.decoded = b.decoded
        /\ u.lists = b.lists /\ u.live = b.live
    BY <1>0, Moved
  <2>l. Left(b, r) = Then(d, TRUE, None)
    BY <1>3 DEF Left
  <2> HIDE DEF u
  <2>2. /\ \A x : HasClients(u, x) = HasClients(b, x)
        /\ u.inCache = c.inCache /\ u.live = c.live /\ u.decoded = c.decoded
        /\ u.liveSize = c.liveSize - Size(c, r) /\ u.deadSize = c.deadSize + Size(c, r)
    BY <1>0, <1>1, <2>1, SameClients DEF SameResources, SameUses, SameBooks
  <2>3. /\ d \in Cache /\ SameResources(u, d)
        /\ d.encoded = u.encoded /\ d.decoded = u.decoded
        /\ d.lists = u.lists /\ d.liveSize = u.liveSize /\ d.deadSize = u.deadSize
        /\ InLive(d, d.inCache \ {r})
    <3>1. IsInjective(u.live) /\ \A x \in ToSet(u.live) \ {r} : x \in u.inCache /\ HasClients(u, x) /\ u.decoded[x] > 0
      <4>1. \A x \in ToSet(c.live) \ {r} : x \in Resources \ {r} /\ x \in c.inCache /\ HasClients(c, x) /\ c.decoded[x] > 0
        BY <1>0 DEF Exact, InLive
      <4>2. \A x \in Resources \ {r} : HasClients(u, x) = HasClients(c, x)
        BY <2>2
      <4> QED  BY <1>0, <2>2, <4>1, <4>2 DEF Exact, InLive
    <3> QED  BY <2>1, <3>1, LeavesLive
  <2> HIDE DEF d
  <2>4. SameResources(b, d) /\ d.encoded = c.encoded /\ d.decoded = c.decoded /\ d.lists = c.lists
        /\ d.inCache = c.inCache /\ d.alive = c.alive /\ d.access = c.access
    BY <2>1, <2>3 DEF SameResources, SameUses, SameBooks
  <2>5. \A x : HasClients(d, x) = HasClients(b, x) /\ Size(d, x) = Size(c, x) /\ QueueOf(d, x) = QueueOf(c, x)
    BY <2>4, SameClients DEF SameResources, SameUses, Size, QueueOf
  <2>6. Alive(d)
    BY <1>0, <2>3, <2>4 DEF Exact, Alive
  <2>7. InLists(d, d.inCache) /\ InLive(d, d.inCache)
    BY <1>0, <2>3, <2>4, <2>5 DEF Exact, InLists, InLive
  <2>8. /\ \A x \in Resources \ {r} : LiveSizeOf(d, x) = LiveSizeOf(c, x)
                                      /\ DeadSizeOf(d, x) = DeadSizeOf(c, x)
        /\ LiveSizeOf(c, r) = Size(c, r) /\ DeadSizeOf(c, r) = 0
        /\ LiveSizeOf(d, r) = 0 /\ DeadSizeOf(d, r) = Size(c, r)
    BY <1>3, <2>4, <2>5 DEF LiveSizeOf, DeadSizeOf, SameBooks
  <2>9. /\ d.liveSize = c.liveSize + LiveSizeOf(d, r) - LiveSizeOf(c, r)
        /\ d.deadSize = c.deadSize + DeadSizeOf(d, r) - DeadSizeOf(c, r)
    BY <1>0, <1>1, <2>2, <2>3, <2>8
  <2>10. Sized(d)
    BY <1>0, <2>3, <2>8, <2>9, Resized DEF Exact
  <2>11. Good(d) /\ Kept(c, d)
    <3>1. Exact(d)
      BY <2>6, <2>7, <2>10 DEF Exact
    <3>2. d.revalidates = c.revalidates
      BY <2>4 DEF SameResources, SameUses
    <3>3. Linked(d)
      BY <2>4, <3>2 DEF Good, Linked
    <3> QED  BY <2>4, <2>5, <3>1, <3>3 DEF Good, Kept, SameResources, SameUses
  <2> QED  BY <2>11, <2>l DEF Deleting, Then
<1>4. CASE ~(~HasClients(b, r) /\ r \in b.inCache)
  <2>1. \A x \in c.inCache : HasClients(b, x) = HasClients(c, x)
    <3>1. r \in c.inCache => HasClients(b, r) /\ HasClients(c, r)
      BY <1>4 DEF SameBooks
    <3>2. \A x : HasClients(b, x) \in BOOLEAN /\ HasClients(c, x) \in BOOLEAN
      BY DEF HasClients
    <3>3. \A x \in c.inCache : x = r \/ x \in Resources \ {r}
      BY <1>0
    <3> QED  BY <3>1, <3>2, <3>3
  <2>2. Good(b) /\ Quiet(c, b)
    BY <1>0, <1>2, <2>1, UsesChange DEF Good, Quiet, SameBooks
  <2>3. CASE CanDelete(b, r) /\ r \notin b.inCache
    <3>1. Left(b, r) = Then(b, FALSE, r)
      BY <2>3 DEF Left
    <3> QED  BY <1>2, <2>2, <2>3, <3>1 DEF Deleting, Then
  <2>4. CASE ~(CanDelete(b, r) /\ r \notin b.inCache)
    <3>1. Left(b, r) = Then(b, FALSE, None)
      BY <1>4, <2>4 DEF Left
    <3> QED  BY <1>2, <2>2, <2>4, <3>1 DEF Deleting, Then
  <2> QED  BY <2>3, <2>4
<1> QED  BY <1>3, <1>4

LEMMA KeptIsTransitive ==
    ASSUME NEW a, NEW b, NEW c, Kept(a, b), Kept(b, c)
    PROVE  Kept(a, c) /\ (Quiet(a, b) /\ Quiet(b, c) => Quiet(a, c))
BY DEF Kept, Quiet

LEMMA Erased ==
    ASSUME NEW c, Good(c), NEW r \in Resources \ c.inCache, CanDelete(c, r)
    PROVE  LET d == Erase(c, r) IN Good(d) /\ Kept(c, d) /\ Quiet(c, d) /\ d.embeds = c.embeds
<1> DEFINE al == c.alive \ {r}
           re == c.recent \ {r}
           en == [c.encoded EXCEPT ![r] = 0]
           de == [c.decoded EXCEPT ![r] = 0]
           ac == [c.access EXCEPT ![r] = 0]
           d == Erase(c, r)
<1>0. /\ c \in Cache /\ Exact(c) /\ Linked(c) /\ r \in Resources /\ r \notin c.inCache
      /\ c.inCache \subseteq Resources
  BY DEF Good, Exact, Alive, Cache
<1>1. /\ MaxEncoded \in Nat /\ MaxDecoded \in Nat /\ MaxAccess \in Nat
      /\ c.encoded \in [Resources -> 0..MaxEncoded] /\ c.decoded \in [Resources -> 0..MaxDecoded]
      /\ c.access \in [Resources -> 0..MaxAccess]
      /\ c.alive \in SUBSET Resources /\ c.recent \in SUBSET Resources
  BY <1>0, ConstantsAssumption DEF Cache
<1>2. /\ al \in SUBSET Resources /\ re \in SUBSET Resources
      /\ en \in [Resources -> 0..MaxEncoded] /\ de \in [Resources -> 0..MaxDecoded]
      /\ ac \in [Resources -> 0..MaxAccess]
  BY <1>1
<1>3. /\ \A x \in Resources \ {r} : en[x] = c.encoded[x] /\ de[x] = c.decoded[x] /\ ac[x] = c.access[x]
      /\ ac[r] = 0 /\ al = c.alive \ {r}
  BY <1>1
<1>4. d = [c EXCEPT !.alive = al, !.recent = re, !.encoded = en, !.decoded = de, !.access = ac]
  BY DEF Erase
<1> HIDE DEF d, al, re, en, de, ac
<1>5. /\ d \in Cache /\ SameUses(c, d) /\ d.inCache = c.inCache
      /\ d.alive = al /\ d.encoded = en /\ d.decoded = de /\ d.access = ac
      /\ d.lists = c.lists /\ d.live = c.live
      /\ d.liveSize = c.liveSize /\ d.deadSize = c.deadSize
  <2> DEFINE e == [c EXCEPT !.alive = al, !.recent = re]
  <2>1. d = [e EXCEPT !.encoded = en, !.decoded = de, !.access = ac]
    BY <1>4
  <2>2. e = [c EXCEPT !.alive = al, !.recent = re]
    OBVIOUS
  <2> HIDE DEF e
  <2>3. /\ e \in Cache /\ SameUses(c, e) /\ e.inCache = c.inCache /\ e.alive = al
        /\ e.lists = c.lists /\ e.live = c.live
        /\ e.liveSize = c.liveSize /\ e.deadSize = c.deadSize
    BY <1>0, <1>2, <2>2 DEF Cache, SameUses
  <2> QED  BY <1>2, <2>1, <2>3 DEF Cache, SameUses
<1>6. \A x : HasClients(d, x) = HasClients(c, x)
  BY <1>5, SameClients DEF SameUses
<1>7. \A x \in c.inCache : /\ d.encoded[x] = c.encoded[x] /\ d.decoded[x] = c.decoded[x]
                           /\ d.access[x] = c.access[x]
  BY <1>0, <1>3, <1>5
<1>8. Alive(d)
  BY <1>0, <1>3, <1>5 DEF Exact, Alive
<1>9. Exact(d)
  BY <1>0, <1>5, <1>6, <1>7, <1>8, BooksStay
<1>10. Linked(d)
  <2>1. d.revalidates = c.revalidates /\ \A n \in Resources : c.revalidates[n] # r
    BY <1>5 DEF SameUses, CanDelete, IsProxied
  <2> QED  BY <1>0, <1>3, <1>5, <2>1 DEF Linked
<1>11. Kept(c, d)
  <2>1. \A x \in c.inCache : QueueOf(d, x) = QueueOf(c, x)
    BY <1>7 DEF QueueOf, Size
  <2> QED  BY <1>5, <2>1 DEF Kept, SameUses
<1> QED  BY <1>5, <1>6, <1>9, <1>10, <1>11 DEF Good, Quiet, SameUses, d

LEMMA DeletedNext ==
    ASSUME NEW c, NEW w, Deleting(c, w) PROVE Deleting(c, DeleteNext(w))
<1> DEFINE k == w.cache
           r == w.next
           e == Erase(k, r)
<1>1. CASE r = None
  BY <1>1 DEF DeleteNext
<1>2. CASE r # None
  <2>1. /\ Good(k) /\ Kept(c, k) /\ Quiet(c, k)
        /\ r \in Resources \ k.inCache /\ CanDelete(k, r)
    BY <1>2 DEF Deleting
  <2>d. DeleteNext(w) = IF r \notin SVGs \/ k.embeds[r] = None THEN Then(e, FALSE, None)
                        ELSE Left([e EXCEPT !.embeds[r] = None], k.embeds[r])
    BY <1>2 DEF DeleteNext
  <2> HIDE DEF k, r
  <2>2. Good(e) /\ Kept(k, e) /\ Quiet(k, e) /\ e.embeds = k.embeds
    BY <2>1, Erased
  <2> HIDE DEF e
  <2>3. Kept(c, e) /\ Quiet(c, e)
    BY <2>1, <2>2, KeptIsTransitive
  <2>4. CASE r \notin SVGs \/ k.embeds[r] = None
    <3>1. DeleteNext(w) = Then(e, FALSE, None)
      BY <2>d, <2>4
    <3> QED  BY <2>2, <2>3, <3>1 DEF Deleting, Then
  <2>5. CASE ~(r \notin SVGs \/ k.embeds[r] = None)
    <3> DEFINE m == [e.embeds EXCEPT ![r] = None]
               b == [e EXCEPT !.embeds = m]
               x == e.embeds[r]
    <3>1. e \in Cache /\ e.embeds \in [SVGs -> Resources \cup {None}] /\ r \in SVGs /\ x # None
      BY <2>2, <2>5 DEF Good, Exact, Alive, Cache
    <3>2. x \in Resources /\ m \in [SVGs -> Resources \cup {None}]
          /\ m[r] = None /\ \A s \in SVGs \ {r} : m[s] = e.embeds[s]
      BY <3>1
    <3>d. DeleteNext(w) = Left(b, x)
      BY <2>d, <2>2, <2>5
    <3>b. b = [e EXCEPT !.embeds = m]
      OBVIOUS
    <3>x. e.embeds[r] = x
      OBVIOUS
    <3> HIDE DEF b, m, x
    <3>3. /\ SameBooks(e, b) /\ b.embeds = m /\ b.page = e.page
          /\ b.loading = e.loading /\ b.handled = e.handled /\ b.preloads = e.preloads
          /\ b.revalidates = e.revalidates /\ b.pruning = e.pruning /\ b.capacity = e.capacity
      BY <3>1, <3>2, <3>b DEF Cache, SameBooks
    <3>4. HasClients(e, x)
      BY <3>1, <3>x DEF HasClients
    <3>5. ASSUME NEW y \in Resources \ {x} PROVE HasClients(b, y) = HasClients(e, y)
      <4>1. \A s \in SVGs : b.embeds[s] = y <=> e.embeds[s] = y
        BY <3>1, <3>2, <3>3, <3>x, ConstantsAssumption
      <4> QED  BY <3>3, <4>1 DEF HasClients
    <3>6. Deleting(e, Left(b, x))
      BY <2>2, <3>2, <3>3, <3>4, <3>5, LeftIs
    <3>7. Deleting(e, DeleteNext(w))
      BY <3>6, <3>d
    <3>8. Deleting(c, DeleteNext(w))
      BY <2>3, <3>7, KeptIsTransitive DEF Deleting
    <3> QED  BY <3>8
  <2> QED  BY <2>4, <2>5
<1> QED  BY <1>1, <1>2

DeletionRounds(w, n, f) == f = [i \in 0..n |-> IF i = 0 THEN w ELSE DeleteNext(f[i - 1])]

LEMMA DeletionRoundsExist ==
    ASSUME NEW w, NEW n \in Nat PROVE \E f : DeletionRounds(w, n, f)
<1> DEFINE l == [of |-> "deletions"]
<1>1. PICK f : Rounds(l, w, n, f)
  BY RoundsExist
<1>2. \A i : LoopStep(l, f[i - 1], i) = DeleteNext(f[i - 1])
  BY DEF LoopStep
<1> DEFINE g == [i \in 0..n |-> IF i = 0 THEN w ELSE DeleteNext(f[i - 1])]
<1> HIDE DEF l
<1>3. f = g
  <2>1. \A i \in 0..n : f[i] = g[i]
    BY <1>1, <1>2 DEF Rounds
  <2>2. f = [i \in 0..n |-> f[i]]
    BY <1>1 DEF Rounds
  <2>3. g = [i \in 0..n |-> g[i]]
    OBVIOUS
  <2> HIDE DEF g
  <2> QED  BY <2>1, <2>2, <2>3
<1> QED  BY <1>3 DEF DeletionRounds

LEMMA DeletionsAre ==
    ASSUME NEW c, NEW w, Deleting(c, w) PROVE Deleting(c, Deletions(w))
<1> DEFINE n == Cardinality(SVGs) + 1
           f == CHOOSE f : DeletionRounds(w, n, f)
           J == {i \in 0..n : Deleting(c, f[i])}
<1>1. n \in Nat
  BY ConstantsAssumption, FS_Subset, FS_CardinalityType
<1>2. Deletions(w) = f[n]
  BY DEF Deletions, DeletionRounds
<1> HIDE DEF n
<1>3. DeletionRounds(w, n, f)
  BY <1>1, DeletionRoundsExist
<1> HIDE DEF f
<1>4. 0 \in J
  <2>1. 0 \in 0..n
    BY <1>1
  <2>2. f[0] = w
    BY <1>3, <2>1 DEF DeletionRounds
  <2> QED  BY <2>1, <2>2
<1>5. ASSUME NEW i \in 1..n, i - 1 \in J PROVE i \in J
  <2>1. i \in 0..n /\ i # 0
    BY <1>1
  <2>2. f[i] = DeleteNext(f[i - 1])
    BY <1>3, <2>1 DEF DeletionRounds
  <2>3. Deleting(c, f[i - 1])
    BY <1>5
  <2>4. Deleting(c, f[i])
    BY <2>2, <2>3, DeletedNext
  <2> QED  BY <2>1, <2>4
<1> HIDE DEF J
<1>6. n \in J
  BY <1>1, <1>4, <1>5, Induction
<1> QED  BY <1>2, <1>6 DEF J

LEMMA Nothing ==
    ASSUME NEW c, Good(c)
    PROVE  /\ Deleting(c, Then(c, FALSE, None))
           /\ \A r \in Resources \ c.inCache : CanDelete(c, r) => Deleting(c, Then(c, FALSE, r))
BY DEF Deleting, Then, Kept, Quiet

LEMMA DeleteIfPossibleIs ==
    ASSUME NEW c, Good(c), NEW r \in Resources PROVE Deleting(c, DeleteIfPossible(c, r))
BY Nothing, DeletionsAre DEF DeleteIfPossible, Delete

LEMMA EvictIs ==
    ASSUME NEW c, Good(c), NEW r \in Resources
    PROVE  Good(TakeOut(c, r)) /\ Deleting(TakeOut(c, r), Evict(c, r))
<1> DEFINE out == TakeOut(c, r)
<1>1. Good(out) /\ out.inCache = c.inCache \ {r}
  <2>1. /\ Exact(out) /\ SameUses(c, out) /\ out.inCache = c.inCache \ {r}
        /\ out.alive = c.alive
    BY TakenOut DEF Good
  <2> QED  BY <2>1 DEF Good, Linked, SameUses
<1>2. Evict(c, r) = IF CanDelete(out, r) THEN Delete(out, r) ELSE Then(out, FALSE, None)
  BY DEF Evict
<1> HIDE DEF out
<1>3. Deleting(out, Then(out, FALSE, None))
      /\ (CanDelete(out, r) => Deleting(out, Then(out, FALSE, r)))
  BY <1>1, Nothing
<1> QED  BY <1>1, <1>2, <1>3, DeletionsAre DEF Delete, out

LEMMA AfterRemoveClientIs ==
    ASSUME NEW c, Good(c), NEW r \in c.page
    PROVE  Deleting(c, AfterRemoveClient([c EXCEPT !.page = @ \ {r}], r))
<1> DEFINE b == [c EXCEPT !.page = c.page \ {r}]
<1>1. c \in Cache /\ r \in Resources
  BY DEF Good, Exact, Alive, Cache
<1>b. b = [c EXCEPT !.page = c.page \ {r}]
  OBVIOUS
<1> HIDE DEF b
<1>2. /\ SameBooks(c, b) /\ b.page = c.page \ {r} /\ b.embeds = c.embeds
      /\ b.loading = c.loading /\ b.handled = c.handled /\ b.preloads = c.preloads
      /\ b.revalidates = c.revalidates /\ b.pruning = c.pruning /\ b.capacity = c.capacity
  BY <1>1, <1>b DEF Cache, SameBooks
<1>3. HasClients(c, r)
  BY DEF HasClients
<1>4. \A x \in Resources \ {r} : HasClients(b, x) = HasClients(c, x)
  BY <1>2 DEF HasClients
<1>5. Deleting(c, Left(b, r))
  BY <1>1, <1>2, <1>3, <1>4, LeftIs
<1>6. Deleting(c, AfterRemoveClient(b, r))
  BY <1>5, DeletionsAre DEF AfterRemoveClient
<1> QED  BY <1>6 DEF b

(***************************************************************************)
(* pruneLiveResources(), and the part of pruneDeadResources() that         *)
(* destroys decoded data.                                                  *)
(***************************************************************************)
LEMMA ReverseIs ==
    ASSUME NEW S, NEW s \in Seq(S)
    PROVE  Len(Reverse(s)) \in Nat /\ \A i \in 1..Len(Reverse(s)) : Reverse(s)[i] \in S
<1>1. Len(s) \in Nat /\ \A i \in 1..Len(s) : s[i] \in S
  BY ElementOfSeq
<1>2. Reverse(s) = [i \in 1..Len(s) |-> s[(Len(s) - i) + 1]]
  BY DEF Reverse
<1>3. Len(Reverse(s)) = Len(s)
  BY <1>1, <1>2
<1>4. ASSUME NEW i \in 1..Len(s) PROVE Reverse(s)[i] \in S
  <2>1. (Len(s) - i) + 1 \in 1..Len(s)
    BY <1>1
  <2> QED  BY <1>1, <1>2, <2>1
<1> QED  BY <1>1, <1>3, <1>4

Start(c) == [cache |-> c, done |-> FALSE]

LiveRounds(c, list, target, f) ==
    f = [i \in 0..Len(list) |-> IF i = 0 THEN Start(c) ELSE PruneOne(f[i - 1], list[i], target)]

FlushRounds(c, list, target, f) ==
    f = [i \in 0..Len(list) |-> IF i = 0 THEN Start(c) ELSE FlushOne(f[i - 1], list[i], target)]

LEMMA LiveRoundsExist ==
    ASSUME NEW c, NEW list, Len(list) \in Nat, NEW target
    PROVE  (\E f : LiveRounds(c, list, target, f)) /\ (\E f : FlushRounds(c, list, target, f))
<1> DEFINE n == Len(list)
<1>1. ASSUME NEW l, l = [of |-> "live", list |-> list, target |-> target]
      PROVE  \E f : LiveRounds(c, list, target, f)
  <2>1. PICK f : Rounds(l, Start(c), n, f)
    BY RoundsExist
  <2>2. \A i : LoopStep(l, f[i - 1], i) = PruneOne(f[i - 1], list[i], target)
    BY <1>1 DEF LoopStep
  <2> DEFINE g == [i \in 0..n |-> IF i = 0 THEN Start(c) ELSE PruneOne(f[i - 1], list[i], target)]
  <2>3. \A i \in 0..n : f[i] = g[i]
    BY <2>1, <2>2 DEF Rounds
  <2>4. f = [i \in 0..n |-> f[i]] /\ g = [i \in 0..n |-> g[i]]
    BY <2>1 DEF Rounds
  <2>5. f = g
    <3> HIDE DEF g
    <3> QED  BY <2>3, <2>4
  <2> QED  BY <2>5 DEF LiveRounds
<1>2. ASSUME NEW l, l = [of |-> "queue", list |-> list, target |-> target]
      PROVE  \E f : FlushRounds(c, list, target, f)
  <2>1. PICK f : Rounds(l, Start(c), n, f)
    BY RoundsExist
  <2>2. \A i : LoopStep(l, f[i - 1], i) = FlushOne(f[i - 1], list[i], target)
    BY <1>2 DEF LoopStep
  <2> DEFINE g == [i \in 0..n |-> IF i = 0 THEN Start(c) ELSE FlushOne(f[i - 1], list[i], target)]
  <2>3. \A i \in 0..n : f[i] = g[i]
    BY <2>1, <2>2 DEF Rounds
  <2>4. f = [i \in 0..n |-> f[i]] /\ g = [i \in 0..n |-> g[i]]
    BY <2>1 DEF Rounds
  <2>5. f = g
    <3> HIDE DEF g
    <3> QED  BY <2>3, <2>4
  <2> QED  BY <2>5 DEF FlushRounds
<1> QED  BY <1>1, <1>2

LEMMA DestroyedNext ==
    ASSUME NEW c, Exact(c), NEW w, Shrunk(c, w.cache), NEW r \in Resources, NEW target
    PROVE  /\ Shrunk(c, PruneOne(w, r, target).cache)
           /\ Shrunk(c, FlushOne(w, r, target).cache)
           /\ (w.done => Reaches(w.cache.deadSize, target)) =>
                 LET v == FlushOne(w, r, target) IN v.done => Reaches(v.cache.deadSize, target)
<1> DEFINE d == DestroyDecodedData(w.cache, r)
<1>1. Shrunk(c, d)
  <2>1. Exact(w.cache)
    BY DEF Shrunk
  <2>2. Shrunk(w.cache, d)
    BY <2>1, DecodedDataDestroyed
  <2> HIDE DEF d
  <2> QED  BY <2>2, ShrunkIsTransitive
<1>2. PruneOne(w, r, target).cache \in {w.cache, d}
  BY DEF PruneOne
<1>3. \/ FlushOne(w, r, target) = w
      \/ FlushOne(w, r, target) = [cache |-> d, done |-> Reaches(d.deadSize, target)]
  BY DEF FlushOne
<1> HIDE DEF d
<1>4. Shrunk(c, PruneOne(w, r, target).cache)
  BY <1>1, <1>2
<1>5. CASE FlushOne(w, r, target) = w
  BY <1>4, <1>5
<1>6. CASE FlushOne(w, r, target) = [cache |-> d, done |-> Reaches(d.deadSize, target)]
  BY <1>1, <1>4, <1>6
<1> QED  BY <1>3, <1>5, <1>6

LEMMA PruneLiveIs ==
    ASSUME NEW c, Exact(c) PROVE Shrunk(c, PruneLive(c))
<1> DEFINE list == Reverse(c.live)
           target == Target(LiveCapacity(c))
           f == CHOOSE f : LiveRounds(c, list, target, f)
           n == Len(list)
           J == {i \in 0..n : Shrunk(c, f[i].cache)}
<1>1. n \in Nat /\ \A i \in 1..n : list[i] \in Resources
  <2>1. c.live \in Seq(Resources)
    BY DEF Exact, Alive, Cache
  <2> QED  BY <2>1, ReverseIs
<1>2. PruneLive(c) = c \/ PruneLive(c) = f[n].cache
  BY DEF PruneLive, LiveRounds, Start
<1>3. LiveRounds(c, list, target, f)
  <2> HIDE DEF list, target
  <2> QED  BY <1>1, LiveRoundsExist
<1>n. Len(list) = n
  OBVIOUS
<1> HIDE DEF list, target, f, n
<1>4. 0 \in J
  <2>1. 0 \in 0..n
    BY <1>1
  <2>2. f[0] = Start(c)
    BY <1>3, <1>n, <2>1 DEF LiveRounds
  <2> QED  BY <2>1, <2>2, ShrunkIsReflexive DEF Start
<1>5. ASSUME NEW i \in 1..n, i - 1 \in J PROVE i \in J
  <2>1. i \in 0..n /\ i # 0
    BY <1>1
  <2>2. f[i] = PruneOne(f[i - 1], list[i], target)
    BY <1>3, <1>n, <2>1 DEF LiveRounds
  <2>3. Shrunk(c, f[i - 1].cache)
    BY <1>5
  <2>4. Shrunk(c, f[i].cache)
    BY <1>1, <2>2, <2>3, DestroyedNext
  <2> QED  BY <2>1, <2>4
<1> HIDE DEF J
<1>6. n \in J
  BY <1>1, <1>4, <1>5, Induction
<1>7. Shrunk(c, f[n].cache) /\ Shrunk(c, c)
  BY <1>6, ShrunkIsReflexive DEF J
<1> QED  BY <1>2, <1>7

LEMMA FlushIs ==
    ASSUME NEW c, Exact(c), NEW q \in Queues, NEW target
    PROVE  LET w == Flush(c, q, target)
           IN  Shrunk(c, w.cache) /\ (w.done => Reaches(w.cache.deadSize, target))
<1> DEFINE list == Reverse(c.lists[q])
           f == CHOOSE f : FlushRounds(c, list, target, f)
           n == Len(list)
           J == {i \in 0..n : Shrunk(c, f[i].cache) /\ (f[i].done => Reaches(f[i].cache.deadSize, target))}
<1>1. n \in Nat /\ \A i \in 1..n : list[i] \in Resources
  <2>1. c.lists[q] \in Seq(Resources)
    BY DEF Exact, Alive, Cache
  <2> QED  BY <2>1, ReverseIs
<1>2. Flush(c, q, target) = f[n]
  BY DEF Flush, FlushRounds, Start
<1>3. FlushRounds(c, list, target, f)
  <2> HIDE DEF list
  <2> QED  BY <1>1, LiveRoundsExist
<1>n. Len(list) = n
  OBVIOUS
<1> HIDE DEF list, f, n
<1>4. 0 \in J
  <2>1. 0 \in 0..n
    BY <1>1
  <2>2. f[0] = Start(c)
    BY <1>3, <1>n, <2>1 DEF FlushRounds
  <2> QED  BY <2>1, <2>2, ShrunkIsReflexive DEF Start
<1>5. ASSUME NEW i \in 1..n, i - 1 \in J PROVE i \in J
  <2>1. i \in 0..n /\ i # 0
    BY <1>1
  <2>2. f[i] = FlushOne(f[i - 1], list[i], target)
    BY <1>3, <1>n, <2>1 DEF FlushRounds
  <2>3. Shrunk(c, f[i - 1].cache) /\ (f[i - 1].done => Reaches(f[i - 1].cache.deadSize, target))
    BY <1>5
  <2>4. Shrunk(c, f[i].cache) /\ (f[i].done => Reaches(f[i].cache.deadSize, target))
    BY <1>1, <2>2, <2>3, DestroyedNext
  <2> QED  BY <2>1, <2>4
<1> HIDE DEF J
<1>6. n \in J
  BY <1>1, <1>4, <1>5, Induction
<1>7. Shrunk(c, f[n].cache) /\ (f[n].done => Reaches(f[n].cache.deadSize, target))
  BY <1>6 DEF J
<1> QED  BY <1>2, <1>7

(***************************************************************************)
(* The lists as pruneDeadResources() walks them.                           *)
(***************************************************************************)
LEMMA LastEvictableIs ==
    ASSUME NEW c, NEW list, Len(list) \in Nat, \A k \in 1..Len(list) : list[k] # None,
           NEW r, r = LastEvictable(c, list)
    PROVE  /\ r = None => \A k \in 1..Len(list) : ~Evictable(c, list[k])
           /\ r # None => /\ Evictable(c, r)
                          /\ \E k \in 1..Len(list) :
                                list[k] = r /\ \A j \in 1..Len(list) : j > k => ~Evictable(c, list[j])
<1> DEFINE n == Len(list)
           I == {i \in 1..n : Evictable(c, list[i])}
           m == Max(I)
           k == IF I # {} THEN m ELSE 0
<1>1. r = IF k = 0 THEN None ELSE list[k]
  BY DEF LastEvictable, SelectLastInSeq
<1>2. CASE I = {}
  <2>1. \A i \in 1..n : ~Evictable(c, list[i])
    BY <1>2
  <2> QED  BY <1>1, <1>2, <2>1
<1>3. CASE I # {}
  <2>1. \E x \in I : \A y \in I : x >= y
    <3>1. I \subseteq 1..n /\ n \in Nat
      OBVIOUS
    <3> HIDE DEF I, n
    <3> QED  BY <1>3, <3>1, GreatestNumber
  <2>2. m \in I /\ \A y \in I : m >= y
    <3> HIDE DEF I
    <3> QED  BY <2>1 DEF Max
  <2> HIDE DEF m
  <2>3. k = m /\ m # 0 /\ m \in 1..n /\ Evictable(c, list[m])
    BY <1>3, <2>2
  <2>4. r = list[m] /\ r # None
    BY <1>1, <2>3
  <2>5. \A j \in 1..n : j > m => ~Evictable(c, list[j])
    BY <2>2
  <2> QED  BY <2>3, <2>4, <2>5
<1> QED  BY <1>2, <1>3

LEMMA Listed ==
    ASSUME NEW c, Exact(c), NEW q \in Queues
    PROVE  /\ c.lists[q] \in Seq(Resources) /\ Len(c.lists[q]) \in Nat
           /\ DOMAIN c.lists[q] = 1..Len(c.lists[q])
           /\ \A k \in 1..Len(c.lists[q]) : c.lists[q][k] \in c.inCache /\ c.lists[q][k] # None
                                            /\ QueueOf(c, c.lists[q][k]) = q
           /\ \A r \in c.inCache : QueueOf(c, r) = q => \E k \in 1..Len(c.lists[q]) : c.lists[q][k] = r
           /\ \A j, k \in 1..Len(c.lists[q]) : c.lists[q][j] = c.lists[q][k] => j = k
<1> DEFINE s == c.lists[q]
<1>1. c \in Cache /\ InLists(c, c.inCache) /\ c.inCache \subseteq Resources /\ None \notin Resources
  BY ConstantsAssumption DEF Exact, Alive, Cache
<1>2. s \in Seq(Resources) /\ ToSet(s) = {x \in c.inCache : QueueOf(c, x) = q} /\ IsInjective(s)
  BY <1>1 DEF Cache, InLists
<1> HIDE DEF s
<1>3. Len(s) \in Nat /\ DOMAIN s = 1..Len(s)
  BY <1>2
<1>4. \A k \in 1..Len(s) : s[k] \in ToSet(s)
  BY <1>3 DEF ToSet
<1>5. \A r \in ToSet(s) : \E k \in 1..Len(s) : s[k] = r
  BY <1>3 DEF ToSet
<1>6. \A j, k \in 1..Len(s) : s[j] = s[k] => j = k
  BY <1>2, <1>3 DEF IsInjective
<1> QED  BY <1>1, <1>2, <1>3, <1>4, <1>5, <1>6 DEF s

\* What is found from place m of a list on.
LEMMA Found ==
    ASSUME NEW c, Exact(c), NEW q \in Queues, NEW m \in 0..Len(c.lists[q]),
           NEW list, Len(list) = m, \A i \in 1..m : list[i] = c.lists[q][i],
           \A j \in 1..Len(c.lists[q]) : j > m => ~Evictable(c, c.lists[q][j]),
           NEW r, r = LastEvictable(c, list)
    PROVE  /\ r = None => \A x \in c.inCache : Evictable(c, x) => QueueOf(c, x) # q
           /\ r # None => /\ r \in c.inCache /\ Evictable(c, r)
                          /\ \E k \in DOMAIN c.lists[q] :
                                /\ c.lists[q][k] = r
                                /\ \A j \in DOMAIN c.lists[q] : j > k => ~Evictable(c, c.lists[q][j])
<1> DEFINE s == c.lists[q]
<1>1. /\ Len(s) \in Nat /\ DOMAIN s = 1..Len(s)
      /\ \A k \in 1..Len(s) : s[k] \in c.inCache /\ s[k] # None
      /\ \A x \in c.inCache : QueueOf(c, x) = q => \E k \in 1..Len(s) : s[k] = x
  BY Listed
<1> HIDE DEF s
<1>2. m \in Nat /\ m <= Len(s) /\ (\A i \in 1..m : list[i] = s[i] /\ i \in 1..Len(s))
      /\ \A j \in 1..Len(s) : j > m => ~Evictable(c, s[j])
  BY <1>1 DEF s
<1>3. Len(list) \in Nat /\ \A k \in 1..Len(list) : list[k] # None
  BY <1>1, <1>2
<1>4. /\ r = None => \A k \in 1..m : ~Evictable(c, list[k])
      /\ r # None => /\ Evictable(c, r)
                     /\ \E k \in 1..m : list[k] = r /\ \A j \in 1..m : j > k => ~Evictable(c, list[j])
  BY <1>3, LastEvictableIs
<1>5. CASE r = None
  <2>1. \A k \in 1..Len(s) : ~Evictable(c, s[k])
    <3> TAKE k \in 1..Len(s)
    <3>1. k > m \/ k \in 1..m
      BY <1>2
    <3> QED  BY <1>2, <1>4, <1>5, <3>1
  <2> QED  BY <1>1, <1>5, <2>1
<1>6. CASE r # None
  <2>1. PICK k \in 1..m : list[k] = r /\ \A j \in 1..m : j > k => ~Evictable(c, list[j])
    BY <1>4, <1>6
  <2>2. s[k] = r /\ k \in 1..Len(s)
    BY <1>2, <2>1
  <2>3. ASSUME NEW j \in 1..Len(s), j > k PROVE ~Evictable(c, s[j])
    <3>1. j > m \/ j \in 1..m
      BY <1>2
    <3> QED  BY <1>2, <2>1, <2>3, <3>1
  <2> QED  BY <1>1, <1>4, <1>6, <2>2, <2>3 DEF s
<1> QED  BY <1>5, <1>6

LEMMA UpToIs ==
    ASSUME NEW c, Exact(c), NEW q \in Queues, NEW k \in 1..Len(c.lists[q]),
           NEW r, r = c.lists[q][k]
    PROVE  /\ Len(UpTo(c, r)) = k /\ \A i \in 1..k : UpTo(c, r)[i] = c.lists[q][i]
           /\ Previous(c, r) = IF k = 1 THEN None ELSE c.lists[q][k - 1]
<1> DEFINE s == c.lists[q]
           p == CHOOSE p \in Queues : r \in ToSet(c.lists[p])
           i == CHOOSE i \in DOMAIN s : s[i] = r
<1>1. /\ s \in Seq(Resources) /\ Len(s) \in Nat /\ DOMAIN s = 1..Len(s)
      /\ s[k] = r /\ r # None /\ QueueOf(c, r) = q /\ k \in 1..Len(s)
      /\ \A j \in 1..Len(s) : s[j] = r => j = k
  BY Listed
<1>2. p = q
  <2>1. r \in ToSet(c.lists[q])
    BY <1>1 DEF ToSet
  <2>2. \A o \in Queues : r \in ToSet(c.lists[o]) => o = q
    BY <1>1 DEF Exact, InLists
  <2> QED  BY <2>1, <2>2
<1>3. i = k
  <2> HIDE DEF s
  <2> QED  BY <1>1
<1> DEFINE u == SubSeq(s, 1, k)
<1>4. UpTo(c, r) = u
  <2>1. UpTo(c, r) = SubSeq(c.lists[p], 1, CHOOSE j \in DOMAIN c.lists[p] : c.lists[p][j] = r)
    BY <1>1 DEF UpTo
  <2> QED  BY <1>2, <1>3, <2>1
<1> HIDE DEF p, i, s
<1>5. Len(u) = k /\ \A j \in 1..k : u[j] = s[j]
  <2>1. 1 \in Int /\ k \in Int /\ \A j \in 1..k : s[j] \in Resources
    <3>1. \A j \in 1..Len(s) : s[j] \in Resources
      BY <1>1, ElementOfSeq
    <3> QED  BY <1>1, <3>1
  <2>2. /\ Len(u) = IF 1 <= k THEN k - 1 + 1 ELSE 0
        /\ \A j \in 1..(k - 1 + 1) : u[j] = s[1 + j - 1]
    BY <2>1, SubSeqProperties
  <2>3. \A j \in 1..k : j \in 1..(k - 1 + 1) /\ 1 + j - 1 = j
    BY <1>1
  <2> HIDE DEF u
  <2> QED  BY <1>1, <2>2, <2>3 DEF s
<1>6. Previous(c, r) = IF Len(u) = 1 THEN None ELSE u[Len(u) - 1]
  BY <1>4 DEF Previous
<1>7. k # 1 => k - 1 \in 1..k
  BY <1>1 DEF s
<1> HIDE DEF u
<1> QED  BY <1>4, <1>5, <1>6, <1>7 DEF s

(***************************************************************************)
(* The loop over the queues, from the highest to the lowest.               *)
(***************************************************************************)
NothingAbove(c, q, target) ==
    \/ Enough(c)
    \/ /\ target <= DeadCapacity(c)
       /\ \A x \in c.inCache : Evictable(c, x) => QueueOf(c, x) <= q

Swept(c, q, r, target) ==
    /\ target <= DeadCapacity(c)
    /\ \A x \in c.inCache : Evictable(c, x) => QueueOf(c, x) <= q
    /\ \E k \in DOMAIN c.lists[q] :
          /\ c.lists[q][k] = r
          /\ \A j \in DOMAIN c.lists[q] : j > k => ~Evictable(c, c.lists[q][j])

\* What is next to be evicted.
Chosen(c, q, r, target) ==
    /\ q \in Queues /\ r \in c.inCache /\ Evictable(c, r)
    /\ DeadFits(c) \/ Swept(c, q, r, target)

Sweeping(c, w, p, target) ==
    /\ Shrunk(c, w.cache)
    /\ w.done => w.current = None /\ Reaches(w.cache.deadSize, target)
    /\ target <= DeadCapacity(w.cache) \/ Enough(w.cache)
    /\ w.current = None /\ ~w.done => NothingAbove(w.cache, p, target)
    /\ w.current # None => Chosen(w.cache, w.queue, w.current, target)

LEMMA QueuesFall ==
    ASSUME NEW c, NEW d, Exact(c), Shrunk(c, d)
    PROVE  \A x \in Resources : /\ QueueOf(d, x) <= QueueOf(c, x)
                                /\ QueueOf(c, x) \in Int /\ QueueOf(d, x) \in Nat
<1>1. c \in Cache /\ d \in Cache /\ d.access = c.access /\ \A x \in Resources : Size(d, x) <= Size(c, x)
  BY DEF Shrunk, Exact, Alive, SameResources
<1>2. \A x \in Resources : QueueOf(d, x) <= QueueOf(c, x)
  BY <1>1, LowerQueue
<1>3. \A x \in Resources : QueueOf(c, x) \in Queues /\ QueueOf(d, x) \in Queues
  BY <1>1, QueueInQueues
<1> QED  BY <1>2, <1>3 DEF Queues

\* A list is looked through, and what is chosen is the last that may go.
LEMMA Looked ==
    ASSUME NEW c, Exact(c), NEW q \in Queues, NEW m \in 0..Len(c.lists[q]),
           NEW list, Len(list) = m, \A i \in 1..m : list[i] = c.lists[q][i],
           \A j \in 1..Len(c.lists[q]) : j > m => ~Evictable(c, c.lists[q][j]),
           NEW target, NothingAbove(c, q, target),
           NEW r, r = LastEvictable(c, list)
    PROVE  /\ r = None => NothingAbove(c, q - 1, target)
           /\ r # None => Chosen(c, q, r, target)
<1>1. /\ r = None => \A x \in c.inCache : Evictable(c, x) => QueueOf(c, x) # q
      /\ r # None => /\ r \in c.inCache /\ Evictable(c, r)
                     /\ \E k \in DOMAIN c.lists[q] :
                           /\ c.lists[q][k] = r
                           /\ \A j \in DOMAIN c.lists[q] : j > k => ~Evictable(c, c.lists[q][j])
  BY Found
<1>2. \A x \in c.inCache : QueueOf(c, x) \in Int
  <2>1. c \in Cache /\ c.inCache \subseteq Resources
    BY DEF Exact, Alive, Cache
  <2>2. \A x \in c.inCache : QueueOf(c, x) \in Queues
    BY <2>1, QueueInQueues
  <2> QED  BY <2>2 DEF Queues
<1>3. q \in Int
  BY DEF Queues
<1>4. CASE Enough(c)
  BY <1>1, <1>4 DEF NothingAbove, Chosen, Enough
<1>5. CASE ~Enough(c)
  <2>1. target <= DeadCapacity(c) /\ \A x \in c.inCache : Evictable(c, x) => QueueOf(c, x) <= q
    BY <1>5 DEF NothingAbove
  <2>2. CASE r = None
    <3>1. \A x \in c.inCache : Evictable(c, x) => QueueOf(c, x) <= q - 1
      BY <1>1, <1>2, <1>3, <2>1, <2>2
    <3> QED  BY <2>1, <2>2, <3>1 DEF NothingAbove
  <2>3. CASE r # None
    BY <1>1, <2>1, <2>3 DEF Chosen, Swept
  <2> QED  BY <2>2, <2>3
<1> QED  BY <1>4, <1>5

LEMMA SweptNext ==
    ASSUME NEW c, Exact(c), NEW q \in Queues, NEW target \in Nat, NEW w, Sweeping(c, w, q, target)
    PROVE  Sweeping(c, SweepOne(w, q, target), q - 1, target)
<1> DEFINE v == Flush(w.cache, q, target)
           d == v.cache
           r == LastEvictable(d, d.lists[q])
           o == SweepOne(w, q, target)
<1>1. CASE w.done \/ w.current # None
  <2>1. o = w
    BY <1>1 DEF SweepOne, Search
  <2> QED  BY <1>1, <2>1 DEF Sweeping
<1>2. CASE ~(w.done \/ w.current # None)
  <2>1. o = [cache |-> d, done |-> v.done, queue |-> q, current |-> IF v.done THEN None ELSE r]
    BY <1>2 DEF SweepOne, Search
  <2>2. /\ Exact(w.cache) /\ Shrunk(c, w.cache) /\ NothingAbove(w.cache, q, target)
        /\ (target <= DeadCapacity(w.cache) \/ Enough(w.cache))
    BY <1>2 DEF Sweeping, Shrunk
  <2>3. Shrunk(w.cache, d) /\ (v.done => Reaches(d.deadSize, target))
    BY <2>2, FlushIs
  <2> HIDE DEF v, d, o
  <2>4. Exact(d) /\ Shrunk(c, d)
    BY <2>2, <2>3, ShrunkIsTransitive DEF Shrunk
  <2>5. /\ DeadCapacity(w.cache) <= DeadCapacity(d)
        /\ \A x : Evictable(d, x) = Evictable(w.cache, x)
        /\ Enough(w.cache) => Enough(d)
    BY <2>2, <2>3, EnoughStays
  <2>6. /\ DeadCapacity(w.cache) \in Nat /\ DeadCapacity(d) \in Nat
        /\ d.inCache = w.cache.inCache /\ d.inCache \subseteq Resources
    <3>1. w.cache \in Cache /\ d \in Cache /\ d.inCache = w.cache.inCache
      BY <2>2, <2>3 DEF Shrunk, Exact, Alive, SameResources
    <3> QED  BY <3>1, CapacityIs DEF Cache
  <2>7. \A x \in Resources : /\ QueueOf(d, x) <= QueueOf(w.cache, x)
                             /\ QueueOf(w.cache, x) \in Int /\ QueueOf(d, x) \in Nat
    BY <2>2, <2>3, QueuesFall
  <2>8. target <= DeadCapacity(w.cache) => target <= DeadCapacity(d)
    <3>1. target <= DeadCapacity(w.cache) /\ DeadCapacity(w.cache) <= DeadCapacity(d) => target <= DeadCapacity(d)
      BY <2>6
    <3> QED  BY <2>5, <3>1
  <2>9. NothingAbove(d, q, target)
    <3>1. CASE Enough(w.cache)
      BY <2>5, <3>1 DEF NothingAbove
    <3>2. CASE ~Enough(w.cache)
      <4>1. target <= DeadCapacity(w.cache) /\ \A x \in d.inCache : Evictable(w.cache, x) => QueueOf(w.cache, x) <= q
        BY <2>2, <2>6, <3>2 DEF NothingAbove
      <4>2. q \in Int
        BY DEF Queues
      <4>3. \A x \in d.inCache : Evictable(d, x) => QueueOf(d, x) <= q
        BY <2>5, <2>6, <2>7, <4>1, <4>2
      <4> QED  BY <2>8, <4>1, <4>3 DEF NothingAbove
    <3> QED  BY <3>1, <3>2
  <2>10. target <= DeadCapacity(d) \/ Enough(d)
    BY <2>2, <2>5, <2>8
  <2>11. CASE v.done
    <3>1. o.cache = d /\ o.done /\ o.current = None
      BY <2>1, <2>11
    <3>2. Sweeping(c, o, q - 1, target)
      BY <2>3, <2>4, <2>10, <2>11, <3>1 DEF Sweeping
    <3> QED  BY <3>2 DEF o
  <2>12. CASE ~v.done
    <3>1. Len(d.lists[q]) \in Nat
      BY <2>4, Listed
    <3>r. r = LastEvictable(d, d.lists[q])
      OBVIOUS
    <3> HIDE DEF r
    <3>2. /\ r = None => NothingAbove(d, q - 1, target)
          /\ r # None => Chosen(d, q, r, target)
      <4> DEFINE list == d.lists[q]
                 m == Len(list)
      <4>1. m \in 0..Len(d.lists[q]) /\ Len(list) = m /\ \A i \in 1..m : list[i] = d.lists[q][i]
        BY <3>1
      <4>2. \A j \in 1..Len(d.lists[q]) : j > m => ~Evictable(d, d.lists[q][j])
        BY <3>1
      <4>3. r = LastEvictable(d, list)
        BY <3>r
      <4> HIDE DEF list, m
      <4> QED  BY <2>4, <2>9, <4>1, <4>2, <4>3, Looked
    <3>3. o = [cache |-> d, done |-> v.done, queue |-> q, current |-> r]
      BY <2>1, <2>12
    <3>4. Sweeping(c, o, q - 1, target)
      BY <2>4, <2>10, <2>12, <3>2, <3>3 DEF Sweeping
    <3> QED  BY <3>4 DEF o
  <2> QED  BY <2>11, <2>12
<1> QED  BY <1>1, <1>2

(***************************************************************************)
(* The stack. Only the frame on top is walking; if it is not, the pruning  *)
(* it is back from has done enough.                                        *)
(***************************************************************************)
AllBack(s) == s \in Seq(Frame) /\ \A i \in 1..Len(s) : s[i].back

Stacked(c, s) ==
    /\ s \in Seq(Frame)
    /\ s = <<>> => ~c.pruning
    /\ s # <<>> => /\ \A i \in 2..Len(s) : s[i].back
                   /\ s[1].back => /\ Enough(c)
                                   /\ c.pruning => s[1].current \in c.inCache \cup {None}
                   /\ ~s[1].back => /\ c.pruning
                                    /\ Chosen(c, s[1].queue, s[1].current, s[1].target)

\* Pruning took nothing out of the cache, and ended or chose what to evict.
Onward(c, s, state) ==
    /\ state.cache.inCache = c.inCache
    /\ state.stack = s \/ \E f \in Frame : ~f.back /\ state.stack = <<f>> \o s

Pruned(c, s, state) ==
    /\ Good(state.cache) /\ Stacked(state.cache, state.stack)
    /\ state.stack = <<>> => Enough(state.cache)
    /\ Onward(c, s, state)

LEMMA Settled ==
    ASSUME NEW c, NEW s, AllBack(s), Enough(c),
           c.pruning => s # <<>> /\ s[1].current \in c.inCache \cup {None}
    PROVE  Stacked(c, s)
<1>1. s # <<>> => 1 \in 1..Len(s)
  BY DEF AllBack
<1>2. \A i \in 2..Len(s) : i \in 1..Len(s)
  BY DEF AllBack
<1> QED  BY <1>1, <1>2 DEF AllBack, Stacked

LEMMA Pushed ==
    ASSUME NEW c, c.pruning, NEW s, AllBack(s), NEW f \in Frame, ~f.back,
           Chosen(c, f.queue, f.current, f.target)
    PROVE  Stacked(c, <<f>> \o s) /\ <<f>> \o s # <<>>
<1> DEFINE t == <<f>> \o s
           n == Len(s)
<1>1. <<f>> \in Seq(Frame) /\ Len(<<f>>) = 1 /\ <<f>>[1] = f /\ s \in Seq(Frame) /\ n \in Nat
  BY DEF AllBack
<1>2. /\ t \in Seq(Frame) /\ Len(t) = 1 + n
      /\ \A i \in 1..(1 + n) : t[i] = IF i <= 1 THEN <<f>>[i] ELSE s[i - 1]
  BY <1>1, ConcatProperties
<1>n. \A i \in 1..n : s[i].back
  BY DEF AllBack
<1> HIDE DEF t, n
<1>3. t # <<>> /\ t[1] = f
  BY <1>1, <1>2
<1>4. \A i \in 2..Len(t) : i \in 1..(1 + n) /\ ~(i <= 1) /\ i - 1 \in 1..n
  BY <1>1, <1>2
<1>5. \A i \in 2..Len(t) : t[i].back
  BY <1>2, <1>4, <1>n
<1> QED  BY <1>2, <1>3, <1>5 DEF Stacked, t

\* What a shrunk cache keeps.
LEMMA GoodStays ==
    ASSUME NEW c, NEW d, Good(c), Shrunk(c, d) PROVE Good(d) /\ d.pruning = c.pruning /\ d.inCache = c.inCache
BY DEF Good, Shrunk, Linked, SameResources, SameUses

\* Pruning is over: pruneLiveResources() is next.
LEMMA PruningEnds ==
    ASSUME NEW c, Good(c), Enough(c), NEW s, AllBack(s)
    PROVE  Pruned(c, s, [cache |-> PruneLive([c EXCEPT !.pruning = FALSE]), stack |-> s])
<1> DEFINE d == [c EXCEPT !.pruning = FALSE]
           e == PruneLive(d)
<1>1. c \in Cache
  BY DEF Good, Exact, Alive
<1>d. d = [c EXCEPT !.pruning = FALSE]
  OBVIOUS
<1> HIDE DEF d
<1>2. /\ SameBooks(c, d) /\ d.page = c.page /\ d.embeds = c.embeds /\ d.preloads = c.preloads
      /\ d.revalidates = c.revalidates /\ d.capacity = c.capacity /\ ~d.pruning
  BY <1>1, <1>d DEF Cache, SameBooks
<1>3. \A x : HasClients(d, x) = HasClients(c, x)
  BY <1>2, SameClients
<1>4. Good(d)
  BY <1>2, <1>3, UsesChange DEF Good, Linked, SameBooks
<1>5. Enough(d)
  BY <1>2, <1>3 DEF Enough, DeadFits, DeadCapacity, Evictable, SameBooks
<1>6. Shrunk(d, e)
  BY <1>4, PruneLiveIs DEF Good
<1> HIDE DEF e
<1>7. Good(e) /\ Enough(e) /\ ~e.pruning
  BY <1>2, <1>4, <1>5, <1>6, GoodStays, EnoughStays DEF Good
<1>8. Stacked(e, s)
  BY <1>7, Settled
<1>9. e.inCache = c.inCache
  <2>1. e.inCache = d.inCache
    BY <1>4, <1>6, GoodStays
  <2> QED  BY <1>2, <2>1 DEF SameBooks
<1>10. Pruned(c, s, [cache |-> e, stack |-> s])
  BY <1>7, <1>8, <1>9 DEF Pruned, Onward
<1> QED  BY <1>10 DEF e, d

SweepStart(c, q) == [cache |-> c, done |-> FALSE, queue |-> q, current |-> None]

SweepRounds(c, q, target, n, f) ==
    f = [i \in 0..n |-> IF i = 0 THEN SweepStart(c, q) ELSE SweepOne(f[i - 1], q + 1 - i, target)]

LEMMA SweepRoundsExist ==
    ASSUME NEW c, NEW q, NEW target, NEW n \in Nat
    PROVE  \E f : SweepRounds(c, q, target, n, f)
<1> DEFINE l == [of |-> "sweep", queue |-> q, target |-> target]
           start == SweepStart(c, q)
<1>1. PICK f : Rounds(l, start, n, f)
  BY RoundsExist
<1>2. \A i : LoopStep(l, f[i - 1], i) = SweepOne(f[i - 1], q + 1 - i, target)
  BY DEF LoopStep
<1> DEFINE g == [i \in 0..n |-> IF i = 0 THEN start ELSE SweepOne(f[i - 1], q + 1 - i, target)]
<1> HIDE DEF l
<1>3. \A i \in 0..n : f[i] = g[i]
  BY <1>1, <1>2 DEF Rounds
<1>4. f = [i \in 0..n |-> f[i]] /\ g = [i \in 0..n |-> g[i]]
  BY <1>1 DEF Rounds
<1>5. f = g
  <2> HIDE DEF g
  <2> QED  BY <1>3, <1>4
<1> QED  BY <1>5 DEF SweepRounds

LEMMA SweepIs ==
    ASSUME NEW c, Good(c), c.pruning, NEW q \in Queues \cup {-1}, NEW target \in Nat,
           NothingAbove(c, q, target), NEW s, AllBack(s)
    PROVE  Pruned(c, s, Sweep(c, q, target, s))
<1> DEFINE n == q + 1 - LastQueue
           f == CHOOSE f : SweepRounds(c, q, target, n, f)
           J == {i \in 0..n : Sweeping(c, f[i], q - i, target)}
           last == f[n]
           v == last.cache
           top == [back |-> FALSE, queue |-> last.queue, current |-> last.current, target |-> target]
<1>a. Exact(c) /\ c \in Cache
  BY DEF Good, Exact, Alive
<1>1. n \in Nat /\ q \in Int /\ n = q + 1
  BY DEF LastQueue, Queues
<1>2. Sweep(c, q, target, s) =
        IF last.current = None
        THEN [cache |-> PruneLive([v EXCEPT !.pruning = FALSE]), stack |-> s]
        ELSE [cache |-> v, stack |-> <<top>> \o s]
  BY DEF Sweep, StopAt, SweepRounds, SweepStart
<1> HIDE DEF n
<1>3. SweepRounds(c, q, target, n, f)
  BY <1>1, SweepRoundsExist
<1> HIDE DEF f
<1>c. DeadCapacity(c) \in Nat
  BY <1>a, CapacityIs
<1>4. 0 \in J
  <2>1. 0 \in 0..n /\ q - 0 = q
    BY <1>1
  <2>2. f[0] = SweepStart(c, q)
    BY <1>3, <2>1 DEF SweepRounds
  <2>3. Shrunk(c, c)
    BY <1>a, ShrunkIsReflexive
  <2>4. Sweeping(c, f[0], q, target)
    BY <2>2, <2>3 DEF Sweeping, SweepStart, NothingAbove
  <2> QED  BY <2>1, <2>4
<1>5. ASSUME NEW i \in 1..n, i - 1 \in J PROVE i \in J
  <2>1. i \in 0..n /\ i # 0 /\ q + 1 - i = q - (i - 1) /\ (q + 1 - i) - 1 = q - i
    BY <1>1
  <2>2. f[i] = SweepOne(f[i - 1], q + 1 - i, target)
    BY <1>3, <2>1 DEF SweepRounds
  <2>3. q + 1 - i \in Queues
    BY <1>1, LastQueueIsNat DEF Queues
  <2>4. Sweeping(c, f[i - 1], q + 1 - i, target)
    BY <1>5, <2>1
  <2>5. Sweeping(c, SweepOne(f[i - 1], q + 1 - i, target), (q + 1 - i) - 1, target)
    BY <1>a, <2>3, <2>4, SweptNext
  <2> QED  BY <2>1, <2>2, <2>5
<1> HIDE DEF J
<1>6. n \in J
  BY <1>1, <1>4, <1>5, Induction
<1>7. Sweeping(c, last, -1, target)
  <2>1. q - n = -1
    BY <1>1
  <2> QED  BY <1>6, <2>1 DEF J
<1> HIDE DEF last
<1>8. /\ Shrunk(c, v) /\ Good(v) /\ v.pruning = c.pruning /\ v.inCache = c.inCache
      /\ v \in Cache /\ Exact(v)
  <2>1. Shrunk(c, v)
    BY <1>7 DEF Sweeping
  <2>2. Good(v) /\ v.pruning = c.pruning /\ v.inCache = c.inCache
    <3> HIDE DEF v
    <3> QED  BY <2>1, GoodStays
  <2> QED  BY <2>1, <2>2 DEF Good, Exact, Alive
<1>9. CASE last.current = None
  <2>1. Enough(v)
    <3>1. CASE last.done
      <4>1. v.deadSize \in Int /\ DeadCapacity(v) \in Nat
        BY <1>8, CapacityIs DEF Cache
      <4>2. Reaches(v.deadSize, target) /\ (target <= DeadCapacity(v) \/ Enough(v))
        BY <1>7, <3>1 DEF Sweeping
      <4>3. target <= DeadCapacity(v) => DeadFits(v)
        BY <4>1, <4>2 DEF Reaches, DeadFits
      <4> QED  BY <4>2, <4>3 DEF Enough
    <3>2. CASE ~last.done
      <4>1. NothingAbove(v, -1, target)
        BY <1>7, <1>9, <3>2 DEF Sweeping
      <4>2. \A x \in v.inCache : QueueOf(v, x) \in Queues
        <5>1. v.inCache \subseteq Resources
          BY <1>8 DEF Cache
        <5> QED  BY <1>8, <5>1, QueueInQueues
      <4>3. \A p \in Queues : ~(p <= -1)
        BY DEF Queues
      <4> QED  BY <4>1, <4>2, <4>3 DEF NothingAbove, Enough
    <3> QED  BY <3>1, <3>2
  <2> HIDE DEF v
  <2>2. Pruned(v, s, [cache |-> PruneLive([v EXCEPT !.pruning = FALSE]), stack |-> s])
    BY <1>8, <2>1, PruningEnds
  <2>3. Sweep(c, q, target, s) = [cache |-> PruneLive([v EXCEPT !.pruning = FALSE]), stack |-> s]
    BY <1>2, <1>9 DEF v
  <2>4. Pruned(v, s, Sweep(c, q, target, s))
    BY <2>2, <2>3
  <2> QED  BY <1>8, <2>4 DEF Pruned, Onward
<1>10. CASE last.current # None
  <2>1. Chosen(v, last.queue, last.current, target)
    BY <1>7, <1>10 DEF Sweeping
  <2>2. v.pruning /\ last.current \in Resources /\ last.queue \in Queues
    BY <1>8, <2>1 DEF Chosen, Cache
  <2>3. top \in Frame /\ ~top.back /\ Chosen(v, top.queue, top.current, top.target)
    BY <2>1, <2>2 DEF Frame
  <2>4. Sweep(c, q, target, s) = [cache |-> v, stack |-> <<top>> \o s]
    BY <1>2, <1>10
  <2> HIDE DEF top, v
  <2>5. Stacked(v, <<top>> \o s) /\ <<top>> \o s # <<>>
    BY <2>2, <2>3, Pushed
  <2>6. Onward(c, s, [cache |-> v, stack |-> <<top>> \o s])
    BY <1>8, <2>3 DEF Onward
  <2> QED  BY <1>8, <2>4, <2>5, <2>6 DEF Pruned
<1> QED  BY <1>9, <1>10

\* If everything fits, so does what is dead.
LEMMA AllFits ==
    ASSUME NEW c, Exact(c), c.liveSize + c.deadSize <= c.capacity.total, c.deadSize <= c.capacity.max
    PROVE  Enough(c)
<1> DEFINE live == [r \in Resources |-> LiveSizeOf(c, r)]
           dead == [r \in Resources |-> DeadSizeOf(c, r)]
<1>1. c \in Cache /\ c.inCache \subseteq Resources
  BY DEF Exact, Alive, Cache
<1>2. \A r \in Resources : Size(c, r) \in Nat /\ Size(c, r) > 0
  BY <1>1, SizeInRange, MaxSizeIsNat
<1>3. live \in [Resources -> Nat] /\ dead \in [Resources -> Nat]
  BY <1>2 DEF LiveSizeOf, DeadSizeOf
<1>4. \A r \in Resources : dead[r] = DeadSizeOf(c, r)
  OBVIOUS
<1>5. c.liveSize = Total(live) /\ c.deadSize = Total(dead)
  BY DEF Exact, Sized
<1> HIDE DEF live, dead
<1>6. c.liveSize \in Nat /\ c.deadSize \in Nat /\ \A r \in Resources : dead[r] <= c.deadSize /\ dead[r] \in Nat
  BY <1>3, <1>5, TotalBounds
<1>7. /\ {c.capacity.min, c.capacity.max, c.capacity.total} \subseteq Nat
      /\ DeadCapacity(c) \in Nat
  BY <1>1, CapacityIs
<1>8. c.deadSize <= DeadCapacity(c)
  BY <1>6, <1>7 DEF DeadCapacity, MinOf, MaxOf
<1>9. CASE DeadCapacity(c) > 0
  BY <1>8, <1>9 DEF Enough, DeadFits
<1>10. CASE ~(DeadCapacity(c) > 0)
  <2>1. \A r \in Resources : DeadSizeOf(c, r) = 0
    BY <1>4, <1>6, <1>7, <1>8, <1>10
  <2>2. \A r \in c.inCache : HasClients(c, r)
    BY <1>1, <1>2, <2>1 DEF DeadSizeOf
  <2> QED  BY <2>2 DEF Enough, Evictable
<1> QED  BY <1>9, <1>10

LEMMA PruneIs ==
    ASSUME NEW c, Good(c), NEW s, AllBack(s),
           c.pruning => s # <<>> /\ s[1].current \in c.inCache \cup {None}
    PROVE  Pruned(c, s, Prune(c, s))
<1> DEFINE fits == c.liveSize + c.deadSize <= c.capacity.total /\ c.capacity.max > 0 /\ c.deadSize <= c.capacity.max
<1>1. Exact(c) /\ c \in Cache
  BY DEF Good, Exact, Alive
<1>2. CASE fits
  <2>1. Prune(c, s) = [cache |-> c, stack |-> s]
    BY <1>2 DEF Prune
  <2>2. Enough(c)
    BY <1>1, <1>2, AllFits
  <2>3. Stacked(c, s)
    BY <2>2, Settled
  <2> QED  BY <2>1, <2>2, <2>3 DEF Pruned, Onward
<1>3. CASE ~fits /\ DeadFits(c)
  <2> DEFINE d == PruneLive(c)
  <2>1. Prune(c, s) = [cache |-> d, stack |-> s]
    BY <1>3 DEF Prune
  <2>2. Shrunk(c, d)
    BY <1>1, PruneLiveIs
  <2> HIDE DEF d
  <2>3. Good(d) /\ d.pruning = c.pruning /\ d.inCache = c.inCache
    BY <2>2, GoodStays
  <2>4. Enough(d)
    BY <1>1, <1>3, <2>2, EnoughStays DEF Enough
  <2>5. Stacked(d, s)
    BY <2>3, <2>4, Settled
  <2> QED  BY <2>1, <2>3, <2>4, <2>5 DEF Pruned, Onward
<1>4. CASE ~fits /\ ~DeadFits(c)
  <2> DEFINE d == [c EXCEPT !.pruning = TRUE]
             q == Cardinality(Queues) - 1
             target == Target(DeadCapacity(c))
  <2>1. Prune(c, s) = Sweep(d, q, target, s)
    BY <1>4 DEF Prune
  <2>d. d = [c EXCEPT !.pruning = TRUE]
    OBVIOUS
  <2>2. q \in Queues /\ \A p \in Queues : p <= q
    <3>1. Cardinality(Queues) = FastLog2[MaxSize] + 1
      <4>1. \A n \in Nat : Cardinality(0..n) = n + 1
        BY FS_Interval
      <4> QED  BY <4>1, LastQueueIsNat DEF Queues
    <3> QED  BY <3>1, LastQueueIsNat DEF Queues
  <2>3. target \in Nat /\ target <= DeadCapacity(c)
    <3>1. \A n \in Nat : (95 * n) \div 100 \in Nat /\ (95 * n) \div 100 <= n
      OBVIOUS
    <3> QED  BY <1>1, <3>1, CapacityIs DEF Target
  <2> HIDE DEF d, q, target
  <2>4. /\ SameBooks(c, d) /\ d.page = c.page /\ d.embeds = c.embeds
        /\ d.revalidates = c.revalidates /\ d.capacity = c.capacity /\ d.pruning
    BY <1>1, <2>d DEF Cache, SameBooks
  <2>5. Good(d)
    <3>1. \A x : HasClients(d, x) = HasClients(c, x)
      BY <2>4, SameClients
    <3> QED  BY <1>1, <2>4, <3>1, UsesChange DEF Good, Linked, SameBooks
  <2>6. NothingAbove(d, q, target)
    <3>1. DeadCapacity(d) = DeadCapacity(c)
      BY <2>4 DEF DeadCapacity, SameBooks
    <3>2. \A x \in d.inCache : QueueOf(d, x) \in Queues
      <4>1. d \in Cache /\ d.inCache \subseteq Resources
        BY <2>4 DEF SameBooks, Cache
      <4> QED  BY <4>1, QueueInQueues
    <3> QED  BY <2>2, <2>3, <3>1, <3>2 DEF NothingAbove
  <2>7. Pruned(d, s, Prune(c, s))
    BY <2>1, <2>2, <2>3, <2>4, <2>5, <2>6, SweepIs
  <2> QED  BY <2>4, <2>7 DEF Pruned, Onward, SameBooks
<1> QED  BY <1>2, <1>3, <1>4

(***************************************************************************)
(* What follows evict() in pruneDeadResources(). Nothing that may go is in *)
(* a queue above the frame's or in its queue after what is next; or enough *)
(* is gone already.                                                        *)
(***************************************************************************)
Ahead(c, f) ==
    \/ Enough(c)
    \/ /\ f.target <= DeadCapacity(c)
       /\ \A x \in c.inCache : Evictable(c, x) => QueueOf(c, x) <= f.queue
       /\ \E m \in 0..Len(c.lists[f.queue]) :
             /\ f.current = IF m = 0 THEN None ELSE c.lists[f.queue][m]
             /\ \A j \in 1..Len(c.lists[f.queue]) : j > m => ~Evictable(c, c.lists[f.queue][j])

LEMMA AfterEvictIs ==
    ASSUME NEW c, Good(c), NEW f \in Frame, c.pruning => f.current \in c.inCache \cup {None},
           c.pruning => Ahead(c, f), ~c.pruning => Enough(c), NEW s, AllBack(s)
    PROVE  Pruned(c, s, AfterEvict(c, f, s))
<1> DEFINE r == LastEvictable(c, UpTo(c, f.current))
           g == [f EXCEPT !.back = FALSE, !.current = r]
           p == f.queue
<1>1. Exact(c) /\ c \in Cache /\ f.queue \in Queues /\ f.target \in Nat
  BY DEF Good, Exact, Alive, Frame
<1>2. CASE ~c.pruning
  <2> DEFINE d == PruneLive(c)
  <2>1. AfterEvict(c, f, s) = [cache |-> d, stack |-> s]
    BY <1>2 DEF AfterEvict, Reentered
  <2>2. Shrunk(c, d)
    BY <1>1, PruneLiveIs
  <2> HIDE DEF d
  <2>3. Good(d) /\ ~d.pruning /\ d.inCache = c.inCache
    BY <1>2, <2>2, GoodStays
  <2>4. Enough(d)
    BY <1>1, <1>2, <2>2, EnoughStays
  <2>5. Stacked(d, s)
    BY <2>3, <2>4, Settled
  <2> QED  BY <2>1, <2>3, <2>4, <2>5 DEF Pruned, Onward
<1>3. CASE c.pruning /\ Reaches(c.deadSize, f.target)
  <2>1. AfterEvict(c, f, s) = [cache |-> PruneLive([c EXCEPT !.pruning = FALSE]), stack |-> s]
    BY <1>3 DEF AfterEvict, Reentered
  <2>2. Enough(c)
    <3>1. c.deadSize \in Int /\ DeadCapacity(c) \in Nat
      BY <1>1, CapacityIs DEF Cache
    <3>2. f.target <= DeadCapacity(c) => DeadFits(c)
      BY <1>1, <1>3, <3>1 DEF Reaches, DeadFits
    <3> QED  BY <1>3, <3>2 DEF Ahead, Enough
  <2> QED  BY <2>1, <2>2, PruningEnds
<1>4. CASE c.pruning /\ ~Reaches(c.deadSize, f.target)
  <2>1. AfterEvict(c, f, s) = IF r = None THEN Sweep(c, p - 1, f.target, s)
                              ELSE [cache |-> c, stack |-> <<g>> \o s]
    BY <1>4 DEF AfterEvict, Reentered
  <2>2. p - 1 \in Queues \cup {-1} /\ p \in Int
    BY <1>1, LastQueueIsNat DEF Queues
  <2>3. /\ r = None => NothingAbove(c, p - 1, f.target)
        /\ r # None => Chosen(c, p, r, f.target)
    <3>1. CASE Enough(c)
      <4>1. ASSUME r # None PROVE r \in c.inCache /\ Evictable(c, r)
        <5>1. f.current # None
          <6>1. ASSUME f.current = None PROVE FALSE
            <7> DEFINE list == UpTo(c, f.current)
            <7>1. list = <<>>
              BY <6>1 DEF UpTo
            <7>2. Len(list) = 0 /\ r = LastEvictable(c, list)
              BY <7>1
            <7> HIDE DEF list, r
            <7>3. ~\E k \in 1..Len(list) : TRUE
              BY <7>2
            <7>4. Len(list) \in Nat /\ \A k \in 1..Len(list) : list[k] # None
              BY <7>2, <7>3
            <7> QED  BY <4>1, <7>2, <7>3, <7>4, LastEvictableIs
          <6> QED  BY <6>1
        <5>2. f.current \in c.inCache
          BY <1>4, <5>1
        <5> DEFINE o == QueueOf(c, f.current)
        <5>3. o \in Queues
          <6>1. f.current \in Resources
            BY <1>1, <5>2 DEF Cache
          <6> QED  BY <1>1, <6>1, QueueInQueues
        <5> HIDE DEF o
        <5>4. /\ Len(c.lists[o]) \in Nat
              /\ \A k \in 1..Len(c.lists[o]) : c.lists[o][k] \in c.inCache /\ c.lists[o][k] # None
          BY <1>1, <5>3, Listed
        <5>5. PICK k \in 1..Len(c.lists[o]) : c.lists[o][k] = f.current
          BY <1>1, <5>2, <5>3, Listed DEF o
        <5> DEFINE list == UpTo(c, f.current)
        <5>6. Len(list) = k /\ \A i \in 1..k : list[i] = c.lists[o][i]
          BY <1>1, <5>3, <5>5, UpToIs
        <5>7. r = LastEvictable(c, list)
          OBVIOUS
        <5> HIDE DEF list, r
        <5>8. Len(list) \in Nat /\ \A i \in 1..Len(list) : list[i] # None /\ list[i] \in c.inCache
          BY <5>4, <5>5, <5>6
        <5>9. Evictable(c, r) /\ \E i \in 1..Len(list) : list[i] = r
          BY <4>1, <5>7, <5>8, LastEvictableIs
        <5> QED  BY <5>8, <5>9
      <4> QED  BY <1>1, <3>1, <4>1 DEF Chosen, Enough, NothingAbove
    <3>2. CASE ~Enough(c)
      <4>1. PICK m \in 0..Len(c.lists[p]) :
               /\ f.current = IF m = 0 THEN None ELSE c.lists[p][m]
               /\ \A j \in 1..Len(c.lists[p]) : j > m => ~Evictable(c, c.lists[p][j])
        BY <1>4, <3>2 DEF Ahead
      <4>2. NothingAbove(c, p, f.target)
        BY <1>4, <3>2 DEF Ahead, NothingAbove
      <4> DEFINE list == UpTo(c, f.current)
      <4>3. Len(list) = m /\ \A i \in 1..m : list[i] = c.lists[p][i]
        <5>1. CASE m = 0
          <6>1. list = <<>>
            BY <4>1, <5>1 DEF UpTo
          <6> QED  BY <5>1, <6>1
        <5>2. CASE m # 0
          <6>1. m \in 1..Len(c.lists[p]) /\ f.current = c.lists[p][m]
            <7>1. Len(c.lists[p]) \in Nat
              BY <1>1, Listed
            <7> QED  BY <4>1, <5>2, <7>1
          <6> QED  BY <1>1, <6>1, UpToIs
        <5> QED  BY <5>1, <5>2
      <4>4. r = LastEvictable(c, list)
        OBVIOUS
      <4> HIDE DEF list, r, p
      <4> QED  BY <1>1, <4>1, <4>2, <4>3, <4>4, Looked DEF p
    <3> QED  BY <3>1, <3>2
  <2> HIDE DEF r, p
  <2>5. CASE r = None
    <3>1. AfterEvict(c, f, s) = Sweep(c, p - 1, f.target, s)
      BY <2>1, <2>5
    <3> QED  BY <1>1, <1>4, <2>2, <2>3, <2>5, <3>1, SweepIs
  <2>6. CASE r # None
    <3>1. AfterEvict(c, f, s) = [cache |-> c, stack |-> <<g>> \o s]
      BY <2>1, <2>6
    <3>2. r \in Resources
      BY <1>1, <2>3, <2>6 DEF Chosen, Cache
    <3>3. g \in Frame /\ ~g.back /\ g.queue = p /\ g.current = r /\ g.target = f.target
      BY <3>2 DEF Frame, p
    <3> HIDE DEF g
    <3>4. Stacked(c, <<g>> \o s) /\ <<g>> \o s # <<>>
      BY <1>4, <2>3, <2>6, <3>3, Pushed
    <3>5. Onward(c, s, [cache |-> c, stack |-> <<g>> \o s])
      BY <3>3 DEF Onward
    <3> QED  BY <3>1, <3>4, <3>5 DEF Pruned
  <2> QED  BY <2>5, <2>6
<1> QED  BY <1>2, <1>3, <1>4

\* A resource in the cache has a place in its list, and so has the one before it.
LEMMA PreviousIs ==
    ASSUME NEW c, Exact(c), NEW r \in c.inCache
    PROVE  Previous(c, r) \in (c.inCache \ {r}) \cup {None}
<1> DEFINE q == QueueOf(c, r)
<1>1. q \in Queues
  <2>1. c \in Cache /\ r \in Resources
    BY DEF Exact, Alive, Cache
  <2> QED  BY <2>1, QueueInQueues
<1>q. QueueOf(c, r) = q
  OBVIOUS
<1> HIDE DEF q
<1>2. /\ Len(c.lists[q]) \in Nat
      /\ \A k \in 1..Len(c.lists[q]) : c.lists[q][k] \in c.inCache
      /\ \A j, k \in 1..Len(c.lists[q]) : c.lists[q][j] = c.lists[q][k] => j = k
  BY <1>1, Listed
<1>3. PICK k \in 1..Len(c.lists[q]) : c.lists[q][k] = r
  BY <1>1, <1>q, Listed
<1>4. Previous(c, r) = IF k = 1 THEN None ELSE c.lists[q][k - 1]
  BY <1>1, <1>3, UpToIs
<1>5. k # 1 => k - 1 \in 1..Len(c.lists[q]) /\ k - 1 # k
  BY <1>2
<1> QED  BY <1>2, <1>3, <1>4, <1>5

\* An eviction that does not prune the cache leaves the walk where it was.
LEMMA EvictedQuietly ==
    ASSUME NEW c, Good(c), NEW r, NEW q, NEW target \in Nat, Chosen(c, q, r, target),
           NEW d, Good(d), Kept(TakeOut(c, r), d), Quiet(TakeOut(c, r), d),
           NEW f, f.queue = q, f.target = target, f.current = Previous(c, r)
    PROVE  Ahead(d, f)
<1> DEFINE u == TakeOut(c, r)
<1>1. /\ Exact(c) /\ c \in Cache /\ d \in Cache /\ q \in Queues
      /\ r \in c.inCache /\ r \in Resources /\ Evictable(c, r)
  BY DEF Good, Exact, Alive, Chosen, Cache
<1>2. /\ SameUses(c, u) /\ u.inCache = c.inCache \ {r}
      /\ u.encoded = c.encoded /\ u.decoded = c.decoded /\ u.access = c.access
      /\ u.lists = [c.lists EXCEPT ![QueueOf(c, r)] = RemoveFirst(@, r)]
      /\ u.liveSize = c.liveSize /\ u.deadSize <= c.deadSize /\ u \in Cache
  <2>1. ~HasClients(c, r)
    BY <1>1 DEF Evictable
  <2>2. /\ Exact(u) /\ SameUses(c, u) /\ u.inCache = c.inCache \ {r}
        /\ u.encoded = c.encoded /\ u.decoded = c.decoded /\ u.access = c.access
        /\ r \in c.inCache => u.lists = [c.lists EXCEPT ![QueueOf(c, r)] = RemoveFirst(@, r)]
        /\ ~HasClients(c, r) => u.liveSize = c.liveSize /\ u.deadSize <= c.deadSize
    BY <1>1, TakenOut
  <2> QED  BY <1>1, <2>1, <2>2 DEF Exact, Alive
<1>k. Kept(u, d) /\ Quiet(u, d)
  OBVIOUS
<1> HIDE DEF u
<1>3. /\ d.inCache = c.inCache \ {r} /\ d.capacity = c.capacity /\ d.lists = u.lists
      /\ d.liveSize = c.liveSize /\ d.deadSize <= c.deadSize
  BY <1>2, <1>k DEF Kept, Quiet, SameUses
<1>4. /\ \A x \in d.inCache : QueueOf(d, x) = QueueOf(c, x)
      /\ \A x \in d.inCache : Evictable(d, x) = Evictable(c, x)
  <2>1. \A x : HasClients(u, x) = HasClients(c, x) /\ Size(u, x) = Size(c, x) /\ QueueOf(u, x) = QueueOf(c, x)
    BY <1>2, SameClients DEF SameUses, Size, QueueOf
  <2> QED  BY <1>2, <1>3, <1>k, <2>1 DEF Kept, Quiet, SameUses, Evictable
<1>5. /\ DeadCapacity(d) = DeadCapacity(c) /\ DeadCapacity(c) \in Nat
      /\ c.deadSize \in Int /\ d.deadSize \in Int
  BY <1>1, <1>3, CapacityIs DEF DeadCapacity, Cache
<1>6. CASE DeadFits(c)
  BY <1>3, <1>5, <1>6 DEF DeadFits, Enough, Ahead
<1>7. CASE ~DeadFits(c)
  <2>1. /\ target <= DeadCapacity(c)
        /\ \A x \in c.inCache : Evictable(c, x) => QueueOf(c, x) <= q
    BY <1>7 DEF Chosen, Swept
  <2> DEFINE s == c.lists[q]
             t == d.lists[q]
             n == Len(s)
  <2>2. /\ s \in Seq(Resources) /\ n \in Nat /\ DOMAIN s = 1..n
        /\ \A k \in 1..n : s[k] \in c.inCache /\ QueueOf(c, s[k]) = q
        /\ \A j, k \in 1..n : s[j] = s[k] => j = k
    BY <1>1, Listed
  <2>3. PICK k \in 1..n : s[k] = r /\ \A j \in 1..n : j > k => ~Evictable(c, s[j])
    <3>1. \E k \in DOMAIN c.lists[q] :
             /\ c.lists[q][k] = r
             /\ \A j \in DOMAIN c.lists[q] : j > k => ~Evictable(c, c.lists[q][j])
      BY <1>7 DEF Chosen, Swept
    <3> QED  BY <2>2, <3>1
  <2>4. t = RemoveFirst(s, s[k])
    <3>1. QueueOf(c, r) = q /\ c.lists \in [Queues -> Seq(Resources)]
      BY <1>1, <2>2, <2>3 DEF Cache
    <3> QED  BY <1>1, <1>2, <1>3, <2>3, <3>1
  <2>5. f.current = IF k = 1 THEN None ELSE s[k - 1]
    BY <1>1, <2>3, UpToIs
  <2> HIDE DEF s, t
  <2>6. IsInjective(s)
    BY <2>2 DEF IsInjective
  <2>7. Len(t) = n - 1 /\ \A i \in 1..(n - 1) : t[i] = IF i < k THEN s[i] ELSE s[i + 1]
    <3>1. k \in 1..Len(s) /\ s \in Seq(Resources)
      BY <2>2
    <3> HIDE DEF n
    <3>2. /\ Len(RemoveFirst(s, s[k])) = Len(s) - 1
          /\ \A i \in 1..(Len(s) - 1) :
                RemoveFirst(s, s[k])[i] = IF i < k THEN s[i] ELSE s[i + 1]
      BY <2>6, <3>1, RemovedAt
    <3>3. n = Len(s)
      BY DEF n
    <3> QED  BY <2>4, <3>2, <3>3
  <2> HIDE DEF n
  <2>8. k - 1 \in 0..Len(t) /\ k \in Int
    BY <2>2, <2>7
  <2>9. f.current = IF k - 1 = 0 THEN None ELSE t[k - 1]
    <3>1. CASE k = 1
      BY <2>5, <3>1
    <3>2. CASE k # 1
      <4>1. k - 1 \in 1..(n - 1) /\ k - 1 < k /\ k - 1 # 0
        BY <2>2, <3>2
      <4> QED  BY <2>5, <2>7, <3>2, <4>1
    <3> QED  BY <3>1, <3>2
  <2>10. ASSUME NEW j \in 1..Len(t), j > k - 1 PROVE ~Evictable(d, t[j])
    <3>1. j \in 1..(n - 1) /\ ~(j < k) /\ j + 1 \in 1..n /\ j + 1 > k /\ j + 1 # k
      BY <2>2, <2>7, <2>10
    <3>2. t[j] = s[j + 1] /\ ~Evictable(c, s[j + 1]) /\ s[j + 1] \in c.inCache /\ s[j + 1] # r
      BY <2>2, <2>3, <2>7, <3>1
    <3> QED  BY <1>3, <1>4, <3>2
  <2>11. \A x \in d.inCache : Evictable(d, x) => QueueOf(d, x) <= q
    BY <1>3, <1>4, <2>1
  <2>12. \E m \in 0..Len(t) : /\ f.current = IF m = 0 THEN None ELSE t[m]
                              /\ \A j \in 1..Len(t) : j > m => ~Evictable(d, t[j])
    BY <2>8, <2>9, <2>10
  <2> QED  BY <1>5, <2>1, <2>11, <2>12 DEF Ahead, t
<1> QED  BY <1>6, <1>7

(***************************************************************************)
(* The inductive invariant, and what each action does to it.               *)
(***************************************************************************)
Inv == environment \in Environments /\ Good(cache) /\ Stacked(cache, stack)

\* An action of a document, a page or the network.
LEMMA Controls ==
    ASSUME Inv, InControl
    PROVE  /\ stack = <<>> /\ Good(cache) /\ Exact(cache) /\ cache \in Cache /\ ~cache.pruning
           /\ None \notin Resources
BY ConstantsAssumption DEF Inv, InControl, Stacked, Good, Exact, Alive

LEMMA Stays ==
    ASSUME Inv, InControl, Good(cache'), ~cache'.pruning, UNCHANGED <<environment, stack>>
    PROVE  Inv'
BY DEF Inv, InControl, Stacked

LEMMA Becomes ==
    ASSUME Inv, InControl, NEW c, Good(c), ~c.pruning, Become(Prune(c, stack))
    PROVE  Inv'
<1>1. AllBack(stack)
  BY DEF InControl, AllBack
<1>2. Pruned(c, stack, Prune(c, stack))
  BY <1>1, PruneIs
<1> QED  BY <1>2 DEF Become, Pruned, Inv

LEMMA Proceeds ==
    ASSUME Inv, InControl, NEW o, Good(o.cache), ~o.cache.pruning, Proceed(o)
    PROVE  Inv'
<1>1. CASE o.prune
  <2>1. Become(Prune(o.cache, stack))
    BY <1>1 DEF Proceed
  <2> QED  BY <2>1, Becomes
<1>2. CASE ~o.prune
  BY <1>2, Stays DEF Proceed
<1> QED  BY <1>1, <1>2

LEMMA UsesSet ==
    ASSUME NEW c, Good(c), NEW d, SameBooks(c, d),
           d.page = c.page, d.embeds = c.embeds, d.revalidates = c.revalidates
    PROVE  Good(d)
<1>1. \A x : HasClients(d, x) = HasClients(c, x)
  BY SameClients
<1> QED  BY <1>1, UsesChange DEF Good, Linked, SameBooks

\* A resource with new uses; p, h, l are the resources that are preloaded, handled, loading.
LEMMA UsesAre ==
    ASSUME NEW c, Good(c), NEW S \in SUBSET Resources
    PROVE  /\ Good([c EXCEPT !.preloads = S]) /\ [c EXCEPT !.preloads = S].pruning = c.pruning
           /\ Good([c EXCEPT !.handled = S]) /\ [c EXCEPT !.handled = S].pruning = c.pruning
           /\ Good([c EXCEPT !.loading = S]) /\ [c EXCEPT !.loading = S].pruning = c.pruning
           /\ Good([c EXCEPT !.recent = S]) /\ [c EXCEPT !.recent = S].pruning = c.pruning
<1> DEFINE p == [c EXCEPT !.preloads = S]
           h == [c EXCEPT !.handled = S]
           l == [c EXCEPT !.loading = S]
           t == [c EXCEPT !.recent = S]
           Same(d) == SameBooks(c, d) /\ d.page = c.page /\ d.embeds = c.embeds
                      /\ d.revalidates = c.revalidates /\ d.pruning = c.pruning
<1>1. c \in Cache
  BY DEF Good, Exact, Alive
<1>2. Same(p)
  BY <1>1 DEF Cache, SameBooks
<1>3. Same(h)
  BY <1>1 DEF Cache, SameBooks
<1>4. Same(l)
  BY <1>1 DEF Cache, SameBooks
<1>5. Same(t)
  BY <1>1 DEF Cache, SameBooks
<1> HIDE DEF p, h, l, t
<1>6. Good(p) /\ Good(h) /\ Good(l) /\ Good(t)
  BY <1>2, <1>3, <1>4, <1>5, UsesSet
<1> QED  BY <1>2, <1>3, <1>4, <1>5, <1>6 DEF p, h, l, t

LEMMA CreatedIsGood ==
    ASSUME NEW c, Good(c), NEW r \in Resources \ c.alive, NEW v \in (c.alive \ c.inCache) \cup {None},
           ~IsProxied(c, v) \/ v = None
    PROVE  Good(Created(c, r, v)) /\ Created(c, r, v).pruning = c.pruning
<1> DEFINE d == Created(c, r, v)
<1>1. /\ c \in Cache /\ v \in Resources \cup {None}
      /\ c.revalidates \in [Resources -> Resources \cup {None}]
  BY DEF Good, Exact, Alive, Cache
<1>2. /\ Exact(d) /\ d.inCache = c.inCache \cup {r} /\ d.alive = c.alive \cup {r}
      /\ d.revalidates = [c.revalidates EXCEPT ![r] = v] /\ d.pruning = c.pruning
  <2>1. Exact(c) /\ v \in Resources \cup {None}
    BY DEF Good, Exact, Alive, Cache
  <2> QED  BY <2>1, CreatedIs
<1> HIDE DEF d
<1>3. \A n \in Resources : d.revalidates[n] = IF n = r THEN v ELSE c.revalidates[n]
  BY <1>1, <1>2
<1>4. Linked(d)
  <2>1. ASSUME NEW n \in Resources, d.revalidates[n] # None PROVE d.revalidates[n] \in d.alive \ d.inCache
    BY <1>2, <1>3, <2>1 DEF Good, Linked
  <2>2. \A n \in Resources : c.revalidates[n] = v => v = None
    BY DEF IsProxied
  <2>3. ASSUME NEW n \in Resources, NEW m \in Resources,
               d.revalidates[n] # None /\ d.revalidates[n] = d.revalidates[m]
        PROVE  n = m
    BY <1>3, <2>2, <2>3 DEF Good, Linked
  <2> QED  BY <2>1, <2>3 DEF Linked
<1> QED  BY <1>2, <1>4 DEF Good, d

LEMMA RequestKeeps == ASSUME Inv, NEW r \in Resources, Request(r) PROVE Inv'
<1> DEFINE d == Created(cache, r, None)
<1>1. InControl /\ r \notin cache.alive
  BY DEF Request
<1>2. Good(cache) /\ ~cache.pruning
  BY <1>1, Controls
<1>3. Good(d) /\ d.pruning = cache.pruning
  BY <1>1, <1>2, CreatedIsGood
<1>4. \E preload \in {{}, {r}} : cache' = [d EXCEPT !.preloads = @ \cup preload]
  BY DEF Request
<1> HIDE DEF d
<1>5. PICK S \in SUBSET Resources : cache' = [d EXCEPT !.preloads = S]
  <2>1. d.preloads \in SUBSET Resources
    BY <1>3 DEF Good, Exact, Alive, Cache
  <2> QED  BY <1>4, <2>1
<1>6. Good(cache') /\ ~cache'.pruning
  BY <1>2, <1>3, <1>5, UsesAre
<1> QED  BY <1>1, <1>6, Stays DEF Request

LEMMA RequestAgainKeeps == ASSUME Inv, NEW r \in Resources, RequestAgain(r) PROVE Inv'
<1> DEFINE d == ResourceAccessed(cache, r)
           S == d.handled \cup {r}
<1>1. /\ InControl /\ r \in cache.inCache /\ cache.access[r] < MaxAccess
      /\ cache' = [d EXCEPT !.handled = S]
  BY DEF RequestAgain
<1>2. Good(cache) /\ Exact(cache) /\ ~cache.pruning
  BY <1>1, Controls
<1>3. Exact(d) /\ SameUses(cache, d) /\ d.inCache = cache.inCache /\ d.alive = cache.alive
  BY <1>1, <1>2, AccessedAgain
<1> HIDE DEF d
<1>4. Good(d) /\ d.pruning = cache.pruning /\ S \in SUBSET Resources
  <2>1. Linked(d) /\ d.pruning = cache.pruning
    BY <1>2, <1>3 DEF Good, Linked, SameUses
  <2>2. d.handled \in SUBSET Resources
    BY <1>3 DEF Exact, Alive, Cache
  <2> QED  BY <1>3, <2>1, <2>2 DEF Good
<1> HIDE DEF S
<1>5. Good(cache') /\ ~cache'.pruning
  BY <1>1, <1>2, <1>4, UsesAre
<1> QED  BY <1>1, <1>5, Stays DEF RequestAgain

\* An outcome that keeps a cache which is not pruning.
LEMMA Outcome ==
    ASSUME NEW c, ~c.pruning, NEW o, Deleting(c, o) PROVE Good(o.cache) /\ ~o.cache.pruning
BY DEF Deleting, Kept

LEMMA EvictOutcome ==
    ASSUME NEW c, Good(c), ~c.pruning, NEW r \in Resources
    PROVE  Good(Evict(c, r).cache) /\ ~Evict(c, r).cache.pruning
<1> DEFINE u == TakeOut(c, r)
<1>1. Good(u) /\ Deleting(u, Evict(c, r))
  BY EvictIs
<1>2. SameUses(c, u)
  BY TakenOut DEF Good
<1> HIDE DEF u
<1> QED  BY <1>1, <1>2, Outcome DEF SameUses

LEMMA RemoveResourceKeeps == ASSUME Inv, NEW r \in Resources, RemoveResource(r) PROVE Inv'
<1>1. InControl /\ Proceed(Evict(cache, r))
  BY DEF RemoveResource
<1> QED  BY <1>1, Controls, EvictOutcome, Proceeds

LEMMA DropHandleKeeps == ASSUME Inv, NEW r \in Resources, DropHandle(r) PROVE Inv'
<1> DEFINE S == cache.handled \ {r}
           c == [cache EXCEPT !.handled = S]
<1>1. InControl /\ Proceed(DeleteIfPossible(c, r))
  BY DEF DropHandle
<1>2. Good(cache) /\ ~cache.pruning /\ S \in SUBSET Resources
  BY <1>1, Controls DEF Cache
<1> HIDE DEF S
<1>3. Good(c) /\ ~c.pruning
  BY <1>2, UsesAre
<1> HIDE DEF c
<1>4. Deleting(c, DeleteIfPossible(c, r))
  BY <1>3, DeleteIfPossibleIs
<1> QED  BY <1>1, <1>3, <1>4, Outcome, Proceeds

LEMMA EndPreloadKeeps == ASSUME Inv, NEW r \in Resources, EndPreload(r) PROVE Inv'
<1> DEFINE S == cache.preloads \ {r}
           c == [cache EXCEPT !.preloads = S]
<1>1. InControl /\ (Proceed(DeleteIfPossible(c, r)) \/ Proceed(Evict(c, r)))
  BY DEF EndPreload
<1>2. Good(cache) /\ ~cache.pruning /\ S \in SUBSET Resources
  BY <1>1, Controls DEF Cache
<1> HIDE DEF S
<1>3. Good(c) /\ ~c.pruning
  BY <1>2, UsesAre
<1> HIDE DEF c
<1>4. Deleting(c, DeleteIfPossible(c, r))
  BY <1>3, DeleteIfPossibleIs
<1>5. Good(Evict(c, r).cache) /\ ~Evict(c, r).cache.pruning
  BY <1>3, EvictOutcome
<1> QED  BY <1>1, <1>3, <1>4, <1>5, Outcome, Proceeds

\* A resource gains a client, which is its own page or the document in an SVG image.
LEMMA GainedIsGood ==
    ASSUME NEW c, Good(c), NEW r \in Resources, NEW d, SameBooks(Joined(c, r), d),
           HasClients(d, r), \A x \in c.inCache \ {r} : HasClients(d, x) = HasClients(c, x),
           d.revalidates = c.revalidates
    PROVE  Good(d)
<1>1. Exact(d) /\ d.inCache = c.inCache /\ d.alive = c.alive
  BY Gained DEF Good
<1> QED  BY <1>1 DEF Good, Linked

LEMMA AddClientKeeps == ASSUME Inv, NEW r \in Resources, AddClient(r) PROVE Inv'
<1> DEFINE j == Joined(cache, r)
           S == j.page \cup {r}
           d == [j EXCEPT !.page = S]
<1>1. InControl /\ r \notin cache.page /\ cache' = d
  BY DEF AddClient
<1>2. Good(cache) /\ Exact(cache) /\ ~cache.pruning /\ cache \in Cache
  BY <1>1, Controls
<1>3. j \in Cache /\ SameResources(cache, j)
  BY <1>2, JoinedIs
<1>j. j = Joined(cache, r)
  OBVIOUS
<1> HIDE DEF j
<1>4. S \in SUBSET Resources /\ S = cache.page \cup {r}
  BY <1>2, <1>3 DEF Cache, SameResources, SameUses
<1> HIDE DEF S
<1>5. SameBooks(j, d) /\ d.page = S /\ d.embeds = j.embeds
      /\ d.revalidates = j.revalidates /\ d.pruning = j.pruning
  BY <1>3, <1>4 DEF SameBooks, Cache
<1> HIDE DEF d
<1>6. d.page = cache.page \cup {r} /\ d.embeds = cache.embeds
      /\ d.revalidates = cache.revalidates /\ d.pruning = cache.pruning
  BY <1>3, <1>4, <1>5 DEF SameResources, SameUses
<1>7. HasClients(d, r) /\ \A x \in cache.inCache \ {r} : HasClients(d, x) = HasClients(cache, x)
  BY <1>6 DEF HasClients
<1>8. Good(d)
  BY <1>2, <1>5, <1>6, <1>7, <1>j, GainedIsGood
<1> QED  BY <1>1, <1>2, <1>6, <1>8, Stays DEF AddClient

LEMMA RemoveClientKeeps == ASSUME Inv, NEW r \in Resources, RemoveClient(r) PROVE Inv'
<1> DEFINE gone == AfterRemoveClient([cache EXCEPT !.page = @ \ {r}], r)
<1>1. /\ InControl /\ r \in cache.page
      /\ \/ Proceed(gone)
         \/ cache' = gone.cache /\ UNCHANGED <<environment, stack>>
         \/ Proceed(Evict(gone.cache, r))
  BY DEF RemoveClient
<1>2. Good(cache) /\ ~cache.pruning
  BY <1>1, Controls
<1>3. Deleting(cache, gone)
  BY <1>1, <1>2, AfterRemoveClientIs
<1> HIDE DEF gone
<1>4. Good(gone.cache) /\ ~gone.cache.pruning
  BY <1>2, <1>3, Outcome
<1>5. Good(Evict(gone.cache, r).cache) /\ ~Evict(gone.cache, r).cache.pruning
  BY <1>4, EvictOutcome
<1>6. CASE Proceed(gone)
  BY <1>1, <1>4, <1>6, Proceeds
<1>7. CASE cache' = gone.cache /\ UNCHANGED <<environment, stack>>
  BY <1>1, <1>4, <1>7, Stays
<1>8. CASE Proceed(Evict(gone.cache, r))
  BY <1>1, <1>5, <1>8, Proceeds
<1> QED  BY <1>1, <1>6, <1>7, <1>8

LEMMA EmbedKeeps == ASSUME Inv, NEW r \in Resources, NEW s \in SVGs, Embed(s, r) PROVE Inv'
<1> DEFINE j == Joined(cache, r)
           m == [j.embeds EXCEPT ![s] = r]
           d == [j EXCEPT !.embeds = m]
<1>1. InControl /\ cache.embeds[s] = None /\ cache' = d
  BY DEF Embed
<1>2. Good(cache) /\ Exact(cache) /\ ~cache.pruning /\ cache \in Cache /\ None \notin Resources
  BY <1>1, Controls
<1>3. j \in Cache /\ SameResources(cache, j)
  BY <1>2, JoinedIs
<1>j. j = Joined(cache, r)
  OBVIOUS
<1> HIDE DEF j
<1>4. m \in [SVGs -> Resources \cup {None}] /\ m = [cache.embeds EXCEPT ![s] = r]
  BY <1>2, <1>3 DEF Cache, SameResources, SameUses
<1> HIDE DEF m
<1>5. SameBooks(j, d) /\ d.page = j.page /\ d.embeds = m
      /\ d.revalidates = j.revalidates /\ d.pruning = j.pruning
  BY <1>3, <1>4 DEF SameBooks, Cache
<1> HIDE DEF d
<1>6. d.page = cache.page /\ d.embeds = [cache.embeds EXCEPT ![s] = r]
      /\ d.revalidates = cache.revalidates /\ d.pruning = cache.pruning
  BY <1>3, <1>4, <1>5 DEF SameResources, SameUses
<1>7. \A t \in SVGs : d.embeds[t] = IF t = s THEN r ELSE cache.embeds[t]
  BY <1>2, <1>6 DEF Cache
<1>8. HasClients(d, r)
  BY <1>7 DEF HasClients
<1>9. ASSUME NEW x \in cache.inCache \ {r} PROVE HasClients(d, x) = HasClients(cache, x)
  <2>1. x # None
    BY <1>2 DEF Cache
  <2>2. \A t \in SVGs : d.embeds[t] = x <=> cache.embeds[t] = x
    BY <1>1, <1>7, <2>1
  <2> QED  BY <1>6, <2>2 DEF HasClients
<1>10. Good(d)
  BY <1>2, <1>5, <1>6, <1>8, <1>9, <1>j, GainedIsGood
<1> QED  BY <1>1, <1>2, <1>6, <1>10, Stays DEF Embed

\* A resource of another size.
LEMMA SizeSetIsGood ==
    ASSUME NEW c, Good(c), NEW r \in Resources, NEW m \in 0..MaxEncoded, NEW n \in 0..MaxDecoded
    PROVE  /\ Good(SetEncodedSize(c, r, m)) /\ SetEncodedSize(c, r, m).pruning = c.pruning
           /\ Good(SetDecodedSize(c, r, n)) /\ SetDecodedSize(c, r, n).pruning = c.pruning
<1> DEFINE d == SetEncodedSize(c, r, m)
           e == SetDecodedSize(c, r, n)
<1>1. Exact(d) /\ SameResources(c, d) /\ Exact(e) /\ SameResources(c, e)
  BY EncodedSizeSet, DecodedSizeSet DEF Good
<1> HIDE DEF d, e
<1>2. Good(d) /\ d.pruning = c.pruning /\ Good(e) /\ e.pruning = c.pruning
  BY <1>1 DEF Good, Linked, SameResources, SameUses
<1> QED  BY <1>2 DEF d, e

LEMMA DataArrivesKeeps == ASSUME Inv, NEW r \in Resources, DataArrives(r) PROVE Inv'
<1>1. InControl /\ \E m \in cache.encoded[r]..MaxEncoded : cache' = SetEncodedSize(cache, r, m)
  BY DEF DataArrives
<1>2. Good(cache) /\ ~cache.pruning /\ cache \in Cache
  BY <1>1, Controls
<1>3. PICK m \in 0..MaxEncoded : cache' = SetEncodedSize(cache, r, m)
  <2>1. cache.encoded[r] \in 0..MaxEncoded /\ MaxEncoded \in Nat
    BY <1>2, ConstantsAssumption DEF Cache
  <2>2. cache.encoded[r]..MaxEncoded \subseteq 0..MaxEncoded
    BY <2>1
  <2> QED  BY <1>1, <2>2
<1>4. 0 \in 0..MaxDecoded
  BY ConstantsAssumption
<1>5. Good(cache') /\ ~cache'.pruning
  BY <1>2, <1>3, <1>4, SizeSetIsGood
<1> QED  BY <1>1, <1>5, Stays DEF DataArrives

LEMMA FinishLoadKeeps == ASSUME Inv, NEW r \in Resources, FinishLoad(r) PROVE Inv'
<1> DEFINE S == cache.loading \ {r}
           c == [cache EXCEPT !.loading = S]
<1>1. InControl /\ Proceed(DeleteIfPossible(c, r))
  BY DEF FinishLoad
<1>2. Good(cache) /\ ~cache.pruning /\ S \in SUBSET Resources
  BY <1>1, Controls DEF Cache
<1> HIDE DEF S
<1>3. Good(c) /\ ~c.pruning
  BY <1>2, UsesAre
<1> HIDE DEF c
<1>4. Deleting(c, DeleteIfPossible(c, r))
  BY <1>3, DeleteIfPossibleIs
<1> QED  BY <1>1, <1>3, <1>4, Outcome, Proceeds

LEMMA FailLoadKeeps == ASSUME Inv, NEW r \in Resources, FailLoad(r) PROVE Inv'
<1> DEFINE a == SetDecodedSize(cache, r, 0)
           b == SetEncodedSize(a, r, 0)
           S == b.loading \ {r}
           c == [b EXCEPT !.loading = S]
<1>1. InControl /\ Proceed(Evict(c, r))
  BY DEF FailLoad, DestroyDecodedData
<1>2. Good(cache) /\ ~cache.pruning
  BY <1>1, Controls
<1>3. 0 \in 0..MaxEncoded /\ 0 \in 0..MaxDecoded
  BY ConstantsAssumption
<1>4. Good(a) /\ ~a.pruning
  BY <1>2, <1>3, SizeSetIsGood
<1> HIDE DEF a
<1>5. Good(b) /\ ~b.pruning
  BY <1>3, <1>4, SizeSetIsGood
<1> HIDE DEF b
<1>6. S \in SUBSET Resources
  BY <1>5 DEF Good, Exact, Alive, Cache
<1> HIDE DEF S
<1>7. Good(c) /\ ~c.pruning
  BY <1>5, <1>6, UsesAre
<1> HIDE DEF c
<1>8. Good(Evict(c, r).cache) /\ ~Evict(c, r).cache.pruning
  BY <1>7, EvictOutcome
<1> QED  BY <1>1, <1>8, Proceeds

LEMMA DecodeKeeps == ASSUME Inv, NEW r \in Resources, Decode(r) PROVE Inv'
<1>1. InControl /\ \E n \in 1..MaxDecoded : cache' = SetDecodedSize(cache, r, n)
  BY DEF Decode
<1>2. Good(cache) /\ ~cache.pruning
  BY <1>1, Controls
<1>3. PICK n \in 0..MaxDecoded : cache' = SetDecodedSize(cache, r, n)
  <2>1. 1..MaxDecoded \subseteq 0..MaxDecoded
    BY ConstantsAssumption
  <2> QED  BY <1>1, <2>1
<1>4. 0 \in 0..MaxEncoded
  BY ConstantsAssumption
<1>5. Good(cache') /\ ~cache'.pruning
  BY <1>2, <1>3, <1>4, SizeSetIsGood
<1> QED  BY <1>1, <1>5, Stays DEF Decode

LEMMA DeletionTimerKeeps == ASSUME Inv, NEW r \in Resources, DeletionTimerFires(r) PROVE Inv'
<1>1. InControl /\ cache' = SetDecodedSize(cache, r, 0)
  BY DEF DeletionTimerFires, DestroyDecodedData
<1>2. Good(cache) /\ ~cache.pruning
  BY <1>1, Controls
<1>3. 0 \in 0..MaxEncoded /\ 0 \in 0..MaxDecoded
  BY ConstantsAssumption
<1>4. Good(cache') /\ ~cache'.pruning
  BY <1>1, <1>2, <1>3, SizeSetIsGood
<1> QED  BY <1>1, <1>4, Stays DEF DeletionTimerFires

LEMMA TimePassesKeeps == ASSUME Inv, TimePasses PROVE Inv'
<1>1. InControl /\ cache' = [cache EXCEPT !.recent = {}]
  BY DEF TimePasses
<1>2. Good(cache) /\ ~cache.pruning
  BY <1>1, Controls
<1>3. Good(cache') /\ ~cache'.pruning
  BY <1>1, <1>2, UsesAre
<1> QED  BY <1>1, <1>3, Stays DEF TimePasses

LEMMA SetCapacitiesKeeps == ASSUME Inv, SetCapacities PROVE Inv'
<1>1. PICK capacity \in Capacities : Become(Prune([cache EXCEPT !.capacity = capacity], stack))
  BY DEF SetCapacities
<1>0. InControl
  BY DEF SetCapacities
<1> DEFINE c == [cache EXCEPT !.capacity = capacity]
<1>2. Good(cache) /\ ~cache.pruning /\ cache \in Cache
  BY <1>0, Controls
<1>3. SameBooks(cache, c) /\ c.page = cache.page /\ c.embeds = cache.embeds
      /\ c.revalidates = cache.revalidates /\ c.pruning = cache.pruning
  BY <1>2 DEF SameBooks, Cache
<1>b. Become(Prune(c, stack))
  BY <1>1
<1> HIDE DEF c
<1>4. Good(c)
  BY <1>2, <1>3, UsesSet
<1> QED  BY <1>0, <1>2, <1>3, <1>4, <1>b, Becomes

LEMMA DrawKeeps == ASSUME Inv, NEW r \in Resources, Draw(r) PROVE Inv'
<1> DEFINE S == cache.recent \cup {r}
           c == [cache EXCEPT !.recent = S]
           l == <<r>> \o RemoveFirst(c.live, r)
           d == [c EXCEPT !.live = l]
<1>1. /\ InControl
      /\ \/ cache' = c /\ UNCHANGED <<environment, stack>>
         \/ Become(Prune(IF r \in ToSet(cache.live) THEN d ELSE c, stack))
  BY DEF Draw
<1>2. Good(cache) /\ ~cache.pruning /\ cache \in Cache /\ S \in SUBSET Resources
  BY <1>1, Controls DEF Cache
<1> HIDE DEF S
<1>3. Good(c) /\ ~c.pruning
  BY <1>2, UsesAre
<1>4. c.live = cache.live
  BY <1>2 DEF Cache
<1> HIDE DEF c
<1>5. ASSUME r \in ToSet(cache.live) PROVE Good(d) /\ ~d.pruning
  <2>1. c \in Cache /\ c.live \in Seq(Resources) /\ IsInjective(c.live)
    BY <1>3 DEF Good, Exact, Alive, Cache, InLive
  <2>2. /\ RemoveFirst(c.live, r) \in Seq(Resources) /\ IsInjective(RemoveFirst(c.live, r))
        /\ ToSet(RemoveFirst(c.live, r)) = ToSet(c.live) \ {r}
    BY <2>1, RemovedFrom
  <2>3. l \in Seq(Resources) /\ ToSet(l) = ToSet(c.live) /\ IsInjective(l)
    <3> DEFINE s == RemoveFirst(c.live, r)
    <3>1. s \in Seq(Resources) /\ IsInjective(s) /\ ToSet(s) = ToSet(c.live) \ {r}
      BY <2>2
    <3>2. l = <<r>> \o s
      OBVIOUS
    <3> HIDE DEF s, l
    <3>3. <<r>> \o s \in Seq(Resources) /\ ToSet(<<r>> \o s) = ToSet(s) \cup {r} /\ IsInjective(<<r>> \o s)
      BY <3>1, PutFirst
    <3> QED  BY <1>4, <1>5, <3>1, <3>2, <3>3
  <2> HIDE DEF l
  <2>4. /\ d \in Cache /\ SameUses(c, d) /\ d.live = l
        /\ d.alive = c.alive /\ d.inCache = c.inCache
        /\ d.encoded = c.encoded /\ d.decoded = c.decoded /\ d.access = c.access
        /\ d.lists = c.lists /\ d.liveSize = c.liveSize /\ d.deadSize = c.deadSize
    BY <2>1, <2>3, LiveChanges
  <2> HIDE DEF d
  <2>5. /\ \A x : HasClients(d, x) = HasClients(c, x)
        /\ \A x : Size(d, x) = Size(c, x) /\ QueueOf(d, x) = QueueOf(c, x)
    BY <2>4, SameClients DEF SameUses, Size, QueueOf
  <2>6. Alive(d)
    BY <1>3, <2>4 DEF Good, Exact, Alive
  <2>7. InLists(d, d.inCache)
    BY <1>3, <2>4, <2>5 DEF Good, Exact, InLists
  <2>8. InLive(d, d.inCache)
    BY <1>3, <2>3, <2>4, <2>5 DEF Good, Exact, InLive
  <2>9. Sized(d)
    <3>1. \A x \in Resources : LiveSizeOf(d, x) = LiveSizeOf(c, x) /\ DeadSizeOf(d, x) = DeadSizeOf(c, x)
      BY <2>4, <2>5 DEF LiveSizeOf, DeadSizeOf
    <3>2. [x \in Resources |-> LiveSizeOf(d, x)] = [x \in Resources |-> LiveSizeOf(c, x)]
      BY <3>1
    <3>3. [x \in Resources |-> DeadSizeOf(d, x)] = [x \in Resources |-> DeadSizeOf(c, x)]
      BY <3>1
    <3> QED  BY <1>3, <2>4, <3>2, <3>3 DEF Good, Exact, Sized
  <2>10. Linked(d)
    BY <1>3, <2>4 DEF Good, Linked, SameUses
  <2> QED  BY <1>3, <2>4, <2>6, <2>7, <2>8, <2>9, <2>10 DEF Good, Exact, SameUses
<1> HIDE DEF d
<1>6. CASE cache' = c /\ UNCHANGED <<environment, stack>>
  BY <1>1, <1>3, <1>6, Stays
<1>7. CASE r \in ToSet(cache.live) /\ Become(Prune(d, stack))
  BY <1>1, <1>5, <1>7, Becomes
<1>8. CASE r \notin ToSet(cache.live) /\ Become(Prune(c, stack))
  BY <1>1, <1>3, <1>8, Becomes
<1> QED  BY <1>1, <1>6, <1>7, <1>8

LEMMA RevalidationFailsKeeps == ASSUME Inv, NEW n \in Resources, RevalidationFails(n) PROVE Inv'
<1> DEFINE r == cache.revalidates[n]
           g == [cache.revalidates EXCEPT ![n] = None]
           c == [cache EXCEPT !.revalidates = g]
<1>1. InControl /\ r # None /\ Proceed(DeleteIfPossible(c, r))
  BY DEF RevalidationFails
<1>2. /\ Good(cache) /\ Exact(cache) /\ ~cache.pruning /\ cache \in Cache
      /\ r \in Resources /\ g \in [Resources -> Resources \cup {None}]
      /\ \A m \in Resources : g[m] = IF m = n THEN None ELSE cache.revalidates[m]
  BY <1>1, Controls DEF Cache
<1> HIDE DEF g
<1>3. /\ SameBooks(cache, c) /\ c.page = cache.page /\ c.embeds = cache.embeds
      /\ c.revalidates = g /\ c.pruning = cache.pruning
  BY <1>2 DEF SameBooks, Cache
<1> HIDE DEF c
<1>4. Exact(c)
  <2>1. \A x : HasClients(c, x) = HasClients(cache, x)
    BY <1>3, SameClients
  <2> QED  BY <1>2, <1>3, <2>1, UsesChange
<1>5. Good(c) /\ ~c.pruning
  BY <1>2, <1>3, <1>4 DEF Good, Linked, SameBooks
<1> HIDE DEF r
<1>6. Deleting(c, DeleteIfPossible(c, r))
  BY <1>2, <1>5, DeleteIfPossibleIs
<1> QED  BY <1>1, <1>5, <1>6, Outcome, Proceeds

LEMMA RevalidateKeeps ==
    ASSUME Inv, NEW r \in Resources, NEW n \in Resources, Revalidate(r, n) PROVE Inv'
<1> DEFINE g == [cache.revalidates EXCEPT ![n] = r]
           linked == [cache EXCEPT !.revalidates = g]
           out == TakeOut(linked, r)
           d == Created(out, n, r)
<1>1. /\ InControl /\ r \in cache.inCache /\ ~IsProxied(cache, r) /\ n \notin cache.alive
      /\ cache' = Created(Evict(linked, r).cache, n, r) /\ UNCHANGED <<environment, stack>>
  BY DEF Revalidate
<1>2. /\ Good(cache) /\ Exact(cache) /\ ~cache.pruning /\ cache \in Cache /\ None \notin Resources
      /\ g \in [Resources -> Resources \cup {None}]
      /\ \A m \in Resources : g[m] = IF m = n THEN r ELSE cache.revalidates[m]
      /\ r \in cache.alive
  BY <1>1, Controls DEF Cache, Exact, Alive
<1>g. g[n] = r
  BY <1>2
<1> HIDE DEF g
<1>3. /\ SameBooks(cache, linked) /\ linked.page = cache.page /\ linked.embeds = cache.embeds
      /\ linked.revalidates = g /\ linked.pruning = cache.pruning
  BY <1>2 DEF SameBooks, Cache
<1> HIDE DEF linked
<1>4. Exact(linked)
  <2>1. \A x : HasClients(linked, x) = HasClients(cache, x)
    BY <1>3, SameClients
  <2> QED  BY <1>2, <1>3, <2>1, UsesChange
<1>5. Exact(out) /\ SameUses(linked, out) /\ out.inCache = cache.inCache \ {r} /\ out.alive = cache.alive
  <2>1. Exact(out) /\ SameUses(linked, out) /\ out.inCache = linked.inCache \ {r} /\ out.alive = linked.alive
    BY <1>4, TakenOut
  <2> QED  BY <1>3, <2>1 DEF SameBooks
<1>6. Evict(linked, r).cache = out
  <2>1. out.revalidates[n] = r
    BY <1>3, <1>5, <1>g DEF SameUses
  <2>2. ~CanDelete(out, r)
    BY <2>1 DEF CanDelete, IsProxied
  <2>3. Evict(linked, r) = Then(out, FALSE, None)
    BY <2>2 DEF Evict
  <2> QED  BY <2>3 DEF Then
<1> HIDE DEF out
<1>7. /\ Exact(d) /\ d.inCache = out.inCache \cup {n} /\ d.alive = out.alive \cup {n}
      /\ d.revalidates = [out.revalidates EXCEPT ![n] = r] /\ d.pruning = out.pruning
  <2>1. n \in Resources \ out.alive /\ r \in Resources \cup {None}
    BY <1>1, <1>5
  <2> QED  BY <1>5, <2>1, CreatedIs
<1>d. cache' = d
  BY <1>1, <1>6
<1> HIDE DEF d
<1>8. d.revalidates = g /\ ~d.pruning
  BY <1>2, <1>3, <1>5, <1>7, <1>g DEF SameUses
<1>9. Linked(d)
  <2>1. ASSUME NEW m \in Resources, d.revalidates[m] # None
        PROVE  d.revalidates[m] \in d.alive \ d.inCache
    <3>1. CASE m = n
      BY <1>1, <1>2, <1>5, <1>7, <1>8, <3>1
    <3>2. CASE m # n
      <4>1. cache.revalidates[m] \in cache.alive \ cache.inCache
        BY <1>2, <1>8, <2>1, <3>2 DEF Good, Linked
      <4> QED  BY <1>1, <1>2, <1>5, <1>7, <1>8, <3>2, <4>1
    <3> QED  BY <3>1, <3>2
  <2>2. \A m \in Resources : cache.revalidates[m] # r
    BY <1>1 DEF IsProxied
  <2>3. ASSUME NEW m \in Resources, NEW k \in Resources,
               d.revalidates[m] # None /\ d.revalidates[m] = d.revalidates[k]
        PROVE  m = k
    BY <1>2, <1>8, <2>2, <2>3 DEF Good, Linked
  <2> QED  BY <2>1, <2>3 DEF Linked
<1>10. Good(cache') /\ ~cache'.pruning
  BY <1>7, <1>8, <1>9, <1>d DEF Good
<1> QED  BY <1>1, <1>10, Stays

\* The clients of a validator become those of the resource.
LEMMA SwitchedIs ==
    ASSUME NEW b, Exact(b), NEW n \in Resources \ b.inCache, NEW r \in b.inCache,
           NEW e, HasClients(b, n) => SameBooks(Joined(b, r), e), ~HasClients(b, n) => SameBooks(b, e),
           n \in b.page => e.page = (b.page \ {n}) \cup {r}, n \notin b.page => e.page = b.page,
           \A s \in SVGs : e.embeds[s] = IF b.embeds[s] = n THEN r ELSE b.embeds[s]
    PROVE  Exact(e) /\ e.inCache = b.inCache /\ e.alive = b.alive
<1>1. b \in Cache /\ r \in Resources /\ n # r
  BY DEF Exact, Alive, Cache
<1>2. ASSUME NEW x, x # n, x # r PROVE HasClients(e, x) = HasClients(b, x)
  <2>1. \A s \in SVGs : e.embeds[s] = x <=> b.embeds[s] = x
    BY <1>2
  <2>2. x \in e.page <=> x \in b.page
    BY <1>2
  <2> QED  BY <2>1, <2>2 DEF HasClients
<1>3. CASE HasClients(b, n)
  <2>1. HasClients(e, r)
    BY <1>3 DEF HasClients
  <2>2. \A x \in b.inCache \ {r} : HasClients(e, x) = HasClients(b, x)
    BY <1>2
  <2>3. SameBooks(Joined(b, r), e)
    BY <1>3
  <2> QED  BY <1>1, <2>1, <2>2, <2>3, Gained
<1>4. CASE ~HasClients(b, n)
  <2>1. SameBooks(b, e)
    BY <1>4
  <2>2. n \notin b.page /\ \A s \in SVGs : b.embeds[s] # n
    BY <1>4 DEF HasClients
  <2>3. e.page = b.page /\ \A s \in SVGs : e.embeds[s] = b.embeds[s]
    BY <2>2
  <2>4. \A x \in b.inCache : HasClients(e, x) = HasClients(b, x)
    BY <2>3 DEF HasClients
  <2>5. Exact(e)
    BY <2>1, <2>4, UsesChange
  <2> QED  BY <2>1, <2>5 DEF SameBooks
<1> QED  BY <1>3, <1>4

LEMMA RevalidationSucceedsKeeps ==
    ASSUME Inv, NEW n \in Resources, RevalidationSucceeds(n) PROVE Inv'
<1> DEFINE r == cache.revalidates[n]
           a == TakeOut(cache, n)
           b == PutBack(a, r)
           j == IF HasClients(b, n) THEN Joined(b, r) ELSE b
           Handed(S) == IF n \in S THEN (S \ {n}) \cup {r} ELSE S
           h == Handed(j.handled)
           p == Handed(j.page)
           m == [s \in SVGs |-> IF j.embeds[s] = n THEN r ELSE j.embeds[s]]
           sw == [j EXCEPT !.handled = h, !.page = p, !.embeds = m]
           g == [sw.revalidates EXCEPT ![n] = None]
           l == sw.loading \ {n}
           e == [sw EXCEPT !.revalidates = g, !.loading = l]
<1>1. InControl /\ r # None /\ n \in cache.inCache /\ Proceed(DeleteIfPossible(e, n))
  BY DEF RevalidationSucceeds, Switch
<1>2. /\ Good(cache) /\ Exact(cache) /\ ~cache.pruning /\ cache \in Cache
      /\ r \in Resources /\ r \in cache.alive \ cache.inCache
      /\ cache.revalidates \in [Resources -> Resources \cup {None}]
  BY <1>1, Controls DEF Cache, Good, Linked
<1>r. r = cache.revalidates[n]
  OBVIOUS
<1>3. Exact(a) /\ SameUses(cache, a) /\ a.inCache = cache.inCache \ {n} /\ a.alive = cache.alive
  BY <1>2, TakenOut
<1> HIDE DEF a, r
<1>4. Exact(b) /\ SameUses(a, b) /\ b.inCache = a.inCache \cup {r} /\ b.alive = a.alive
  BY <1>2, <1>3, PutBackIs
<1> HIDE DEF b
<1>5. n \in Resources \ b.inCache /\ r \in b.inCache
  BY <1>1, <1>2, <1>3, <1>4
<1>6. j \in Cache /\ SameUses(b, j)
  <2>1. b \in Cache /\ SameUses(b, b)
    BY <1>4 DEF Exact, Alive, SameUses
  <2>2. Joined(b, r) \in Cache /\ SameUses(b, Joined(b, r))
    BY <1>2, <1>4, JoinedIs DEF SameResources
  <2> QED  BY <2>1, <2>2
<1>j. j = IF HasClients(b, n) THEN Joined(b, r) ELSE b
  OBVIOUS
<1> HIDE DEF j
<1>7. /\ h \in SUBSET Resources /\ p \in SUBSET Resources /\ m \in [SVGs -> Resources \cup {None}]
      /\ p = IF n \in b.page THEN (b.page \ {n}) \cup {r} ELSE b.page
      /\ m = [s \in SVGs |-> IF b.embeds[s] = n THEN r ELSE b.embeds[s]]
  <2>1. /\ j.handled \in SUBSET Resources /\ j.page \in SUBSET Resources
        /\ j.embeds \in [SVGs -> Resources \cup {None}]
    BY <1>6 DEF Cache
  <2>2. j.page = b.page /\ j.embeds = b.embeds
    BY <1>6 DEF SameUses
  <2> QED  BY <1>2, <2>1, <2>2
<1> HIDE DEF h, p, m
<1>8. /\ SameBooks(j, sw) /\ sw.page = p /\ sw.embeds = m
      /\ sw.revalidates = j.revalidates /\ sw.pruning = j.pruning
  <2>1. /\ j \in Cache /\ h \in SUBSET Resources /\ p \in SUBSET Resources
        /\ m \in [SVGs -> Resources \cup {None}]
    BY <1>6, <1>7
  <2> DEFINE v == [j EXCEPT !.handled = h]
             w == [v EXCEPT !.page = p]
             z == [w EXCEPT !.embeds = m]
  <2>2. /\ SameBooks(j, v) /\ v.embeds = j.embeds
        /\ v.revalidates = j.revalidates /\ v.pruning = j.pruning
    BY <2>1 DEF SameBooks, Cache
  <2>3. sw = z
    OBVIOUS
  <2> HIDE DEF v, sw
  <2>4. v \in Cache
    BY <2>2 DEF SameBooks
  <2>5. /\ SameBooks(v, w) /\ w.page = p
        /\ w.revalidates = v.revalidates /\ w.pruning = v.pruning
    BY <2>1, <2>4 DEF SameBooks, Cache
  <2> HIDE DEF w
  <2>6. w \in Cache
    BY <2>5 DEF SameBooks
  <2>7. /\ SameBooks(w, z) /\ z.page = w.page /\ z.embeds = m
        /\ z.revalidates = w.revalidates /\ z.pruning = w.pruning
    BY <2>1, <2>6 DEF SameBooks, Cache
  <2> HIDE DEF z
  <2>8. SameBooks(j, z) /\ z.page = p /\ z.embeds = m
        /\ z.revalidates = j.revalidates /\ z.pruning = j.pruning
    BY <2>2, <2>5, <2>7 DEF SameBooks
  <2> QED  BY <2>3, <2>8
<1> HIDE DEF sw
<1>9. sw \in Cache
  BY <1>8 DEF SameBooks
<1>10. /\ g \in [Resources -> Resources \cup {None}] /\ l \in SUBSET Resources
       /\ \A k \in Resources : g[k] = IF k = n THEN None ELSE cache.revalidates[k]
  <2>1. sw.revalidates = cache.revalidates
    BY <1>3, <1>4, <1>6, <1>8 DEF SameUses
  <2> QED  BY <1>2, <1>9, <2>1 DEF Cache
<1> HIDE DEF g, l
<1>11. /\ SameBooks(sw, e) /\ e.page = sw.page /\ e.embeds = sw.embeds
       /\ e.revalidates = g /\ e.pruning = sw.pruning
  BY <1>9, <1>10 DEF SameBooks, Cache
<1> HIDE DEF e
<1>12. /\ SameBooks(j, e) /\ e.page = p /\ e.embeds = m /\ ~e.pruning
  <2>1. SameBooks(j, e) /\ e.page = p /\ e.embeds = m
    BY <1>8, <1>11 DEF SameBooks
  <2>2. e.pruning = cache.pruning
    BY <1>3, <1>4, <1>6, <1>8, <1>11 DEF SameUses
  <2> QED  BY <1>2, <2>1, <2>2
<1>13. Exact(e) /\ e.inCache = b.inCache /\ e.alive = b.alive
  <2>1. HasClients(b, n) => SameBooks(Joined(b, r), e)
    BY <1>12, <1>j
  <2>2. ~HasClients(b, n) => SameBooks(b, e)
    BY <1>12, <1>j
  <2>3. n \in b.page => e.page = (b.page \ {n}) \cup {r}
    BY <1>7, <1>12
  <2>4. n \notin b.page => e.page = b.page
    BY <1>7, <1>12
  <2>5. \A s \in SVGs : e.embeds[s] = IF b.embeds[s] = n THEN r ELSE b.embeds[s]
    BY <1>7, <1>12
  <2> QED  BY <1>4, <1>5, <2>1, <2>2, <2>3, <2>4, <2>5, SwitchedIs
<1>14. Linked(e)
  <2>1. ASSUME NEW k \in Resources, e.revalidates[k] # None
        PROVE  e.revalidates[k] \in e.alive \ e.inCache
    <3>1. k # n /\ e.revalidates[k] = cache.revalidates[k]
      BY <1>10, <1>11, <2>1
    <3>2. cache.revalidates[k] \in cache.alive \ cache.inCache
      BY <1>2, <2>1, <3>1 DEF Good, Linked
    <3>3. cache.revalidates[k] # r
      BY <1>2, <1>r, <2>1, <3>1 DEF Good, Linked
    <3> QED  BY <1>3, <1>4, <1>13, <3>1, <3>2, <3>3
  <2>2. ASSUME NEW k \in Resources, NEW i \in Resources,
               e.revalidates[k] # None /\ e.revalidates[k] = e.revalidates[i]
        PROVE  k = i
    BY <1>2, <1>10, <1>11, <2>2 DEF Good, Linked
  <2> QED  BY <2>1, <2>2 DEF Linked
<1>15. Good(e)
  BY <1>13, <1>14 DEF Good
<1>16. Deleting(e, DeleteIfPossible(e, n))
  BY <1>15, DeleteIfPossibleIs
<1> QED  BY <1>1, <1>12, <1>15, <1>16, Outcome, Proceeds

\* The call on top of the stack; those below are back from an eviction.
LEMMA TopIs ==
    ASSUME Inv, stack # <<>>
    PROVE  Top \in Frame /\ Top = stack[1] /\ AllBack(Tail(stack))
<1>1. stack \in Seq(Frame) /\ Len(stack) \in Nat /\ \A i \in 2..Len(stack) : stack[i].back
  BY DEF Inv, Stacked
<1>2. Len(stack) >= 1 /\ Top = stack[1]
  BY <1>1 DEF Top
<1>3. Top \in Frame
  BY <1>1, <1>2
<1>4. /\ Tail(stack) \in Seq(Frame) /\ Len(Tail(stack)) = Len(stack) - 1
      /\ \A i \in 1..(Len(stack) - 1) : Tail(stack)[i] = stack[i + 1]
  BY <1>1, <1>2
<1>5. ASSUME NEW i \in 1..(Len(stack) - 1) PROVE Tail(stack)[i].back
  <2>1. i + 1 \in 2..Len(stack)
    BY <1>1
  <2> QED  BY <1>1, <1>4, <2>1
<1>6. AllBack(Tail(stack))
  BY <1>4, <1>5 DEF AllBack
<1> QED  BY <1>2, <1>3, <1>6

LEMMA Continues ==
    ASSUME Inv, NEW c, NEW s, NEW o, Pruned(c, s, o), Become(o)
    PROVE  /\ Inv' /\ (stack' = <<>> => Enough(cache'))
           /\ cache'.inCache = c.inCache
           /\ stack' = s \/ \E f \in Frame : ~f.back /\ stack' = <<f>> \o s
BY DEF Become, Pruned, Onward, Inv

\* An eviction under way; or a call that was back has ended, or chosen what to evict next.
Evicts == cache'.inCache # cache.inCache /\ cache'.inCache \subseteq cache.inCache

GoesOn ==
    /\ cache'.inCache = cache.inCache /\ Top.back
    /\ \/ stack' = Tail(stack)
       \/ stack' # <<>> /\ ~Head(stack').back /\ Tail(stack') = Tail(stack)

LEMMA ResumeKeeps == ASSUME Inv, Resume PROVE Inv' /\ (stack' = <<>> => Enough(cache')) /\ GoesOn
<1>1. stack # <<>> /\ Top.back /\ Become(AfterEvict(cache, Top, Tail(stack)))
  BY DEF Resume
<1>2. Top \in Frame /\ Top = stack[1] /\ AllBack(Tail(stack))
  BY <1>1, TopIs
<1>3. /\ Good(cache) /\ Enough(cache)
      /\ cache.pruning => Top.current \in cache.inCache \cup {None}
  BY <1>1, <1>2 DEF Inv, Stacked
<1>4. Ahead(cache, Top)
  BY <1>3 DEF Ahead
<1>5. Pruned(cache, Tail(stack), AfterEvict(cache, Top, Tail(stack)))
  BY <1>2, <1>3, <1>4, AfterEvictIs
<1>6. ASSUME NEW f \in Frame PROVE LET t == <<f>> \o Tail(stack)
                                     IN  t # <<>> /\ Head(t) = f /\ Tail(t) = Tail(stack)
  BY <1>2 DEF AllBack
<1> QED  BY <1>1, <1>5, <1>6, Continues DEF GoesOn

\* A call below the one on top, with its place in the list.
LEMMA Waiting ==
    ASSUME NEW s, AllBack(s), NEW f \in Frame, f.back
    PROVE  AllBack(<<f>> \o s) /\ <<f>> \o s # <<>> /\ (<<f>> \o s)[1] = f
<1> DEFINE t == <<f>> \o s
<1>1. s \in Seq(Frame) /\ Len(s) \in Nat /\ \A i \in 1..Len(s) : s[i].back
  BY DEF AllBack
<1>2. /\ t \in Seq(Frame) /\ Len(t) = Len(s) + 1 /\ t[1] = f
      /\ \A i \in 2..Len(t) : t[i] = s[i - 1]
  BY <1>1
<1> HIDE DEF t
<1>3. ASSUME NEW i \in 1..Len(t) PROVE t[i].back
  <2>1. CASE i = 1
    BY <1>2, <2>1
  <2>2. CASE i # 1
    <3>1. i \in 2..Len(t) /\ i - 1 \in 1..Len(s)
      BY <1>1, <1>2, <2>2
    <3> QED  BY <1>1, <1>2, <3>1
  <2> QED  BY <2>1, <2>2
<1>4. AllBack(t) /\ t # <<>>
  BY <1>1, <1>2, <1>3 DEF AllBack
<1> QED  BY <1>2, <1>4 DEF t

LEMMA EvictNextKeeps == ASSUME Inv, EvictNext PROVE Inv' /\ (stack' = <<>> => Enough(cache')) /\ Evicts
<1> DEFINE f == Top
           r == f.current
           p == Previous(cache, r)
           o == Evict(cache, r)
           d == o.cache
           next == [f EXCEPT !.back = TRUE, !.current = p]
           s == Tail(stack)
<1>1. /\ stack # <<>> /\ ~f.back
      /\ Become(IF o.prune THEN Prune(d, <<next>> \o s) ELSE AfterEvict(d, next, s))
  BY DEF EvictNext
<1>2. f \in Frame /\ f = stack[1] /\ AllBack(s)
  BY <1>1, TopIs
<1> HIDE DEF f, s
<1>3. Good(cache) /\ Exact(cache) /\ cache.pruning /\ Chosen(cache, f.queue, r, f.target)
  BY <1>1, <1>2 DEF Inv, Stacked, Good
<1>4. r \in cache.inCache /\ r \in Resources /\ f.target \in Nat /\ f.queue \in Queues
  BY <1>2, <1>3 DEF Chosen, Frame, Exact, Alive, Cache
<1> HIDE DEF r
<1>5. p \in (cache.inCache \ {r}) \cup {None}
  BY <1>3, <1>4, PreviousIs
<1>6. p \in Resources \cup {None}
  BY <1>3, <1>5 DEF Exact, Alive, Cache
<1>p. p = Previous(cache, r)
  OBVIOUS
<1> HIDE DEF p
<1>7. next \in Frame /\ next.back /\ next.current = p /\ next.queue = f.queue /\ next.target = f.target
  BY <1>2, <1>6 DEF Frame
<1> HIDE DEF next
<1>8. /\ Exact(TakeOut(cache, r)) /\ SameUses(cache, TakeOut(cache, r))
      /\ TakeOut(cache, r).inCache = cache.inCache \ {r}
  BY <1>3, <1>4, TakenOut
<1>9. Deleting(TakeOut(cache, r), o)
  BY <1>3, <1>4, EvictIs
<1> HIDE DEF o
<1>10. /\ Good(d) /\ Kept(TakeOut(cache, r), d) /\ d.inCache = cache.inCache \ {r} /\ d.pruning
       /\ ~o.prune => Quiet(TakeOut(cache, r), d)
  BY <1>3, <1>8, <1>9 DEF Deleting, Kept, SameUses
<1> HIDE DEF d
<1>11. CASE o.prune
  <2>1. AllBack(<<next>> \o s) /\ <<next>> \o s # <<>> /\ (<<next>> \o s)[1] = next
    BY <1>2, <1>7, Waiting
  <2>2. Pruned(d, <<next>> \o s, Prune(d, <<next>> \o s))
    BY <1>5, <1>7, <1>10, <2>1, PruneIs
  <2> QED  BY <1>1, <1>4, <1>10, <1>11, <2>2, Continues DEF Evicts
<1>12. CASE ~o.prune
  <2>1. Ahead(d, next)
    BY <1>3, <1>4, <1>7, <1>10, <1>12, <1>p, EvictedQuietly
  <2>2. Pruned(d, s, AfterEvict(d, next, s))
    BY <1>2, <1>5, <1>7, <1>10, <2>1, AfterEvictIs
  <2> QED  BY <1>1, <1>4, <1>10, <1>12, <2>2, Continues DEF Evicts
<1> QED  BY <1>11, <1>12

LEMMA InitIsGood == Init => Inv
<1> SUFFICES ASSUME Init PROVE Inv
  OBVIOUS
<1>1. PICK capacity \in DefaultCapacities : cache =
               [alive |-> {}, inCache |-> {},
                encoded |-> [r \in Resources |-> 0], decoded |-> [r \in Resources |-> 0],
                access |-> [r \in Resources |-> 0],
                loading |-> {}, handled |-> {}, preloads |-> {}, page |-> {},
                embeds |-> [s \in SVGs |-> None],
                revalidates |-> [r \in Resources |-> None],
                lists |-> [q \in Queues |-> <<>>], live |-> <<>>, recent |-> {},
                liveSize |-> 0, deadSize |-> 0, pruning |-> FALSE,
                capacity |-> capacity]
  BY DEF Init
<1>2. /\ cache.alive = {} /\ cache.inCache = {} /\ cache.access = [r \in Resources |-> 0]
      /\ cache.revalidates = [r \in Resources |-> None]
      /\ cache.lists = [q \in Queues |-> <<>>] /\ cache.live = <<>>
      /\ cache.liveSize = 0 /\ cache.deadSize = 0 /\ cache.pruning = FALSE
  BY <1>1
<1>3. cache \in Cache
  <2>1. capacity \in Capacities
    BY DEF DefaultCapacities
  <2>2. 0 \in 0..MaxEncoded /\ 0 \in 0..MaxDecoded /\ 0 \in 0..MaxAccess
    BY ConstantsAssumption
  <2>3. /\ [r \in Resources |-> 0] \in [Resources -> 0..MaxEncoded]
        /\ [r \in Resources |-> 0] \in [Resources -> 0..MaxDecoded]
        /\ [r \in Resources |-> 0] \in [Resources -> 0..MaxAccess]
    BY <2>2
  <2>4. /\ [s \in SVGs |-> None] \in [SVGs -> Resources \cup {None}]
        /\ [r \in Resources |-> None] \in [Resources -> Resources \cup {None}]
    OBVIOUS
  <2>5. [q \in Queues |-> <<>>] \in [Queues -> Seq(Resources)] /\ <<>> \in Seq(Resources)
    OBVIOUS
  <2> QED  BY <1>1, <2>1, <2>3, <2>4, <2>5 DEF Cache
<1>4. Alive(cache)
  BY <1>2, <1>3 DEF Alive
<1>5. IsInjective(<<>>) /\ ToSet(<<>>) = {}
  BY DEF IsInjective, ToSet
<1>6. InLists(cache, cache.inCache) /\ InLive(cache, cache.inCache)
  BY <1>2, <1>5 DEF InLists, InLive
<1>7. Sized(cache)
  <2> DEFINE v == [r \in Resources |-> LiveSizeOf(cache, r)]
             w == [r \in Resources |-> DeadSizeOf(cache, r)]
  <2>1. \A r \in Resources : LiveSizeOf(cache, r) = 0 /\ DeadSizeOf(cache, r) = 0
    BY <1>2 DEF LiveSizeOf, DeadSizeOf
  <2>2. /\ v \in [Resources -> Nat] /\ \A r \in Resources : v[r] = 0
        /\ w \in [Resources -> Nat] /\ \A r \in Resources : w[r] = 0
    BY <2>1
  <2>3. Sized(cache) <=> cache.liveSize = Total(v) /\ cache.deadSize = Total(w)
    BY DEF Sized
  <2> HIDE DEF v, w
  <2>4. Total(v) = 0 /\ Total(w) = 0
    BY <2>2, TotalBounds
  <2> QED  BY <1>2, <2>3, <2>4
<1>8. Linked(cache)
  BY <1>2 DEF Linked
<1>9. Stacked(cache, stack)
  <2>1. stack = <<>>
    BY DEF Init
  <2> QED  BY <1>2, <2>1 DEF Stacked
<1> QED  BY <1>3, <1>4, <1>6, <1>7, <1>8, <1>9 DEF Inv, Good, Exact, Init

\* A step, and the end of a pruning.
LEMMA NextKeeps ==
    ASSUME Inv, [Next]_vars
    PROVE  /\ Inv'
           /\ stack # <<>> /\ stack' = <<>> => Enough(cache')
           /\ stack # <<>> => Evicts \/ GoesOn \/ UNCHANGED vars
<1>1. CASE EvictNext
  BY <1>1, EvictNextKeeps
<1>2. CASE Resume
  BY <1>2, ResumeKeeps
<1>3. ASSUME NEW r \in Resources, Requests(r) PROVE stack = <<>> /\ Inv'
  <2>1. stack = <<>>
    BY <1>3 DEF Requests, Request, RequestAgain, RemoveResource, DropHandle, EndPreload, InControl
  <2>2. Inv'
    BY <1>3, RequestKeeps, RequestAgainKeeps, RemoveResourceKeeps, DropHandleKeeps,
       EndPreloadKeeps DEF Requests
  <2> QED  BY <2>1, <2>2
<1>4. ASSUME NEW r \in Resources, Uses(r) PROVE stack = <<>> /\ Inv'
  <2>1. stack = <<>>
    BY <1>4 DEF Uses, AddClient, RemoveClient, Embed, Decode, Draw, DeletionTimerFires, InControl
  <2>2. Inv'
    BY <1>4, AddClientKeeps, RemoveClientKeeps, EmbedKeeps, DecodeKeeps, DrawKeeps,
       DeletionTimerKeeps DEF Uses
  <2> QED  BY <2>1, <2>2
<1>5. ASSUME NEW r \in Resources, Loads(r) PROVE stack = <<>> /\ Inv'
  <2>1. stack = <<>>
    BY <1>5 DEF Loads, DataArrives, FinishLoad, FailLoad, RevalidationSucceeds,
       RevalidationFails, Revalidate, InControl
  <2>2. Inv'
    BY <1>5, DataArrivesKeeps, FinishLoadKeeps, FailLoadKeeps, RevalidationSucceedsKeeps,
       RevalidationFailsKeeps, RevalidateKeeps DEF Loads
  <2> QED  BY <2>1, <2>2
<1>6. CASE TimePasses \/ SetCapacities
  <2>1. stack = <<>>
    BY <1>6 DEF TimePasses, SetCapacities, InControl
  <2> QED  BY <1>6, <2>1, TimePassesKeeps, SetCapacitiesKeeps
<1>7. CASE UNCHANGED vars
  <2>1. environment' = environment /\ cache' = cache /\ stack' = stack
    BY <1>7 DEF vars
  <2>2. Inv'
    BY <2>1 DEF Inv
  <2> QED  BY <1>7, <2>1, <2>2
<1> QED  BY <1>1, <1>2, <1>3, <1>4, <1>5, <1>6, <1>7 DEF Next, Pruning

(***************************************************************************)
(* The theorems.                                                           *)
(***************************************************************************)

\* Always: the invariant, on which the theorems below rest.
THEOREM InvariantHolds == Spec => []Inv
<1>1. Inv /\ [Next]_vars => Inv'
  BY NextKeeps
<1> QED  BY <1>1, InitIsGood, PTL DEF Spec

\* The state has its type, and every resource in the cache is alive: what the cache evicts
\* and what destructors delete in turn (MemoryCache::evict, CachedResource::deleteIfPossible)
\* never leaves a deleted resource in it.
THEOREM TypeCorrect == Spec => []TypeOK
<1>1. Inv => TypeOK
  BY DEF Inv, Good, Exact, Alive, Stacked, TypeOK
<1> QED  BY <1>1, InvariantHolds, PTL

\* m_liveSize and m_deadSize are what the live and the dead resources in the cache take, and
\* every resource in the cache is in the LRU list that lruListFor() names and in no other:
\* for any number of resources, whatever their sizes.
THEOREM BooksStayExact == Spec => []BooksAreExact
<1>1. ASSUME Inv PROVE SizesAreExact
  <2> DEFINE Live == {r \in cache.inCache : HasClients(cache, r)}
             Dead == cache.inCache \ Live
  <2>1. \A r \in Resources :
           /\ LiveSizeOf(cache, r) = IF r \in Live THEN Size(cache, r) ELSE 0
           /\ DeadSizeOf(cache, r) = IF r \in Dead THEN Size(cache, r) ELSE 0
    BY DEF LiveSizeOf, DeadSizeOf
  <2>2. Sized(cache)
    BY <1>1 DEF Inv, Good, Exact
  <2>3. SizesAreExact <=> cache.liveSize = SizeOf(cache, Live) /\ cache.deadSize = SizeOf(cache, Dead)
    BY DEF SizesAreExact
  <2> HIDE DEF Live, Dead
  <2>4. /\ [r \in Resources |-> LiveSizeOf(cache, r)]
              = [r \in Resources |-> IF r \in Live THEN Size(cache, r) ELSE 0]
        /\ [r \in Resources |-> DeadSizeOf(cache, r)]
              = [r \in Resources |-> IF r \in Dead THEN Size(cache, r) ELSE 0]
    BY <2>1
  <2> QED  BY <2>2, <2>3, <2>4 DEF Sized, SizeOf
<1>2. Inv => ListsAreExact
  BY DEF Inv, Good, Exact, InLists, InLive, ListsAreExact
<1>3. Inv => BooksAreExact
  BY <1>1, <1>2 DEF BooksAreExact
<1> QED  BY <1>3, InvariantHolds, PTL

\* The walk of pruneDeadResources() only follows pointers to resources in the cache, however
\* deep evictions prune again: m_inPruneDeadResources tells it when it must not go on.
THEOREM WalksAreSafe == Spec => []WalkIsSafe
<1>1. ASSUME Inv PROVE WalkIsSafe
  <2> SUFFICES ASSUME stack # <<>>, ~Reentered(cache) PROVE Top.current \in cache.inCache \cup {None}
    BY DEF WalkIsSafe
  <2>1. Top = stack[1] /\ cache.pruning
    BY <1>1, TopIs DEF Reentered
  <2>2. CASE stack[1].back
    BY <1>1, <2>1, <2>2 DEF Inv, Stacked
  <2>3. CASE ~stack[1].back
    BY <1>1, <2>1, <2>3 DEF Inv, Stacked, Chosen
  <2> QED  BY <2>1, <2>2, <2>3
<1> QED  BY <1>1, InvariantHolds, PTL

\* When the last pruneDeadResources() under way returns, the dead resources fit into their
\* capacity or none of what is left may be evicted, also if evictions pruned the cache again.
THEOREM PruningAlwaysSuffices == Spec => PruningSuffices
<1> DEFINE Done == stack # <<>> /\ stack' = <<>> =>
                      DeadFits(cache') \/ \A r \in cache'.inCache : ~Evictable(cache', r)
<1>1. Inv /\ [Next]_vars => [Done]_vars
  BY NextKeeps DEF Enough
<1> QED  BY <1>1, InvariantHolds, PTL DEF Spec, PruningSuffices

\* Neither size of the cache goes below zero, in whatever order resources are moved between
\* the two, shrink and leave: they are unsigned in the code and would wrap around
\* (MemoryCache::adjustSize).
THEOREM SizesNeverWrap == Spec => [](cache.liveSize \in Nat /\ cache.deadSize \in Nat)
<1>1. ASSUME Inv PROVE cache.liveSize \in Nat /\ cache.deadSize \in Nat
  <2> DEFINE v == [r \in Resources |-> LiveSizeOf(cache, r)]
             w == [r \in Resources |-> DeadSizeOf(cache, r)]
  <2>1. cache \in Cache /\ Sized(cache)
    BY <1>1 DEF Inv, Good, Exact, Alive
  <2>2. \A r \in Resources : Size(cache, r) \in Nat
    BY <2>1, SizeInRange, MaxSizeIsNat
  <2>3. v \in [Resources -> Nat] /\ w \in [Resources -> Nat]
    BY <2>2 DEF LiveSizeOf, DeadSizeOf
  <2>4. cache.liveSize = Total(v) /\ cache.deadSize = Total(w)
    BY <2>1 DEF Sized
  <2> HIDE DEF v, w
  <2> QED  BY <2>3, <2>4, TotalBounds
<1> QED  BY <1>1, InvariantHolds, PTL

\* A step of pruning evicts a resource, or ends a call that is back from an eviction, or has
\* it choose what to evict next; nothing enters the cache meanwhile. So pruning ends, however
\* often it prunes again: evictions take from what is in the cache, and between two of them
\* each call that is back goes on once.
THEOREM PruningProgresses == Spec => [][stack # <<>> => Evicts \/ GoesOn]_vars
<1> DEFINE Goes == stack # <<>> => Evicts \/ GoesOn
<1>1. Inv /\ [Next]_vars => [Goes]_vars
  BY NextKeeps
<1> QED  BY <1>1, InvariantHolds, PTL DEF Spec
=============================================================================
