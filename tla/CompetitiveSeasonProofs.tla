------------------------ MODULE CompetitiveSeasonProofs ------------------------
(***************************************************************************)
(* Proofs, for any accounts, modalities, limits and rules, of what the     *)
(* season promises: experience is conserved, the wire contract agrees with *)
(* the rules core, and cooldowns outlive their matches.  Sums and climbs   *)
(* are recursive over data.  The library states induction for a predicate, *)
(* which no prover here can instantiate; it is derived for a set instead,  *)
(* from the theorem that a well-founded relation has minimal elements.     *)
(***************************************************************************)
EXTENDS CompetitiveContract, FiniteSetTheorems, WellFoundedInduction, TLAPS

-----------------------------------------------------------------------------
\* A set of natural numbers has a least element.
LEMMA LeastElement ==
  ASSUME NEW T \in SUBSET Nat, T # {}
  PROVE  \E n \in T : \A k \in T : n <= k
<1>1. IsWellFoundedOn(OpToRel(<, Nat), Nat)
  BY NatLessThanWellFounded
<1>2. \A x, y \in Nat : x < y => <<x, y>> \in OpToRel(<, Nat)
  BY DEF OpToRel
<1>3. PICK R : IsWellFoundedOn(R, Nat) /\ (\A x, y \in Nat : x < y => <<x, y>> \in R)
  BY <1>1, <1>2, Zenon
<1>4. T \subseteq Nat
  OBVIOUS
<1>5. PICK x \in T : \A y \in T : ~ (<<y, x>> \in R)
  <2>1. IsWellFoundedOn(R, Nat)
    BY <1>3
  <2> QED
    BY <2>1, <1>4, WFMin, Zenon
<1>6. \A y \in T : ~ (y < x)
  BY <1>3, <1>4, <1>5, Zenon
<1> QED
  BY <1>4, <1>6

\* The principle of induction.
LEMMA Induction ==
  ASSUME NEW T, 0 \in T, \A n \in Nat : n \in T => n + 1 \in T
  PROVE  Nat \subseteq T
<1> SUFFICES ASSUME Nat \ T # {} PROVE FALSE
  OBVIOUS
<1>1. PICK n \in Nat \ T : \A k \in Nat \ T : n <= k
  BY LeastElement, Zenon
<1>2. n # 0 /\ n - 1 \in Nat /\ ~(n <= n - 1) /\ (n - 1) + 1 = n
  BY <1>1
<1>3. n - 1 \in T
  BY <1>1, <1>2, Zenon
<1> QED
  BY <1>1, <1>2, <1>3

-----------------------------------------------------------------------------
(***************************************************************************)
(* Sums.  MapThenFoldSet takes the elements in the order of CHOOSE; g is   *)
(* the function that it defines over the subsets.                          *)
(***************************************************************************)
First(s) == CHOOSE x \in s : TRUE
Small(S, n) == {s \in SUBSET S : Cardinality(s) <= n}
Unrolls(g, f, D) ==
  g = [s \in D |-> IF s = {} THEN 0 ELSE f[First(s)] + g[s \ {First(s)}]]

LEMMA FirstIsIn == ASSUME NEW s, s # {} PROVE First(s) \in s
BY DEF First

LEMMA SmallerWithoutFirst ==
  ASSUME NEW S, IsFiniteSet(S), NEW n \in Nat, NEW s \in Small(S, n + 1), s # {}
  PROVE  s \ {First(s)} \in Small(S, n)
<1>1. IsFiniteSet(s) /\ First(s) \in s
  BY FirstIsIn, FS_Subset DEF Small
<1>2. Cardinality(s) \in Nat /\ Cardinality(s \ {First(s)}) = Cardinality(s) - 1
  BY <1>1, FS_CardinalityType, FS_RemoveElement
<1> QED
  BY <1>1, <1>2 DEF Small

\* The recursion has a solution, up to any number of elements.
LEMMA SmallRecursion ==
  ASSUME NEW S, IsFiniteSet(S), NEW f, NEW n \in Nat
  PROVE  \E g : Unrolls(g, f, Small(S, n))
<1> DEFINE T == {k \in Nat : \E g : Unrolls(g, f, Small(S, k))}
<1>1. 0 \in T
  <2>1. Small(S, 0) = {{}}
    <3>1. \A s \in SUBSET S : IsFiniteSet(s) /\ Cardinality(s) \in Nat
      BY FS_Subset, FS_CardinalityType
    <3>2. \A s \in SUBSET S : Cardinality(s) = 0 <=> s = {}
      BY <3>1, FS_EmptySet
    <3> QED
      BY <3>1, <3>2 DEF Small
  <2>2. Unrolls([s \in {{}} |-> 0], f, {{}})
    BY DEF Unrolls
  <2> QED
    BY <2>1, <2>2
<1>2. ASSUME NEW k \in Nat, k \in T PROVE k + 1 \in T
  <2>1. PICK g : Unrolls(g, f, Small(S, k))
    BY <1>2
  <2> DEFINE h == [s \in Small(S, k + 1) |->
                     IF s = {} THEN 0 ELSE f[First(s)] + g[s \ {First(s)}]]
  <2>2. \A s \in Small(S, k) : h[s] = g[s]
    <3>1. Small(S, k) \subseteq Small(S, k + 1)
      <4>1. \A s \in SUBSET S : Cardinality(s) \in Nat
        BY FS_Subset, FS_CardinalityType
      <4> QED
        BY <4>1 DEF Small
    <3> QED
      BY <3>1, <2>1 DEF Unrolls
  <2>3. \A s \in Small(S, k + 1) : s # {} => h[s \ {First(s)}] = g[s \ {First(s)}]
    BY <2>2, SmallerWithoutFirst
  <2>4. Unrolls(h, f, Small(S, k + 1))
    BY <2>3 DEF Unrolls
  <2> QED
    BY <2>4
<1> QED
  <2>1. Nat \subseteq T
    <3> HIDE DEF T
    <3> QED BY <1>1, <1>2, Induction
  <2> QED BY <2>1

\* Sum(f) is the value of such a function for the whole set.
LEMMA SumUnrolls ==
  ASSUME NEW S, IsFiniteSet(S), NEW f, DOMAIN f = S
  PROVE  \E g : Unrolls(g, f, SUBSET S) /\ Sum(f) = g[S]
<1>1. Small(S, Cardinality(S)) = SUBSET S
  <2>1. \A s \in SUBSET S : Cardinality(s) <= Cardinality(S)
    BY FS_Subset
  <2> QED
    BY <2>1 DEF Small
<1>2. \E g : Unrolls(g, f, SUBSET S)
  <2>1. Cardinality(S) \in Nat
    BY FS_CardinalityType
  <2>2. \E g : Unrolls(g, f, Small(S, Cardinality(S)))
    BY <2>1, SmallRecursion, Zenon
  <2> QED
    BY <1>1, <2>2
<1> DEFINE iter[s \in SUBSET S] ==
             IF s = {} THEN 0 ELSE LET x == CHOOSE x \in s : TRUE IN f[x] + iter[s \ {x}]
<1>3. Sum(f) = iter[S]
  BY DEF Sum, FoldFunction, FoldFunctionOnSet, MapThenFoldSet
<1>4. iter = CHOOSE g : Unrolls(g, f, SUBSET S)
  BY DEF Unrolls, First
<1>5. Unrolls(iter, f, SUBSET S)
  <2> HIDE DEF iter
  <2> QED BY <1>2, <1>4
<1> HIDE DEF iter
<1> QED
  BY <1>3, <1>5

\* Induction over the subsets of a finite set in the same order.
LEMMA SubsetInduction ==
  ASSUME NEW S, IsFiniteSet(S), NEW T, {} \in T,
         \A s \in SUBSET S : s # {} /\ s \ {First(s)} \in T => s \in T
  PROVE  SUBSET S \subseteq T
<1> DEFINE N == {n \in Nat : Small(S, n) \subseteq T}
<1>1. \A s \in SUBSET S : IsFiniteSet(s) /\ Cardinality(s) \in Nat
  BY FS_Subset, FS_CardinalityType
<1>2. 0 \in N
  <2>1. \A s \in SUBSET S : Cardinality(s) = 0 => s = {}
    BY <1>1, FS_EmptySet
  <2>2. \A s \in Small(S, 0) : s = {}
    BY <1>1, <2>1 DEF Small
  <2> QED
    BY <2>2
<1>3. ASSUME NEW n \in Nat, n \in N PROVE n + 1 \in N
  <2>1. ASSUME NEW s \in Small(S, n + 1), s # {} PROVE s \in T
    <3>1. s \ {First(s)} \in Small(S, n) /\ s \in SUBSET S
      BY <2>1, SmallerWithoutFirst DEF Small
    <3> QED
      BY <3>1, <1>3, <2>1
  <2> QED
    BY <2>1
<1>4. Nat \subseteq N
  <2> HIDE DEF N
  <2> QED
    BY <1>2, <1>3, Induction
<1> QED
  BY <1>1, <1>4 DEF Small

\* A sum of nothing is nothing.
LEMMA SumOfZeros ==
  ASSUME NEW S, IsFiniteSet(S)
  PROVE  Sum([x \in S |-> 0]) = 0
<1> DEFINE f == [x \in S |-> 0]
<1>1. PICK g : Unrolls(g, f, SUBSET S) /\ Sum(f) = g[S]
  BY SumUnrolls
<1> DEFINE T == {s \in SUBSET S : g[s] = 0}
<1>2. {} \in T
  BY <1>1 DEF Unrolls
<1>3. ASSUME NEW s \in SUBSET S, s # {}, s \ {First(s)} \in T PROVE s \in T
  <2>1. g[s] = f[First(s)] + g[s \ {First(s)}]
    BY <1>1, <1>3 DEF Unrolls
  <2> QED
    BY <1>3, <2>1, FirstIsIn
<1>4. SUBSET S \subseteq T
  <2> HIDE DEF T
  <2> QED
    BY <1>2, <1>3, SubsetInduction
<1> QED
  BY <1>1, <1>4

\* Sums of integers are integers, those of natural numbers natural.
LEMMA SumType ==
  ASSUME NEW S, IsFiniteSet(S), NEW R \in {Int, Nat}, NEW f \in [S -> R]
  PROVE  Sum(f) \in R
<1>1. PICK g : Unrolls(g, f, SUBSET S) /\ Sum(f) = g[S]
  BY SumUnrolls
<1> DEFINE T == {s \in SUBSET S : g[s] \in R}
<1>2. {} \in T
  BY <1>1 DEF Unrolls
<1>3. ASSUME NEW s \in SUBSET S, s # {}, s \ {First(s)} \in T PROVE s \in T
  <2>1. g[s] = f[First(s)] + g[s \ {First(s)}]
    BY <1>1, <1>3 DEF Unrolls
  <2>2. f[First(s)] \in R /\ g[s \ {First(s)}] \in R
    BY <1>3, FirstIsIn
  <2>3. CASE R = Int
    BY <2>1, <2>2, <2>3
  <2>4. CASE R = Nat
    BY <2>1, <2>2, <2>4
  <2> QED
    BY <2>3, <2>4
<1>4. SUBSET S \subseteq T
  <2> HIDE DEF T
  <2> QED
    BY <1>2, <1>3, SubsetInduction
<1> QED
  BY <1>1, <1>4

\* A sum changes by what one of its terms changes by.
LEMMA SumChanges ==
  ASSUME NEW S, IsFiniteSet(S), NEW f \in [S -> Int], NEW m \in S, NEW v \in Int
  PROVE  Sum([f EXCEPT ![m] = v]) = Sum(f) - f[m] + v
<1> DEFINE h == [f EXCEPT ![m] = v]
<1>0. h \in [S -> Int] /\ h[m] = v /\ (\A x \in S : x # m => h[x] = f[x])
  OBVIOUS
<1>1. PICK g : Unrolls(g, f, SUBSET S) /\ Sum(f) = g[S]
  BY SumUnrolls
<1>2. PICK k : Unrolls(k, h, SUBSET S) /\ Sum(h) = k[S]
  BY <1>0, SumUnrolls
<1> DEFINE T == {s \in SUBSET S :
                   /\ g[s] \in Int
                   /\ k[s] = g[s] + (IF m \in s THEN v - f[m] ELSE 0)}
<1>3. {} \in T
  BY <1>1, <1>2 DEF Unrolls
<1>4. ASSUME NEW s \in SUBSET S, s # {}, s \ {First(s)} \in T PROVE s \in T
  <2>1. g[s] = f[First(s)] + g[s \ {First(s)}]
    BY <1>1, <1>4 DEF Unrolls
  <2>2. k[s] = h[First(s)] + k[s \ {First(s)}]
    BY <1>2, <1>4 DEF Unrolls
  <2>3. First(s) \in s /\ First(s) \in S /\ f[First(s)] \in Int /\ f[m] \in Int
    BY <1>4, FirstIsIn
  <2>4. CASE First(s) = m
    BY <1>0, <1>4, <2>1, <2>2, <2>3, <2>4
  <2>5. CASE First(s) # m
    BY <1>0, <1>4, <2>1, <2>2, <2>3, <2>5
  <2> QED
    BY <2>4, <2>5
<1>5. SUBSET S \subseteq T
  <2> HIDE DEF T
  <2> QED
    BY <1>3, <1>4, SubsetInduction
<1> QED
  BY <1>1, <1>2, <1>5

-----------------------------------------------------------------------------
(***************************************************************************)
(* Climbs and prices: functions over the numbers up to MaxLevel.           *)
(***************************************************************************)

\* A recursion over an interval has a solution.
Follows(g, k, P, start, step) ==
  /\ g \in [0 .. k -> P]
  /\ g[0] = start
  /\ \A n \in 1 .. k : g[n] = step[n][g[n - 1]]

LEMMA IntervalRecursion ==
  ASSUME NEW N \in Nat, NEW P, NEW start \in P, NEW step \in [Nat -> [P -> P]]
  PROVE  \E g : Follows(g, N, P, start, step)
<1> DEFINE T == {k \in Nat : \E g : Follows(g, k, P, start, step)}
<1>1. 0 \in T
  <2>1. Follows([n \in 0 .. 0 |-> start], 0, P, start, step)
    BY DEF Follows
  <2> QED
    BY <2>1
<1>2. ASSUME NEW k \in Nat, k \in T PROVE k + 1 \in T
  <2>1. PICK g : Follows(g, k, P, start, step)
    BY <1>2
  <2> DEFINE h == [n \in 0 .. k + 1 |-> IF n <= k THEN g[n] ELSE step[k + 1][g[k]]]
  <2>2. g[k] \in P /\ step[k + 1] \in [P -> P] /\ step[k + 1][g[k]] \in P
    BY <2>1 DEF Follows
  <2>3. h \in [0 .. k + 1 -> P] /\ h[0] = start
    BY <2>1, <2>2 DEF Follows
  <2>4. ASSUME NEW n \in 1 .. k + 1 PROVE h[n] = step[n][h[n - 1]]
    <3>1. CASE n <= k
      <4>1. n \in 1 .. k /\ n - 1 \in 0 .. k + 1 /\ n - 1 <= k /\ n \in 0 .. k + 1
        BY <3>1
      <4> QED
        BY <2>1, <3>1, <4>1 DEF Follows
    <3>2. CASE ~(n <= k)
      <4>1. n = k + 1 /\ n - 1 = k /\ k \in 0 .. k + 1
        BY <3>2
      <4> QED
        BY <2>1, <4>1
    <3> QED
      BY <3>1, <3>2
  <2>5. Follows(h, k + 1, P, start, step)
    BY <2>3, <2>4 DEF Follows
  <2> QED
    <3> HIDE DEF h
    <3> QED
      BY <2>5
<1> QED
  <2>1. Nat \subseteq T
    <3> HIDE DEF T
    <3> QED
      BY <1>1, <1>2, Induction
  <2> QED
    BY <2>1

\* Every level has a price, and the next one costs what it requires more.
LEMMA Thresholds ==
  ASSUME NEW r, ValidRules(r), NEW level \in 0 .. MaxLevel - 1
  PROVE  Required(r, level) \in Nat /\ Required(r, level) >= 1
BY DEF ValidRules

LEMMA PriceRises ==
  ASSUME NEW r, ValidRules(r)
  PROVE  /\ Price(r) \in [0 .. MaxLevel -> Int]
         /\ \A level \in 0 .. MaxLevel - 1 :
              Price(r)[level + 1] = Price(r)[level] + Required(r, level)
<1> DEFINE step == [n \in Nat |-> [v \in Int |->
                      IF n \in 1 .. MaxLevel THEN v + Required(r, n - 1) ELSE v]]
<1>0. MaxLevel \in Nat
  BY CoreAssumption
<1>1. step \in [Nat -> [Int -> Int]]
  <2>1. \A n \in 1 .. MaxLevel : Required(r, n - 1) \in Int
    BY <1>0, Thresholds
  <2> QED
    BY <2>1
<1>2. PICK g : Follows(g, MaxLevel, Int, 0, step)
  <2> HIDE DEF step
  <2>1. 0 \in Int
    OBVIOUS
  <2> QED
    BY <1>0, <1>1, <2>1, IntervalRecursion
<1>3. \A n \in 1 .. MaxLevel : g[n] = g[n - 1] + Required(r, n - 1)
  <2> SUFFICES ASSUME NEW n \in 1 .. MaxLevel PROVE g[n] = g[n - 1] + Required(r, n - 1)
    OBVIOUS
  <2>1. n \in Nat /\ n - 1 \in 0 .. MaxLevel /\ g[n - 1] \in Int
    BY <1>0, <1>2 DEF Follows
  <2> QED
    BY <1>2, <2>1 DEF Follows
<1> DEFINE price[level \in 0 .. MaxLevel] ==
             IF level = 0 THEN 0 ELSE price[level - 1] + Required(r, level - 1)
           Body(f) == [level \in 0 .. MaxLevel |->
             IF level = 0 THEN 0 ELSE f[level - 1] + Required(r, level - 1)]
<1>4. Price(r) = price
  BY DEF Price
<1>5. g = Body(g)
  BY <1>0, <1>2, <1>3 DEF Follows
<1>6. price = CHOOSE f : f = Body(f)
  OBVIOUS
<1>7. price = Body(price)
  <2> HIDE DEF price, Body
  <2> QED
    BY <1>5, <1>6
<1> HIDE DEF price
<1> DEFINE T == {n \in Nat : n <= MaxLevel => price[n] \in Int}
<1>8. 0 \in T
  BY <1>0, <1>7
<1>9. ASSUME NEW n \in Nat, n \in T PROVE n + 1 \in T
  <2> SUFFICES ASSUME n + 1 <= MaxLevel PROVE price[n + 1] \in Int
    OBVIOUS
  <2>1. n + 1 \in 0 .. MaxLevel /\ n + 1 # 0 /\ (n + 1) - 1 = n /\ n \in 0 .. MaxLevel - 1
    BY <1>0
  <2>2. price[n + 1] = price[n] + Required(r, n)
    BY <1>7, <2>1
  <2> QED
    BY <1>0, <1>9, <2>1, <2>2, Thresholds
<1>10. Nat \subseteq T
  <2> HIDE DEF T
  <2> QED
    BY <1>8, <1>9, Induction
<1>11. price \in [0 .. MaxLevel -> Int]
  BY <1>0, <1>7, <1>10
<1>12. ASSUME NEW level \in 0 .. MaxLevel - 1
       PROVE  price[level + 1] = price[level] + Required(r, level)
  <2>1. level + 1 \in 0 .. MaxLevel /\ level + 1 # 0 /\ (level + 1) - 1 = level
    BY <1>0
  <2> QED
    BY <1>7, <2>1
<1> QED
  BY <1>4, <1>11, <1>12

-----------------------------------------------------------------------------
(***************************************************************************)
(* grantActionXp.  The loop is a sequence of rises from where it starts.   *)
(***************************************************************************)
Progress == [level : 0 .. MaxLevel, xp : 0 .. MaxSafe]
Builds == {b \in [Modalities -> Progress] : TotalLevel(b) <= MaxTotalLevel}

Starts(b, m, r) == [level |-> b[m].level, xp |-> b[m].xp + XpGranted(b, m, r)]
Others(b, m) == TotalLevel(b) - b[m].level
CanRise(p, b, m, r) ==
  p.level < MaxLevel /\ Others(b, m) + p.level < MaxTotalLevel /\ p.xp >= Required(r, p.level)
Rise(p, b, m, r) ==
  IF CanRise(p, b, m, r) THEN [level |-> p.level + 1, xp |-> p.xp - Required(r, p.level)] ELSE p

\* What all turns of the loop preserve: limits, and what levels and rest are worth.
Worth(p, r) == p.xp + Price(r)[p.level]
Reached(p, b, m, r) ==
  /\ p \in Progress
  /\ p.level >= b[m].level
  /\ Others(b, m) + p.level <= MaxTotalLevel
  /\ Worth(p, r) = Worth(Starts(b, m, r), r)

LEMMA Limits ==
  MaxLevel \in Nat /\ MaxTotalLevel \in Nat /\ MaxSafe \in Nat /\ MaxXpPerAction \in Nat
BY CoreAssumption

LEMMA TotalLevelType ==
  ASSUME NEW b \in [Modalities -> Progress]
  PROVE  TotalLevel(b) \in Nat
<1>1. [m \in Modalities |-> b[m].level] \in [Modalities -> Nat]
  BY Limits DEF Progress
<1> QED
  BY <1>1, SumType, CoreAssumption DEF TotalLevel

LEMMA GrantType ==
  ASSUME NEW r, ValidRules(r), NEW b \in Builds, NEW m \in Modalities
  PROVE  XpGranted(b, m, r) \in Nat
BY Limits DEF XpGranted, ValidRules

LEMMA StartIsReached ==
  ASSUME NEW r, ValidRules(r), NEW b \in Builds, NEW m \in Modalities,
         Safe(b[m].xp + XpGranted(b, m, r))
  PROVE  Reached(Starts(b, m, r), b, m, r)
<1>1. b[m] \in Progress /\ b[m].level \in 0 .. MaxLevel /\ b[m].xp \in 0 .. MaxSafe
  BY DEF Builds, Progress
<1>2. TotalLevel(b) \in Nat /\ TotalLevel(b) <= MaxTotalLevel
  BY TotalLevelType DEF Builds
<1>3. XpGranted(b, m, r) \in Nat
  BY GrantType
<1>4. b[m].xp + XpGranted(b, m, r) \in 0 .. MaxSafe
  BY <1>1, <1>3, Limits DEF Safe
<1>5. Starts(b, m, r) \in Progress /\ Starts(b, m, r).level = b[m].level
  BY <1>1, <1>4 DEF Starts, Progress
<1>6. Others(b, m) + b[m].level <= MaxTotalLevel
  BY <1>1, <1>2, Limits DEF Others
<1> QED
  BY <1>1, <1>5, <1>6, Limits DEF Reached

LEMMA RiseKeepsWorth ==
  ASSUME NEW r, ValidRules(r), NEW b \in Builds, NEW m \in Modalities,
         NEW p, Reached(p, b, m, r)
  PROVE  Reached(Rise(p, b, m, r), b, m, r)
<1>1. CASE ~CanRise(p, b, m, r)
  BY <1>1 DEF Rise
<1>2. CASE CanRise(p, b, m, r)
  <2>1. PICK q : q = [level |-> p.level + 1, xp |-> p.xp - Required(r, p.level)]
    OBVIOUS
  <2>2. p.level \in 0 .. MaxLevel - 1 /\ p.level + 1 \in 0 .. MaxLevel /\ p.xp \in 0 .. MaxSafe
    BY <1>2, Limits DEF CanRise, Reached, Progress
  <2>3. Required(r, p.level) \in Nat /\ p.xp >= Required(r, p.level)
    BY <1>2, <2>2, Thresholds DEF CanRise
  <2>4. p.xp - Required(r, p.level) \in 0 .. MaxSafe
    BY <2>2, <2>3, Limits
  <2>5. q \in Progress /\ q.level = p.level + 1 /\ q.xp = p.xp - Required(r, p.level)
    BY <2>1, <2>2, <2>4 DEF Progress
  <2>6. Worth(q, r) = Worth(p, r)
    <3>1. Price(r)[p.level + 1] = Price(r)[p.level] + Required(r, p.level)
      BY <2>2, PriceRises
    <3>2. Price(r)[p.level] \in Int
      BY <2>2, PriceRises, Limits
    <3> QED
      BY <2>2, <2>3, <2>5, <3>1, <3>2 DEF Worth
  <2>7. b[m].level \in Nat /\ Others(b, m) \in Int
    BY TotalLevelType DEF Builds, Progress, Others
  <2>8. q.level >= b[m].level
    BY <2>2, <2>5, <2>7 DEF Reached
  <2>9. Others(b, m) + q.level <= MaxTotalLevel
    BY <1>2, <2>2, <2>5, <2>7, Limits DEF CanRise
  <2>10. Reached(q, b, m, r)
    BY <2>5, <2>6, <2>8, <2>9 DEF Reached
  <2> QED
    BY <1>2, <2>1, <2>10 DEF Rise
<1> QED
  BY <1>1, <1>2

LEMMA GrantReaches ==
  ASSUME NEW r, ValidRules(r), NEW b \in Builds, NEW m \in Modalities,
         Safe(b[m].xp + XpGranted(b, m, r))
  PROVE  \E p : Reached(p, b, m, r) /\ GrantActionXp(b, m, r) = [b EXCEPT ![m] = p]
<1> DEFINE P == {p \in Progress : Reached(p, b, m, r)}
           step == [n \in Nat |-> [p \in P |-> Rise(p, b, m, r)]]
<1>1. Starts(b, m, r) \in P
  BY StartIsReached DEF Reached
<1>2. step \in [Nat -> [P -> P]]
  <2>1. \A p \in P : Rise(p, b, m, r) \in P
    BY RiseKeepsWorth DEF Reached
  <2> QED
    BY <2>1
<1>3. PICK g : Follows(g, MaxLevel, P, Starts(b, m, r), step)
  <2> HIDE DEF step, P
  <2> QED
    BY <1>1, <1>2, Limits, IntervalRecursion
<1> DEFINE others == TotalLevel(b) - b[m].level
           CanClimb(p) == /\ p.level < MaxLevel
                          /\ others + p.level < MaxTotalLevel
                          /\ p.xp >= Required(r, p.level)
           climb[n \in 0 .. MaxLevel] ==
             IF n = 0 THEN [level |-> b[m].level, xp |-> b[m].xp + XpGranted(b, m, r)]
             ELSE LET p == climb[n - 1] IN
                  IF CanClimb(p) THEN [level |-> p.level + 1, xp |-> p.xp - Required(r, p.level)]
                  ELSE p
           Body(f) == [n \in 0 .. MaxLevel |->
                         IF n = 0 THEN Starts(b, m, r) ELSE Rise(f[n - 1], b, m, r)]
<1>4. GrantActionXp(b, m, r) = [b EXCEPT ![m] = climb[MaxLevel]]
  BY DEF GrantActionXp
<1>5. climb = CHOOSE f : f = Body(f)
  BY DEF Starts, Rise, CanRise, Others
<1>6. g = Body(g)
  <2>1. \A n \in 1 .. MaxLevel : n \in Nat /\ n - 1 \in 0 .. MaxLevel
    BY Limits
  <2>2. \A n \in 1 .. MaxLevel : g[n] = Rise(g[n - 1], b, m, r)
    BY <1>3, <2>1 DEF Follows
  <2> QED
    BY <1>3, <2>2, Limits DEF Follows
<1>7. climb = Body(climb)
  <2> HIDE DEF climb, Body
  <2> QED
    BY <1>5, <1>6
<1> HIDE DEF climb
<1> DEFINE T == {n \in Nat : n <= MaxLevel => Reached(climb[n], b, m, r)}
<1>8. 0 \in T
  BY <1>7, StartIsReached, Limits
<1>9. ASSUME NEW n \in Nat, n \in T PROVE n + 1 \in T
  <2> SUFFICES ASSUME n + 1 <= MaxLevel PROVE Reached(climb[n + 1], b, m, r)
    OBVIOUS
  <2>1. n + 1 \in 0 .. MaxLevel /\ n + 1 # 0 /\ (n + 1) - 1 = n /\ n <= MaxLevel
    BY Limits
  <2>2. climb[n + 1] = Rise(climb[n], b, m, r)
    BY <1>7, <2>1
  <2> QED
    BY <1>9, <2>1, <2>2, RiseKeepsWorth
<1>10. Nat \subseteq T
  <2> HIDE DEF T
  <2> QED
    BY <1>8, <1>9, Induction
<1>11. Reached(climb[MaxLevel], b, m, r)
  BY <1>10, Limits
<1> QED
  BY <1>4, <1>11

-----------------------------------------------------------------------------
(***************************************************************************)
(* The season.                                                             *)
(***************************************************************************)
Statuses == {"scheduled", "active", "finished", "cancelled"}
MatchIn(i, status) == [startsAt |-> i.startsAt, endsAt |-> i.endsAt, status |-> status]

MatchFits == \E i \in Intervals, status \in Statuses : match = MatchIn(i, status)

ScoreFits ==
  /\ score \in [Sides -> [Modalities -> 0 .. MaxSafe]]
  /\ \A side \in Sides : Sum(score[side]) \in 0 .. MaxSafe

\* What the histories say of the account: its experience and its deadline.
HistoriesFit ==
  /\ granted \in [Accounts -> [Modalities -> Int]]
  /\ spent \in [Accounts -> [Modalities -> Int]]
  /\ XpIsConserved

DeadlinesFit ==
  /\ nextAllowedAt \in [Accounts -> Int \cup {None}]
  /\ lastAccepted \in [Accounts -> {None} \cup [at : Int, cooldown : Int]]
  /\ \A a \in Accounts : lastAccepted[a] # None =>
       nextAllowedAt[a] # None /\ nextAllowedAt[a] = lastAccepted[a].at + lastAccepted[a].cooldown

SeasonInv ==
  /\ now \in Nat
  /\ rules \in ValidSnapshots
  /\ MatchFits
  /\ ScoreFits
  /\ build \in [Accounts -> Builds]
  /\ HistoriesFit
  /\ DeadlinesFit

LEMMA EmptyScore ==
  /\ NoScore \in [Sides -> [Modalities -> 0 .. MaxSafe]]
  /\ \A side \in Sides : Sum(NoScore[side]) \in 0 .. MaxSafe
<1>1. Sum([m \in Modalities |-> 0]) = 0
  BY SumOfZeros, CoreAssumption
<1> QED
  BY <1>1, Limits DEF NoScore

LEMMA EmptyBuild == [m \in Modalities |-> [level |-> 0, xp |-> 0]] \in Builds
<1> DEFINE b == [m \in Modalities |-> [level |-> 0, xp |-> 0]]
<1>1. [m \in Modalities |-> b[m].level] = [m \in Modalities |-> 0]
  OBVIOUS
<1>2. TotalLevel(b) = 0
  BY <1>1, SumOfZeros, CoreAssumption DEF TotalLevel
<1>3. b \in [Modalities -> Progress]
  BY Limits DEF Progress
<1> QED
  BY <1>2, <1>3, Limits DEF Builds

LEMMA SeasonInit == Init => SeasonInv
<1> SUFFICES ASSUME Init PROVE SeasonInv
  OBVIOUS
<1>1. now \in Nat /\ rules \in ValidSnapshots
  BY DEF Init
<1>2. MatchFits
  BY DEF Init, MatchFits, MatchIn, NewMatch, Statuses
<1>3. ScoreFits
  BY EmptyScore DEF Init, ScoreFits
<1>4. build \in [Accounts -> Builds]
  BY EmptyBuild DEF Init
<1>5. HistoriesFit
  BY DEF Init, HistoriesFit, XpIsConserved
<1>6. DeadlinesFit
  BY DEF Init, DeadlinesFit
<1> QED
  BY <1>1, <1>2, <1>3, <1>4, <1>5, <1>6 DEF SeasonInv

\* An accepted action, taken apart.
LEMMA ActionGrants ==
  ASSUME SeasonInv, NEW a \in Accounts, NEW m \in Modalities,
         NEW sample \in 0 .. RngScale - 1, EvaluateAction(a, m, sample)
  PROVE  \E p \in Progress :
           /\ Reached(p, build[a], m, rules)
           /\ build' = [build EXCEPT ![a] = [build[a] EXCEPT ![m] = p]]
           /\ spent' = [spent EXCEPT ![a][m] = @ + Cost(build[a][m].level, p.level)]
<1>1. build[a] \in Builds /\ ValidRules(rules)
  BY DEF SeasonInv, ValidSnapshots
<1>2. Safe(build[a][m].xp + XpGranted(build[a], m, rules))
  BY DEF EvaluateAction
<1>3. PICK p : /\ Reached(p, build[a], m, rules)
               /\ GrantActionXp(build[a], m, rules) = [build[a] EXCEPT ![m] = p]
  BY <1>1, <1>2, GrantReaches
<1>4. [build[a] EXCEPT ![m] = p][m] = p
  BY <1>1 DEF Builds
<1> QED
  BY <1>3, <1>4 DEF EvaluateAction, Reached

\* The total level stays within the cap.
LEMMA ReachedBuild ==
  ASSUME NEW b \in Builds, NEW m \in Modalities, NEW r, NEW p, Reached(p, b, m, r)
  PROVE  [b EXCEPT ![m] = p] \in Builds
<1> DEFINE f == [n \in Modalities |-> b[n].level]
           h == [b EXCEPT ![m] = p]
<1>1. b \in [Modalities -> Progress] /\ p \in Progress /\ p.level \in Int
  BY Limits DEF Builds, Reached, Progress
<1>2. f \in [Modalities -> Int] /\ f[m] = b[m].level
  BY <1>1, Limits DEF Progress
<1>3. [n \in Modalities |-> h[n].level] = [f EXCEPT ![m] = p.level]
  BY <1>1
<1>4. TotalLevel(h) = Sum(f) - f[m] + p.level
  BY <1>1, <1>2, <1>3, SumChanges, CoreAssumption DEF TotalLevel
<1>5. Sum(f) = TotalLevel(b) /\ TotalLevel(b) \in Nat
  BY <1>1, TotalLevelType DEF TotalLevel
<1>6. TotalLevel(h) <= MaxTotalLevel
  BY <1>1, <1>2, <1>4, <1>5 DEF Reached, Others
<1> QED
  BY <1>1, <1>6 DEF Builds

LEMMA ActionKeepsScore ==
  ASSUME SeasonInv, NEW a \in Accounts, NEW m \in Modalities,
         NEW sample \in 0 .. RngScale - 1, EvaluateAction(a, m, sample)
  PROVE  ScoreFits'
<1>1. PICK v : score' = [score EXCEPT ![SideOf[a]] = [score[SideOf[a]] EXCEPT ![m] = v]]
  BY SeasonAssumption DEF EvaluateAction, SeasonInv, ScoreFits
<1>2. ValidScore(score')
  BY DEF EvaluateAction
<1>3. score \in [Sides -> [Modalities -> 0 .. MaxSafe]] /\ SideOf[a] \in Sides
  BY SeasonAssumption DEF SeasonInv, ScoreFits
<1>4. ASSUME NEW side \in Sides
      PROVE  score'[side] \in [Modalities -> 0 .. MaxSafe] /\ Sum(score'[side]) \in 0 .. MaxSafe
  <2>1. DOMAIN score'[side] = Modalities /\ score'[side] = [n \in Modalities |-> score'[side][n]]
    BY <1>1, <1>3
  <2>2. score'[side] \in [Modalities -> 0 .. MaxSafe]
    BY <1>2, <2>1 DEF ValidScore
  <2>3. score'[side] \in [Modalities -> Nat]
    BY <2>2, Limits
  <2>4. Sum(score'[side]) \in Nat
    BY <2>3, SumType, CoreAssumption
  <2>5. Safe(Sum(score'[side]))
    BY <1>2 DEF ValidScore
  <2> QED
    BY <2>2, <2>4, <2>5, Limits DEF Safe
<1>5. score' = [side \in Sides |-> score'[side]]
  BY <1>1, <1>3
<1> QED
  BY <1>4, <1>5 DEF ScoreFits

\* What was granted is in the levels that were bought or in the rest.
LEMMA ActionKeepsHistories ==
  ASSUME SeasonInv, NEW a \in Accounts, NEW m \in Modalities,
         NEW sample \in 0 .. RngScale - 1, EvaluateAction(a, m, sample)
  PROVE  HistoriesFit'
<1>1. PICK p \in Progress :
        /\ Reached(p, build[a], m, rules)
        /\ build' = [build EXCEPT ![a] = [build[a] EXCEPT ![m] = p]]
        /\ spent' = [spent EXCEPT ![a][m] = @ + Cost(build[a][m].level, p.level)]
  BY ActionGrants
<1>2. build \in [Accounts -> Builds] /\ ValidRules(rules) /\ build[a][m] \in Progress
  BY DEF SeasonInv, ValidSnapshots, Builds
<1>3. PICK x \in Nat : x = XpGranted(build[a], m, rules)
  BY <1>2, GrantType
<1>4. PICK c : c = Cost(build[a][m].level, p.level)
  OBVIOUS
<1>5. c \in Int /\ build[a][m].xp + x = c + p.xp
  <2>1. /\ p.level \in 0 .. MaxLevel /\ p.xp \in Nat
        /\ build[a][m].level \in 0 .. MaxLevel /\ build[a][m].xp \in Nat
    BY <1>2, Limits DEF Progress
  <2>2. Price(rules)[p.level] \in Int /\ Price(rules)[build[a][m].level] \in Int
    BY <1>2, <2>1, PriceRises
  <2>3. p.xp + Price(rules)[p.level] = build[a][m].xp + x + Price(rules)[build[a][m].level]
    BY <1>1, <1>3 DEF Reached, Worth, Starts
  <2> QED
    BY <1>4, <2>1, <2>2, <2>3 DEF Cost
<1>6. /\ granted' = [granted EXCEPT ![a][m] = @ + x]
      /\ spent' = [spent EXCEPT ![a][m] = @ + c]
  BY <1>1, <1>3, <1>4 DEF EvaluateAction
<1>7. /\ granted \in [Accounts -> [Modalities -> Int]]
      /\ spent \in [Accounts -> [Modalities -> Int]]
      /\ \A b \in Accounts, n \in Modalities : granted[b][n] = spent[b][n] + build[b][n].xp
  BY DEF SeasonInv, HistoriesFit, XpIsConserved
<1>8. /\ granted[a][m] \in Int /\ spent[a][m] \in Int
      /\ granted[a][m] + x \in Int /\ spent[a][m] + c \in Int
  BY <1>5, <1>7
<1>9. granted' \in [Accounts -> [Modalities -> Int]] /\ spent' \in [Accounts -> [Modalities -> Int]]
  BY <1>6, <1>7, <1>8
<1>10. ASSUME NEW b \in Accounts, NEW n \in Modalities
       PROVE  granted'[b][n] = spent'[b][n] + build'[b][n].xp
  <2>1. CASE b = a /\ n = m
    <3>1. granted'[a][m] = granted[a][m] + x /\ spent'[a][m] = spent[a][m] + c
      BY <1>6, <1>7
    <3>2. build'[a][m] = p
      BY <1>1, <1>2 DEF Builds
    <3>3. p.xp \in Int /\ build[a][m].xp \in Int
      BY <1>2, Limits DEF Progress
    <3>4. granted[a][m] = spent[a][m] + build[a][m].xp
      BY <1>7
    <3>5. granted'[a][m] = spent'[a][m] + p.xp
      <4>1. PICK s \in Int, old \in Int, new \in Int :
              s = spent[a][m] /\ old = build[a][m].xp /\ new = p.xp
        BY <1>8, <3>3
      <4>2. granted'[a][m] = s + old + x /\ spent'[a][m] = s + c
        BY <3>1, <3>4, <4>1
      <4>3. old + x = c + new
        BY <1>5, <4>1
      <4>4. s + old + x = s + c + new
        BY <1>5, <4>3
      <4> QED
        BY <4>1, <4>2, <4>4
    <3> QED
      BY <2>1, <3>2, <3>5
  <2>2. CASE ~(b = a /\ n = m)
    <3>1. granted'[b][n] = granted[b][n] /\ spent'[b][n] = spent[b][n]
      BY <1>6, <1>7, <2>2
    <3>2. build'[b][n] = build[b][n]
      BY <1>1, <1>2, <2>2 DEF Builds
    <3> QED
      BY <1>7, <3>1, <3>2
  <2> QED
    BY <2>1, <2>2
<1> QED
  BY <1>9, <1>10 DEF HistoriesFit, XpIsConserved

LEMMA ActionKeepsDeadlines ==
  ASSUME SeasonInv, NEW a \in Accounts, NEW m \in Modalities,
         NEW sample \in 0 .. RngScale - 1, EvaluateAction(a, m, sample)
  PROVE  DeadlinesFit'
<1>1. now \in Int /\ rules.cooldownMs \in Int /\ None \notin Int
  BY Limits, CoreAssumption DEF SeasonInv, ValidSnapshots, ValidRules
<1>2. PICK last \in [at : Int, cooldown : Int] : last = [at |-> now, cooldown |-> rules.cooldownMs]
  BY <1>1
<1>3. PICK deadline \in Int : deadline = now + rules.cooldownMs
  BY <1>1
<1>4. /\ nextAllowedAt' = [nextAllowedAt EXCEPT ![a] = deadline]
      /\ lastAccepted' = [lastAccepted EXCEPT ![a] = last]
  BY <1>2, <1>3 DEF EvaluateAction
<1>5. last.at + last.cooldown = deadline /\ deadline # None
  BY <1>1, <1>2, <1>3
<1> QED
  BY <1>4, <1>5 DEF SeasonInv, DeadlinesFit

LEMMA SeasonNext == SeasonInv /\ [Next]_vars => SeasonInv'
<1> SUFFICES ASSUME SeasonInv, [Next]_vars PROVE SeasonInv'
  OBVIOUS
<1>1. ASSUME NEW a \in Accounts, NEW m \in Modalities, NEW sample \in 0 .. RngScale - 1,
             EvaluateAction(a, m, sample)
      PROVE  SeasonInv'
  <2>1. now' \in Nat /\ rules' \in ValidSnapshots
    BY <1>1 DEF SeasonInv, EvaluateAction
  <2>2. MatchFits'
    <3>1. PICK i \in Intervals, status \in Statuses : match = MatchIn(i, status)
      BY DEF SeasonInv, MatchFits
    <3>2. match' = MatchIn(i, "active")
      BY <1>1, <3>1 DEF EvaluateAction, MatchIn
    <3> QED
      BY <3>2 DEF MatchFits, Statuses
  <2>3. build' \in [Accounts -> Builds]
    <3>1. PICK p \in Progress :
            /\ Reached(p, build[a], m, rules)
            /\ build' = [build EXCEPT ![a] = [build[a] EXCEPT ![m] = p]]
      BY <1>1, ActionGrants
    <3>2. [build[a] EXCEPT ![m] = p] \in Builds
      BY <3>1, ReachedBuild DEF SeasonInv
    <3> QED
      BY <3>1, <3>2 DEF SeasonInv
  <2> QED
    BY <1>1, <2>1, <2>2, <2>3, ActionKeepsScore, ActionKeepsHistories, ActionKeepsDeadlines
       DEF SeasonInv
<1>2. ASSUME NEW status \in {"finished", "cancelled"}, EndMatch(status) PROVE SeasonInv'
  <2>1. MatchFits'
    <3>1. PICK i \in Intervals, before \in Statuses : match = MatchIn(i, before)
      BY DEF SeasonInv, MatchFits
    <3>2. match' = MatchIn(i, status)
      BY <1>2, <3>1 DEF EndMatch, MatchIn
    <3> QED
      BY <3>2 DEF MatchFits, Statuses
  <2> QED
    BY <1>2, <2>1
       DEF EndMatch, account, SeasonInv, ScoreFits, HistoriesFit, XpIsConserved, DeadlinesFit
<1>3. ASSUME NEW r \in ValidSnapshots, NEW i \in Intervals, OpenMatch(r, i) PROVE SeasonInv'
  <2>1. MatchFits'
    <3>1. match' = MatchIn(i, "scheduled")
      BY <1>3 DEF OpenMatch, NewMatch, MatchIn
    <3> QED
      BY <3>1 DEF MatchFits, Statuses
  <2>2. ScoreFits'
    BY <1>3, EmptyScore DEF OpenMatch, ScoreFits
  <2>3. rules' \in ValidSnapshots
    BY <1>3 DEF OpenMatch, ValidSnapshots
  <2> QED
    BY <1>3, <2>1, <2>2, <2>3
       DEF OpenMatch, account, SeasonInv, HistoriesFit, XpIsConserved, DeadlinesFit
<1>4. ASSUME Tick PROVE SeasonInv'
  BY <1>4
     DEF Tick, account, SeasonInv, MatchFits, ScoreFits, HistoriesFit, XpIsConserved, DeadlinesFit
<1>5. ASSUME UNCHANGED vars PROVE SeasonInv'
  BY <1>5
     DEF vars, account, SeasonInv, MatchFits, ScoreFits, HistoriesFit, XpIsConserved, DeadlinesFit
<1> QED
  BY <1>1, <1>2, <1>3, <1>4, <1>5 DEF Next

\* Experience, scores, builds and deadlines fit at all times, for any rules.
THEOREM SeasonInvariant == Spec => []SeasonInv
<1> QED
  BY SeasonInit, SeasonNext, PTL DEF Spec

\* No experience is lost or made up by grantActionXp, whatever curve, caps and
\* grants the rules of the matches have.
THEOREM ExperienceIsConserved == Spec => []XpIsConserved
<1>1. SeasonInv => XpIsConserved
  BY DEF SeasonInv, HistoriesFit
<1> QED
  BY <1>1, SeasonInvariant, PTL

\* evaluateAction accepts an account's next action only after the cooldown of the
\* rules that its last one was accepted under.
THEOREM CooldownsOutliveMatches == Spec => CooldownOutlivesTheMatch
<1> DEFINE Kept == \A a \in Accounts :
                     lastAccepted'[a] # lastAccepted[a] /\ lastAccepted[a] # None =>
                       now >= lastAccepted[a].at + lastAccepted[a].cooldown
<1>1. SeasonInv /\ [Next]_vars => [Kept]_vars
  <2> SUFFICES ASSUME SeasonInv, Next, NEW a \in Accounts,
                      lastAccepted'[a] # lastAccepted[a], lastAccepted[a] # None
               PROVE  now >= lastAccepted[a].at + lastAccepted[a].cooldown
    OBVIOUS
  <2>1. PICK b \in Accounts, m \in Modalities, sample \in 0 .. RngScale - 1 :
          EvaluateAction(b, m, sample)
    BY DEF Next, EndMatch, OpenMatch, Tick, account
  <2>2. a = b
    BY <2>1 DEF EvaluateAction, SeasonInv, DeadlinesFit
  <2>3. Verdict(match, now, nextAllowedAt[a]) = "ACCEPTED"
    BY <2>1, <2>2 DEF EvaluateAction
  <2>4. nextAllowedAt[a] # None /\ nextAllowedAt[a] = lastAccepted[a].at + lastAccepted[a].cooldown
    BY DEF SeasonInv, DeadlinesFit
  <2>5. nextAllowedAt[a] \in Int /\ now \in Int
    BY <2>4 DEF SeasonInv, DeadlinesFit
  <2>6. ~(now < nextAllowedAt[a])
    BY <2>3, <2>4 DEF Verdict
  <2> QED
    BY <2>4, <2>5, <2>6
<1> QED
  BY <1>1, SeasonInvariant, PTL DEF Spec, CooldownOutlivesTheMatch

-----------------------------------------------------------------------------
(***************************************************************************)
(* The wire contract.                                                      *)
(***************************************************************************)
LEMMA DomainsType ==
  ASSUME NEW side
  PROVE  /\ Cardinality(Domains(score, side)) \in Nat
         /\ Cardinality(Domains(score, side)) <= Cardinality(Modalities)
         /\ Cardinality(Modalities) \in Nat
<1>1. Domains(score, side) \subseteq Modalities
  BY DEF Domains
<1> QED
  BY <1>1, CoreAssumption, FS_Subset, FS_CardinalityType

LEMMA SidesAreTwo ==
  /\ Sides = {"home", "away"} /\ Other("home") = "away" /\ Other("away") = "home"
  /\ None \notin Int /\ None # "home" /\ None # "away"
BY CoreAssumption DEF Sides, Other

\* The second derivation of the result, in hasConsistentPublicResult, is the first.
LEMMA ResultsAgree ==
  ASSUME SeasonInv
  PROVE  LET domains == [side \in Sides |-> Cardinality(Domains(score, side))]
             total == [side \in Sides |-> Sum(score[side])]
             Better(amount) == IF amount["home"] > amount["away"] THEN "home" ELSE "away"
         IN WireResult =
              IF domains["home"] # domains["away"]
                THEN [winner |-> Better(domains), decidedBy |-> "dominance"]
              ELSE IF total["home"] # total["away"]
                THEN [winner |-> Better(total), decidedBy |-> "total"]
              ELSE [winner |-> None, decidedBy |-> "draw"]
<1>1. PICK dh \in Nat, da \in Nat :
        dh = Cardinality(Domains(score, "home")) /\ da = Cardinality(Domains(score, "away"))
  BY DomainsType
<1>2. PICK th \in Int, ta \in Int : th = Sum(score["home"]) /\ ta = Sum(score["away"])
  BY SidesAreTwo DEF SeasonInv, ScoreFits
<1>3. Winner(score) = IF (IF dh - da # 0 THEN dh - da ELSE th - ta) > 0 THEN "home"
                      ELSE IF (IF dh - da # 0 THEN dh - da ELSE th - ta) < 0 THEN "away"
                      ELSE "draw"
  BY <1>1, <1>2 DEF Winner
<1>4. WireResult =
        [winner |-> IF Winner(score) = "draw" THEN None ELSE Winner(score),
         decidedBy |-> IF dh # da THEN "dominance" ELSE IF th # ta THEN "total" ELSE "draw"]
  BY <1>1, <1>2, SidesAreTwo DEF WireResult
<1>5. CASE dh # da
  <2>1. Winner(score) = IF dh > da THEN "home" ELSE "away"
    BY <1>3, <1>5
  <2> QED
    BY <1>1, <1>4, <1>5, <2>1, SidesAreTwo
<1>6. CASE dh = da /\ th # ta
  <2>1. Winner(score) = IF th > ta THEN "home" ELSE "away"
    BY <1>3, <1>6
  <2> QED
    BY <1>1, <1>2, <1>4, <1>6, <2>1, SidesAreTwo
<1>7. CASE dh = da /\ th = ta
  <2>1. Winner(score) = "draw"
    BY <1>3, <1>7
  <2> QED
    BY <1>1, <1>2, <1>4, <1>7, <2>1, SidesAreTwo
<1> QED
  BY <1>5, <1>6, <1>7

LEMMA BuildsFit ==
  ASSUME SeasonInv, NEW a \in Accounts
  PROVE  BuildFits(WireBuild(build[a]))
<1>1. build[a] \in [Modalities -> Progress] /\ TotalLevel(build[a]) <= MaxTotalLevel
  BY DEF SeasonInv, Builds
<1>2. TotalLevel(build[a]) \in 0 .. MaxTotalLevel
  BY <1>1, TotalLevelType, Limits
<1>3. PICK t \in 0 .. MaxTotalLevel, k \in Nat \ {0} :
        t = TotalLevel(build[a]) /\ k = LevelsPerSkillPoint
  BY <1>2, ContractAssumption
<1>4. t \div k \in 0 .. MaxTotalLevel \div k
  <2>1. PICK q \in Nat, u \in Nat : q = t \div k /\ u = MaxTotalLevel \div k
    BY Limits
  <2>2. q * k <= t /\ MaxTotalLevel < (u + 1) * k
    BY <2>1, Limits
  <2> QED
    BY <2>1, <2>2, Limits
<1>5. SkillPoints(build[a]) = t \div k /\ MaxSkillPoints = MaxTotalLevel \div k
  BY <1>3, ContractAssumption DEF SkillPoints
<1>6. \A m \in Modalities : build[a][m].level \in 0 .. MaxLevel /\ build[a][m].xp \in 0 .. MaxSafe
  BY <1>1 DEF Progress
<1> QED
  BY <1>2, <1>3, <1>4, <1>5, <1>6 DEF BuildFits, WireBuild, TotalLevel

LEMMA SidesFit ==
  ASSUME SeasonInv, NEW side \in Sides
  PROVE  SideFits(PublicProjection.sides[side])
<1>1. PICK p : p = PublicProjection.sides[side]
  OBVIOUS
<1>2. /\ p.scoreTenths = score[side] /\ p.totalTenths = Sum(score[side])
      /\ p.dominatedModalities = Cardinality(Domains(score, side))
  BY <1>1 DEF PublicProjection
<1>3. /\ score[side] \in [Modalities -> 0 .. MaxSafe]
      /\ Sum(score[side]) \in 0 .. MaxSafe
  BY DEF SeasonInv, ScoreFits
<1>4. Cardinality(Domains(score, side)) \in 0 .. Cardinality(Modalities)
  BY DomainsType
<1> QED
  BY <1>1, <1>2, <1>3, <1>4 DEF SideFits

\* The schemas of packages/contracts accept what the rules core computed.
THEOREM ContractAcceptsTheCore == Spec => []ProjectionsFitTheContract
<1>1. ASSUME SeasonInv PROVE ProjectionsFitTheContract
  <2>1. PICK p : p = PublicProjection
    OBVIOUS
  <2>2. /\ p.state = match.status
        /\ p.pendingFinalization = (match.status \in {"scheduled", "active"} /\ now >= match.endsAt)
        /\ p.startsAt = match.startsAt /\ p.endsAt = match.endsAt
        /\ p.result = IF match.status = "finished" THEN WireResult ELSE None
    BY <2>1 DEF PublicProjection
  <2>3. match.status \in Statuses /\ match.startsAt < match.endsAt
    BY <1>1, SeasonAssumption DEF SeasonInv, MatchFits, MatchIn
  <2>4. WireResult \in [winner : Sides \cup {None}, decidedBy : {"dominance", "total", "draw"}]
    BY <1>1, ResultsAgree, SidesAreTwo
  <2>5. WireResult # None
    BY <2>4, ContractAssumption
  <2>6. ResultFits(WireResult)
    BY <1>1, <2>4, ResultsAgree, SidesAreTwo DEF ResultFits
  <2>7. LifecycleFits(p)
    BY <2>2, <2>3, <2>5 DEF LifecycleFits, Statuses
  <2>8. ConsistentPublicResult(p)
    <3>1. ASSUME NEW side \in Sides
          PROVE  /\ p.sides[side].scoreTenths = score[side]
                 /\ p.sides[side].totalTenths = Sum(score[side])
                 /\ p.sides[side].dominatedModalities = Cardinality(Domains(score, side))
      BY <2>1, <3>1 DEF PublicProjection
    <3>2. \A side \in Sides : Other(side) \in Sides
      BY DEF Sides, Other
    <3>3. \A side \in Sides :
            {m \in Modalities :
               p.sides[side].scoreTenths[m] > p.sides[Other(side)].scoreTenths[m]}
              = Domains(score, side)
      BY <3>1, <3>2 DEF Domains
    <3>4. [side \in Sides |-> Cardinality({m \in Modalities :
             p.sides[side].scoreTenths[m] > p.sides[Other(side)].scoreTenths[m]})]
            = [side \in Sides |-> Cardinality(Domains(score, side))]
      BY <3>3
    <3>5. [side \in Sides |-> p.sides[side].totalTenths] = [side \in Sides |-> Sum(score[side])]
      BY <3>1
    <3>6. p.result # None => p.result = WireResult
      BY <2>2
    <3> QED
      BY <1>1, <3>1, <3>3, <3>4, <3>5, <3>6, ResultsAgree DEF ConsistentPublicResult
  <2>9. ProjectionFits(p)
    <3>1. \A side \in Sides : SideFits(p.sides[side])
      BY <1>1, <2>1, SidesFit
    <3>2. p.result # None => ResultFits(p.result)
      BY <2>2, <2>6
    <3> QED
      BY <2>2, <2>3, <2>7, <2>8, <3>1, <3>2 DEF ProjectionFits, Statuses
  <2>10. match.status = "active" => ActionEventFits(p)
    BY <2>2, <2>9 DEF ActionEventFits
  <2>11. match.status = "finished" => FinishedEventFits(p)
    BY <2>2, <2>9 DEF FinishedEventFits
  <2> QED
    BY <1>1, <2>1, <2>9, <2>10, <2>11, BuildsFit DEF ProjectionsFitTheContract
<1> QED
  BY <1>1, SeasonInvariant, PTL
=============================================================================
