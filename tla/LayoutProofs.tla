---------------------------- MODULE LayoutProofs ----------------------------
(***************************************************************************)
(* Lemmas that several proofs share: induction in a form the provers can   *)
(* use, least and greatest elements, ranks and orderings, the existence of *)
(* recursive functions and folds, the layout that build makes of any page  *)
(* heights, and the transmits that plan_transmit_deferrals puts off.       *)
(***************************************************************************)
EXTENDS Layout, DrawPlan, FiniteSetsExt, FiniteSetTheorems, FunctionTheorems, WellFoundedInduction, TLAPS

(* Every nonempty set of natural numbers has a least element: induction,   *)
(* in the form in which the proofs below use it.                           *)
LEMMA NatLeast ==
    ASSUME NEW T, T \subseteq Nat, T # {}
    PROVE \E x \in T : \A y \in T : x <= y
<1> DEFINE R == OpToRel(<, Nat)
<1>1. IsWellFoundedOn(R, Nat)
  BY NatLessThanWellFounded
<1>2. \A x, y \in Nat : <<y, x>> \in R <=> y < x
  BY DEF OpToRel
<1> HIDE DEF R
<1>3. \E x \in T : \A y \in T : ~ (<<y, x>> \in R)
  BY <1>1, WFMin
<1>4. PICK x \in T : \A y \in T : ~ (<<y, x>> \in R)
  BY <1>3
<1>5. \A y \in T : ~ (y < x)
  BY <1>2, <1>4
<1> QED
  BY <1>5

LEMMA MinIs ==
    ASSUME NEW S, S \subseteq Nat, S # {}
    PROVE  Min(S) \in S /\ \A i \in S : Min(S) <= i
<1>1. \E m \in S : \A i \in S : m <= i
  BY NatLeast
<1> QED
  BY <1>1 DEF Min

LEMMA MaxIs ==
    ASSUME NEW n \in Nat, NEW S, S \subseteq 0 .. n, S # {}
    PROVE  Max(S) \in S /\ \A i \in S : Max(S) >= i
<1> DEFINE T == {n - i : i \in S}
<1>1. T \subseteq Nat /\ T # {} /\ \A i \in S : n - i \in T
  <2>1. ASSUME NEW i \in S PROVE n - i \in Nat
    <3>1. i \in 0 .. n
      OBVIOUS
    <3> QED
      BY <3>1
  <2> QED
    BY <2>1
<1>2. PICK t \in T : \A u \in T : t <= u
  <2> HIDE DEF T
  <2> QED
    BY <1>1, NatLeast
<1>3. PICK m \in S : t = n - m
  BY <1>2
<1>4. \A i \in S : m >= i
  <2> TAKE i \in S
  <2>1. n - m <= n - i
    BY <1>1, <1>2, <1>3
  <2>2. m \in 0 .. n /\ i \in 0 .. n
    OBVIOUS
  <2> QED
    BY <2>1, <2>2
<1> QED
  BY <1>4 DEF Max

LEMMA MaxOfTwo ==
    ASSUME NEW i \in Int, NEW j \in Int
    PROVE  Max({i, j}) = Greater(i, j)
<1>1. \E m \in {i, j} : \A k \in {i, j} : m >= k
  OBVIOUS
<1>2. Max({i, j}) \in {i, j} /\ \A k \in {i, j} : Max({i, j}) >= k
  BY <1>1 DEF Max
<1> QED
  BY <1>2 DEF Greater

LEMMA MinOfTwo ==
    ASSUME NEW i \in Int, NEW j \in Int
    PROVE  Min({i, j}) = Lesser(i, j)
<1>1. \E m \in {i, j} : \A k \in {i, j} : m <= k
  OBVIOUS
<1>2. Min({i, j}) \in {i, j} /\ \A k \in {i, j} : Min({i, j}) <= k
  BY <1>1 DEF Min
<1> QED
  BY <1>2 DEF Lesser

(* Where a function on a set of naturals is least.                         *)
LEMMA LeastValue ==
    ASSUME NEW S, S # {}, NEW f \in [S -> Nat]
    PROVE  \E i \in S : \A j \in S : f[i] <= f[j]
<1> DEFINE T == {f[i] : i \in S}
<1>1. T \subseteq Nat /\ T # {} /\ \A i \in S : f[i] \in T
  OBVIOUS
<1>2. PICK t \in T : \A u \in T : t <= u
  <2> HIDE DEF T
  <2> QED
    BY <1>1, NatLeast
<1> QED
  BY <1>1, <1>2

LEMMA Quotient ==
    ASSUME NEW i \in Nat, NEW j \in Nat \ {0}
    PROVE  i \div j \in Nat
OBVIOUS

LEMMA Product ==
    ASSUME NEW i \in Nat, NEW j \in Nat
    PROVE  i * j \in Nat
OBVIOUS

(* Induction over an interval of the naturals.                             *)
LEMMA Climb ==
    ASSUME NEW n \in Nat, NEW T, 0 \in T, \A i \in 1 .. n : i - 1 \in T => i \in T
    PROVE  \A i \in 0 .. n : i \in T
<1> DEFINE U == {i \in 0 .. n : i \notin T}
<1>1. U \subseteq Nat /\ \A i \in 0 .. n : i \in U <=> i \notin T
  OBVIOUS
<1>2. ASSUME U # {} PROVE FALSE
  <2>1. PICK k \in U : \A j \in U : k <= j
    <3> HIDE DEF U
    <3> QED
      BY <1>1, <1>2, NatLeast
  <2>2. k \in 1 .. n /\ k - 1 \in 0 .. n /\ k - 1 \notin U
    BY <2>1
  <2> QED
    BY <1>1, <2>1, <2>2
<1> QED
  BY <1>1, <1>2

(* Where a function is greatest on a set of numbers up to n.               *)
LEMMA GreatestValue ==
    ASSUME NEW n \in Nat, NEW S, S \subseteq 1 .. n, S # {}, NEW f \in [1 .. n -> Nat]
    PROVE  \E a \in S : \A b \in S : f[b] <= f[a]
<1> DEFINE Top(k) == \E a \in S : \A b \in S : b <= k => f[b] <= f[a]
           T == {k \in 0 .. n : Top(k)}
<1>1. 0 \in T
  <2>1. \A b \in S : ~ (b <= 0)
    OBVIOUS
  <2>2. Top(0)
    BY <2>1
  <2> HIDE DEF Top
  <2> QED
    BY <2>2
<1>2. ASSUME NEW k \in 1 .. n, k - 1 \in T PROVE k \in T
  <2>1. PICK a \in S : \A b \in S : b <= k - 1 => f[b] <= f[a]
    BY <1>2
  <2>2. \A b \in S : b \in 1 .. n /\ f[b] \in Nat /\ (b <= k => b <= k - 1 \/ b = k)
    OBVIOUS
  <2>3. CASE k \in S /\ f[k] > f[a]
    <3>1. \A b \in S : b <= k => f[b] <= f[k]
      BY <2>1, <2>2, <2>3
    <3>2. Top(k)
      BY <2>3, <3>1
    <3> HIDE DEF Top
    <3> QED
      BY <3>2
  <2>4. CASE ~ (k \in S /\ f[k] > f[a])
    <3>1. \A b \in S : b <= k => f[b] <= f[a]
      BY <2>1, <2>2, <2>4
    <3>2. Top(k)
      BY <3>1
    <3> HIDE DEF Top
    <3> QED
      BY <3>2
  <2> QED
    BY <2>3, <2>4
<1>3. Top(n)
  <2>1. \A k \in 0 .. n : k \in T
    <3> HIDE DEF T
    <3> QED
      BY <1>1, <1>2, Climb
  <2> HIDE DEF Top
  <2> QED
    BY <2>1
<1> QED
  BY <1>3

LEMMA UpToNext ==
    ASSUME NEW n \in Nat
    PROVE  \A x \in 1 .. n + 1 : x \in 1 .. n \/ x = n + 1
OBVIOUS

(* Counting, for each element of a finite set, the ones before it in a     *)
(* strict linear order numbers the elements from 0 on.                     *)
RankIn(S, R, p) == Cardinality({q \in S : <<q, p>> \in R})

LinearOn(S, R) ==
    /\ \A p \in S : <<p, p>> \notin R
    /\ \A p, q \in S : p # q => <<p, q>> \in R \/ <<q, p>> \in R
    /\ \A p, q, r \in S : <<p, q>> \in R /\ <<q, r>> \in R => <<p, r>> \in R

LEMMA Ranked ==
    ASSUME NEW S, IsFiniteSet(S), NEW R, LinearOn(S, R)
    PROVE  /\ Cardinality(S) \in Nat
           /\ [p \in S |-> RankIn(S, R, p)] \in Bijection(S, 0 .. Cardinality(S) - 1)
           /\ \A p, q \in S : <<p, q>> \in R => RankIn(S, R, p) < RankIn(S, R, q)
<1> DEFINE n == Cardinality(S)
           T == 0 .. n - 1
           Below(p) == {q \in S : <<q, p>> \in R}
           rank == [p \in S |-> RankIn(S, R, p)]
<1>1. n \in Nat
  BY FS_CardinalityType
<1>2. IsFiniteSet(T) /\ Cardinality(T) = n
  <2> HIDE DEF n
  <2> QED
    BY <1>1, FS_Interval
<1>3. ASSUME NEW p \in S
      PROVE  IsFiniteSet(Below(p)) /\ RankIn(S, R, p) = Cardinality(Below(p)) /\ RankIn(S, R, p) \in T
  <2>1. Below(p) \in SUBSET S /\ p \notin Below(p)
    BY DEF LinearOn
  <2>2. RankIn(S, R, p) = Cardinality(Below(p))
    BY DEF RankIn
  <2> HIDE DEF Below
  <2>3. IsFiniteSet(Below(p)) /\ Cardinality(Below(p)) <= n /\ Cardinality(Below(p)) # n
    BY <2>1, FS_Subset
  <2>4. Cardinality(Below(p)) \in Nat
    BY <2>3, FS_CardinalityType
  <2> QED
    BY <1>1, <2>2, <2>3, <2>4
<1>4. ASSUME NEW p \in S, NEW q \in S, <<p, q>> \in R
      PROVE  RankIn(S, R, p) < RankIn(S, R, q)
  <2>1. Below(p) \in SUBSET Below(q) /\ p \in Below(q) /\ p \notin Below(p)
    BY <1>4 DEF LinearOn
  <2> HIDE DEF Below
  <2>2. Cardinality(Below(p)) <= Cardinality(Below(q)) /\ Cardinality(Below(p)) # Cardinality(Below(q))
    BY <1>3, <2>1, FS_Subset
  <2>3. Cardinality(Below(p)) \in Nat /\ Cardinality(Below(q)) \in Nat
    BY <1>3, FS_CardinalityType
  <2> QED
    BY <1>3, <2>2, <2>3
<1>5. rank \in [S -> T] /\ \A p \in S : rank[p] = RankIn(S, R, p)
  BY <1>3
<1> HIDE DEF rank
<1>6. \A p, q \in S : p # q => rank[p] # rank[q]
  <2> TAKE p, q \in S
  <2> HAVE p # q
  <2>1. rank[p] \in Int /\ rank[q] \in Int
    BY <1>1, <1>5
  <2>2. <<p, q>> \in R \/ <<q, p>> \in R
    BY DEF LinearOn
  <2> QED
    BY <1>4, <1>5, <2>1, <2>2
<1>7. rank \in Injection(S, T)
  <2> HIDE DEF T
  <2> QED
    BY <1>5, <1>6 DEF Injection, IsInjective
<1>8. rank \in Surjection(S, T)
  <2> HIDE DEF T, n
  <2> QED
    BY <1>2, <1>7, FS_Injection DEF n
<1>9. rank \in Bijection(S, T)
  BY <1>7, <1>8 DEF Bijection
<1> QED
  BY <1>1, <1>4, <1>9 DEF rank

LEMMA RankedFrom ==
    ASSUME NEW S, IsFiniteSet(S), NEW R, LinearOn(S, R), NEW k \in 0 .. Cardinality(S)
    PROVE  LET later == {p \in S : RankIn(S, R, p) >= k}
           IN  IsFiniteSet(later) /\ Cardinality(later) = Cardinality(S) - k
<1> DEFINE n == Cardinality(S)
           rank == [p \in S |-> RankIn(S, R, p)]
           later == {p \in S : RankIn(S, R, p) >= k}
           T == k .. n - 1
           part == [p \in later |-> rank[p]]
<1>1. n \in Nat /\ rank \in Bijection(S, 0 .. n - 1) /\ k \in 0 .. n
  BY Ranked
<1>2. /\ \A p \in S : rank[p] = RankIn(S, R, p) /\ rank[p] \in 0 .. n - 1
      /\ \A p, q \in S : rank[p] = rank[q] => p = q
      /\ \A m \in 0 .. n - 1 : \E p \in S : rank[p] = m
  <2> HIDE DEF n
  <2> QED
    BY <1>1 DEF Bijection, Injection, IsInjective, Surjection
<1>3. IsFiniteSet(T) /\ Cardinality(T) = n - k
  <2>1. n - 1 \in Int /\ k \in Int
    BY <1>1
  <2>2. IsFiniteSet(T) /\ Cardinality(T) = IF k > n - 1 THEN 0 ELSE n - 1 - k + 1
    <3> HIDE DEF n
    <3> QED
      BY <2>1, FS_Interval
  <2> QED
    BY <1>1, <2>2
<1>4. \A p \in later : p \in S /\ rank[p] \in T
  <2> TAKE p \in later
  <2>1. p \in S /\ rank[p] >= k /\ rank[p] \in 0 .. n - 1
    BY <1>2
  <2> HIDE DEF n, rank
  <2> QED
    BY <1>1, <2>1
<1>5. \A m \in T : \E p \in later : rank[p] = m
  <2> TAKE m \in T
  <2>1. m \in 0 .. n - 1 /\ m >= k
    <3> HIDE DEF n
    <3> QED
      BY <1>1
  <2>2. PICK p \in S : rank[p] = m
    BY <1>2, <2>1
  <2>3. p \in later
    BY <1>2, <2>1, <2>2
  <2> QED
    BY <2>2, <2>3
<1> HIDE DEF T, n, rank, later
<1>6. part \in Bijection(later, T)
  <2>1. part \in [later -> T] /\ \A p \in later : part[p] = rank[p]
    BY <1>4
  <2> HIDE DEF part
  <2> QED
    BY <1>2, <1>4, <1>5, <2>1 DEF Bijection, Injection, IsInjective, Surjection
<1>7. ExistsBijection(T, later)
  <2>1. ExistsBijection(later, T)
    BY <1>6 DEF ExistsBijection
  <2> QED
    BY <2>1, Fun_ExistsBijSymmetric
<1>8. IsFiniteSet(later) /\ Cardinality(later) = Cardinality(T)
  BY <1>3, <1>7, FS_Bijection
<1> QED
  BY <1>3, <1>8 DEF later, n

(* f numbers the elements of S from 1 on in the order of R.                *)
ByRank(f, S, R) ==
    \A k \in 1 .. Cardinality(S), i \in S :
        RankIn(S, R, i) = k - 1 => f[k] \in S /\ RankIn(S, R, f[k]) = k - 1

(* Each element has one number, and each number one element.               *)
LEMMA Ordering ==
    ASSUME NEW S, IsFiniteSet(S), NEW R, LinearOn(S, R),
           NEW f, ByRank(f, S, R)
    PROVE  /\ Cardinality(S) \in Nat
           /\ \A k \in 1 .. Cardinality(S) : f[k] \in S
           /\ \A j, k \in 1 .. Cardinality(S) : f[j] = f[k] => j = k
           /\ \A i \in S : \E k \in 1 .. Cardinality(S) : f[k] = i
<1> DEFINE n == Cardinality(S)
           rank == [p \in S |-> RankIn(S, R, p)]
<1>1. n \in Nat /\ rank \in Bijection(S, 0 .. n - 1)
  BY Ranked
<1>2. /\ \A p \in S : rank[p] = RankIn(S, R, p) /\ rank[p] \in 0 .. n - 1
      /\ \A p, q \in S : rank[p] = rank[q] => p = q
      /\ \A m \in 0 .. n - 1 : \E p \in S : rank[p] = m
  <2> HIDE DEF n
  <2> QED
    BY <1>1 DEF Bijection, Injection, IsInjective, Surjection
<1> HIDE DEF n, rank
<1>3. ASSUME NEW k \in 1 .. n PROVE f[k] \in S /\ rank[f[k]] = k - 1
  <2>1. k - 1 \in 0 .. n - 1
    BY <1>1
  <2>2. \E p \in S : RankIn(S, R, p) = k - 1
    BY <1>2, <2>1
  <2>4. f[k] \in S /\ RankIn(S, R, f[k]) = k - 1
    BY <2>2 DEF n, ByRank
  <2> QED
    BY <1>2, <2>4
<1>4. \A j, k \in 1 .. n : f[j] = f[k] => j = k
  <2> TAKE j, k \in 1 .. n
  <2> HAVE f[j] = f[k]
  <2>1. rank[f[j]] = j - 1 /\ rank[f[k]] = k - 1
    BY <1>3
  <2>2. j - 1 = k - 1
    BY <2>1
  <2> QED
    BY <1>1, <2>2
<1>5. ASSUME NEW i \in S PROVE \E k \in 1 .. n : f[k] = i
  <2>1. rank[i] \in 0 .. n - 1
    BY <1>2
  <2>2. rank[i] + 1 \in 1 .. n /\ (rank[i] + 1) - 1 = rank[i]
    BY <1>1, <2>1
  <2>3. f[rank[i] + 1] \in S /\ rank[f[rank[i] + 1]] = rank[i]
    BY <1>3, <2>2
  <2>4. f[rank[i] + 1] = i
    BY <1>2, <2>3
  <2> QED
    BY <2>2, <2>4
<1> QED
  BY <1>1, <1>3, <1>4, <1>5 DEF n

(* What a recursion over 0 .. n defines: from base, entry i is made from   *)
(* the entry before by Step[i].                                            *)
Iteration(f, n, D, base, Step) ==
    f \in [0 .. n -> D] /\ f[0] = base /\ \A i \in 1 .. n : f[i] = Step[i][f[i - 1]]

(* There is such a function.                                               *)
LEMMA Iterates ==
    ASSUME NEW n \in Nat, NEW D, NEW base \in D, NEW Step \in [1 .. n -> [D -> D]]
    PROVE  \E f : Iteration(f, n, D, base, Step)
<1> DEFINE Rec(f, k) == f[0] = base /\ \A i \in 1 .. k : f[i] = Step[i][f[i - 1]]
           T == {k \in 0 .. n : \E f \in [0 .. k -> D] : Rec(f, k)}
<1>1. 0 \in T
  <2> DEFINE f == [i \in 0 .. 0 |-> base]
  <2>1. f \in [0 .. 0 -> D] /\ Rec(f, 0)
    OBVIOUS
  <2> HIDE DEF f, Rec
  <2> QED
    BY <2>1
<1>2. ASSUME NEW k \in 1 .. n, k - 1 \in T PROVE k \in T
  <2>1. PICK f \in [0 .. k - 1 -> D] : Rec(f, k - 1)
    BY <1>2
  <2> DEFINE g == [i \in 0 .. k |-> IF i = k THEN Step[k][f[k - 1]] ELSE f[i]]
  <2>2. f[k - 1] \in D /\ Step[k] \in [D -> D]
    BY <2>1
  <2>3. g \in [0 .. k -> D]
    BY <2>1, <2>2
  <2>4. Rec(g, k)
    <3>1. g[0] = base
      BY <2>1
    <3>2. ASSUME NEW i \in 1 .. k PROVE g[i] = Step[i][g[i - 1]]
      <4>1. i \in 0 .. k /\ i - 1 \in 0 .. k - 1 /\ i - 1 \in 0 .. k /\ i - 1 # k
        OBVIOUS
      <4>2. g[i - 1] = f[i - 1]
        BY <4>1
      <4>3. CASE i = k
        BY <4>1, <4>2, <4>3
      <4>4. CASE i # k
        <5>1. i \in 1 .. k - 1 /\ g[i] = f[i]
          BY <4>1, <4>4
        <5> QED
          BY <2>1, <4>2, <5>1
      <4> QED
        BY <4>3, <4>4
    <3> HIDE DEF g
    <3> QED
      BY <3>1, <3>2
  <2> HIDE DEF g, Rec
  <2> QED
    BY <2>3, <2>4
<1>3. \A k \in 0 .. n : k \in T
  <2> HIDE DEF T
  <2> QED
    BY <1>1, <1>2, Climb
<1>4. PICK f \in [0 .. n -> D] : Rec(f, n)
  BY <1>3
<1> QED
  BY <1>4 DEF Iteration

(* The recursion of MapThenFoldSet over the subsets of 1 .. n, greatest    *)
(* element first                                                           *)
Folding(f, n, D, base, Step) ==
    /\ f \in [SUBSET (1 .. n) -> D]
    /\ \A s \in SUBSET (1 .. n) : f[s] = IF s = {} THEN base ELSE Step[Max(s)][f[s \ {Max(s)}]]

(* There is a function that it defines.                                    *)
LEMMA FoldExists ==
    ASSUME NEW n \in Nat, NEW D, NEW base \in D, NEW Step \in [1 .. n -> [D -> D]]
    PROVE  \E f : Folding(f, n, D, base, Step)
<1> DEFINE Stay == [m \in D |-> m]
           Only(s) == [k \in 1 .. n |-> IF k \in s THEN Step[k] ELSE Stay]
           G(s) == CHOOSE g : Iteration(g, n, D, base, Only(s))
           f == [s \in SUBSET (1 .. n) |-> G(s)[n]]
<1>1. ASSUME NEW s \in SUBSET (1 .. n)
      PROVE  /\ G(s) \in [0 .. n -> D] /\ G(s)[0] = base
             /\ \A k \in 1 .. n : G(s)[k] = IF k \in s THEN Step[k][G(s)[k - 1]] ELSE G(s)[k - 1]
  <2>1. Stay \in [D -> D] /\ \A m \in D : Stay[m] = m
    OBVIOUS
  <2> HIDE DEF Stay
  <2>2. Only(s) \in [1 .. n -> [D -> D]]
    BY <2>1
  <2>3. \A k \in 1 .. n : Only(s)[k] = IF k \in s THEN Step[k] ELSE Stay
    OBVIOUS
  <2> DEFINE O == Only(s)
  <2> HIDE DEF Only
  <2>4. \E g : Iteration(g, n, D, base, O)
    BY <2>2, Iterates DEF O
  <2>5. Iteration(G(s), n, D, base, O)
    BY <2>4
  <2> DEFINE g == G(s)
  <2>6. g \in [0 .. n -> D] /\ g[0] = base /\ \A k \in 1 .. n : g[k] = O[k][g[k - 1]]
    BY <2>5 DEF Iteration
  <2> HIDE DEF g
  <2>7. ASSUME NEW k \in 1 .. n PROVE g[k] = IF k \in s THEN Step[k][g[k - 1]] ELSE g[k - 1]
    <3>1. k - 1 \in 0 .. n /\ g[k - 1] \in D
      BY <2>6
    <3> QED
      BY <2>1, <2>3, <2>6, <3>1
  <2> QED
    BY <2>6, <2>7 DEF g
<1> HIDE DEF Only, G
<1>2. f \in [SUBSET (1 .. n) -> D] /\ \A s \in SUBSET (1 .. n) : f[s] = G(s)[n]
  BY <1>1
<1> HIDE DEF f
<1>3. f[{}] = base
  <2> DEFINE g == G({})
             T == {k \in 0 .. n : g[k] = base}
  <2>1. {} \in SUBSET (1 .. n)
    OBVIOUS
  <2>2. g \in [0 .. n -> D] /\ g[0] = base /\ \A k \in 1 .. n : g[k] = g[k - 1]
    BY <1>1, <2>1
  <2> HIDE DEF g
  <2>3. 0 \in T /\ \A k \in 1 .. n : k - 1 \in T => k \in T
    BY <2>2
  <2>4. \A k \in 0 .. n : k \in T
    <3> HIDE DEF T
    <3> QED
      BY <2>3, Climb
  <2>5. g[n] = base
    BY <2>4
  <2> QED
    BY <1>2, <2>1, <2>5 DEF g
<1>4. ASSUME NEW s \in SUBSET (1 .. n), s # {}
      PROVE  f[s] = Step[Max(s)][f[s \ {Max(s)}]]
  <2> DEFINE m == Max(s)
             t == s \ {m}
             g == G(s)
             h == G(t)
  <2>1. m \in s /\ m \in 1 .. n /\ \A k \in s : m >= k
    <3>1. s \subseteq 0 .. n
      OBVIOUS
    <3> QED
      BY <1>4, <3>1, MaxIs
  <2> HIDE DEF m
  <2>2. t \in SUBSET (1 .. n)
    OBVIOUS
  <2>3. \A k \in 1 .. n : k \in t <=> k \in s /\ k # m
    OBVIOUS
  <2> HIDE DEF t
  <2>4. /\ g \in [0 .. n -> D] /\ g[0] = base
        /\ \A k \in 1 .. n : g[k] = IF k \in s THEN Step[k][g[k - 1]] ELSE g[k - 1]
        /\ h \in [0 .. n -> D] /\ h[0] = base
        /\ \A k \in 1 .. n : h[k] = IF k \in t THEN Step[k][h[k - 1]] ELSE h[k - 1]
    BY <1>1, <2>2
  <2> HIDE DEF g, h
  <2> DEFINE T == {k \in 0 .. n : k < m => g[k] = h[k]}
             U == {k \in 0 .. n : k >= m => g[k] = g[m] /\ h[k] = h[m - 1]}
  <2>5. 0 \in T /\ \A k \in 1 .. n : k - 1 \in T => k \in T
    BY <2>1, <2>3, <2>4
  <2>6. \A k \in 0 .. n : k \in T
    <3> HIDE DEF T
    <3> QED
      BY <2>5, Climb
  <2>7. g[m - 1] = h[m - 1]
    BY <2>1, <2>6
  <2>8. 0 \in U
    BY <2>1
  <2>9. ASSUME NEW k \in 1 .. n, k - 1 \in U PROVE k \in U
    <3>1. CASE k < m
      BY <2>1, <3>1
    <3>2. CASE k = m
      BY <2>1, <2>3, <2>4, <3>2
    <3>3. CASE k > m
      <4>1. k \notin s /\ k \notin t /\ k - 1 >= m
        BY <2>1, <2>3, <3>3
      <4>2. g[k] = g[k - 1] /\ h[k] = h[k - 1]
        BY <2>4, <4>1
      <4>3. g[k - 1] = g[m] /\ h[k - 1] = h[m - 1]
        BY <2>9, <4>1
      <4> QED
        BY <4>2, <4>3
    <3> QED
      BY <2>1, <3>1, <3>2, <3>3
  <2>10. \A k \in 0 .. n : k \in U
    <3> HIDE DEF U
    <3> QED
      BY <2>8, <2>9, Climb
  <2>11. g[n] = g[m] /\ h[n] = h[m - 1]
    BY <2>1, <2>10
  <2>12. g[m] = Step[m][g[m - 1]]
    BY <2>1, <2>4
  <2>13. f[s] = g[n] /\ f[t] = h[n]
    BY <1>2, <2>2 DEF g, h
  <2>14. f[s] = Step[m][f[t]]
    BY <2>7, <2>11, <2>12, <2>13
  <2> QED
    BY <2>14 DEF m, t
<1>5. Folding(f, n, D, base, Step)
  BY <1>2, <1>3, <1>4 DEF Folding
<1> QED
  BY <1>5

(* The recursion by which build accumulates the offsets.                   *)
IsOffsets(y, n, h, gap) ==
    y = [i \in 0 .. n |-> IF i = 0 THEN 0 ELSE y[i - 1] + h[i - 1] + gap]

(* There are such offsets for every list of heights: a shortest list       *)
(* without any would be the extension of one that has them.                *)
LEMMA OffsetsExist ==
    ASSUME NEW n \in Nat, NEW h \in [0 .. n - 1 -> Nat], NEW gap \in Nat
    PROVE  \E y : IsOffsets(y, n, h, gap)
<1> DEFINE Has(k) == \E y : IsOffsets(y, k, h, gap)
           T == {k \in 0 .. n : ~ Has(k)}
<1>1. Has(0)
  <2> DEFINE y == [i \in 0 .. 0 |-> 0]
  <2>1. IsOffsets(y, 0, h, gap)
    BY DEF IsOffsets
  <2> QED
    BY <2>1
<1>2. ASSUME NEW k \in 0 .. n - 1, Has(k) PROVE Has(k + 1)
  <2>1. PICK y : IsOffsets(y, k, h, gap)
    BY <1>2
  <2> DEFINE z == [i \in 0 .. k + 1 |-> IF i = k + 1 THEN y[k] + h[k] + gap ELSE y[i]]
  <2>2. \A i \in 0 .. k : y[i] = IF i = 0 THEN 0 ELSE y[i - 1] + h[i - 1] + gap
    BY <2>1 DEF IsOffsets
  <2>3. \A i \in 0 .. k + 1 : z[i] = IF i = 0 THEN 0 ELSE z[i - 1] + h[i - 1] + gap
    BY <2>2
  <2>4. z = [i \in 0 .. k + 1 |-> IF i = 0 THEN 0 ELSE z[i - 1] + h[i - 1] + gap]
    BY <2>3
  <2> HIDE DEF z
  <2> QED
    BY <2>4 DEF IsOffsets
<1> HIDE DEF Has
<1>3. T = {}
  <2> SUFFICES ASSUME T # {} PROVE FALSE
    OBVIOUS
  <2>1. PICK k \in T : \A j \in T : k <= j
    <3>1. T \subseteq Nat
      OBVIOUS
    <3> HIDE DEF T
    <3> QED
      BY <3>1, NatLeast
  <2>2. k \in 1 .. n /\ k - 1 \notin T
    BY <1>1, <2>1
  <2>3. Has(k - 1)
    BY <2>2
  <2>4. Has((k - 1) + 1)
    BY <1>2, <2>2, <2>3
  <2> QED
    BY <2>1, <2>2, <2>4
<1>4. Has(n)
  BY <1>3
<1> QED
  BY <1>4 DEF Has

(* What build makes of natural heights and a natural gap.                  *)
LEMMA BuildOffsets ==
    ASSUME NEW n \in Nat, NEW h \in [0 .. n - 1 -> Nat], NEW gap \in Nat
    PROVE  \E y, t :
             /\ Build(h, gap) = [n |-> n, h |-> h, gap |-> gap, y |-> y, total |-> t]
             /\ t \in Nat /\ y \in [0 .. n - 1 -> Nat]
             /\ \A i \in 1 .. n - 1 : y[i] = y[i - 1] + h[i - 1] + gap
<1> DEFINE c == Cardinality(DOMAIN h)
           y[i \in 0 .. c] == IF i = 0 THEN 0 ELSE y[i - 1] + h[i - 1] + gap
<1>1. c = n
  <2>1. DOMAIN h = 0 .. n - 1
    OBVIOUS
  <2> QED
    BY <2>1, FS_Interval
<1>2. IsOffsets(y, c, h, gap)
  <2>1. \E z : IsOffsets(z, c, h, gap)
    <3> HIDE DEF c
    <3> QED
      BY <1>1, OffsetsExist
  <2> QED
    BY <2>1 DEF IsOffsets
<1>3. Build(h, gap) =
        [n |-> c, h |-> h, gap |-> gap, y |-> [i \in 0 .. c - 1 |-> y[i]],
         total |-> IF c = 0 THEN 0 ELSE Greater(y[c] - gap, 0)]
  BY DEF Build
<1> HIDE DEF y, c
<1>4. \A i \in 0 .. n : y[i] = IF i = 0 THEN 0 ELSE y[i - 1] + h[i - 1] + gap
  BY <1>1, <1>2 DEF IsOffsets
<1> DEFINE T == {i \in 0 .. n : y[i] \notin Nat}
<1>5. T = {}
  <2> SUFFICES ASSUME T # {} PROVE FALSE
    OBVIOUS
  <2>1. T \subseteq Nat /\ \A i \in 0 .. n : i \in T <=> y[i] \notin Nat
    OBVIOUS
  <2>2. PICK k \in T : \A j \in T : k <= j
    <3> HIDE DEF T
    <3> QED
      BY <2>1, NatLeast
  <2>3. k # 0
    BY <1>4, <2>2
  <2>4. k \in 1 .. n /\ k - 1 \in 0 .. n /\ k - 1 \in 0 .. n - 1
    BY <2>2, <2>3
  <2>5. y[k - 1] \in Nat /\ h[k - 1] \in Nat
    BY <2>1, <2>2, <2>4
  <2>6. y[k] = y[k - 1] + h[k - 1] + gap
    BY <1>4, <2>3, <2>4
  <2> QED
    BY <2>2, <2>5, <2>6
<1>6. \A i \in 0 .. n : y[i] \in Nat
  BY <1>5
<1> DEFINE t == IF n = 0 THEN 0 ELSE Greater(y[n] - gap, 0)
           off == [i \in 0 .. n - 1 |-> y[i]]
<1>7. t \in Nat
  BY <1>6 DEF Greater
<1>8. off \in [0 .. n - 1 -> Nat] /\ \A i \in 1 .. n - 1 : off[i] = off[i - 1] + h[i - 1] + gap
  BY <1>4, <1>6, SMTT(30)
<1>9. Build(h, gap) = [n |-> n, h |-> h, gap |-> gap, y |-> off, total |-> t]
  BY <1>1, <1>3
<1> HIDE DEF t, off
<1> QED
  BY <1>7, <1>8, <1>9

-----------------------------------------------------------------------------
(* The order in which transmits are put off, and how many are.             *)

LEMMA CloserIsLinear ==
    ASSUME NEW C, C \subseteq Int, NEW current \in Int
    PROVE  LinearOn(C, {pair \in C \X C : Closer(pair[1], pair[2], current)})
<1> DEFINE R == {pair \in C \X C : Closer(pair[1], pair[2], current)}
<1>1. \A p \in C : Distance(p, current) \in Int
  BY DEF Distance
<1>2. \A p, q \in C : <<p, q>> \in R <=> Closer(p, q, current)
  OBVIOUS
<1>3. \A p \in C : ~ Closer(p, p, current)
  BY <1>1 DEF Closer
<1>4. \A p, q \in C : p # q => Closer(p, q, current) \/ Closer(q, p, current)
  <2> TAKE p, q \in C
  <2>1. p \in Int /\ q \in Int
    OBVIOUS
  <2> QED
    BY <1>1, <2>1 DEF Closer
<1>5. \A p, q, r \in C : Closer(p, q, current) /\ Closer(q, r, current) => Closer(p, r, current)
  <2> TAKE p, q, r \in C
  <2>1. p \in Int /\ q \in Int /\ r \in Int
    OBVIOUS
  <2> QED
    BY <1>1, <2>1 DEF Closer
<1> HIDE DEF R
<1> QED
  BY <1>2, <1>3, <1>4, <1>5 DEF LinearOn, R

(* The pages that may wait fall behind in the order of their distance as   *)
(* far as the budget is used up by the pages before them.                  *)
LEMMA DeferralsAre ==
    ASSUME NEW need, need \subseteq Int, IsFiniteSet(need), NEW prior, NEW current \in Int
    PROVE  LET put == TransmitDeferrals(need, prior, current)
               undeferrable == Cardinality(need \ prior)
           IN  /\ put \subseteq need \cap prior
               /\ Cardinality(need \ put) = IF undeferrable > MaxTransmits THEN undeferrable
                                            ELSE Lesser(Cardinality(need), MaxTransmits)
               /\ \A p \in put, s \in (need \cap prior) \ put :
                     Distance(s, current) <= Distance(p, current)
<1> DEFINE put == TransmitDeferrals(need, prior, current)
           C == need \cap prior
           others == Cardinality(need \ prior)
           keep == IF others < MaxTransmits THEN MaxTransmits - others ELSE 0
           R == {pair \in C \X C : Closer(pair[1], pair[2], current)}
           n == Cardinality(need)
           c == Cardinality(C)
<1>1. /\ IsFiniteSet(C) /\ IsFiniteSet(need \ prior)
      /\ n \in Nat /\ c \in Nat /\ others \in Nat /\ n = c + others
  <2>1. IsFiniteSet(C) /\ IsFiniteSet(need \ prior)
    BY FS_Subset, FS_Difference
  <2>2. need = C \cup (need \ prior) /\ C \cap (need \ prior) = {}
    OBVIOUS
  <2>3. n = c + others - Cardinality({})
    BY <2>1, <2>2, FS_Union
  <2>4. n \in Nat /\ c \in Nat /\ others \in Nat
    BY <2>1, FS_CardinalityType
  <2> QED
    BY <2>1, <2>3, <2>4, FS_EmptySet
<1>2. LinearOn(C, R)
  BY CloserIsLinear
<1>3. \A p \in C : RankIn(C, R, p) = Cardinality({q \in C : Closer(q, p, current)})
  <2> TAKE p \in C
  <2>1. {q \in C : <<q, p>> \in R} = {q \in C : Closer(q, p, current)}
    OBVIOUS
  <2> HIDE DEF C, R
  <2> QED
    BY <2>1 DEF RankIn
<1>4. put = IF n <= MaxTransmits THEN {} ELSE {p \in C : RankIn(C, R, p) >= keep}
  <2> HIDE DEF R
  <2> QED
    BY <1>3 DEF TransmitDeferrals
<1>5. put \subseteq C
  <2> HIDE DEF C
  <2> QED
    BY <1>4
<1> HIDE DEF put, C, R, others, n, c
<1>6. keep \in Nat /\ MaxTransmits = 2
  BY <1>1 DEF MaxTransmits
<1>7. IsFiniteSet(put) /\ Cardinality(put) = IF n <= 2 THEN 0 ELSE IF others > 2 THEN c ELSE n - 2
  <2>1. CASE n <= 2
    BY <1>4, <1>6, <2>1, FS_EmptySet
  <2>2. CASE n > 2
    <3>1. keep \in 0 .. c /\ c - keep = IF others > 2 THEN c ELSE n - 2
      BY <1>1, <1>6, <2>2
    <3>2. put = {p \in C : RankIn(C, R, p) >= keep}
      BY <1>1, <1>4, <1>6, <2>2
    <3> HIDE DEF keep
    <3>3. IsFiniteSet(put) /\ Cardinality(put) = c - keep
      BY <1>1, <1>2, <3>1, <3>2, RankedFrom DEF c
    <3> QED
      BY <1>1, <2>2, <3>1, <3>3
  <2> QED
    BY <1>1, <2>1, <2>2
<1>8. Cardinality(need \ put) = n - Cardinality(put)
  <2>1. need \cap put = put
    BY <1>5 DEF C
  <2> QED
    BY <2>1, FS_Difference, ZenonT(30) DEF n
<1>9. Cardinality(need \ put) = IF others > 2 THEN others ELSE Lesser(n, 2)
  BY <1>1, <1>7, <1>8 DEF Lesser
<1>10. \A p \in put, s \in C \ put : Distance(s, current) <= Distance(p, current)
  <2> SUFFICES ASSUME NEW p \in put, NEW s \in C \ put, ~ (Distance(s, current) <= Distance(p, current))
               PROVE  FALSE
    OBVIOUS
  <2>1. p \in C /\ s \in C /\ p \in Int /\ s \in Int
    BY <1>5 DEF C
  <2>2. <<p, s>> \in R
    BY <2>1 DEF R, Closer, Distance
  <2>3. RankIn(C, R, p) < RankIn(C, R, s)
    BY <1>1, <1>2, <2>1, <2>2, Ranked
  <2>4. RankIn(C, R, p) >= keep /\ ~ (RankIn(C, R, s) >= keep)
    BY <1>4, <2>1
  <2>5. RankIn(C, R, p) \in Int /\ RankIn(C, R, s) \in Int
    <3>1. IsFiniteSet({q \in C : <<q, p>> \in R}) /\ IsFiniteSet({q \in C : <<q, s>> \in R})
      BY <1>1, FS_Subset
    <3> QED
      BY <3>1, FS_CardinalityType DEF RankIn
  <2> HIDE DEF keep
  <2> QED
    BY <1>6, <2>3, <2>4, <2>5
<1> QED
  BY <1>5, <1>6, <1>9, <1>10 DEF put, C, others, n

=============================================================================
