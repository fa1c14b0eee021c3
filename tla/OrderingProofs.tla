--------------------------- MODULE OrderingProofs ---------------------------
(***************************************************************************)
(* Machine-checked lemmas about finite sets of numbers that the proofs     *)
(* about the stored tables share: the largest and the smallest element,    *)
(* and what InOrder returns.                                               *)
(***************************************************************************)
EXTENDS Ordering, FiniteSetsExt, FiniteSetTheorems, WellFoundedInduction, TLAPS

\* Every nonempty set of natural numbers has a least element.
LEMMA LeastNumber ==
  ASSUME NEW S, S \subseteq Nat, S # {}
  PROVE  \E x \in S : \A y \in S : x <= y
<1>1. PICK R : R = OpToRel(<, Nat) OBVIOUS
<1>2. IsWellFoundedOn(R, Nat) BY <1>1, NatLessThanWellFounded
<1>3. R = {ss \in Nat \X Nat : ss[1] < ss[2]} BY <1>1 DEF OpToRel
<1>4. \A x, y \in Nat : y < x => <<y, x>> \in R BY <1>3
<1>5. PICK x \in S : \A y \in S : ~ (<<y, x>> \in R) BY <1>2, WFMin
<1>6. \A y \in S : ~(y < x) BY <1>4, <1>5
<1>7. \A y \in S : x <= y BY <1>6
<1> QED BY <1>7

\* Every nonempty set of natural numbers with a bound has a greatest element.
LEMMA GreatestNumber ==
  ASSUME NEW S, S \subseteq Nat, S # {}, NEW n \in Nat, \A x \in S : x <= n
  PROVE  \E x \in S : \A y \in S : x >= y
<1> DEFINE D == {n - x : x \in S}
<1>1. D \subseteq Nat /\ D # {}
  <2>1. \A x \in S : x \in Nat /\ x <= n OBVIOUS
  <2>2. \A x \in S : n - x \in Nat BY <2>1
  <2> QED BY <2>2
<1>2. PICK d \in D : \A e \in D : d <= e BY <1>1, LeastNumber
<1>3. PICK x \in S : d = n - x OBVIOUS
<1>4. ASSUME NEW y \in S PROVE x >= y
  <2>1. n - y \in D OBVIOUS
  <2>2. n - x <= n - y BY <1>2, <1>3, <2>1
  <2> QED BY <2>2
<1> QED BY <1>4

\* Min of a nonempty set of numbers is its least element.
LEMMA MinIsLeast ==
  ASSUME NEW S, S \subseteq Nat, S # {}
  PROVE  Min(S) \in S /\ \A y \in S : Min(S) <= y
BY LeastNumber DEF Min

\* Max of a nonempty set of numbers with a bound is its greatest element.
LEMMA MaxIsGreatest ==
  ASSUME NEW S, S \subseteq Nat, S # {}, NEW n \in Nat, \A x \in S : x <= n
  PROVE  Max(S) \in S /\ \A y \in S : Max(S) >= y
BY GreatestNumber DEF Max

\* The same for the elements of a finite set that is given with its bound.
LEMMA MaxOfInterval ==
  ASSUME NEW n \in Nat, NEW S, S \subseteq 0 .. n, S # {}
  PROVE  Max(S) \in S /\ \A y \in S : Max(S) >= y
<1>1. S \subseteq Nat /\ \A x \in S : x <= n OBVIOUS
<1> QED BY <1>1, MaxIsGreatest

\* A sequence of different elements of a finite set is no longer than the set.
LEMMA DistinctAreFew ==
  ASSUME NEW n \in Nat, NEW N \in Nat, NEW f \in [1 .. n -> 1 .. N],
         \A i, j \in 1 .. n : f[i] = f[j] => i = j
  PROVE  n <= N
<1>1. f \in Injection(1 .. n, 1 .. N) BY DEF Injection, IsInjective
<1>2. IsFiniteSet(1 .. N) /\ Cardinality(1 .. N) = N /\ Cardinality(1 .. n) = n
  BY FS_Interval
<1> QED BY <1>1, <1>2, FS_Injection

-----------------------------------------------------------------------------
(* Ranks and InOrder.                                                      *)

\* The rank of an element counts the element, at most the whole set, and grows.
LEMMA RankGrows ==
  ASSUME NEW S, S \subseteq Int, IsFiniteSet(S), NEW x \in S
  PROVE  /\ Rank(S, x) \in 1 .. Cardinality(S)
         /\ \A y \in S : x < y => Rank(S, x) < Rank(S, y)
<1> DEFINE Low(z) == {y \in S : y <= z}
<1>1. \A z \in S : /\ IsFiniteSet(Low(z)) /\ Cardinality(Low(z)) \in Nat
                   /\ Cardinality(Low(z)) <= Cardinality(S)
                   /\ Cardinality(Low(z)) = Cardinality(Low(z) \ {z}) + 1
                   /\ IsFiniteSet(Low(z) \ {z}) /\ Cardinality(Low(z) \ {z}) \in Nat
  <2> SUFFICES ASSUME NEW z \in S
               PROVE  /\ IsFiniteSet(Low(z)) /\ Cardinality(Low(z)) \in Nat
                      /\ Cardinality(Low(z)) <= Cardinality(S)
                      /\ Cardinality(Low(z)) = Cardinality(Low(z) \ {z}) + 1
                      /\ IsFiniteSet(Low(z) \ {z}) /\ Cardinality(Low(z) \ {z}) \in Nat
    OBVIOUS
  <2>1. Low(z) \in SUBSET S /\ z \in Low(z) OBVIOUS
  <2>2. /\ IsFiniteSet(Low(z)) /\ Cardinality(Low(z)) <= Cardinality(S)
        /\ Cardinality(Low(z)) \in Nat
    BY <2>1, FS_Subset, FS_CardinalityType
  <2>3. /\ IsFiniteSet(Low(z) \ {z}) /\ Cardinality(Low(z) \ {z}) = Cardinality(Low(z)) - 1
        /\ Cardinality(Low(z) \ {z}) \in Nat
    BY <2>1, <2>2, FS_RemoveElement, FS_CardinalityType
  <2> QED BY <2>2, <2>3
<1>2. Cardinality(S) \in Nat BY FS_CardinalityType
<1>3. ASSUME NEW y \in S, x < y PROVE Cardinality(Low(x)) < Cardinality(Low(y))
  <2>0. \A z \in S : z \in Int OBVIOUS
  <2>1. \A z \in Low(x) : z \in S /\ z <= y /\ z # y
    <3> SUFFICES ASSUME NEW z \in S, z <= x PROVE z <= y /\ z # y
      OBVIOUS
    <3>1. x \in Int /\ y \in Int /\ z \in Int BY <2>0
    <3> QED BY <1>3, <3>1
  <2>4. Low(x) \in SUBSET (Low(y) \ {y}) BY <2>1
  <2>2. Cardinality(Low(x)) <= Cardinality(Low(y) \ {y}) BY <1>1, <2>4, FS_Subset
  <2>3. /\ Cardinality(Low(y)) = Cardinality(Low(y) \ {y}) + 1
        /\ Cardinality(Low(y) \ {y}) \in Nat /\ Cardinality(Low(x)) \in Nat
    BY <1>1
  <2> HIDE DEF Low
  <2> QED BY <2>2, <2>3
<1>4. /\ Cardinality(Low(x)) \in Nat /\ Cardinality(Low(x)) <= Cardinality(S)
      /\ Cardinality(Low(x) \ {x}) \in Nat
      /\ Cardinality(Low(x)) = Cardinality(Low(x) \ {x}) + 1
  BY <1>1
<1>5. \A z : Rank(S, z) = Cardinality(Low(z)) BY DEF Rank
<1> HIDE DEF Low
<1>6. Rank(S, x) \in 1 .. Cardinality(S) BY <1>2, <1>4, <1>5
<1> QED BY <1>3, <1>5, <1>6

\* Every rank from 1 to the size of the set is taken.
LEMMA RanksAreTaken ==
  ASSUME NEW S, S \subseteq Int, IsFiniteSet(S), NEW n \in 1 .. Cardinality(S)
  PROVE  \E x \in S : Rank(S, x) = n
<1> DEFINE f == [x \in S |-> Rank(S, x)]
<1>1. f \in [S -> 1 .. Cardinality(S)] BY RankGrows
<1>2. \A x, y \in S : f[x] = f[y] => x = y
  <2> SUFFICES ASSUME NEW x \in S, NEW y \in S, x # y PROVE Rank(S, x) # Rank(S, y)
    OBVIOUS
  <2>1. x \in Int /\ y \in Int /\ (x < y \/ y < x) OBVIOUS
  <2>2. /\ Rank(S, x) \in 1 .. Cardinality(S) /\ Rank(S, y) \in 1 .. Cardinality(S)
        /\ (x < y => Rank(S, x) < Rank(S, y)) /\ (y < x => Rank(S, y) < Rank(S, x))
    BY RankGrows
  <2> QED BY <2>1, <2>2, FS_CardinalityType
<1>3. f \in Injection(S, 1 .. Cardinality(S)) BY <1>1, <1>2 DEF Injection, IsInjective
<1>4. Cardinality(S) \in Nat BY FS_CardinalityType
<1>5. IsFiniteSet(1 .. Cardinality(S)) /\ Cardinality(1 .. Cardinality(S)) = Cardinality(S)
  BY <1>4, FS_Interval
<1>6. f \in Surjection(S, 1 .. Cardinality(S)) BY <1>3, <1>5, FS_Injection
<1>7. PICK x \in S : f[x] = n BY <1>6 DEF Surjection
<1> QED BY <1>7

\* InOrder returns every element of the set, each once, in growing order.
LEMMA InOrderProperties ==
  ASSUME NEW S, S \subseteq Int, IsFiniteSet(S)
  PROVE  /\ Cardinality(S) \in Nat
         /\ InOrder(S) \in [1 .. Cardinality(S) -> S]
         /\ \A n \in 1 .. Cardinality(S) : Rank(S, InOrder(S)[n]) = n
         /\ \A i, j \in 1 .. Cardinality(S) : i < j => InOrder(S)[i] < InOrder(S)[j]
         /\ \A x \in S : InOrder(S)[Rank(S, x)] = x
<1>1. Cardinality(S) \in Nat BY FS_CardinalityType
<1>2. \A n \in 1 .. Cardinality(S) : InOrder(S)[n] \in S /\ Rank(S, InOrder(S)[n]) = n
  BY RanksAreTaken DEF InOrder
<1>3. InOrder(S) \in [1 .. Cardinality(S) -> S] BY <1>2 DEF InOrder
<1>4. \A x, y \in S : Rank(S, x) < Rank(S, y) => x < y
  <2> SUFFICES ASSUME NEW x \in S, NEW y \in S, ~(x < y) PROVE ~(Rank(S, x) < Rank(S, y))
    OBVIOUS
  <2>1. x \in Int /\ y \in Int /\ (y < x \/ x = y) OBVIOUS
  <2>2. /\ Rank(S, x) \in 1 .. Cardinality(S) /\ Rank(S, y) \in 1 .. Cardinality(S)
        /\ (y < x => Rank(S, y) < Rank(S, x))
    BY RankGrows
  <2>3. Rank(S, x) \in Int /\ Rank(S, y) \in Int BY <1>1, <2>2
  <2> QED BY <2>1, <2>2, <2>3
<1>5. \A i, j \in 1 .. Cardinality(S) : i < j => InOrder(S)[i] < InOrder(S)[j]
  <2> SUFFICES ASSUME NEW i \in 1 .. Cardinality(S), NEW j \in 1 .. Cardinality(S), i < j
               PROVE  InOrder(S)[i] < InOrder(S)[j]
    OBVIOUS
  <2>1. /\ InOrder(S)[i] \in S /\ Rank(S, InOrder(S)[i]) = i
        /\ InOrder(S)[j] \in S /\ Rank(S, InOrder(S)[j]) = j
    BY <1>2
  <2> QED BY <1>4, <2>1
<1>6. ASSUME NEW x \in S PROVE InOrder(S)[Rank(S, x)] = x
  <2>1. Rank(S, x) \in 1 .. Cardinality(S) BY RankGrows
  <2> DEFINE y == InOrder(S)[Rank(S, x)]
  <2>2. y \in S /\ Rank(S, y) = Rank(S, x) BY <1>2, <2>1
  <2>3. Rank(S, y) \in Int /\ (x < y => Rank(S, x) < Rank(S, y))
        /\ (y < x => Rank(S, y) < Rank(S, x))
    <3>1. Rank(S, y) \in Int BY <1>1, <2>1, <2>2
    <3>2. x < y => Rank(S, x) < Rank(S, y) BY <2>2, RankGrows
    <3>3. \A z \in S : y < z => Rank(S, y) < Rank(S, z) BY <2>2, RankGrows
    <3> HIDE DEF y
    <3> QED BY <3>1, <3>2, <3>3
  <2>4. ~(x < y) /\ ~(y < x) BY <2>2, <2>3
  <2>5. x \in Int /\ y \in Int BY <2>2
  <2> HIDE DEF y
  <2>6. x = y BY <2>4, <2>5
  <2> QED BY <2>6 DEF y
<1> QED BY <1>1, <1>2, <1>3, <1>5, <1>6
=============================================================================
