-------------------------- MODULE FiniteInduction ---------------------------
(***************************************************************************)
(* Induction over natural numbers and over finite sets in a form that      *)
(* first-order provers can use: what is shown by induction is a set of     *)
(* numbers or of sets, not a predicate.  All of it rests on the least      *)
(* element of a set of naturals, which well-foundedness of < gives.        *)
(* On top of it: the newest of finitely many numbers, and the sums that    *)
(* MapThenSumSet of the community modules computes.                        *)
(***************************************************************************)
EXTENDS Integers, FiniteSets, FiniteSetTheorems, WellFoundedInduction, TLAPS

\* Every nonempty set of natural numbers has a least element.
LEMMA LeastNatural ==
  ASSUME NEW T \in SUBSET Nat, T # {}
  PROVE  \E x \in T : \A y \in T : x <= y
<1>1. PICK R : R = OpToRel(<, Nat) BY Zenon
<1>2. IsWellFoundedOn(R, Nat) BY <1>1, NatLessThanWellFounded, Zenon
<1>3. R = {ss \in Nat \X Nat : ss[1] < ss[2]} BY <1>1, Zenon DEF OpToRel
<1>4. \A x, y \in Nat : y < x => <<y, x>> \in R BY <1>3
<1>5. PICK x \in T : \A y \in T : ~ (<<y, x>> \in R) BY <1>2, WFMin
<1>6. ASSUME NEW y \in T PROVE x <= y
  <2>1. x \in Nat /\ y \in Nat OBVIOUS
  <2>2. ~(y < x) BY <1>4, <1>5, <2>1
  <2>. QED BY <2>1, <2>2
<1>. QED BY <1>6

\* Induction over the natural numbers.
LEMMA NatInduces ==
  ASSUME NEW G, 0 \in G, \A n \in Nat : n \in G => n + 1 \in G
  PROVE  \A n \in Nat : n \in G
<1>. SUFFICES ASSUME NEW k \in Nat, k \notin G PROVE FALSE OBVIOUS
<1>1. PICK x \in Nat \ G : \A y \in Nat \ G : x <= y
  BY LeastNatural, Nat \ G \in SUBSET Nat, k \in Nat \ G
<1>2. x # 0 /\ x - 1 \in Nat BY <1>1
<1>3. x - 1 \in G BY <1>1, <1>2
<1>. QED BY <1>1, <1>2, <1>3

\* Induction over the subsets of a finite set.
LEMMA SubsetInduces ==
  ASSUME NEW S, IsFiniteSet(S), NEW G, {} \in G,
         \A s \in SUBSET S : s # {} /\ (\A x \in s : s \ {x} \in G) => s \in G
  PROVE  \A s \in SUBSET S : s \in G
<1>. DEFINE sized(n) == {s \in SUBSET S : Cardinality(s) = n}
            N == {n \in Nat : \A s \in sized(n) : s \in G}
<1>0. \A s \in SUBSET S : IsFiniteSet(s) /\ Cardinality(s) \in Nat
  BY FS_Subset, FS_CardinalityType
<1>1. 0 \in N BY <1>0, FS_EmptySet
<1>2. ASSUME NEW n \in Nat, n \in N PROVE n + 1 \in N
  <2>1. ASSUME NEW s \in sized(n + 1) PROVE s \in G
    <3>1. s # {} BY <1>0, FS_EmptySet
    <3>2. ASSUME NEW x \in s PROVE s \ {x} \in G
      <4>1. Cardinality(s \ {x}) = n BY <1>0, FS_RemoveElement
      <4>. QED BY <1>2, <4>1
    <3>. QED BY <3>1, <3>2
  <2>. QED BY <2>1
<1>3. \A n \in Nat : n \in N
  <2>. HIDE DEF N
  <2>. QED BY <1>1, <1>2, NatInduces
<1>. QED BY <1>0, <1>3

\* Finitely many numbers have a largest one.
LEMMA LargestOf ==
  ASSUME NEW S, IsFiniteSet(S), S \subseteq Nat, S # {}
  PROVE  \E x \in S : \A y \in S : y <= x
<1>. DEFINE G == {s \in SUBSET S : s # {} => \E x \in s : \A y \in s : y <= x}
<1>1. {} \in G OBVIOUS
<1>2. ASSUME NEW s \in SUBSET S, s # {}, \A x \in s : s \ {x} \in G PROVE s \in G
  <2>1. PICK x \in s : TRUE BY <1>2
  <2>2. CASE s \ {x} = {} BY <2>1, <2>2
  <2>3. CASE s \ {x} # {}
    <3>1. PICK z \in s \ {x} : \A y \in s \ {x} : y <= z BY <1>2, <2>3
    <3>2. x \in Nat /\ z \in Nat /\ \A y \in s : y \in Nat OBVIOUS
    <3>3. CASE x <= z BY <3>1, <3>2, <3>3
    <3>4. CASE z <= x
      <4>1. \A y \in s : y <= x BY <3>1, <3>2, <3>4
      <4>. QED BY <4>1
    <3>. QED BY <3>2, <3>3, <3>4
  <2>. QED BY <2>2, <2>3
<1>3. \A s \in SUBSET S : s \in G
  <2>. HIDE DEF G
  <2>. QED BY <1>1, <1>2, SubsetInduces
<1>. QED BY <1>3

-----------------------------------------------------------------------------
(* Sums over a finite set, taken an element at a time.                      *)

Any(s) == CHOOSE x \in s : TRUE
PartSum(f, w, s) == IF s = {} THEN 0 ELSE w[Any(s)] + f[s \ {Any(s)}]

\* What MapThenSumSet computes of the weights w: f[s] is the sum over s.
IsSum(f, w, S) == f = [s \in SUBSET S |-> PartSum(f, w, s)]

LEMMA SumUnfolds ==
  ASSUME NEW f, NEW w, NEW S, IsSum(f, w, S)
  PROVE  \A s \in SUBSET S : f[s] = PartSum(f, w, s)
BY Zenon DEF IsSum

LEMMA AnyIsOne == \A s : s # {} => Any(s) \in s
BY DEF Any

\* The recursion defines a function, with natural numbers as values.
LEMMA SumExists ==
  ASSUME NEW S, IsFiniteSet(S), NEW w, \A x \in S : w[x] \in Nat
  PROVE  \E f \in [SUBSET S -> Nat] : IsSum(f, w, S)
<1>. DEFINE upto(n) == {s \in SUBSET S : Cardinality(s) <= n}
            has(n) == \E f \in [upto(n) -> Nat] : \A s \in upto(n) : f[s] = PartSum(f, w, s)
            N == {n \in Nat : has(n)}
<1>0. \A s \in SUBSET S : IsFiniteSet(s) /\ Cardinality(s) \in Nat
  BY FS_Subset, FS_CardinalityType
<1>1. 0 \in N
  <2>1. \A s \in upto(0) : s = {} BY <1>0, FS_EmptySet
  <2>2. PICK f : f = [s \in upto(0) |-> 0] OBVIOUS
  <2>3. f \in [upto(0) -> Nat] BY <2>2
  <2>4. \A s \in upto(0) : f[s] = PartSum(f, w, s) BY <2>1, <2>2 DEF PartSum
  <2>. QED BY <2>3, <2>4
<1>2. ASSUME NEW n \in Nat, n \in N PROVE n + 1 \in N
  <2>1. PICK f \in [upto(n) -> Nat] : \A s \in upto(n) : f[s] = PartSum(f, w, s) BY <1>2
  <2>2. PICK g : g = [s \in upto(n + 1) |-> PartSum(f, w, s)] OBVIOUS
  <2>3. ASSUME NEW s \in upto(n + 1), s # {}
        PROVE  s \ {Any(s)} \in upto(n) /\ Any(s) \in S
    <3>1. Any(s) \in s BY <2>3, AnyIsOne
    <3>2. Cardinality(s \ {Any(s)}) = Cardinality(s) - 1 BY <1>0, <3>1, FS_RemoveElement
    <3>. QED BY <1>0, <3>1, <3>2
  <2>4. \A s \in upto(n) : s \in upto(n + 1) /\ g[s] = f[s] BY <1>0, <2>1, <2>2
  <2>5. ASSUME NEW s \in upto(n + 1) PROVE g[s] \in Nat /\ g[s] = PartSum(g, w, s)
    <3>1. g[s] = PartSum(f, w, s) BY <2>2
    <3>2. CASE s = {} BY <3>1, <3>2 DEF PartSum
    <3>3. CASE s # {}
      <4>1. s \ {Any(s)} \in upto(n) /\ Any(s) \in S BY <2>3, <3>3
      <4>2. f[s \ {Any(s)}] \in Nat /\ w[Any(s)] \in Nat BY <2>1, <4>1
      <4>3. g[s \ {Any(s)}] = f[s \ {Any(s)}] BY <2>4, <4>1
      <4>. QED BY <3>1, <3>3, <4>2, <4>3 DEF PartSum
    <3>. QED BY <3>2, <3>3
  <2>6. g \in [upto(n + 1) -> Nat] BY <2>2, <2>5
  <2>7. has(n + 1)
    <3>. HIDE DEF upto
    <3>. QED BY <2>5, <2>6, Zenon
  <2>8. n + 1 \in Nat OBVIOUS
  <2>. HIDE DEF has
  <2>. QED BY <2>7, <2>8
<1>3. \A n \in Nat : n \in N
  <2>. HIDE DEF N
  <2>. QED BY <1>1, <1>2, NatInduces
<1>4. upto(Cardinality(S)) = SUBSET S /\ Cardinality(S) \in Nat BY <1>0, FS_Subset
<1>5. PICK f \in [SUBSET S -> Nat] : \A s \in SUBSET S : f[s] = PartSum(f, w, s) BY <1>3, <1>4
<1>6. f = [s \in SUBSET S |-> PartSum(f, w, s)] BY <1>5
<1>. QED BY <1>6 DEF IsSum

LEMMA SumIsNat ==
  ASSUME NEW S, IsFiniteSet(S), NEW w, \A x \in S : w[x] \in Nat, NEW f, IsSum(f, w, S)
  PROVE  \A s \in SUBSET S : f[s] \in Nat
<1>. DEFINE G == {s \in SUBSET S : f[s] \in Nat}
<1>0. \A s \in SUBSET S : f[s] = PartSum(f, w, s) BY SumUnfolds
<1>1. {} \in G
  <2>1. f[{}] = 0 BY <1>0 DEF PartSum
  <2>. QED BY <2>1
<1>2. ASSUME NEW s \in SUBSET S, s # {}, \A x \in s : s \ {x} \in G PROVE s \in G
  <2>1. Any(s) \in s BY <1>2, AnyIsOne
  <2>2. f[s \ {Any(s)}] \in Nat /\ w[Any(s)] \in Nat BY <1>2, <2>1
  <2>3. f[s] = w[Any(s)] + f[s \ {Any(s)}] BY <1>0, <1>2 DEF PartSum
  <2>4. f[s] \in Nat BY <2>2, <2>3
  <2>. QED BY <2>4
<1>3. \A s \in SUBSET S : s \in G
  <2>. HIDE DEF G
  <2>. QED BY <1>1, <1>2, SubsetInduces
<1>. QED BY <1>3

SplitsAnywhere(f, w, S) == \A s \in SUBSET S : \A c \in s : f[s] = w[c] + f[s \ {c}]

\* The sum does not depend on the order: any element may be taken first.
LEMMA SumTakesAny ==
  ASSUME NEW S, IsFiniteSet(S), NEW w, \A x \in S : w[x] \in Nat, NEW f, IsSum(f, w, S)
  PROVE  SplitsAnywhere(f, w, S)
<1>. DEFINE G == {s \in SUBSET S : \A c \in s : f[s] = w[c] + f[s \ {c}]}
<1>0. \A s \in SUBSET S : f[s] = PartSum(f, w, s) /\ f[s] \in Nat BY SumIsNat, SumUnfolds
<1>1. {} \in G OBVIOUS
<1>2. ASSUME NEW s \in SUBSET S, s # {}, \A x \in s : s \ {x} \in G PROVE s \in G
  <2>1. PICK x \in s : x = Any(s) BY <1>2, AnyIsOne
  <2>2. f[s] = w[x] + f[s \ {x}] BY <1>0, <1>2, <2>1 DEF PartSum
  <2>3. ASSUME NEW c \in s PROVE f[s] = w[c] + f[s \ {c}]
    <3>1. CASE c = x BY <2>2, <3>1
    <3>2. CASE c # x
      <4>1. (s \ {x}) \ {c} = (s \ {c}) \ {x} OBVIOUS
      <4>2. f[s \ {x}] = w[c] + f[(s \ {x}) \ {c}] BY <1>2, <3>2
      <4>3. f[s \ {c}] = w[x] + f[(s \ {c}) \ {x}] BY <1>2, <3>2
      <4>4. w[c] \in Nat /\ w[x] \in Nat /\ f[(s \ {x}) \ {c}] \in Nat BY <1>0
      <4>5. PICK k : k = f[(s \ {x}) \ {c}] OBVIOUS
      <4>6. f[s] = w[x] + (w[c] + k) /\ f[s \ {c}] = w[x] + k BY <2>2, <4>1, <4>2, <4>3, <4>5
      <4>. QED BY <4>4, <4>5, <4>6
    <3>. QED BY <3>1, <3>2
  <2>. QED BY <2>3
<1>3. \A s \in SUBSET S : s \in G
  <2>. HIDE DEF G
  <2>. QED BY <1>1, <1>2, SubsetInduces
<1>. QED BY <1>3 DEF SplitsAnywhere

\* More elements with larger weights have a larger sum.
LEMMA SumIsMonotone ==
  ASSUME NEW S, IsFiniteSet(S), NEW T \in SUBSET S, NEW v, NEW w,
         \A x \in T : v[x] \in Nat /\ v[x] <= w[x], \A x \in S : w[x] \in Nat,
         NEW f, IsSum(f, v, T), NEW g, IsSum(g, w, S)
  PROVE  f[T] <= g[S]
<1>. DEFINE G == {s \in SUBSET S : f[s \cap T] <= g[s]}
<1>0. IsFiniteSet(T) BY FS_Subset
<1>1. /\ \A s \in SUBSET T : f[s] \in Nat /\ f[s] = PartSum(f, v, s)
      /\ \A s \in SUBSET S : g[s] \in Nat /\ g[s] = PartSum(g, w, s)
  <2>1. \A s \in SUBSET T : f[s] \in Nat /\ f[s] = PartSum(f, v, s) BY <1>0, SumIsNat, SumUnfolds
  <2>2. \A s \in SUBSET S : g[s] \in Nat /\ g[s] = PartSum(g, w, s) BY SumIsNat, SumUnfolds
  <2>. QED BY <2>1, <2>2
<1>2. /\ \A s \in SUBSET T : \A c \in s : f[s] = v[c] + f[s \ {c}]
      /\ \A s \in SUBSET S : \A c \in s : g[s] = w[c] + g[s \ {c}]
  <2>1. SplitsAnywhere(f, v, T) BY <1>0, SumTakesAny
  <2>2. SplitsAnywhere(g, w, S) BY SumTakesAny
  <2>. QED BY <2>1, <2>2 DEF SplitsAnywhere
<1>3. {} \in G
  <2>1. {} \cap T = {} OBVIOUS
  <2>2. f[{}] = 0 /\ g[{}] = 0 BY <1>1 DEF PartSum
  <2>. QED BY <2>1, <2>2
<1>4. ASSUME NEW s \in SUBSET S, s # {}, \A x \in s : s \ {x} \in G PROVE s \in G
  <2>1. PICK x \in s : TRUE BY <1>4
  <2>2. f[(s \ {x}) \cap T] <= g[s \ {x}] BY <1>4
  <2>3. g[s] = w[x] + g[s \ {x}] /\ w[x] \in Nat /\ g[s \ {x}] \in Nat BY <1>1, <1>2
  <2>4. CASE x \in T
    <3>1. (s \ {x}) \cap T = (s \cap T) \ {x} OBVIOUS
    <3>2. f[s \cap T] = v[x] + f[(s \cap T) \ {x}] BY <1>2, <2>4
    <3>3. v[x] \in Nat /\ v[x] <= w[x] /\ f[(s \cap T) \ {x}] \in Nat BY <1>1, <2>4
    <3>4. PICK k, m : k = f[(s \cap T) \ {x}] /\ m = g[s \ {x}] OBVIOUS
    <3>5. k \in Nat /\ m \in Nat /\ k <= m /\ f[s \cap T] = v[x] + k /\ g[s] = w[x] + m
      BY <2>2, <2>3, <3>1, <3>2, <3>3, <3>4
    <3>6. f[s \cap T] <= g[s] BY <2>3, <3>3, <3>5
    <3>. QED BY <3>6
  <2>5. CASE x \notin T
    <3>1. (s \ {x}) \cap T = s \cap T BY <2>5
    <3>2. f[s \cap T] \in Nat BY <1>1
    <3>3. PICK k, m : k = f[s \cap T] /\ m = g[s \ {x}] OBVIOUS
    <3>4. k \in Nat /\ m \in Nat /\ k <= m /\ g[s] = w[x] + m BY <2>2, <2>3, <3>1, <3>2, <3>3
    <3>5. f[s \cap T] <= g[s] BY <2>3, <3>3, <3>4
    <3>. QED BY <3>5
  <2>. QED BY <2>4, <2>5
<1>5. \A s \in SUBSET S : s \in G
  <2>. HIDE DEF G
  <2>. QED BY <1>3, <1>4, SubsetInduces
<1>6. S \cap T = T OBVIOUS
<1>. QED BY <1>5, <1>6

-----------------------------------------------------------------------------
(* Folds over a finite set, an element at a time.                           *)

PartFold(f, F, base, s) == IF s = {} THEN base ELSE F[Any(s), f[s \ {Any(s)}]]
IsFold(f, F, base, S) == \A s \in SUBSET S : f[s] = PartFold(f, F, base, s)
StaysIn(F, S, H) == \A x \in S : \A h \in H : F[x, h] \in H

\* The recursion of FoldSet defines a function, when the step F stays in the set H.
LEMMA FoldExists ==
  ASSUME NEW S, IsFiniteSet(S), NEW H, NEW base \in H, NEW F, StaysIn(F, S, H)
  PROVE  \E f \in [SUBSET S -> H] : IsFold(f, F, base, S)
<1>. DEFINE upto(n) == {s \in SUBSET S : Cardinality(s) <= n}
            has(n) == \E f \in [upto(n) -> H] : \A s \in upto(n) : f[s] = PartFold(f, F, base, s)
            N == {n \in Nat : has(n)}
<1>0. \A s \in SUBSET S : IsFiniteSet(s) /\ Cardinality(s) \in Nat
  BY FS_Subset, FS_CardinalityType
<1>1. 0 \in N
  <2>1. \A s \in upto(0) : s = {} BY <1>0, FS_EmptySet
  <2>2. PICK f : f = [s \in upto(0) |-> base] OBVIOUS
  <2>3. f \in [upto(0) -> H] BY <2>2
  <2>4. \A s \in upto(0) : f[s] = PartFold(f, F, base, s) BY <2>1, <2>2 DEF PartFold
  <2>. QED BY <2>3, <2>4
<1>2. ASSUME NEW n \in Nat, n \in N PROVE n + 1 \in N
  <2>1. PICK f \in [upto(n) -> H] : \A s \in upto(n) : f[s] = PartFold(f, F, base, s) BY <1>2
  <2>2. PICK g : g = [s \in upto(n + 1) |-> PartFold(f, F, base, s)] OBVIOUS
  <2>3. ASSUME NEW s \in upto(n + 1), s # {}
        PROVE  s \ {Any(s)} \in upto(n) /\ Any(s) \in S
    <3>1. Any(s) \in s BY <2>3, AnyIsOne
    <3>2. Cardinality(s \ {Any(s)}) = Cardinality(s) - 1 BY <1>0, <3>1, FS_RemoveElement
    <3>. QED BY <1>0, <3>1, <3>2
  <2>4. \A s \in upto(n) : s \in upto(n + 1) /\ g[s] = f[s] BY <1>0, <2>1, <2>2
  <2>5. ASSUME NEW s \in upto(n + 1) PROVE g[s] \in H /\ g[s] = PartFold(g, F, base, s)
    <3>1. g[s] = PartFold(f, F, base, s) BY <2>2
    <3>2. CASE s = {} BY <3>1, <3>2 DEF PartFold
    <3>3. CASE s # {}
      <4>1. s \ {Any(s)} \in upto(n) /\ Any(s) \in S BY <2>3, <3>3
      <4>2. f[s \ {Any(s)}] \in H BY <2>1, <4>1
      <4>3. F[Any(s), f[s \ {Any(s)}]] \in H BY <4>1, <4>2 DEF StaysIn
      <4>4. g[s \ {Any(s)}] = f[s \ {Any(s)}] BY <2>4, <4>1
      <4>. QED BY <3>1, <3>3, <4>3, <4>4 DEF PartFold
    <3>. QED BY <3>2, <3>3
  <2>6. g \in [upto(n + 1) -> H] BY <2>2, <2>5
  <2>7. has(n + 1)
    <3>. HIDE DEF upto
    <3>. QED BY <2>5, <2>6, Zenon
  <2>8. n + 1 \in Nat OBVIOUS
  <2>. HIDE DEF has
  <2>. QED BY <2>7, <2>8
<1>3. \A n \in Nat : n \in N
  <2>. HIDE DEF N
  <2>. QED BY <1>1, <1>2, NatInduces
<1>4. upto(Cardinality(S)) = SUBSET S /\ Cardinality(S) \in Nat BY <1>0, FS_Subset
<1>5. PICK f \in [SUBSET S -> H] : \A s \in SUBSET S : f[s] = PartFold(f, F, base, s) BY <1>3, <1>4
<1>. QED BY <1>5 DEF IsFold

=============================================================================
