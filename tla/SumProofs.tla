------------------------------ MODULE SumProofs -----------------------------
(***************************************************************************)
(* What holds of the sums that the models take over finite sets of         *)
(* numbers, SumFunctionOnSet and SumFunction.  They are recursive, and no  *)
(* induction principle can be cited with an operator: what holds of 0 and  *)
(* is inherited by successors is put into a set of numbers instead, and    *)
(* that the recursion has a solution at all is proved first.               *)
(***************************************************************************)
EXTENDS Integers, FiniteSetsExt, FiniteSetTheorems, WellFoundedInduction, TLAPS

\* A set of natural numbers that is not empty has a least one.
LEMMA LeastPlace ==
  ASSUME NEW S, S \subseteq Nat, S # {}
  PROVE  \E i \in S : \A j \in S : i <= j
<1>1. IsWellFoundedOn(OpToRel(<, Nat), Nat)
  BY NatLessThanWellFounded
<1>2. PICK i \in S : \A j \in S : ~(<<j, i>> \in OpToRel(<, Nat))
  BY <1>1, WFMin, Zenon
<1>3. ASSUME NEW j \in S PROVE i <= j
  <2>1. i \in Nat /\ j \in Nat
    OBVIOUS
  <2>2. ~(j < i)
    BY <1>2, <2>1 DEF OpToRel
  <2> QED
    BY <2>1, <2>2, SMT
<1> QED
  BY <1>3

\* What holds of 0 and is inherited by successors holds of all natural numbers.
LEMMA AllNumbers ==
  ASSUME NEW G, 0 \in G, \A n \in Nat : n \in G => n + 1 \in G
  PROVE  Nat \subseteq G
<1> SUFFICES ASSUME Nat \ G # {} PROVE FALSE
  OBVIOUS
<1>1. PICK m \in Nat \ G : \A j \in Nat \ G : m <= j
  BY LeastPlace
<1>2. m # 0 /\ m - 1 \in Nat /\ ~(m <= m - 1) /\ (m - 1) + 1 = m
  BY <1>1, SMT
<1> QED
  BY <1>1, <1>2

\* The element that a sum takes first, and what the recursion of a sum does with g.
First(s) == CHOOSE x \in s : TRUE
Unfolded(f, S, g) == [s \in SUBSET S |-> IF s = {} THEN 0 ELSE f[First(s)] + g[s \ {First(s)}]]
Summable(f, S) == \A x \in S : f[x] \in Int

\* A sum is what the recursion gives for the whole set.
LEMMA SumUnfolds ==
  ASSUME NEW f, NEW S
  PROVE  SumFunctionOnSet(f, S) = (CHOOSE g : g = Unfolded(f, S, g))[S]
BY DEF SumFunctionOnSet, FoldFunctionOnSet, MapThenFoldSet, Unfolded, First

\* The element taken first is there, and without it one element less is left.
LEMMA FirstTaken ==
  ASSUME NEW S, IsFiniteSet(S), NEW s \in SUBSET S, s # {}
  PROVE  /\ First(s) \in s /\ First(s) \in S /\ s \ {First(s)} \in SUBSET S
         /\ IsFiniteSet(s) /\ Cardinality(s) \in Nat
         /\ Cardinality(s \ {First(s)}) = Cardinality(s) - 1
<1>1. First(s) \in s
  BY DEF First
<1>2. IsFiniteSet(s) /\ Cardinality(s) \in Nat
  BY FS_Subset, FS_CardinalityType
<1> QED
  BY <1>1, <1>2, FS_RemoveElement

\* g sums all subsets of S with up to n elements.
SumsUpTo(f, S, g, n) ==
    \A s \in SUBSET S : Cardinality(s) <= n => g[s] = Unfolded(f, S, g)[s]

\* There is such a g for every n: it sums one element more than the one before.
LEMMA SummedUpTo ==
  ASSUME NEW S, IsFiniteSet(S), NEW f, Summable(f, S)
  PROVE  \A n \in Nat : \E g \in [SUBSET S -> Int] : SumsUpTo(f, S, g, n)
<1> DEFINE G == {n \in Nat : \E g \in [SUBSET S -> Int] : SumsUpTo(f, S, g, n)}
<1>1. 0 \in G
  <2>1. PICK g : g = [s \in SUBSET S |-> 0]
    OBVIOUS
  <2>2. ASSUME NEW s \in SUBSET S, Cardinality(s) <= 0
        PROVE  g[s] = Unfolded(f, S, g)[s]
    <3>1. IsFiniteSet(s) /\ Cardinality(s) \in Nat
      BY FS_Subset, FS_CardinalityType
    <3>2. Cardinality(s) = 0
      BY <2>2, <3>1, SMT
    <3>3. s = {}
      BY <3>1, <3>2, FS_EmptySet
    <3> QED
      BY <2>1, <3>3 DEF Unfolded
  <2>3. g \in [SUBSET S -> Int] /\ 0 \in Nat
    BY <2>1
  <2>4. SumsUpTo(f, S, g, 0)
    BY <2>2 DEF SumsUpTo
  <2> QED
    BY <2>3, <2>4
<1>2. ASSUME NEW n \in Nat, n \in G
      PROVE  n + 1 \in G
  <2>1. PICK g \in [SUBSET S -> Int] : SumsUpTo(f, S, g, n)
    BY <1>2
  <2>2. PICK h : h = Unfolded(f, S, g)
    OBVIOUS
  <2>3. ASSUME NEW s \in SUBSET S
        PROVE  (IF s = {} THEN 0 ELSE f[First(s)] + g[s \ {First(s)}]) \in Int
    <3>1. CASE s = {}
      BY <3>1
    <3>2. CASE s # {}
      <4>1. First(s) \in S /\ s \ {First(s)} \in SUBSET S
        BY <3>2, FirstTaken
      <4>2. f[First(s)] \in Int /\ g[s \ {First(s)}] \in Int
        BY <4>1, <2>1 DEF Summable
      <4>3. f[First(s)] + g[s \ {First(s)}] \in Int
        BY <4>2, SMT
      <4> QED
        BY <3>2, <4>3
    <3> QED
      BY <3>1, <3>2
  <2>4. h \in [SUBSET S -> Int]
    BY <2>2, <2>3 DEF Unfolded
  <2>5. ASSUME NEW s \in SUBSET S, Cardinality(s) <= n + 1
        PROVE  h[s] = Unfolded(f, S, h)[s]
    <3>1. CASE s = {}
      BY <2>2, <3>1 DEF Unfolded
    <3>2. CASE s # {}
      <4>1. PICK t : t = s \ {First(s)}
        OBVIOUS
      <4>2. t \in SUBSET S /\ Cardinality(t) = Cardinality(s) - 1 /\ Cardinality(s) \in Nat
        BY <3>2, <4>1, FirstTaken
      <4>3. Cardinality(t) <= n
        BY <2>5, <4>2, SMT
      <4>4. g[t] = h[t]
        BY <2>1, <2>2, <4>2, <4>3 DEF SumsUpTo
      <4> QED
        BY <2>2, <3>2, <4>1, <4>4 DEF Unfolded
    <3> QED
      BY <3>1, <3>2
  <2>6. SumsUpTo(f, S, h, n + 1)
    BY <2>5 DEF SumsUpTo
  <2>7. n + 1 \in Nat
    BY SMT
  <2> QED
    BY <2>4, <2>6, <2>7
<1>3. Nat \subseteq G
  <2> HIDE DEF G
  <2> QED
    BY <1>1, <1>2, AllNumbers
<1> QED
  BY <1>3

\* The recursion of a sum has a solution, which sums integers.
LEMMA SummedAll ==
  ASSUME NEW S, IsFiniteSet(S), NEW f, Summable(f, S)
  PROVE  \E g \in [SUBSET S -> Int] : g = Unfolded(f, S, g)
<1>1. Cardinality(S) \in Nat
  BY FS_CardinalityType
<1>2. PICK g \in [SUBSET S -> Int] : SumsUpTo(f, S, g, Cardinality(S))
  BY <1>1, SummedUpTo
<1>3. ASSUME NEW s \in SUBSET S PROVE g[s] = Unfolded(f, S, g)[s]
  BY <1>2, FS_Subset DEF SumsUpTo
<1>4. PICK h : h = Unfolded(f, S, g)
  OBVIOUS
<1>5. h = [s \in SUBSET S |-> h[s]] /\ DOMAIN h = SUBSET S
  BY <1>4 DEF Unfolded
<1>6. g = [s \in SUBSET S |-> g[s]]
  OBVIOUS
<1>7. g = h
  BY <1>3, <1>4, <1>5, <1>6
<1> QED
  BY <1>4, <1>7

\* Two solutions, the second over a smaller set, sum its subsets alike.
LEMMA SummedOnce ==
  ASSUME NEW S, IsFiniteSet(S), NEW T \in SUBSET S, NEW f,
         NEW g, g = Unfolded(f, S, g), NEW h, h = Unfolded(f, T, h)
  PROVE  \A s \in SUBSET T : g[s] = h[s]
<1> DEFINE G == {n \in Nat : \A s \in SUBSET T : Cardinality(s) = n => g[s] = h[s]}
<1>1. IsFiniteSet(T)
  BY FS_Subset
<1>2. 0 \in G
  <2>1. ASSUME NEW s \in SUBSET T, Cardinality(s) = 0
        PROVE  g[s] = h[s]
    <3>1. s = {}
      BY <1>1, <2>1, FS_Subset, FS_EmptySet
    <3>2. s \in SUBSET S
      OBVIOUS
    <3>3. g[s] = Unfolded(f, S, g)[s] /\ h[s] = Unfolded(f, T, h)[s]
      OBVIOUS
    <3> QED
      BY <3>1, <3>2, <3>3 DEF Unfolded
  <2> QED
    BY <2>1
<1>3. ASSUME NEW n \in Nat, n \in G
      PROVE  n + 1 \in G
  <2>1. ASSUME NEW s \in SUBSET T, Cardinality(s) = n + 1
        PROVE  g[s] = h[s]
    <3>1. s # {}
      <4>1. n + 1 # 0
        BY SMT
      <4> QED
        BY <2>1, <4>1, FS_EmptySet
    <3>2. PICK t : t = s \ {First(s)}
      OBVIOUS
    <3>3. t \in SUBSET T /\ Cardinality(t) = Cardinality(s) - 1
      BY <1>1, <3>1, <3>2, FirstTaken
    <3>4. Cardinality(t) = n
      BY <2>1, <3>3, SMT
    <3>5. g[t] = h[t]
      BY <1>3, <3>3, <3>4
    <3>6. g[s] = Unfolded(f, S, g)[s] /\ h[s] = Unfolded(f, T, h)[s] /\ s \in SUBSET S
      OBVIOUS
    <3> QED
      BY <3>1, <3>2, <3>5, <3>6 DEF Unfolded
  <2>2. n + 1 \in Nat
    BY SMT
  <2> QED
    BY <2>1, <2>2
<1>4. Nat \subseteq G
  <2> HIDE DEF G
  <2> QED
    BY <1>2, <1>3, AllNumbers
<1>5. ASSUME NEW s \in SUBSET T PROVE g[s] = h[s]
  <2>1. Cardinality(s) \in Nat
    BY <1>1, FS_Subset, FS_CardinalityType
  <2> QED
    BY <1>4, <2>1
<1> QED
  BY <1>5

\* A sum takes the first element and the sum of the others.
LEMMA SumTakesFirst ==
  ASSUME NEW S, IsFiniteSet(S), NEW f, Summable(f, S)
  PROVE  /\ SumFunctionOnSet(f, S) \in Int
         /\ S = {} => SumFunctionOnSet(f, S) = 0
         /\ S # {} => SumFunctionOnSet(f, S)
                        = f[First(S)] + SumFunctionOnSet(f, S \ {First(S)})
<1>1. PICK g : g = (CHOOSE k : k = Unfolded(f, S, k))
  OBVIOUS
<1>2. g = Unfolded(f, S, g)
  BY <1>1, SummedAll
<1>3. SumFunctionOnSet(f, S) = g[S]
  BY <1>1, SumUnfolds
<1>4. \E h \in [SUBSET S -> Int] : h = Unfolded(f, S, h)
  BY SummedAll
<1>5. g[S] \in Int
  BY <1>2, <1>4, SummedOnce
<1>6. g[S] = Unfolded(f, S, g)[S]
  BY <1>2
<1>7. ASSUME S # {}
      PROVE  g[S \ {First(S)}] = SumFunctionOnSet(f, S \ {First(S)})
  <2>1. PICK T : T = S \ {First(S)}
    OBVIOUS
  <2>2. T \in SUBSET S /\ IsFiniteSet(T) /\ Summable(f, T)
    BY <2>1, FS_Subset DEF Summable
  <2>3. PICK h : h = (CHOOSE k : k = Unfolded(f, T, k))
    OBVIOUS
  <2>4. h = Unfolded(f, T, h)
    BY <2>2, <2>3, SummedAll
  <2>5. g[T] = h[T]
    BY <1>2, <2>2, <2>4, SummedOnce
  <2> QED
    BY <2>1, <2>3, <2>5, SumUnfolds
<1> QED
  BY <1>3, <1>5, <1>6, <1>7 DEF Unfolded

\* It may take any element first.
LEMMA SumTakesAny ==
  ASSUME NEW U, IsFiniteSet(U), NEW f, Summable(f, U)
  PROVE  \A S \in SUBSET U : \A x \in S :
            SumFunctionOnSet(f, S) = f[x] + SumFunctionOnSet(f, S \ {x})
<1> DEFINE G == {n \in Nat : \A S \in SUBSET U : \A x \in S :
                    Cardinality(S) = n =>
                        SumFunctionOnSet(f, S) = f[x] + SumFunctionOnSet(f, S \ {x})}
<1>1. ASSUME NEW S \in SUBSET U
      PROVE  IsFiniteSet(S) /\ Cardinality(S) \in Nat /\ Summable(f, S)
             /\ SumFunctionOnSet(f, S) \in Int
  <2>1. IsFiniteSet(S) /\ Cardinality(S) \in Nat /\ Summable(f, S)
    BY FS_Subset, FS_CardinalityType DEF Summable
  <2> QED
    BY <2>1, SumTakesFirst
<1>2. 0 \in G
  <2>1. ASSUME NEW S \in SUBSET U, NEW x \in S, Cardinality(S) = 0
        PROVE  FALSE
    BY <1>1, <2>1, FS_EmptySet
  <2> QED
    BY <2>1
<1>3. ASSUME NEW n \in Nat, n \in G
      PROVE  n + 1 \in G
  <2>1. ASSUME NEW S \in SUBSET U, NEW x \in S, Cardinality(S) = n + 1
        PROVE  SumFunctionOnSet(f, S) = f[x] + SumFunctionOnSet(f, S \ {x})
    <3>1. PICK y : y = First(S)
      OBVIOUS
    <3>2. /\ y \in S /\ S # {}
          /\ SumFunctionOnSet(f, S) = f[y] + SumFunctionOnSet(f, S \ {y})
      BY <1>1, <3>1, FirstTaken, SumTakesFirst
    <3>3. CASE x = y
      BY <3>2, <3>3
    <3>4. CASE x # y
      <4>1. S \ {x} \in SUBSET U /\ S \ {y} \in SUBSET U /\ (S \ {x}) \ {y} \in SUBSET U
        OBVIOUS
      <4>2. Cardinality(S \ {x}) = n /\ Cardinality(S \ {y}) = n
        <5>1. /\ Cardinality(S \ {x}) = Cardinality(S) - 1
              /\ Cardinality(S \ {y}) = Cardinality(S) - 1
          BY <1>1, <3>2, FS_RemoveElement
        <5>2. (n + 1) - 1 = n
          BY SMT
        <5> QED
          BY <2>1, <5>1, <5>2
      <4>3. y \in S \ {x} /\ x \in S \ {y} /\ (S \ {y}) \ {x} = (S \ {x}) \ {y}
        BY <3>2, <3>4
      <4>4. SumFunctionOnSet(f, S \ {x}) = f[y] + SumFunctionOnSet(f, (S \ {x}) \ {y})
        BY <1>3, <4>1, <4>2, <4>3
      <4>5. SumFunctionOnSet(f, S \ {y}) = f[x] + SumFunctionOnSet(f, (S \ {x}) \ {y})
        BY <1>3, <4>1, <4>2, <4>3
      <4>6. f[x] \in Int /\ f[y] \in Int
        BY <3>2 DEF Summable
      <4>7. SumFunctionOnSet(f, (S \ {x}) \ {y}) \in Int
        BY <1>1, <4>1
      <4> QED
        BY <3>2, <4>4, <4>5, <4>6, <4>7, SMT
    <3> QED
      BY <3>3, <3>4
  <2>2. n + 1 \in Nat
    BY SMT
  <2> QED
    BY <2>1, <2>2
<1>4. Nat \subseteq G
  <2> HIDE DEF G
  <2> QED
    BY <1>2, <1>3, AllNumbers
<1> QED
  BY <1>1, <1>4

\* Equal numbers have equal sums.
LEMMA SumsAlike ==
  ASSUME NEW U, IsFiniteSet(U), NEW f, Summable(f, U), NEW h, \A x \in U : h[x] = f[x]
  PROVE  SumFunctionOnSet(h, U) = SumFunctionOnSet(f, U)
<1> DEFINE G == {n \in Nat : \A S \in SUBSET U :
                    Cardinality(S) = n => SumFunctionOnSet(h, S) = SumFunctionOnSet(f, S)}
<1>1. ASSUME NEW S \in SUBSET U
      PROVE  IsFiniteSet(S) /\ Cardinality(S) \in Nat /\ Summable(f, S) /\ Summable(h, S)
  BY FS_Subset, FS_CardinalityType DEF Summable
<1>2. 0 \in G
  <2>1. ASSUME NEW S \in SUBSET U, Cardinality(S) = 0
        PROVE  SumFunctionOnSet(h, S) = SumFunctionOnSet(f, S)
    <3>1. S = {}
      BY <1>1, <2>1, FS_EmptySet
    <3> QED
      BY <1>1, <3>1, SumTakesFirst
  <2> QED
    BY <2>1
<1>3. ASSUME NEW n \in Nat, n \in G
      PROVE  n + 1 \in G
  <2>1. ASSUME NEW S \in SUBSET U, Cardinality(S) = n + 1
        PROVE  SumFunctionOnSet(h, S) = SumFunctionOnSet(f, S)
    <3>1. S # {}
      <4>1. n + 1 # 0
        BY SMT
      <4> QED
        BY <2>1, <4>1, FS_EmptySet
    <3>2. PICK x : x = First(S)
      OBVIOUS
    <3>3. x \in S /\ x \in U /\ S \ {x} \in SUBSET U /\ Cardinality(S \ {x}) = Cardinality(S) - 1
      BY <1>1, <3>1, <3>2, FirstTaken
    <3>4. Cardinality(S \ {x}) = n
      BY <2>1, <3>3, SMT
    <3>5. SumFunctionOnSet(h, S \ {x}) = SumFunctionOnSet(f, S \ {x})
      BY <1>3, <3>3, <3>4
    <3> QED
      BY <1>1, <3>1, <3>2, <3>3, <3>5, SumTakesFirst
  <2>2. n + 1 \in Nat
    BY SMT
  <2> QED
    BY <2>1, <2>2
<1>4. Nat \subseteq G
  <2> HIDE DEF G
  <2> QED
    BY <1>2, <1>3, AllNumbers
<1> QED
  BY <1>1, <1>4

\* Where only the number of x differs, the sums differ as it does.
LEMMA SumMovesWith ==
  ASSUME NEW U, IsFiniteSet(U), NEW f, Summable(f, U), NEW h, Summable(h, U),
         NEW x \in U, \A y \in U : y # x => h[y] = f[y]
  PROVE  SumFunctionOnSet(h, U) = SumFunctionOnSet(f, U) + (h[x] - f[x])
<1>1. U \ {x} \in SUBSET U /\ U \in SUBSET U /\ IsFiniteSet(U \ {x})
  BY FS_Subset
<1>2. Summable(f, U \ {x}) /\ \A y \in U \ {x} : h[y] = f[y]
  BY DEF Summable
<1>3. SumFunctionOnSet(h, U \ {x}) = SumFunctionOnSet(f, U \ {x})
  BY <1>1, <1>2, SumsAlike
<1>4. SumFunctionOnSet(f, U) = f[x] + SumFunctionOnSet(f, U \ {x})
  BY <1>1, SumTakesAny
<1>5. SumFunctionOnSet(h, U) = h[x] + SumFunctionOnSet(h, U \ {x})
  BY <1>1, SumTakesAny
<1>6. SumFunctionOnSet(f, U \ {x}) \in Int
  BY <1>1, <1>2, SumTakesFirst
<1>7. f[x] \in Int /\ h[x] \in Int
  BY DEF Summable
<1> QED
  BY <1>3, <1>4, <1>5, <1>6, <1>7, SMT

\* Nothing sums to 0.
LEMMA SumOfNothing ==
  ASSUME NEW U, IsFiniteSet(U), NEW f, \A x \in U : f[x] = 0
  PROVE  SumFunctionOnSet(f, U) = 0
<1> DEFINE G == {n \in Nat : \A S \in SUBSET U :
                    Cardinality(S) = n => SumFunctionOnSet(f, S) = 0}
<1>1. ASSUME NEW S \in SUBSET U
      PROVE  IsFiniteSet(S) /\ Cardinality(S) \in Nat /\ Summable(f, S)
  BY FS_Subset, FS_CardinalityType DEF Summable
<1>2. 0 \in G
  <2>1. ASSUME NEW S \in SUBSET U, Cardinality(S) = 0
        PROVE  SumFunctionOnSet(f, S) = 0
    <3>1. S = {}
      BY <1>1, <2>1, FS_EmptySet
    <3> QED
      BY <1>1, <3>1, SumTakesFirst
  <2> QED
    BY <2>1
<1>3. ASSUME NEW n \in Nat, n \in G
      PROVE  n + 1 \in G
  <2>1. ASSUME NEW S \in SUBSET U, Cardinality(S) = n + 1
        PROVE  SumFunctionOnSet(f, S) = 0
    <3>1. S # {}
      <4>1. n + 1 # 0
        BY SMT
      <4> QED
        BY <2>1, <4>1, FS_EmptySet
    <3>2. PICK x : x = First(S)
      OBVIOUS
    <3>3. x \in U /\ S \ {x} \in SUBSET U /\ Cardinality(S \ {x}) = Cardinality(S) - 1
      BY <1>1, <3>1, <3>2, FirstTaken
    <3>4. Cardinality(S \ {x}) = n
      BY <2>1, <3>3, SMT
    <3>5. SumFunctionOnSet(f, S \ {x}) = 0 /\ f[x] = 0
      BY <1>3, <3>3, <3>4
    <3>6. SumFunctionOnSet(f, S) = f[x] + SumFunctionOnSet(f, S \ {x})
      BY <1>1, <3>1, <3>2, SumTakesFirst
    <3>7. 0 + 0 = 0
      BY SMT
    <3> QED
      BY <3>5, <3>6, <3>7
  <2>2. n + 1 \in Nat
    BY SMT
  <2> QED
    BY <2>1, <2>2
<1>4. Nat \subseteq G
  <2> HIDE DEF G
  <2> QED
    BY <1>2, <1>3, AllNumbers
<1> QED
  BY <1>1, <1>4

-----------------------------------------------------------------------------
(* Sums of squares. *)

\* No square is negative.
LEMMA SquarePositive == ASSUME NEW a \in Int PROVE a * a >= 0
BY SMT

\* A number whose multiple is not negative is not negative.
LEMMA PositiveFactor == ASSUME NEW k \in Nat, k > 0, NEW z \in Int, k * z >= 0 PROVE z >= 0
BY SMT

\* One more number x, beside k with sum t and sum of squares q.
LEMMA SquareStep ==
  ASSUME NEW t \in Int, NEW q \in Int, NEW x \in Int, NEW k \in Nat, t * t <= k * q,
         k = 0 => t = 0 /\ q = 0
  PROVE  (t + x) * (t + x) <= (k + 1) * (q + x * x)
<1>1. CASE k = 0
  BY <1>1, SMT
<1>2. CASE k > 0
  <2>1. PICK z \in Int : z = k * (x * x) + q - 2 * (t * x)
    BY SMT
  <2>2. (k * x - t) * (k * x - t) >= 0
    BY SquarePositive, SMT
  <2>3. k * z = (k * x - t) * (k * x - t) + (k * q - t * t)
    BY <2>1, SMT
  <2>4. k * z >= 0
    BY <2>2, <2>3, SMT
  <2>5. z >= 0
    BY <1>2, <2>4, PositiveFactor
  <2>6. (k + 1) * (q + x * x) - (t + x) * (t + x) = (k * q - t * t) + z
    BY <2>1, SMT
  <2> QED
    BY <2>5, <2>6, SMT
<1> QED
  BY <1>1, <1>2, SMT

\* A number v beside n others with sum t and sum of squares q is at most d standard deviations
\* from the mean of all, if there are at most d * d others: both sides times n + 1 and squared.
LEMMA Samuelson ==
  ASSUME NEW v \in Int, NEW t \in Int, NEW q \in Int, q >= 0, NEW n \in Nat, t * t <= n * q,
         NEW d \in Nat, n <= d * d
  PROVE  ((n + 1) * v - (v + t)) * ((n + 1) * v - (v + t))
            <= (d * d) * ((n + 1) * (v * v + q) - (v + t) * (v + t))
<1>1. PICK spread \in Int : spread = (n + 1) * (v * v + q) - (v + t) * (v + t)
  BY SMT
<1>2. PICK away \in Int : away = (n * v - t) * (n * v - t)
  BY SMT
<1>3. ((n + 1) * v - (v + t)) * ((n + 1) * v - (v + t)) = away
  BY <1>2, SMT
<1>4. n * spread - away = (n + 1) * (n * q - t * t)
  BY <1>1, <1>2, SMT
<1>5. (n + 1) * (n * q - t * t) >= 0
  BY SMT
<1>6. away <= n * spread /\ away >= 0
  BY <1>2, <1>4, <1>5, SquarePositive, SMT
<1>7. spread >= 0
  <2>1. CASE n = 0
    <3>1. t = 0
      BY <2>1, SMT
    <3> QED
      BY <1>1, <2>1, <3>1, SMT
  <2>2. CASE n > 0
    BY <1>6, <2>2, PositiveFactor, SMT
  <2> QED
    BY <2>1, <2>2, SMT
<1>8. (d * d - n) * spread >= 0
  <2>1. PICK e \in Nat : e = d * d - n
    BY SMT
  <2>2. e * spread >= 0
    BY <1>7, <2>1, SMT
  <2> QED
    BY <2>1, <2>2
<1>9. away <= (d * d) * spread
  BY <1>6, <1>8, SMT
<1> QED
  BY <1>1, <1>3, <1>9

\* The squares of numbers.
Squared(f, S) == [x \in S |-> f[x] * f[x]]

\* The square of a sum is at most the sum of the squares times their number.
LEMMA SquareOfSum ==
  ASSUME NEW U, IsFiniteSet(U), NEW f, Summable(f, U)
  PROVE  \A S \in SUBSET U :
            /\ SumFunctionOnSet(f, S) \in Int
            /\ SumFunctionOnSet(Squared(f, U), S) \in Int
            /\ SumFunctionOnSet(Squared(f, U), S) >= 0
            /\ SumFunctionOnSet(f, S) * SumFunctionOnSet(f, S)
                  <= Cardinality(S) * SumFunctionOnSet(Squared(f, U), S)
<1> DEFINE sq == Squared(f, U)
           Bound(S) == /\ SumFunctionOnSet(sq, S) >= 0
                       /\ SumFunctionOnSet(f, S) * SumFunctionOnSet(f, S)
                            <= Cardinality(S) * SumFunctionOnSet(sq, S)
           G == {n \in Nat : \A S \in SUBSET U : Cardinality(S) = n => Bound(S)}
<1>0. Summable(sq, U) /\ \A x \in U : sq[x] = f[x] * f[x] /\ f[x] \in Int
  <2> SUFFICES ASSUME NEW x \in U PROVE sq[x] \in Int /\ sq[x] = f[x] * f[x] /\ f[x] \in Int
    BY DEF Summable
  <2>1. f[x] \in Int
    BY DEF Summable
  <2>2. f[x] * f[x] \in Int
    BY <2>1, SMT
  <2> QED
    BY <2>1, <2>2 DEF Squared
<1> HIDE DEF sq
<1>1. ASSUME NEW S \in SUBSET U
      PROVE  /\ IsFiniteSet(S) /\ Cardinality(S) \in Nat /\ Summable(f, S) /\ Summable(sq, S)
             /\ SumFunctionOnSet(f, S) \in Int /\ SumFunctionOnSet(sq, S) \in Int
  <2>1. IsFiniteSet(S) /\ Cardinality(S) \in Nat /\ Summable(f, S) /\ Summable(sq, S)
    BY <1>0, FS_Subset, FS_CardinalityType DEF Summable
  <2> QED
    BY <2>1, SumTakesFirst
<1>2. 0 \in G
  <2>1. ASSUME NEW S \in SUBSET U, Cardinality(S) = 0
        PROVE  Bound(S)
    <3>1. S = {}
      BY <1>1, <2>1, FS_EmptySet
    <3>2. SumFunctionOnSet(f, S) = 0 /\ SumFunctionOnSet(sq, S) = 0
      BY <1>1, <3>1, SumTakesFirst
    <3> QED
      BY <2>1, <3>2, SMT
  <2> QED
    BY <2>1
<1>3. ASSUME NEW n \in Nat, n \in G
      PROVE  n + 1 \in G
  <2>1. ASSUME NEW S \in SUBSET U, Cardinality(S) = n + 1
        PROVE  Bound(S)
    <3>1. S # {}
      <4>1. n + 1 # 0
        BY SMT
      <4> QED
        BY <2>1, <4>1, FS_EmptySet
    <3>2. PICK x : x = First(S)
      OBVIOUS
    <3>3. PICK R : R = S \ {x}
      OBVIOUS
    <3>4. x \in U /\ R \in SUBSET U /\ Cardinality(R) = Cardinality(S) - 1
      BY <1>1, <3>1, <3>2, <3>3, FirstTaken
    <3>5. Cardinality(R) = n
      BY <2>1, <3>4, SMT
    <3>6. PICK t \in Int : t = SumFunctionOnSet(f, R)
      BY <1>1, <3>4
    <3>7. PICK q \in Int : q = SumFunctionOnSet(sq, R)
      BY <1>1, <3>4
    <3>8. q >= 0 /\ t * t <= n * q
      BY <1>3, <3>4, <3>5, <3>6, <3>7
    <3>9. n = 0 => t = 0 /\ q = 0
      <4>1. ASSUME n = 0 PROVE R = {}
        BY <1>1, <3>4, <3>5, <4>1, FS_EmptySet
      <4> QED
        BY <1>1, <3>4, <3>6, <3>7, <4>1, SumTakesFirst
    <3>10. PICK v \in Int : v = f[x]
      BY <1>0, <3>4
    <3>11. SumFunctionOnSet(f, S) = v + t /\ SumFunctionOnSet(sq, S) = v * v + q
      BY <1>0, <1>1, <3>1, <3>2, <3>3, <3>4, <3>6, <3>7, <3>10, SumTakesFirst
    <3>12. (t + v) * (t + v) <= (n + 1) * (q + v * v)
      BY <3>8, <3>9, SquareStep
    <3>13. v * v >= 0
      BY SquarePositive
    <3>14. v + t = t + v /\ v * v + q = q + v * v /\ v * v + q >= 0
      BY <3>8, <3>13, SMT
    <3> QED
      BY <2>1, <3>11, <3>12, <3>14
  <2>2. n + 1 \in Nat
    BY SMT
  <2> QED
    BY <2>1, <2>2
<1>4. Nat \subseteq G
  <2> HIDE DEF G
  <2> QED
    BY <1>2, <1>3, AllNumbers
<1> QED
  BY <1>1, <1>4 DEF sq
=============================================================================
