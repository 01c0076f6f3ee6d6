-------------------------------- MODULE Sums ---------------------------------
(***************************************************************************)
(* Facts about the sums and folds of the models: sums over finite sets, as *)
(* MapThenSumSet computes them, and along sequences, as a recursive        *)
(* function does, and folds along sequences, as FoldLeft computes them.    *)
(*                                                                         *)
(* Each is a function chosen for an equation it satisfies.  That there is  *)
(* one, and what it yields, is induction; it goes through least elements   *)
(* of sets of numbers, which ask for no operator as a parameter.           *)
(***************************************************************************)
EXTENDS Integers, Sequences, FiniteSets, FiniteSetsExt, FiniteSetTheorems,
        WellFoundedInduction, TLAPS

-----------------------------------------------------------------------------
(* Induction.                                                              *)

\* Every nonempty set of natural numbers has a least element.
LEMMA LeastElement ==
    ASSUME NEW T, T \subseteq Nat, T # {}
    PROVE  \E n \in T : \A m \in T : n <= m
<1> DEFINE R == {ss \in Nat \X Nat : ss[1] < ss[2]}
<1>1. IsWellFoundedOn(R, Nat)
  BY NatLessThanWellFounded DEF OpToRel
<1>2. PICK n \in T : \A m \in T : ~ (<<m, n>> \in R)
  <2> HIDE DEF R
  <2> QED  BY <1>1, WFMin
<1>3. ASSUME NEW m \in T PROVE n <= m
  <2>1. m \in Nat /\ n \in Nat /\ <<m, n>> \in Nat \X Nat
    OBVIOUS
  <2>2. ~ (m < n)
    BY <1>2, <2>1
  <2> QED  BY <2>1, <2>2
<1> QED  BY <1>3

\* A set of natural numbers that has 0 and, with each number, the next has them all.
LEMMA Induction ==
    ASSUME NEW T, 0 \in T, \A n \in Nat : n \in T => n + 1 \in T
    PROVE  Nat \subseteq T
<1> SUFFICES ASSUME Nat \ T # {} PROVE FALSE
  OBVIOUS
<1>1. PICK n \in Nat \ T : \A m \in Nat \ T : n <= m
  BY LeastElement
<1>2. n # 0 /\ n - 1 \in Nat
  BY <1>1
<1>3. n - 1 \in T
  BY <1>1, <1>2
<1>4. (n - 1) + 1 = n
  BY <1>1
<1> QED  BY <1>1, <1>2, <1>3, <1>4

-----------------------------------------------------------------------------
(* Sums over finite sets.                                                  *)

SumOver(w, S) == MapThenSumSet(LAMBDA x : w[x], S)

Pick(s) == CHOOSE x \in s : TRUE

\* f is the sum of w over each subset of S, by the equation of MapThenSumSet.
SumTable(f, w, S) ==
    f = [s \in SUBSET S |-> IF s = {} THEN 0 ELSE w[Pick(s)] + f[s \ {Pick(s)}]]

\* A picked element is one of the set.
LEMMA PickIn == ASSUME NEW s, s # {} PROVE Pick(s) \in s
BY DEF Pick

\* Without its picked element, a subset is one element smaller.
LEMMA Smaller ==
    ASSUME NEW S, IsFiniteSet(S), NEW s \in SUBSET S, NEW x \in s
    PROVE  /\ s \ {x} \in SUBSET S
           /\ Cardinality(s) \in Nat \ {0}
           /\ Cardinality(s \ {x}) = Cardinality(s) - 1
<1>1. IsFiniteSet(s)
  BY FS_Subset
<1>2. Cardinality(s) \in Nat /\ Cardinality(s) # 0
  BY <1>1, FS_CardinalityType, FS_EmptySet
<1>3. Cardinality(s \ {x}) = Cardinality(s) - 1
  BY <1>1, FS_RemoveElement
<1> QED  BY <1>2, <1>3

\* What holds of a subset if it holds of all its smaller ones holds of every subset.
LEMMA SubsetInduction ==
    ASSUME NEW S, IsFiniteSet(S), NEW G \in SUBSET SUBSET S,
           \A s \in SUBSET S : (\A x \in s : s \ {x} \in G) => s \in G
    PROVE  SUBSET S \subseteq G
<1> SUFFICES ASSUME (SUBSET S) \ G # {} PROVE FALSE
  OBVIOUS
<1> DEFINE T == {Cardinality(s) : s \in (SUBSET S) \ G}
<1>1. T \subseteq Nat /\ T # {}
  BY FS_Subset, FS_CardinalityType
<1>2. PICK n \in T : \A m \in T : n <= m
  BY <1>1, LeastElement
<1>3. PICK s \in (SUBSET S) \ G : n = Cardinality(s)
  BY <1>2
<1>4. ASSUME NEW x \in s PROVE s \ {x} \in G
  <2>1. /\ s \ {x} \in SUBSET S
        /\ Cardinality(s) \in Nat \ {0}
        /\ Cardinality(s \ {x}) = Cardinality(s) - 1
    BY Smaller
  <2>2. SUFFICES ASSUME s \ {x} \notin G PROVE FALSE
    OBVIOUS
  <2>3. Cardinality(s \ {x}) \in T
    BY <2>1, <2>2
  <2> HIDE DEF T
  <2> QED  BY <2>1, <2>3, <1>2, <1>3
<1> QED  BY <1>3, <1>4

\* There is a function of sums: one of the subsets of up to n elements becomes one of
\* those of up to n + 1.
LEMMA SumsExist ==
    ASSUME NEW S, IsFiniteSet(S), NEW w
    PROVE  \E f : SumTable(f, w, S)
<1> DEFINE Value(g, s) == IF s = {} THEN 0 ELSE w[Pick(s)] + g[s \ {Pick(s)}]
           Good(n, f) == /\ f = [s \in SUBSET S |-> f[s]]
                         /\ \A s \in SUBSET S : Cardinality(s) <= n => f[s] = Value(f, s)
           N == {n \in Nat : \E f : Good(n, f)}
<1>1. 0 \in N
  <2> DEFINE f == [s \in SUBSET S |-> 0]
  <2>1. ASSUME NEW s \in SUBSET S, Cardinality(s) <= 0 PROVE f[s] = Value(f, s)
    <3>1. s = {}
      BY <2>1, FS_Subset, FS_CardinalityType, FS_EmptySet
    <3> QED  BY <3>1
  <2>2. Good(0, f)
    BY <2>1
  <2> QED  BY <2>2
<1>2. ASSUME NEW n \in Nat, n \in N PROVE n + 1 \in N
  <2>1. PICK f : Good(n, f)
    BY <1>2
  <2> DEFINE g == [s \in SUBSET S |-> Value(f, s)]
  <2>2. ASSUME NEW s \in SUBSET S, Cardinality(s) <= n PROVE g[s] = f[s]
    BY <2>1, <2>2
  <2>3. ASSUME NEW s \in SUBSET S, Cardinality(s) <= n + 1 PROVE g[s] = Value(g, s)
    <3>1. CASE s = {}
      BY <3>1
    <3>2. CASE s # {}
      <4>1. /\ s \ {Pick(s)} \in SUBSET S
            /\ Cardinality(s) \in Nat
            /\ Cardinality(s \ {Pick(s)}) = Cardinality(s) - 1
        BY <3>2, PickIn, Smaller
      <4>2. g[s \ {Pick(s)}] = f[s \ {Pick(s)}]
        <5>1. Cardinality(s \ {Pick(s)}) <= n
          BY <2>3, <4>1
        <5> HIDE DEF g
        <5> QED  BY <2>2, <4>1, <5>1
      <4> QED  BY <3>2, <4>2
    <3> QED  BY <3>1, <3>2
  <2>4. Good(n + 1, g)
    BY <2>3
  <2> HIDE DEF g, Good
  <2> QED  BY <2>4
<1>3. PICK f : Good(Cardinality(S), f)
  <2>1. Nat \subseteq N
    <3> HIDE DEF N
    <3> QED  BY <1>1, <1>2, Induction
  <2>2. Cardinality(S) \in Nat
    BY FS_CardinalityType
  <2> HIDE DEF Good
  <2> QED  BY <2>1, <2>2
<1>4. ASSUME NEW s \in SUBSET S PROVE Cardinality(s) <= Cardinality(S)
  BY FS_Subset
<1>5. f = [s \in SUBSET S |-> Value(f, s)]
  BY <1>3, <1>4
<1> QED  BY <1>5 DEF SumTable

\* Two functions of sums agree where both are defined, whatever the weights of other elements.
LEMMA SumsAgree ==
    ASSUME NEW S, IsFiniteSet(S), NEW T, S \subseteq T, NEW v, NEW w, NEW f, NEW g,
           SumTable(f, v, S), SumTable(g, w, T), \A x \in S : v[x] = w[x]
    PROVE  \A s \in SUBSET S : f[s] = g[s]
<1> DEFINE G == {s \in SUBSET S : f[s] = g[s]}
<1>1. ASSUME NEW s \in SUBSET S, \A x \in s : s \ {x} \in G PROVE s \in G
  <2>1. /\ f[s] = IF s = {} THEN 0 ELSE v[Pick(s)] + f[s \ {Pick(s)}]
        /\ g[s] = IF s = {} THEN 0 ELSE w[Pick(s)] + g[s \ {Pick(s)}]
    BY DEF SumTable
  <2>2. CASE s = {}
    BY <2>1, <2>2
  <2>3. CASE s # {}
    BY <1>1, <2>1, <2>3, PickIn
  <2> QED  BY <2>2, <2>3
<1>2. SUBSET S \subseteq G
  <2>1. G \in SUBSET SUBSET S
    OBVIOUS
  <2> HIDE DEF G
  <2> QED  BY <1>1, <2>1, SubsetInduction
<1> QED  BY <1>2

\* A sum is what any function of sums says.
LEMMA SumIs ==
    ASSUME NEW S, IsFiniteSet(S), NEW T, S \subseteq T, NEW v, NEW w, NEW f,
           SumTable(f, w, T), \A x \in S : v[x] = w[x]
    PROVE  SumOver(v, S) = f[S]
<1> DEFINE g == CHOOSE g : SumTable(g, v, S)
<1>1. SumOver(v, S) = g[S]
  BY DEF SumOver, MapThenSumSet, MapThenFoldSet, SumTable, Pick
<1>2. SumTable(g, v, S)
  BY SumsExist
<1>3. \A s \in SUBSET S : g[s] = f[s]
  <2> HIDE DEF g
  <2> QED  BY <1>2, SumsAgree
<1> QED  BY <1>1, <1>3

\* The sums of integers are integers.
LEMMA SumsType ==
    ASSUME NEW S, IsFiniteSet(S), NEW w, \A x \in S : w[x] \in Int, NEW f, SumTable(f, w, S)
    PROVE  \A s \in SUBSET S : f[s] \in Int
<1> DEFINE G == {s \in SUBSET S : f[s] \in Int}
<1>1. ASSUME NEW s \in SUBSET S, \A x \in s : s \ {x} \in G PROVE s \in G
  <2>1. f[s] = IF s = {} THEN 0 ELSE w[Pick(s)] + f[s \ {Pick(s)}]
    BY DEF SumTable
  <2>2. CASE s = {}
    BY <2>1, <2>2
  <2>3. CASE s # {}
    <3>1. Pick(s) \in s /\ w[Pick(s)] \in Int /\ f[s \ {Pick(s)}] \in Int
      BY <1>1, <2>3, PickIn
    <3> QED  BY <2>1, <2>3, <3>1
  <2> QED  BY <2>2, <2>3
<1>2. SUBSET S \subseteq G
  <2>1. G \in SUBSET SUBSET S
    OBVIOUS
  <2> HIDE DEF G
  <2> QED  BY <1>1, <2>1, SubsetInduction
<1> QED  BY <1>2

\* Any element may be taken out first.
LEMMA SumsTakeOut ==
    ASSUME NEW S, IsFiniteSet(S), NEW w, \A x \in S : w[x] \in Int, NEW f, SumTable(f, w, S)
    PROVE  \A s \in SUBSET S : \A x \in s : f[s] = w[x] + f[s \ {x}]
<1> DEFINE G == {s \in SUBSET S : \A x \in s : f[s] = w[x] + f[s \ {x}]}
<1>1. ASSUME NEW s \in SUBSET S, \A x \in s : s \ {x} \in G PROVE s \in G
  <2>1. f[s] = IF s = {} THEN 0 ELSE w[Pick(s)] + f[s \ {Pick(s)}]
    BY DEF SumTable
  <2>2. CASE s = {}
    BY <2>1, <2>2
  <2>3. CASE s # {}
    <3> DEFINE p == Pick(s)
    <3>1. p \in s /\ w[p] \in Int /\ s \ {p} \in G
      BY <1>1, <2>3, PickIn
    <3> HIDE DEF p
    <3>2. f[s] = w[p] + f[s \ {p}] /\ f[s \ {p}] \in Int
      BY <2>1, <2>3, SumsType DEF p
    <3>3. ASSUME NEW x \in s, x # p PROVE f[s] = w[x] + f[s \ {x}]
      <4>1. s \ {x} \in G /\ w[x] \in Int /\ p \in s \ {x} /\ x \in s \ {p}
        BY <1>1, <3>1, <3>3
      <4>2. (s \ {p}) \ {x} = (s \ {x}) \ {p}
        OBVIOUS
      <4>3. f[s \ {p}] = w[x] + f[(s \ {x}) \ {p}]
        BY <3>1, <4>1, <4>2
      <4>4. f[s \ {x}] = w[p] + f[(s \ {x}) \ {p}] /\ f[s \ {x}] \in Int
        BY <4>1, SumsType
      <4>5. f[(s \ {x}) \ {p}] \in Int
        BY SumsType
      <4> QED  BY <3>1, <3>2, <4>1, <4>3, <4>4, <4>5
    <3> QED  BY <3>1, <3>2, <3>3
  <2> QED  BY <2>2, <2>3
<1>2. SUBSET S \subseteq G
  <2>1. G \in SUBSET SUBSET S
    OBVIOUS
  <2> HIDE DEF G
  <2> QED  BY <1>1, <2>1, SubsetInduction
<1> QED  BY <1>2

\* The sum of nothing is 0.
LEMMA SumEmpty == ASSUME NEW w PROVE SumOver(w, {}) = 0
<1>1. PICK f : SumTable(f, w, {})
  BY SumsExist, FS_EmptySet
<1>2. SumOver(w, {}) = f[{}]
  BY <1>1, SumIs, FS_EmptySet
<1> QED  BY <1>1, <1>2 DEF SumTable

\* Sums of integers are integers, and an element contributes its weight.
LEMMA SumTakeOut ==
    ASSUME NEW S, IsFiniteSet(S), NEW w, \A x \in S : w[x] \in Int
    PROVE  /\ SumOver(w, S) \in Int
           /\ \A x \in S : SumOver(w, S) = w[x] + SumOver(w, S \ {x})
<1>1. PICK f : SumTable(f, w, S)
  BY SumsExist
<1>2. SumOver(w, S) = f[S]
  BY <1>1, SumIs
<1>3. ASSUME NEW x \in S PROVE SumOver(w, S \ {x}) = f[S \ {x}]
  BY <1>1, SumIs, FS_Subset
<1>4. f[S] \in Int
  BY <1>1, SumsType
<1>5. \A x \in S : f[S] = w[x] + f[S \ {x}]
  BY <1>1, SumsTakeOut
<1> QED  BY <1>2, <1>3, <1>4, <1>5

\* Only the weights of the elements count.
LEMMA SumSame ==
    ASSUME NEW S, IsFiniteSet(S), NEW v, NEW w, \A x \in S : v[x] = w[x]
    PROVE  SumOver(v, S) = SumOver(w, S)
<1>1. PICK f : SumTable(f, w, S)
  BY SumsExist
<1> QED  BY <1>1, SumIs

\* Adding an element adds its weight.
LEMMA SumAdd ==
    ASSUME NEW S, IsFiniteSet(S), NEW w, NEW a, a \notin S, \A x \in S \cup {a} : w[x] \in Int
    PROVE  SumOver(w, S \cup {a}) = w[a] + SumOver(w, S)
<1>1. (S \cup {a}) \ {a} = S /\ IsFiniteSet(S \cup {a})
  BY FS_AddElement
<1> QED  BY <1>1, SumTakeOut

\* The sum of one element.
LEMMA SumOne ==
    ASSUME NEW w, NEW a, w[a] \in Int
    PROVE  SumOver(w, {a}) = w[a]
<1>1. {} \cup {a} = {a} /\ a \notin {} /\ IsFiniteSet({})
  BY FS_EmptySet
<1>2. SumOver(w, {a}) = w[a] + SumOver(w, {})
  BY <1>1, SumAdd
<1> QED  BY <1>2, SumEmpty

\* A change of the weight of one element changes the sum by as much.
LEMMA SumChange ==
    ASSUME NEW S, IsFiniteSet(S), NEW v, NEW w, NEW a \in S, \A x \in S : v[x] \in Int,
           w[a] \in Int, \A x \in S : x # a => w[x] = v[x]
    PROVE  SumOver(w, S) = SumOver(v, S) + w[a] - v[a]
<1>1. IsFiniteSet(S \ {a})
  BY FS_RemoveElement
<1>2. SumOver(w, S \ {a}) = SumOver(v, S \ {a})
  BY <1>1, SumSame
<1>3. SumOver(v, S) = v[a] + SumOver(v, S \ {a}) /\ SumOver(v, S \ {a}) \in Int
  BY <1>1, SumTakeOut
<1>4. SumOver(w, S) = w[a] + SumOver(w, S \ {a})
  BY SumTakeOut
<1> QED  BY <1>2, <1>3, <1>4

\* The sum over a set is that over a part and that over the rest.
LEMMA SumSplit ==
    ASSUME NEW S, IsFiniteSet(S), NEW w, \A x \in S : w[x] \in Int, NEW T, T \subseteq S
    PROVE  SumOver(w, S) = SumOver(w, T) + SumOver(w, S \ T)
<1> DEFINE G == {s \in SUBSET T : SumOver(w, S) = SumOver(w, s) + SumOver(w, S \ s)}
<1>1. ASSUME NEW s \in SUBSET T, \A x \in s : s \ {x} \in G PROVE s \in G
  <2>1. CASE s = {}
    <3>1. S \ {} = S /\ SumOver(w, S) \in Int
      BY SumTakeOut
    <3> QED  BY <2>1, <3>1, SumEmpty
  <2>2. CASE s # {}
    <3>1. PICK x \in s : TRUE
      BY <2>2
    <3>2. SumOver(w, S) = SumOver(w, s \ {x}) + SumOver(w, S \ (s \ {x}))
      BY <1>1
    <3>3. /\ SumOver(w, s) = w[x] + SumOver(w, s \ {x})
          /\ SumOver(w, s) \in Int /\ SumOver(w, s \ {x}) \in Int
      BY FS_Subset, SumTakeOut
    <3>4. (S \ (s \ {x})) \ {x} = S \ s /\ x \in S \ (s \ {x}) /\ IsFiniteSet(S \ (s \ {x}))
      BY FS_Subset
    <3>5. \A y \in S \ (s \ {x}) : w[y] \in Int
      OBVIOUS
    <3>6. SumOver(w, S \ (s \ {x})) = w[x] + SumOver(w, (S \ (s \ {x})) \ {x})
      BY <3>4, <3>5, SumTakeOut
    <3>7. SumOver(w, S \ s) \in Int /\ w[x] \in Int
      BY FS_Subset, SumTakeOut
    <3>8. SumOver(w, S \ (s \ {x})) = w[x] + SumOver(w, S \ s)
      BY <3>4, <3>6
    <3>9. SumOver(w, S) = SumOver(w, s) + SumOver(w, S \ s)
      BY <3>2, <3>3, <3>7, <3>8
    <3> QED  BY <3>9
  <2> QED  BY <2>1, <2>2
<1>2. SUBSET T \subseteq G
  <2>1. G \in SUBSET SUBSET T /\ IsFiniteSet(T)
    BY FS_Subset
  <2> HIDE DEF G
  <2> QED  BY <1>1, <2>1, SubsetInduction
<1> QED  BY <1>2

\* The sum of nothing but zeros.
LEMMA SumZero ==
    ASSUME NEW S, IsFiniteSet(S), NEW w, \A x \in S : w[x] = 0
    PROVE  SumOver(w, S) = 0
<1> DEFINE G == {s \in SUBSET S : SumOver(w, s) = 0}
<1>1. ASSUME NEW s \in SUBSET S, \A x \in s : s \ {x} \in G PROVE s \in G
  <2>1. CASE s = {}
    BY <2>1, SumEmpty
  <2>2. CASE s # {}
    <3>1. PICK x \in s : TRUE
      BY <2>2
    <3>2. IsFiniteSet(s) /\ \A y \in s : w[y] \in Int
      BY FS_Subset
    <3>3. SumOver(w, s) = w[x] + SumOver(w, s \ {x})
      BY <3>2, SumTakeOut
    <3> QED  BY <1>1, <3>3
  <2> QED  BY <2>1, <2>2
<1>2. SUBSET S \subseteq G
  <2>1. G \in SUBSET SUBSET S
    OBVIOUS
  <2> HIDE DEF G
  <2> QED  BY <1>1, <2>1, SubsetInduction
<1> QED  BY <1>2

\* Larger weights have a larger sum.
LEMMA SumMonotone ==
    ASSUME NEW S, IsFiniteSet(S), NEW v, NEW w,
           \A x \in S : v[x] \in Int /\ w[x] \in Int /\ v[x] <= w[x]
    PROVE  SumOver(v, S) <= SumOver(w, S)
<1> DEFINE G == {s \in SUBSET S : SumOver(v, s) <= SumOver(w, s)}
<1>1. ASSUME NEW s \in SUBSET S, \A x \in s : s \ {x} \in G PROVE s \in G
  <2>1. CASE s = {}
    BY <2>1, SumEmpty
  <2>2. CASE s # {}
    <3>1. PICK x \in s : TRUE
      BY <2>2
    <3>2. IsFiniteSet(s) /\ IsFiniteSet(s \ {x})
      BY FS_Subset
    <3>3. /\ SumOver(v, s) = v[x] + SumOver(v, s \ {x})
          /\ SumOver(w, s) = w[x] + SumOver(w, s \ {x})
          /\ SumOver(v, s \ {x}) \in Int /\ SumOver(w, s \ {x}) \in Int
      BY <3>2, SumTakeOut
    <3>4. SumOver(v, s \ {x}) <= SumOver(w, s \ {x})
      BY <1>1
    <3>5. v[x] \in Int /\ w[x] \in Int /\ v[x] <= w[x]
      OBVIOUS
    <3>6. SumOver(v, s) <= SumOver(w, s)
      BY <3>3, <3>4, <3>5
    <3> QED  BY <3>6
  <2> QED  BY <2>1, <2>2
<1>2. SUBSET S \subseteq G
  <2>1. G \in SUBSET SUBSET S
    OBVIOUS
  <2> HIDE DEF G
  <2> QED  BY <1>1, <2>1, SubsetInduction
<1> QED  BY <1>2

\* Natural weights have a natural sum, and a part no more than the whole.
LEMMA SumNat ==
    ASSUME NEW S, IsFiniteSet(S), NEW w, \A x \in S : w[x] \in Nat, NEW T, T \subseteq S
    PROVE  SumOver(w, T) \in Nat /\ SumOver(w, T) <= SumOver(w, S)
<1> DEFINE zero == [x \in S |-> 0]
<1>1. ASSUME NEW U, U \subseteq S PROVE SumOver(w, U) \in Nat
  <2>1. IsFiniteSet(U) /\ \A x \in U : zero[x] \in Int /\ w[x] \in Int /\ zero[x] <= w[x]
    BY <1>1, FS_Subset
  <2>2. SumOver(zero, U) = 0
    BY <1>1, <2>1, SumZero
  <2> HIDE DEF zero
  <2> QED  BY <2>1, <2>2, SumMonotone, SumTakeOut
<1>2. SumOver(w, S) = SumOver(w, T) + SumOver(w, S \ T)
  BY SumSplit
<1>3. SumOver(w, T) \in Nat /\ SumOver(w, S \ T) \in Nat
  BY <1>1
<1> QED  BY <1>2, <1>3

\* Elements without a weight may be left out.
LEMMA SumRestrict ==
    ASSUME NEW S, IsFiniteSet(S), NEW v, NEW w, NEW T, T \subseteq S,
           \A x \in S : v[x] \in Int /\ v[x] = IF x \in T THEN w[x] ELSE 0
    PROVE  SumOver(v, S) = SumOver(w, T)
<1>1. SumOver(v, S) = SumOver(v, T) + SumOver(v, S \ T)
  BY SumSplit
<1>2. SumOver(v, T) = SumOver(w, T)
  BY FS_Subset, SumSame
<1>3. SumOver(v, S \ T) = 0
  BY FS_Subset, SumZero
<1>4. SumOver(v, T) \in Int
  BY FS_Subset, SumTakeOut
<1> QED  BY <1>1, <1>2, <1>3, <1>4

\* The sum of sums is the sum of the weights added.
LEMMA SumPlus ==
    ASSUME NEW S, IsFiniteSet(S), NEW u, NEW v, NEW w,
           \A x \in S : u[x] \in Int /\ v[x] \in Int /\ w[x] = u[x] + v[x]
    PROVE  SumOver(w, S) = SumOver(u, S) + SumOver(v, S)
<1> DEFINE G == {s \in SUBSET S : SumOver(w, s) = SumOver(u, s) + SumOver(v, s)}
<1>1. ASSUME NEW s \in SUBSET S, \A x \in s : s \ {x} \in G PROVE s \in G
  <2>1. CASE s = {}
    BY <2>1, SumEmpty
  <2>2. CASE s # {}
    <3>1. PICK x \in s : TRUE
      BY <2>2
    <3>2. IsFiniteSet(s) /\ IsFiniteSet(s \ {x})
      BY FS_Subset
    <3>3. \A y \in s : u[y] \in Int /\ v[y] \in Int /\ w[y] \in Int
      OBVIOUS
    <3>4. /\ SumOver(u, s) = u[x] + SumOver(u, s \ {x})
          /\ SumOver(v, s) = v[x] + SumOver(v, s \ {x})
          /\ SumOver(w, s) = w[x] + SumOver(w, s \ {x})
          /\ SumOver(u, s \ {x}) \in Int /\ SumOver(v, s \ {x}) \in Int
      BY <3>2, <3>3, SumTakeOut
    <3>5. SumOver(w, s \ {x}) = SumOver(u, s \ {x}) + SumOver(v, s \ {x})
      BY <1>1
    <3>6. u[x] \in Int /\ v[x] \in Int /\ w[x] = u[x] + v[x]
      OBVIOUS
    <3>7. SumOver(w, s) = SumOver(u, s) + SumOver(v, s)
      BY <3>4, <3>5, <3>6
    <3> QED  BY <3>7
  <2> QED  BY <2>1, <2>2
<1>2. SUBSET S \subseteq G
  <2>1. G \in SUBSET SUBSET S
    OBVIOUS
  <2> HIDE DEF G
  <2> QED  BY <1>1, <2>1, SubsetInduction
<1> QED  BY <1>2

\* The sum over a set is the sum of the sums over its classes: k gives the class of each
\* element, and part the sum of each class.
LEMMA SumClasses ==
    ASSUME NEW S, IsFiniteSet(S), NEW w, \A x \in S : w[x] \in Int,
           NEW K, IsFiniteSet(K), NEW k, NEW part,
           \A c \in K : part[c] = SumOver(w, {x \in S : k[x] = c}),
           \A x \in S : k[x] \in K
    PROVE  SumOver(part, K) = SumOver(w, S)
<1> DEFINE Of(C) == {x \in S : k[x] \in C}
           G == {C \in SUBSET K : SumOver(part, C) = SumOver(w, Of(C))}
<1>1. ASSUME NEW C \in SUBSET K, \A c \in C : C \ {c} \in G PROVE C \in G
  <2>1. CASE C = {}
    <3>1. Of(C) = {}
      BY <2>1
    <3> QED  BY <2>1, <3>1, SumEmpty
  <2>2. CASE C # {}
    <3>1. PICK c \in C : TRUE
      BY <2>2
    <3> DEFINE own == {x \in S : k[x] = c}
    <3>2. IsFiniteSet(C) /\ \A d \in C : part[d] \in Int
      <4>1. ASSUME NEW d \in K PROVE SumOver(w, {x \in S : k[x] = d}) \in Int
        BY FS_Subset, SumTakeOut
      <4> QED  BY <4>1, FS_Subset
    <3>3. SumOver(part, C) = part[c] + SumOver(part, C \ {c})
      BY <3>2, SumTakeOut
    <3>4. SumOver(part, C \ {c}) = SumOver(w, Of(C \ {c}))
      BY <1>1
    <3>5. IsFiniteSet(Of(C)) /\ own \subseteq Of(C) /\ Of(C) \ own = Of(C \ {c})
      BY FS_Subset
    <3>6. SumOver(w, Of(C)) = SumOver(w, own) + SumOver(w, Of(C) \ own)
      BY <3>5, SumSplit
    <3>7. part[c] = SumOver(w, own)
      OBVIOUS
    <3>8. SumOver(part, C) = SumOver(w, Of(C))
      BY <3>3, <3>4, <3>5, <3>6, <3>7
    <3> QED  BY <3>8
  <2> QED  BY <2>1, <2>2
<1>2. SUBSET K \subseteq G
  <2>1. G \in SUBSET SUBSET K
    OBVIOUS
  <2> HIDE DEF G
  <2> QED  BY <1>1, <2>1, SubsetInduction
<1>3. Of(K) = S
  OBVIOUS
<1> QED  BY <1>2, <1>3

-----------------------------------------------------------------------------
(* Sums along sequences.                                                   *)

\* f is the running total of w up to n, as the recursive functions of the models compute it.
RunningTotal(f, w, n) == f = [k \in 0 .. n |-> IF k = 0 THEN 0 ELSE f[k - 1] + w[k]]

\* The sum up to k + 1 is the sum up to k and the weight of k + 1.
LEMMA SumNext ==
    ASSUME NEW k \in Nat, NEW w, \A j \in 1 .. k + 1 : w[j] \in Int
    PROVE  /\ SumOver(w, 1 .. k + 1) = SumOver(w, 1 .. k) + w[k + 1]
           /\ SumOver(w, 1 .. k) \in Int
<1>1. IsFiniteSet(1 .. k) /\ IsFiniteSet(1 .. k + 1)
  BY FS_Interval
<1>2. k + 1 \in 1 .. k + 1 /\ (1 .. k + 1) \ {k + 1} = 1 .. k
  OBVIOUS
<1>3. SumOver(w, 1 .. k + 1) = w[k + 1] + SumOver(w, (1 .. k + 1) \ {k + 1})
  BY <1>1, <1>2, SumTakeOut
<1>4. \A j \in 1 .. k : w[j] \in Int
  OBVIOUS
<1>5. SumOver(w, 1 .. k) \in Int
  BY <1>1, <1>4, SumTakeOut
<1>6. w[k + 1] \in Int
  OBVIOUS
<1>7. SumOver(w, 1 .. k + 1) = w[k + 1] + SumOver(w, 1 .. k)
  BY <1>2, <1>3
<1> QED  BY <1>5, <1>6, <1>7

\* There is a running total ...
LEMMA RunsExist ==
    ASSUME NEW n \in Nat, NEW w, \A k \in 1 .. n : w[k] \in Int
    PROVE  \E f : RunningTotal(f, w, n)
<1> DEFINE f == [k \in 0 .. n |-> SumOver(w, 1 .. k)]
<1>1. ASSUME NEW k \in 0 .. n PROVE f[k] = IF k = 0 THEN 0 ELSE f[k - 1] + w[k]
  <2>1. CASE k = 0
    <3>1. 1 .. 0 = {}
      OBVIOUS
    <3> QED  BY <2>1, <3>1, SumEmpty
  <2>2. CASE k # 0
    <3>1. k - 1 \in Nat /\ k - 1 \in 0 .. n /\ (k - 1) + 1 = k
      BY <2>2
    <3>2. \A j \in 1 .. (k - 1) + 1 : w[j] \in Int
      BY <3>1
    <3>3. SumOver(w, 1 .. (k - 1) + 1) = SumOver(w, 1 .. k - 1) + w[(k - 1) + 1]
      BY <3>1, <3>2, SumNext
    <3> QED  BY <2>2, <3>1, <3>3
  <2> QED  BY <2>1, <2>2
<1>2. RunningTotal(f, w, n)
  BY <1>1 DEF RunningTotal
<1> QED  BY <1>2

\* ... and what it ends with is the sum over the positions.
LEMMA RunsIs ==
    ASSUME NEW n \in Nat, NEW w, \A k \in 1 .. n : w[k] \in Int, NEW f, RunningTotal(f, w, n)
    PROVE  f[n] = SumOver(w, 1 .. n)
<1> DEFINE N == {k \in Nat : k <= n => f[k] = SumOver(w, 1 .. k)}
<1>1. 0 \in N
  <2>1. 1 .. 0 = {} /\ f[0] = 0
    BY DEF RunningTotal
  <2> QED  BY <2>1, SumEmpty
<1>2. ASSUME NEW k \in Nat, k \in N PROVE k + 1 \in N
  <2>1. SUFFICES ASSUME k + 1 <= n PROVE f[k + 1] = SumOver(w, 1 .. k + 1)
    OBVIOUS
  <2>2. k + 1 \in Nat \ {0} /\ (k + 1) - 1 = k /\ k + 1 \in 0 .. n
        /\ \A j \in 1 .. k + 1 : w[j] \in Int
    BY <2>1
  <2>3. f[k + 1] = f[k] + w[k + 1]
    BY <2>2 DEF RunningTotal
  <2>4. SumOver(w, 1 .. k + 1) = SumOver(w, 1 .. k) + w[k + 1]
    BY <2>2, SumNext
  <2>5. f[k] = SumOver(w, 1 .. k)
    BY <1>2, <2>1
  <2> QED  BY <2>3, <2>4, <2>5
<1>3. Nat \subseteq N
  <2> HIDE DEF N
  <2> QED  BY <1>1, <1>2, Induction
<1> QED  BY <1>3

\* One more weight at the end.
LEMMA SumAppend ==
    ASSUME NEW n \in Nat, NEW v, NEW w, \A k \in 1 .. n : v[k] \in Int /\ w[k] = v[k],
           w[n + 1] \in Int
    PROVE  /\ SumOver(w, 1 .. n + 1) = SumOver(v, 1 .. n) + w[n + 1]
           /\ SumOver(v, 1 .. n) \in Int
<1>1. \A k \in 1 .. n + 1 : w[k] \in Int
  OBVIOUS
<1>2. SumOver(w, 1 .. n + 1) = SumOver(w, 1 .. n) + w[n + 1] /\ SumOver(w, 1 .. n) \in Int
  BY <1>1, SumNext
<1>3. IsFiniteSet(1 .. n)
  BY FS_Interval
<1>4. SumOver(w, 1 .. n) = SumOver(v, 1 .. n)
  BY <1>3, SumSame
<1> QED  BY <1>2, <1>4

\* Sums of integers over positions are integers; that over none is zero.
LEMMA SumPositions ==
    ASSUME NEW n \in Nat, NEW w, \A k \in 1 .. n : w[k] \in Int
    PROVE  SumOver(w, 1 .. n) \in Int /\ (n = 0 => SumOver(w, 1 .. n) = 0)
<1>1. IsFiniteSet(1 .. n)
  BY FS_Interval
<1>2. n = 0 => 1 .. n = {}
  OBVIOUS
<1> QED  BY <1>1, <1>2, SumTakeOut, SumEmpty

\* A sum does not change when its elements are numbered otherwise.
LEMMA SumImage ==
    ASSUME NEW S, IsFiniteSet(S), NEW w, \A x \in S : w[x] \in Int,
           NEW K, IsFiniteSet(K), NEW h, NEW k,
           \A x \in S : k[x] \in K /\ h[k[x]] = x,
           \A c \in K : h[c] \in S /\ k[h[c]] = c,
           NEW v, \A c \in K : v[c] = w[h[c]]
    PROVE  SumOver(v, K) = SumOver(w, S)
<1>1. ASSUME NEW c \in K PROVE v[c] = SumOver(w, {x \in S : k[x] = c})
  <2>1. {x \in S : k[x] = c} = {h[c]}
    OBVIOUS
  <2>2. SumOver(w, {h[c]}) = w[h[c]]
    <3>1. PICK a : a = h[c]
      OBVIOUS
    <3>2. w[a] \in Int
      BY <3>1
    <3>3. SumOver(w, {a}) = w[a]
      BY <3>2, SumOne
    <3> QED  BY <3>1, <3>3
  <2> QED  BY <2>1, <2>2
<1>2. \A x \in S : k[x] \in K
  OBVIOUS
<1> QED  BY <1>1, <1>2, SumClasses

\* What is at most M each is at most M in the mean.
LEMMA SumBounded ==
    ASSUME NEW S, IsFiniteSet(S), NEW M \in Nat, NEW w, \A x \in S : w[x] \in 0 .. M
    PROVE  /\ Cardinality(S) \in Nat
           /\ SumOver(w, S) \in Nat
           /\ SumOver(w, S) <= M * Cardinality(S)
<1> DEFINE G == {s \in SUBSET S : SumOver(w, s) \in Nat /\ SumOver(w, s) <= M * Cardinality(s)}
<1>1. ASSUME NEW s \in SUBSET S, \A x \in s : s \ {x} \in G PROVE s \in G
  <2>1. CASE s = {}
    <3>1. SumOver(w, s) = 0 /\ Cardinality(s) = 0
      BY <2>1, SumEmpty, FS_EmptySet
    <3> QED  BY <3>1
  <2>2. CASE s # {}
    <3>1. PICK x : x \in s
      BY <2>2
    <3>2. IsFiniteSet(s) /\ \A y \in s : w[y] \in Int
      BY FS_Subset
    <3>3. SumOver(w, s) = w[x] + SumOver(w, s \ {x})
      BY <3>1, <3>2, SumTakeOut
    <3>4. Cardinality(s) \in Nat \ {0} /\ Cardinality(s \ {x}) = Cardinality(s) - 1
      BY <3>1, Smaller
    <3>5. PICK n \in Nat \ {0} : n = Cardinality(s)
      BY <3>4
    <3>6. SumOver(w, s \ {x}) \in Nat /\ SumOver(w, s \ {x}) <= M * (n - 1)
      BY <1>1, <3>1, <3>4, <3>5
    <3>7. w[x] \in Nat /\ w[x] <= M
      BY <3>1
    <3>8. M * (n - 1) = M * n - M /\ M * n \in Nat
      OBVIOUS
    <3>9. SumOver(w, s) \in Nat /\ SumOver(w, s) <= M * n
      BY <3>3, <3>6, <3>7, <3>8
    <3> QED  BY <3>5, <3>9
  <2> QED  BY <2>1, <2>2
<1>2. SUBSET S \subseteq G
  <2> HIDE DEF G
  <2>1. G \in SUBSET SUBSET S
    BY DEF G
  <2> QED  BY <1>1, <2>1, SubsetInduction
<1>3. S \in G
  BY <1>2
<1> QED  BY <1>3, FS_CardinalityType

\* Values that are close one by one have sums that are close: half of c times the weights.
LEMMA SumClose ==
    ASSUME NEW S, IsFiniteSet(S), NEW v, NEW w, NEW t, NEW c \in Int,
           \A x \in S : v[x] \in Int /\ w[x] \in Int /\ t[x] \in Int,
           \A x \in S : 2 * (v[x] - w[x]) <= c * t[x] /\ 2 * (w[x] - v[x]) <= c * t[x]
    PROVE  /\ 2 * (SumOver(v, S) - SumOver(w, S)) <= c * SumOver(t, S)
           /\ 2 * (SumOver(w, S) - SumOver(v, S)) <= c * SumOver(t, S)
<1> DEFINE Close(s) == /\ 2 * (SumOver(v, s) - SumOver(w, s)) <= c * SumOver(t, s)
                       /\ 2 * (SumOver(w, s) - SumOver(v, s)) <= c * SumOver(t, s)
           G == {s \in SUBSET S : Close(s)}
<1>1. ASSUME NEW s \in SUBSET S, \A x \in s : s \ {x} \in G PROVE s \in G
  <2>1. CASE s = {}
    <3>1. SumOver(v, s) = 0 /\ SumOver(w, s) = 0 /\ SumOver(t, s) = 0
      BY <2>1, SumEmpty
    <3> QED  BY <3>1
  <2>2. CASE s # {}
    <3>1. PICK x : x \in s
      BY <2>2
    <3>2. IsFiniteSet(s) /\ IsFiniteSet(s \ {x})
          /\ (\A y \in s : v[y] \in Int) /\ (\A y \in s : w[y] \in Int) /\ (\A y \in s : t[y] \in Int)
      BY FS_Subset
    <3>3. /\ SumOver(v, s) = v[x] + SumOver(v, s \ {x})
          /\ SumOver(w, s) = w[x] + SumOver(w, s \ {x})
          /\ SumOver(t, s) = t[x] + SumOver(t, s \ {x})
      BY <3>1, <3>2, SumTakeOut
    <3>4. PICK a \in Int, b \in Int, d \in Int :
              a = SumOver(v, s \ {x}) /\ b = SumOver(w, s \ {x}) /\ d = SumOver(t, s \ {x})
      BY <3>2, SumTakeOut
    <3>5. 2 * (a - b) <= c * d /\ 2 * (b - a) <= c * d
      BY <1>1, <3>1, <3>4
    <3>6. PICK e \in Int, f \in Int, g \in Int : e = v[x] /\ f = w[x] /\ g = t[x]
      BY <3>1
    <3>7. 2 * (e - f) <= c * g /\ 2 * (f - e) <= c * g
      BY <3>1, <3>6
    <3>8. c * (g + d) = c * g + c * d /\ c * g \in Int /\ c * d \in Int
      OBVIOUS
    <3>9. 2 * ((e + a) - (f + b)) <= c * (g + d) /\ 2 * ((f + b) - (e + a)) <= c * (g + d)
      BY <3>5, <3>7, <3>8
    <3> QED  BY <3>3, <3>4, <3>6, <3>9
  <2> QED  BY <2>1, <2>2
<1>2. SUBSET S \subseteq G
  <2> HIDE DEF G
  <2>1. G \in SUBSET SUBSET S
    BY DEF G
  <2> QED  BY <1>1, <2>1, SubsetInduction
<1>3. S \in G
  BY <1>2
<1> QED  BY <1>3

\* The same along a sequence, each position with the weight one.
LEMMA SumCloseEach ==
    ASSUME NEW n \in Nat, NEW v, NEW w, NEW c \in Nat,
           \A x \in 1 .. n : v[x] \in Int /\ w[x] \in Int,
           \A x \in 1 .. n : 2 * (v[x] - w[x]) <= c /\ 2 * (w[x] - v[x]) <= c
    PROVE  /\ 2 * (SumOver(v, 1 .. n) - SumOver(w, 1 .. n)) <= c * n
           /\ 2 * (SumOver(w, 1 .. n) - SumOver(v, 1 .. n)) <= c * n
<1> DEFINE t == [x \in 1 .. n |-> 1]
           S == 1 .. n
<1>1. IsFiniteSet(S) /\ Cardinality(S) = n
  BY FS_Interval
<1>2. \A x \in S : t[x] = 1
  OBVIOUS
<1>3. /\ \A x \in S : v[x] \in Int /\ w[x] \in Int
      /\ \A x \in S : 2 * (v[x] - w[x]) <= c /\ 2 * (w[x] - v[x]) <= c
  OBVIOUS
<1> HIDE DEF t, S
<1>4. SumOver(t, S) \in Nat /\ SumOver(t, S) <= 1 * Cardinality(S)
  <2>1. \A x \in S : t[x] \in 0 .. 1
    BY <1>2
  <2> QED  BY <1>1, <2>1, SumBounded
<1>5. PICK m \in Nat : m = SumOver(t, S) /\ m <= n
  BY <1>1, <1>4
<1>6. 2 * (SumOver(v, S) - SumOver(w, S)) <= c * m /\ 2 * (SumOver(w, S) - SumOver(v, S)) <= c * m
  <2>1. \A x \in S : v[x] \in Int /\ w[x] \in Int /\ t[x] \in Int
    BY <1>2, <1>3
  <2>2. \A x \in S : 2 * (v[x] - w[x]) <= c * t[x] /\ 2 * (w[x] - v[x]) <= c * t[x]
    <3>1. c * 1 = c
      OBVIOUS
    <3> QED  BY <1>2, <1>3, <3>1
  <2>3. c \in Int
    OBVIOUS
  <2>4. /\ 2 * (SumOver(v, S) - SumOver(w, S)) <= c * SumOver(t, S)
        /\ 2 * (SumOver(w, S) - SumOver(v, S)) <= c * SumOver(t, S)
    BY <1>1, <2>1, <2>2, <2>3, SumClose
  <2> QED  BY <1>5, <2>4
<1>7. c * m <= c * n /\ c * m \in Int /\ c * n \in Int
  <2>1. \A a, b \in Nat : a * b \in Nat
    OBVIOUS
  <2>2. c * (n - m) \in Nat /\ c * (n - m) = c * n - c * m
    BY <1>5, <2>1
  <2> QED  BY <2>2
<1>8. SumOver(v, S) \in Int /\ SumOver(w, S) \in Int
  BY <1>1, <1>3, SumTakeOut
<1>9. 2 * (SumOver(v, S) - SumOver(w, S)) <= c * n /\ 2 * (SumOver(w, S) - SumOver(v, S)) <= c * n
  BY <1>6, <1>7, <1>8
<1> QED  BY <1>9 DEF S

-----------------------------------------------------------------------------
(* Folds along a sequence: the accumulator after the positions of a set is *)
(* the step of the greatest from the accumulator after the others.         *)

Greatest(s) == CHOOSE x \in s : \A y \in s : x >= y

LEMMA GreatestIn ==
    ASSUME NEW n \in Nat, NEW s \in SUBSET (1 .. n), s # {}
    PROVE  Greatest(s) \in s /\ Greatest(s) \in 1 .. n
<1> DEFINE T == {n - x : x \in s}
<1>1. T \subseteq Nat /\ T # {}
  <2>1. \A x \in s : n - x \in Nat
    OBVIOUS
  <2> QED  BY <2>1
<1>2. PICK t \in T : \A u \in T : t <= u
  BY <1>1, LeastElement
<1>3. PICK x \in s : t = n - x
  BY <1>2
<1>4. ASSUME NEW y \in s PROVE x >= y
  <2>1. n - y \in T
    OBVIOUS
  <2>2. n - x <= n - y
    BY <1>2, <1>3, <2>1
  <2> QED  BY <2>2
<1> QED  BY <1>3, <1>4 DEF Greatest

FoldTable(f, step, base, S) ==
    \A s \in SUBSET S :
        f[s] = IF s = {} THEN base ELSE step[Greatest(s)][f[s \ {Greatest(s)}]]

\* There is a function of accumulators, for a step whose accumulators are in State.
LEMMA FoldsExist ==
    ASSUME NEW S, IsFiniteSet(S), \A s \in SUBSET S : s # {} => Greatest(s) \in s,
           NEW State, NEW base \in State,
           NEW step, \A x \in S : \A a \in State : step[x][a] \in State
    PROVE  \E f \in [SUBSET S -> State] : FoldTable(f, step, base, S)
<1> DEFINE Value(g, s) == IF s = {} THEN base ELSE step[Greatest(s)][g[s \ {Greatest(s)}]]
           Good(k, f) == \A s \in SUBSET S : Cardinality(s) <= k => f[s] = Value(f, s)
           N == {k \in Nat : \E f \in [SUBSET S -> State] : Good(k, f)}
<1>1. PICK n \in Nat : n = Cardinality(S)
  BY FS_CardinalityType
<1>2. ASSUME NEW s \in SUBSET S, s # {}
      PROVE  /\ Greatest(s) \in S /\ s \ {Greatest(s)} \in SUBSET S
             /\ Cardinality(s) \in Nat
             /\ Cardinality(s \ {Greatest(s)}) = Cardinality(s) - 1
  <2>1. Greatest(s) \in s
    BY <1>2
  <2>2. PICK x \in s : x = Greatest(s)
    BY <2>1
  <2> QED  BY <2>2, Smaller
<1>3. 0 \in N
  <2> DEFINE f == [s \in SUBSET S |-> base]
  <2>1. ASSUME NEW s \in SUBSET S, Cardinality(s) <= 0 PROVE f[s] = Value(f, s)
    <3>1. s = {}
      BY <2>1, FS_Subset, FS_CardinalityType, FS_EmptySet
    <3> QED  BY <3>1
  <2>2. f \in [SUBSET S -> State] /\ Good(0, f)
    BY <2>1
  <2> QED  BY <2>2
<1>4. ASSUME NEW k \in Nat, k \in N PROVE k + 1 \in N
  <2>1. PICK f \in [SUBSET S -> State] : Good(k, f)
    BY <1>4
  <2> DEFINE g == [s \in SUBSET S |-> Value(f, s)]
  <2>2. ASSUME NEW s \in SUBSET S PROVE Value(f, s) \in State
    <3>1. CASE s = {}
      BY <3>1
    <3>2. CASE s # {}
      <4>1. Greatest(s) \in S /\ f[s \ {Greatest(s)}] \in State
        BY <1>2, <2>1, <3>2
      <4>2. step[Greatest(s)][f[s \ {Greatest(s)}]] \in State
        BY <4>1
      <4> QED  BY <3>2, <4>2
    <3> QED  BY <3>1, <3>2
  <2>3. ASSUME NEW s \in SUBSET S, Cardinality(s) <= k PROVE g[s] = f[s]
    BY <2>1, <2>3
  <2>4. ASSUME NEW s \in SUBSET S, Cardinality(s) <= k + 1 PROVE g[s] = Value(g, s)
    <3>1. CASE s = {}
      BY <3>1
    <3>2. CASE s # {}
      <4>1. s \ {Greatest(s)} \in SUBSET S /\ Cardinality(s \ {Greatest(s)}) <= k
        BY <1>2, <2>4, <3>2
      <4>2. g[s \ {Greatest(s)}] = f[s \ {Greatest(s)}]
        <5> HIDE DEF g
        <5> QED  BY <2>3, <4>1
      <4> QED  BY <3>2, <4>2
    <3> QED  BY <3>1, <3>2
  <2>5. g \in [SUBSET S -> State] /\ Good(k + 1, g)
    BY <2>2, <2>4
  <2> HIDE DEF g, Good
  <2> QED  BY <2>5
<1>5. PICK f \in [SUBSET S -> State] : Good(n, f)
  <2>1. Nat \subseteq N
    <3> HIDE DEF N
    <3> QED  BY <1>3, <1>4, Induction
  <2> HIDE DEF Good
  <2> QED  BY <2>1
<1>6. ASSUME NEW s \in SUBSET S PROVE Cardinality(s) <= n
  <2>1. Cardinality(s) <= Cardinality(S)
    BY FS_Subset
  <2> QED  BY <1>1, <2>1
<1> QED  BY <1>5, <1>6 DEF FoldTable

\* A fold stays in a set that its steps do not leave.
LEMMA FoldStays ==
    ASSUME NEW S, IsFiniteSet(S), \A s \in SUBSET S : s # {} => Greatest(s) \in s,
           NEW State, NEW f, f[{}] \in State,
           \A s \in SUBSET S :
               s # {} /\ f[s \ {Greatest(s)}] \in State => f[s] \in State
    PROVE  f[S] \in State
<1> DEFINE G == {s \in SUBSET S : f[s] \in State}
<1>1. ASSUME NEW s \in SUBSET S, \A x \in s : s \ {x} \in G PROVE s \in G
  <2>1. CASE s = {}
    BY <2>1
  <2>2. CASE s # {}
    <3>1. s \ {Greatest(s)} \in G
      BY <1>1, <2>2
    <3> QED  BY <2>2, <3>1
  <2> QED  BY <2>1, <2>2
<1>2. SUBSET S \subseteq G
  <2>1. G \in SUBSET SUBSET S
    OBVIOUS
  <2> HIDE DEF G
  <2> QED  BY <1>1, <2>1, SubsetInduction
<1> QED  BY <1>2
=============================================================================
