---------------------------- MODULE ListsAndSums ----------------------------
(***************************************************************************)
(* Facts about lists and sums that the registries' proofs share: how often *)
(* a value occurs in a list that grows, and what the community modules'    *)
(* SumFunctionOnSet computes. The sum is defined by a fold that takes out  *)
(* chosen elements; the lemmas free it of the choice, by induction over    *)
(* the subsets of a finite set.                                            *)
(***************************************************************************)
EXTENDS Integers, Sequences, Functions, SequenceTheorems, FiniteSetTheorems, TLAPS

-----------------------------------------------------------------------------
(* Occurrences in a list.                                                  *)

Places(s, x) == {i \in DOMAIN s : s[i] = x}

\* A list has finitely many places.
LEMMA PlacesFinite ==
  ASSUME NEW S, NEW s \in Seq(S), NEW x
  PROVE  IsFiniteSet(Places(s, x)) /\ Cardinality(Places(s, x)) \in Nat
<1>1. Len(s) \in Nat /\ DOMAIN s = 1 .. Len(s)
  BY LenProperties
<1>2. IsFiniteSet(1 .. Len(s))
  BY <1>1, FS_Interval
<1>3. Places(s, x) \in SUBSET (1 .. Len(s))
  BY <1>1 DEF Places
<1>4. IsFiniteSet(Places(s, x))
  BY <1>2, <1>3, FS_Subset
<1> QED
  BY <1>4, FS_CardinalityType

\* Appending adds one occurrence of what is appended and none of anything else.
LEMMA AppendCounts ==
  ASSUME NEW S, NEW s \in Seq(S), NEW y \in S, NEW x
  PROVE  Cardinality(Places(Append(s, y), x)) =
           IF x = y THEN Cardinality(Places(s, x)) + 1 ELSE Cardinality(Places(s, x))
<1>1. Len(s) \in Nat /\ DOMAIN s = 1 .. Len(s)
  BY LenProperties
<1>2. /\ DOMAIN Append(s, y) = 1 .. Len(s) + 1
      /\ \A i \in 1 .. Len(s) : Append(s, y)[i] = s[i]
      /\ Append(s, y)[Len(s) + 1] = y
  BY <1>1
<1>3. \A i : i \in 1 .. Len(s) + 1 <=> i \in 1 .. Len(s) \/ i = Len(s) + 1
  BY <1>1
<1>4. CASE x = y
  <2>1. Places(Append(s, y), x) = Places(s, x) \cup {Len(s) + 1}
    BY <1>1, <1>2, <1>3, <1>4 DEF Places
  <2>2. Len(s) + 1 \notin Places(s, x)
    BY <1>1 DEF Places
  <2> QED
    BY <1>4, <2>1, <2>2, PlacesFinite, FS_AddElement
<1>5. CASE x # y
  <2>1. Places(Append(s, y), x) = Places(s, x)
    BY <1>1, <1>2, <1>3, <1>5 DEF Places
  <2> QED
    BY <1>5, <2>1
<1> QED
  BY <1>4, <1>5

-----------------------------------------------------------------------------
(* Sums over a finite set.                                                 *)

\* Some set of a nonempty set of finite sets has none of the others in it.
LEMMA LeastSubset ==
  ASSUME NEW S, IsFiniteSet(S), NEW T, T \subseteq SUBSET S, T # {}
  PROVE  \E t \in T : \A s \in T : s \subseteq t => s = t
<1> DEFINE R == StrictSubsetOrdering(S)
<1>1. IsWellFoundedOn(R, SUBSET S)
  BY FS_StrictSubsetOrderingWellFounded, FS_FiniteSubsetsOfFinite
<1>2. \A s, t \in T : s \subseteq t /\ s # t => <<s, t>> \in R
  BY DEF StrictSubsetOrdering
<1> HIDE DEF R
<1>3. PICK t \in T : \A s \in T : ~(<<s, t>> \in R)
  BY <1>1, WFMin, Zenon
<1> QED
  BY <1>2, <1>3

\* g gives the sum of f over each subset of S, whichever element is taken out.
SumsUp(g, f, S) ==
  /\ g \in [SUBSET S -> Int]
  /\ g[{}] = 0
  /\ \A s \in SUBSET S : \A x \in s : g[s] = f[x] + g[s \ {x}]

\* There are such sums of numbers.
LEMMA SumsExist ==
  ASSUME NEW S, IsFiniteSet(S), NEW f, \A x \in S : f[x] \in Int
  PROVE  \E g : SumsUp(g, f, S)
<1> DEFINE T == {t \in SUBSET S : ~\E g : SumsUp(g, f, t)}
<1>0. S \in SUBSET S
  OBVIOUS
<1> SUFFICES ASSUME ~\E g : SumsUp(g, f, S)
             PROVE  FALSE
  OBVIOUS
<1>1. T \subseteq SUBSET S /\ T # {}
  BY <1>0
<1>2. \A t \in T : t \in SUBSET S /\ ~\E g : SumsUp(g, f, t)
  OBVIOUS
<1>3. \A t \in SUBSET S : t \notin T => \E g : SumsUp(g, f, t)
  OBVIOUS
<1> HIDE DEF T
<1>4. PICK t \in T : \A s \in T : s \subseteq t => s = t
  BY <1>1, LeastSubset
<1>5. CASE t = {}
  <2> DEFINE g == [s \in SUBSET t |-> 0]
  <2>1. SumsUp(g, f, t)
    BY <1>5 DEF SumsUp
  <2> QED
    BY <1>2, <2>1
<1>6. CASE t # {}
  <2>1. PICK x : x \in t
    BY <1>6
  <2>2. t \ {x} \in SUBSET S /\ t \ {x} # t /\ t \ {x} \subseteq t
    BY <1>2, <2>1
  <2>3. PICK g0 : SumsUp(g0, f, t \ {x})
    BY <1>3, <1>4, <2>2
  <2> DEFINE g == [s \in SUBSET t |-> IF x \in s THEN f[x] + g0[s \ {x}] ELSE g0[s]]
  <2>4. t \in SUBSET S /\ f[x] \in Int
    BY <1>2, <2>1
  <2>5. ASSUME NEW s \in SUBSET t
        PROVE  /\ s \ {x} \in SUBSET (t \ {x})
               /\ x \notin s => s \in SUBSET (t \ {x})
               /\ g[s] = IF x \in s THEN f[x] + g0[s \ {x}] ELSE g0[s]
    OBVIOUS
  <2>6. g \in [SUBSET t -> Int]
    <3>1. \A s \in SUBSET t : g[s] \in Int
      BY <2>3, <2>4, <2>5 DEF SumsUp
    <3> QED
      BY <3>1
  <2>7. g[{}] = 0
    BY <2>3 DEF SumsUp
  <2> HIDE DEF g
  <2>8. ASSUME NEW s \in SUBSET t, NEW y \in s
        PROVE  g[s] = f[y] + g[s \ {y}]
    <3>1. s \ {y} \in SUBSET t /\ f[y] \in Int
      BY <2>4
    <3>2. CASE y = x
      <4>1. g[s] = f[x] + g0[s \ {x}]
        BY <2>5, <3>2
      <4>2. g[s \ {x}] = g0[s \ {x}]
        <5>1. x \notin s \ {x} /\ s \ {x} \in SUBSET t
          OBVIOUS
        <5> QED
          BY <2>5, <5>1
      <4> QED
        BY <3>2, <4>1, <4>2
    <3>3. CASE y # x /\ x \in s
      <4> DEFINE r == s \ {x}
      <4>1. g[s] = f[x] + g0[r]
        BY <2>5, <3>3
      <4>2. r \in SUBSET (t \ {x}) /\ y \in r
        BY <3>3
      <4>3. g0[r] = f[y] + g0[r \ {y}] /\ g0[r \ {y}] \in Int
        BY <2>3, <4>2 DEF SumsUp
      <4>4. g[s \ {y}] = f[x] + g0[(s \ {y}) \ {x}]
        BY <2>5, <3>1, <3>3
      <4>5. g[s \ {y}] = f[x] + g0[r \ {y}]
        <5>1. (s \ {y}) \ {x} = r \ {y}
          OBVIOUS
        <5> QED
          BY <4>4, <5>1, Zenon
      <4> HIDE DEF r
      <4> QED
        BY <2>4, <3>1, <4>1, <4>3, <4>5
    <3>4. CASE x \notin s
      <4>1. g[s] = g0[s] /\ s \in SUBSET (t \ {x})
        BY <2>5, <3>4
      <4>2. g[s \ {y}] = g0[s \ {y}]
        BY <2>5, <3>1, <3>4
      <4>3. g0[s] = f[y] + g0[s \ {y}]
        BY <2>3, <4>1 DEF SumsUp
      <4> QED
        BY <4>1, <4>2, <4>3
    <3> QED
      BY <3>2, <3>3, <3>4
  <2>9. SumsUp(g, f, t)
    BY <2>6, <2>7, <2>8 DEF SumsUp
  <2> QED
    BY <1>2, <2>9
<1> QED
  BY <1>5, <1>6

\* The element a fold takes out first.
Taken(s) == CHOOSE x \in s : TRUE

\* What a fold computes by taking out one element after the other is the sum.
LEMMA FoldSumsUp ==
  ASSUME NEW S, IsFiniteSet(S), NEW f, NEW g, SumsUp(g, f, S)
  PROVE  SumFunctionOnSet(f, S) = g[S]
<1> DEFINE Folds(h) ==
      h = [s \in SUBSET S |-> IF s = {} THEN 0 ELSE f[Taken(s)] + h[s \ {Taken(s)}]]
    h0 == CHOOSE h : Folds(h)
<1>1. SumFunctionOnSet(f, S) = h0[S]
  BY DEF SumFunctionOnSet, FoldFunctionOnSet, MapThenFoldSet, Taken
<1>2. \A s \in SUBSET S : s # {} => Taken(s) \in s
  BY DEF Taken
<1>3. Folds(g)
  <2>1. \A s \in SUBSET S :
          g[s] = IF s = {} THEN 0 ELSE f[Taken(s)] + g[s \ {Taken(s)}]
    BY <1>2 DEF SumsUp
  <2>2. g \in [SUBSET S -> Int]
    BY DEF SumsUp
  <2>3. g = [s \in SUBSET S |-> IF s = {} THEN 0 ELSE f[Taken(s)] + g[s \ {Taken(s)}]]
    BY <2>1, <2>2
  <2> QED
    BY <2>3
<1>4. Folds(h0)
  BY <1>3
<1>5. \A s \in SUBSET S : h0[s] = IF s = {} THEN 0 ELSE f[Taken(s)] + h0[s \ {Taken(s)}]
  BY <1>4
<1> HIDE DEF h0, Folds
<1> DEFINE T == {s \in SUBSET S : h0[s] # g[s]}
<1>6. /\ T \subseteq SUBSET S
      /\ \A t \in T : h0[t] # g[t]
      /\ \A t \in SUBSET S : t \notin T => h0[t] = g[t]
  OBVIOUS
<1> HIDE DEF T
<1>7. ASSUME T # {}
      PROVE  FALSE
  <2>1. PICK t \in T : \A s \in T : s \subseteq t => s = t
    BY <1>6, <1>7, LeastSubset
  <2>2. t # {}
    <3>1. {} \in SUBSET S
      OBVIOUS
    <3>2. h0[{}] = 0 /\ g[{}] = 0
      BY <1>5, <3>1 DEF SumsUp
    <3>3. h0[t] # g[t]
      BY <1>6
    <3> QED
      BY <3>2, <3>3
  <2> DEFINE x == Taken(t)
  <2>3. x \in t
    BY <1>2, <1>6, <2>2
  <2> HIDE DEF x
  <2>4. t \ {x} \in SUBSET S /\ t \ {x} # t /\ t \ {x} \subseteq t
    BY <1>6, <2>3
  <2>5. h0[t \ {x}] = g[t \ {x}]
    BY <1>6, <2>1, <2>4
  <2>6. h0[t] = f[x] + h0[t \ {x}]
    <3>1. t \in SUBSET S
      BY <1>6
    <3>2. h0[t] = f[Taken(t)] + h0[t \ {Taken(t)}]
      BY <1>5, <2>2, <3>1
    <3> QED
      BY <3>2 DEF x
  <2>7. g[t] = f[x] + g[t \ {x}]
    <3>1. t \in SUBSET S
      BY <1>6
    <3> QED
      BY <2>3, <3>1 DEF SumsUp
  <2> QED
    BY <1>6, <2>5, <2>6, <2>7
<1>8. S \in SUBSET S
  OBVIOUS
<1> QED
  BY <1>1, <1>6, <1>7, <1>8

\* A sum over nothing is 0.
LEMMA SumOfNone ==
  ASSUME NEW f
  PROVE  SumFunctionOnSet(f, {}) = 0
<1> DEFINE g == [s \in SUBSET {} |-> 0]
<1>1. SumsUp(g, f, {})
  BY DEF SumsUp
<1>2. g[{}] = 0
  OBVIOUS
<1> HIDE DEF g
<1> QED
  BY <1>1, <1>2, FoldSumsUp, FS_EmptySet

\* A sum is an element's value and the sum of the others.
LEMMA SumTakesOut ==
  ASSUME NEW S, IsFiniteSet(S), NEW f, \A x \in S : f[x] \in Int
  PROVE  /\ SumFunctionOnSet(f, S) \in Int
         /\ \A x \in S : SumFunctionOnSet(f, S) = f[x] + SumFunctionOnSet(f, S \ {x})
<1>1. PICK g : SumsUp(g, f, S)
  BY SumsExist
<1>2. SumFunctionOnSet(f, S) = g[S] /\ g[S] \in Int
  <2>1. SumFunctionOnSet(f, S) = g[S]
    BY <1>1, FoldSumsUp
  <2>2. S \in SUBSET S
    OBVIOUS
  <2>3. g[S] \in Int
    BY <1>1, <2>2 DEF SumsUp
  <2> QED
    BY <2>1, <2>3
<1>3. ASSUME NEW x \in S
      PROVE  g[S] = f[x] + SumFunctionOnSet(f, S \ {x})
  <2> DEFINE R == S \ {x}
             h == [s \in SUBSET R |-> g[s]]
  <2>1. R \in SUBSET S /\ \A s \in SUBSET R : s \in SUBSET S
    OBVIOUS
  <2>2. \A s \in SUBSET R : h[s] = g[s]
    OBVIOUS
  <2>3. h \in [SUBSET R -> Int]
    BY <1>1, <2>1 DEF SumsUp
  <2> HIDE DEF h
  <2>4. SumsUp(h, f, R)
    <3>1. h[{}] = 0
      BY <1>1, <2>2 DEF SumsUp
    <3>2. ASSUME NEW s \in SUBSET R, NEW y \in s
          PROVE  h[s] = f[y] + h[s \ {y}]
      <4>1. s \ {y} \in SUBSET R /\ s \in SUBSET S
        BY <2>1
      <4>2. g[s] = f[y] + g[s \ {y}]
        BY <1>1, <4>1 DEF SumsUp
      <4> QED
        BY <2>2, <4>1, <4>2
    <3> QED
      BY <2>3, <3>1, <3>2 DEF SumsUp
  <2>5. IsFiniteSet(R)
    BY FS_RemoveElement
  <2> HIDE DEF R
  <2>6. SumFunctionOnSet(f, R) = h[R]
    BY <2>4, <2>5, FoldSumsUp
  <2>7. h[R] = g[R]
    BY <2>2
  <2>8. S \in SUBSET S
    OBVIOUS
  <2>9. g[S] = f[x] + g[R]
    BY <1>1, <2>8 DEF SumsUp, R
  <2> QED
    BY <2>6, <2>7, <2>9 DEF R
<1> QED
  BY <1>2, <1>3

\* There are n numbers from 1 to n.
LEMMA CountUp ==
  ASSUME NEW n \in Nat
  PROVE  IsFiniteSet(1 .. n) /\ Cardinality(1 .. n) = n
<1>1. IsFiniteSet(1 .. n)
  BY FS_Interval
<1>2. Cardinality(1 .. n) = IF 1 > n THEN 0 ELSE n - 1 + 1
  BY FS_Interval
<1>3. Cardinality(1 .. n) = n
  BY <1>2
<1> QED
  BY <1>1, <1>3

\* The units below f[x], for each x: a sum of natural numbers counts them.
Units(f, S, N) == {p \in S \X (1 .. N) : p[2] <= f[p[1]]}

\* One number has as many units as it says.
LEMMA UnitsOfOne ==
  ASSUME NEW N \in Nat, NEW x, NEW f, f[x] \in 0 .. N
  PROVE  IsFiniteSet(Units(f, {x}, N)) /\ Cardinality(Units(f, {x}, N)) = f[x]
<1> DEFINE n == f[x]
           I == 1 .. n
           B == [i \in I |-> <<x, i>>]
<1>0. n \in Nat /\ n <= N
  OBVIOUS
<1> HIDE DEF n
<1>1. IsFiniteSet(I) /\ Cardinality(I) = n
  BY <1>0, CountUp
<1>2. B \in Bijection(I, Units(f, {x}, N))
  <2>1. \A i \in I : <<x, i>> \in Units(f, {x}, N)
    BY <1>0 DEF Units, n
  <2>2. \A p \in Units(f, {x}, N) : \E i \in I : p = <<x, i>>
    BY <1>0 DEF Units, n
  <2> QED
    BY <2>1, <2>2 DEF Bijection, Injection, Surjection, IsInjective
<1> HIDE DEF I, B
<1>3. ExistsBijection(I, Units(f, {x}, N))
  BY <1>2 DEF ExistsBijection
<1> QED
  BY <1>1, <1>3, FS_Bijection DEF n

\* A sum of natural numbers is the number of their units.
LEMMA SumCountsUnits ==
  ASSUME NEW S, IsFiniteSet(S), NEW N \in Nat, NEW f, \A x \in S : f[x] \in 0 .. N
  PROVE  /\ IsFiniteSet(Units(f, S, N))
         /\ SumFunctionOnSet(f, S) = Cardinality(Units(f, S, N))
<1>1. \A s \in SUBSET S : IsFiniteSet(Units(f, s, N))
  <2> TAKE s \in SUBSET S
  <2>1. IsFiniteSet(s) /\ IsFiniteSet(1 .. N)
    <3>1. IsFiniteSet(s)
      BY FS_Subset
    <3>2. IsFiniteSet(1 .. N)
      BY FS_Interval
    <3> QED
      BY <3>1, <3>2
  <2>2. IsFiniteSet(s \X (1 .. N))
    BY <2>1, FS_Product
  <2>3. Units(f, s, N) \in SUBSET (s \X (1 .. N))
    BY DEF Units
  <2> QED
    BY <2>2, <2>3, FS_Subset
<1> DEFINE g == [s \in SUBSET S |-> Cardinality(Units(f, s, N))]
<1>2. \A s \in SUBSET S : g[s] = Cardinality(Units(f, s, N)) /\ g[s] \in Nat
  BY <1>1, FS_CardinalityType
<1>3. g \in [SUBSET S -> Int]
  BY <1>1, FS_CardinalityType
<1> HIDE DEF g
<1>4. g[{}] = 0
  <2>1. Units(f, {}, N) = {} /\ {} \in SUBSET S
    BY DEF Units
  <2> QED
    BY <1>2, <2>1, FS_EmptySet
<1>5. ASSUME NEW s \in SUBSET S, NEW x \in s
      PROVE  g[s] = f[x] + g[s \ {x}]
  <2> DEFINE r == s \ {x}
             one == Units(f, {x}, N)
             rest == Units(f, r, N)
  <2>1. r \in SUBSET S /\ f[x] \in 0 .. N
    OBVIOUS
  <2>2. Units(f, s, N) = one \cup rest /\ one \cap rest = {}
    BY DEF Units
  <2>3. IsFiniteSet(one) /\ Cardinality(one) = f[x]
    BY <2>1, UnitsOfOne
  <2>4. IsFiniteSet(rest) /\ Cardinality(rest) = g[r] /\ g[r] \in Nat
    BY <1>1, <1>2, <2>1
  <2> HIDE DEF one, rest
  <2>5. Cardinality(one \cup rest) =
          Cardinality(one) + Cardinality(rest) - Cardinality(one \cap rest)
    BY <2>3, <2>4, FS_Union
  <2>6. Cardinality(one \cap rest) = 0
    BY <2>2, FS_EmptySet
  <2>7. Cardinality(Units(f, s, N)) = f[x] + g[r]
    BY <2>1, <2>2, <2>3, <2>4, <2>5, <2>6
  <2> QED
    BY <1>2, <2>7
<1>6. SumsUp(g, f, S)
  BY <1>3, <1>4, <1>5 DEF SumsUp
<1>7. S \in SUBSET S
  OBVIOUS
<1> QED
  BY <1>1, <1>2, <1>6, <1>7, FoldSumsUp

\* F leads one to one from S into T, to the same values, and leaves out only zeros.
Reindexes(F, f, S, g, T) ==
  /\ \A y \in T : g[y] \in Int
  /\ \A x \in S : F[x] \in T /\ f[x] = g[F[x]]
  /\ \A x, y \in S : F[x] = F[y] => x = y
  /\ \A y \in T : (\A x \in S : F[x] # y) => g[y] = 0

\* Numbering the elements of a set anew does not change a sum, nor does adding
\* elements of value 0.
LEMMA SumReindexes ==
  ASSUME NEW S, IsFiniteSet(S), NEW T, IsFiniteSet(T), NEW f, NEW g, NEW F,
         Reindexes(F, f, S, g, T)
  PROVE  SumFunctionOnSet(f, S) = SumFunctionOnSet(g, T)
<1> USE DEF Reindexes
<1> DEFINE Im(s) == {F[x] : x \in s}
<1>1. PICK h : SumsUp(h, g, T)
  BY SumsExist
<1>2. \A s \in SUBSET S : Im(s) \in SUBSET T
  OBVIOUS
<1>3. \A s \in SUBSET S : \A x \in s : F[x] \in Im(s) /\ Im(s) \ {F[x]} = Im(s \ {x})
  OBVIOUS
<1>4. Im({}) = {}
  OBVIOUS
<1>5. \A y \in T \ Im(S) : g[y] = 0
  OBVIOUS
<1>6. S \in SUBSET S /\ T \in SUBSET T
  OBVIOUS
<1> HIDE DEF Im
<1>7. SumFunctionOnSet(f, S) = h[Im(S)]
  <2> DEFINE k == [s \in SUBSET S |-> h[Im(s)]]
  <2>1. \A s \in SUBSET S : k[s] = h[Im(s)] /\ k[s] \in Int
    BY <1>1, <1>2 DEF SumsUp
  <2>2. k \in [SUBSET S -> Int]
    BY <2>1
  <2> HIDE DEF k
  <2>3. k[{}] = 0
    <3>1. {} \in SUBSET S
      OBVIOUS
    <3> QED
      BY <1>1, <1>4, <2>1, <3>1 DEF SumsUp
  <2>4. ASSUME NEW s \in SUBSET S, NEW x \in s
        PROVE  k[s] = f[x] + k[s \ {x}]
    <3>1. s \ {x} \in SUBSET S /\ f[x] = g[F[x]]
      OBVIOUS
    <3>2. h[Im(s)] = g[F[x]] + h[Im(s) \ {F[x]}]
      BY <1>1, <1>2, <1>3 DEF SumsUp
    <3> QED
      BY <1>3, <2>1, <3>1, <3>2
  <2>5. SumsUp(k, f, S)
    BY <2>2, <2>3, <2>4 DEF SumsUp
  <2> QED
    BY <1>6, <2>1, <2>5, FoldSumsUp
<1>8. SumFunctionOnSet(g, T) = h[Im(S)]
  <2> DEFINE R == Im(S)
             k == [s \in SUBSET T |-> h[s \cap R]]
  <2>1. \A s \in SUBSET T : s \cap R \in SUBSET T
    OBVIOUS
  <2>2. \A s \in SUBSET T : k[s] = h[s \cap R] /\ k[s] \in Int
    BY <1>1, <2>1 DEF SumsUp
  <2>3. k \in [SUBSET T -> Int]
    BY <2>2
  <2>4. R \in SUBSET T
    BY <1>2, <1>6
  <2> HIDE DEF k, R
  <2>5. k[{}] = 0
    <3>1. {} \in SUBSET T /\ {} \cap R = {}
      OBVIOUS
    <3> QED
      BY <1>1, <2>2, <3>1 DEF SumsUp
  <2>6. ASSUME NEW s \in SUBSET T, NEW y \in s
        PROVE  k[s] = g[y] + k[s \ {y}]
    <3>1. s \ {y} \in SUBSET T
      OBVIOUS
    <3>2. CASE y \in R
      <4>1. y \in s \cap R /\ (s \cap R) \ {y} = (s \ {y}) \cap R
        BY <3>2
      <4>2. h[s \cap R] = g[y] + h[(s \cap R) \ {y}]
        BY <1>1, <2>1, <4>1 DEF SumsUp
      <4> QED
        BY <2>2, <3>1, <4>1, <4>2
    <3>3. CASE y \notin R
      <4>1. s \cap R = (s \ {y}) \cap R
        BY <3>3
      <4>2. g[y] = 0
        BY <1>5, <3>3 DEF R
      <4>3. k[s] = k[s \ {y}]
        BY <2>2, <3>1, <4>1
      <4>4. k[s \ {y}] \in Int
        BY <2>2, <3>1
      <4> QED
        BY <4>2, <4>3, <4>4
    <3> QED
      BY <3>2, <3>3
  <2>7. SumsUp(k, g, T)
    BY <2>3, <2>5, <2>6 DEF SumsUp
  <2>8. SumFunctionOnSet(g, T) = k[T]
    BY <2>7, FoldSumsUp
  <2>9. T \cap R = R
    BY <2>4
  <2> QED
    BY <1>6, <2>2, <2>8, <2>9 DEF R
<1> QED
  BY <1>7, <1>8

-----------------------------------------------------------------------------
(* Numbers.                                                                *)

\* Some set of numbers up to M that is not empty has a least one.
LEMMA LeastNumber ==
  ASSUME NEW M \in Nat, NEW N, N \subseteq 0 .. M, N # {}
  PROVE  \E t \in N : \A s \in N : t <= s
<1> DEFINE D == 1 .. M
           T == {1 .. n : n \in N}
<1>1. IsFiniteSet(D)
  BY CountUp
<1>2. T \subseteq SUBSET D /\ T # {}
  <2>1. \A n \in N : 1 .. n \in SUBSET D
    OBVIOUS
  <2> HIDE DEF D
  <2> QED
    BY <2>1
<1>3. \A n \in N : 1 .. n \in T
  OBVIOUS
<1>4. \A t \in T : \E n \in N : t = 1 .. n
  OBVIOUS
<1> HIDE DEF T, D
<1>5. PICK t \in T : \A s \in T : s \subseteq t => s = t
  BY <1>1, <1>2, LeastSubset
<1>6. PICK n \in N : t = 1 .. n
  BY <1>4
<1>7. ASSUME NEW m \in N
      PROVE  n <= m
  <2>1. SUFFICES ASSUME m < n
                 PROVE  FALSE
    OBVIOUS
  <2>2. 1 .. m \subseteq 1 .. n /\ n \in 1 .. n /\ n \notin 1 .. m
    BY <2>1
  <2> QED
    BY <1>3, <1>5, <1>6, <2>2
<1> QED
  BY <1>7

\* Of finitely many bounded numbers there is a first greatest one.
LEMMA FirstGreatest ==
  ASSUME NEW M \in Nat, NEW B \in Nat, NEW F \in [0 .. M -> 0 .. B]
  PROVE  \E d \in 0 .. M : \A e \in 0 .. M : F[e] <= F[d] /\ (F[e] = F[d] => d <= e)
<1> DEFINE Gaps == {B - F[d] : d \in 0 .. M}
           Tops == {d \in 0 .. M : \A e \in 0 .. M : F[e] <= F[d]}
<1>1. PICK d \in 0 .. M : \A e \in 0 .. M : F[e] <= F[d]
  <2>1. 0 \in 0 .. M
    OBVIOUS
  <2>2. Gaps \subseteq 0 .. B /\ Gaps # {}
    BY <2>1
  <2>3. \A e \in 0 .. M : B - F[e] \in Gaps
    OBVIOUS
  <2>4. \A g \in Gaps : \E d \in 0 .. M : g = B - F[d]
    OBVIOUS
  <2> HIDE DEF Gaps
  <2>5. PICK g \in Gaps : \A h \in Gaps : g <= h
    BY <2>2, LeastNumber
  <2>6. PICK d \in 0 .. M : g = B - F[d]
    BY <2>4
  <2>7. \A e \in 0 .. M : B - F[d] <= B - F[e]
    BY <2>3, <2>5, <2>6
  <2>8. \A e \in 0 .. M : F[e] <= F[d]
    BY <2>7
  <2> QED
    BY <2>8
<1>2. Tops \subseteq 0 .. M /\ Tops # {}
  BY <1>1
<1>3. \A t \in Tops : \A e \in 0 .. M : F[e] <= F[t]
  OBVIOUS
<1>4. \A t \in 0 .. M : (\A e \in 0 .. M : F[e] <= F[t]) => t \in Tops
  OBVIOUS
<1> HIDE DEF Tops
<1>5. PICK t \in Tops : \A s \in Tops : t <= s
  BY <1>2, LeastNumber
<1>6. t \in 0 .. M
  BY <1>2
<1>7. ASSUME NEW e \in 0 .. M, F[e] = F[t]
      PROVE  t <= e
  <2>1. \A x \in 0 .. M : F[x] <= F[e]
    BY <1>3, <1>7
  <2> QED
    BY <1>4, <1>5, <2>1
<1> QED
  BY <1>3, <1>6, <1>7

\* g has the powers of ten up to M.
IsPowers(g, M) == g = [n \in 0 .. M |-> IF n = 0 THEN 1 ELSE 10 * g[n - 1]]

\* There is such a function.
LEMMA PowersExist ==
  ASSUME NEW M \in Nat
  PROVE  \E g : IsPowers(g, M)
<1> DEFINE Bad == {m \in 0 .. M : ~\E g : IsPowers(g, m)}
<1> SUFFICES ASSUME ~\E g : IsPowers(g, M)
             PROVE  FALSE
  OBVIOUS
<1>1. M \in Bad /\ Bad \subseteq 0 .. M
  OBVIOUS
<1>2. /\ \A m \in Bad : ~\E g : IsPowers(g, m)
      /\ \A m \in 0 .. M : m \notin Bad => \E g : IsPowers(g, m)
  OBVIOUS
<1> HIDE DEF Bad
<1>3. PICK m \in Bad : \A k \in Bad : m <= k
  <2>1. Bad # {}
    BY <1>1
  <2> QED
    BY <1>1, <2>1, LeastNumber
<1>4. CASE m = 0
  <2> DEFINE g == [n \in 0 .. 0 |-> 1]
  <2>1. g = [n \in 0 .. 0 |-> IF n = 0 THEN 1 ELSE 10 * g[n - 1]]
    OBVIOUS
  <2>2. IsPowers(g, 0)
    BY <2>1 DEF IsPowers
  <2> QED
    BY <1>2, <1>4, <2>2
<1>5. CASE m # 0
  <2>1. m \in 0 .. M /\ m - 1 \in 0 .. M /\ ~(m <= m - 1)
    BY <1>1, <1>5
  <2>2. PICK h : IsPowers(h, m - 1)
    BY <1>2, <1>3, <2>1
  <2>3. \A n \in 0 .. m - 1 : h[n] = IF n = 0 THEN 1 ELSE 10 * h[n - 1]
    BY <2>2 DEF IsPowers
  <2> DEFINE g == [n \in 0 .. m |-> IF n = m THEN 10 * h[m - 1] ELSE h[n]]
  <2>4. \A n \in 0 .. m : g[n] = IF n = m THEN 10 * h[m - 1] ELSE h[n]
    OBVIOUS
  <2>5. g = [n \in 0 .. m |-> g[n]]
    OBVIOUS
  <2> HIDE DEF g
  <2>6. ASSUME NEW n \in 0 .. m
        PROVE  g[n] = IF n = 0 THEN 1 ELSE 10 * g[n - 1]
    <3>1. CASE n = m
      <4>1. n # 0 /\ n - 1 \in 0 .. m /\ n - 1 # m
        BY <1>5, <2>1, <3>1
      <4> QED
        BY <2>4, <3>1, <4>1
    <3>2. CASE n # m
      <4>1. n \in 0 .. m - 1 /\ (n # 0 => n - 1 \in 0 .. m /\ n - 1 # m)
        BY <2>1, <3>2
      <4> QED
        BY <2>3, <2>4, <3>2, <4>1
    <3> QED
      BY <3>1, <3>2
  <2>7. IsPowers(g, m)
    BY <2>5, <2>6 DEF IsPowers
  <2> QED
    BY <1>2, <2>7
<1> QED
  BY <1>4, <1>5

\* The powers of ten are positive.
LEMMA PowersPositive ==
  ASSUME NEW M \in Nat, NEW g, IsPowers(g, M)
  PROVE  \A n \in 0 .. M : g[n] \in Nat /\ g[n] > 0
<1> DEFINE Bad == {n \in 0 .. M : ~(g[n] \in Nat /\ g[n] > 0)}
<1>1. Bad \subseteq 0 .. M /\ \A n \in 0 .. M : n \in Bad <=> ~(g[n] \in Nat /\ g[n] > 0)
  OBVIOUS
<1> HIDE DEF Bad
<1>2. \A n \in 0 .. M : g[n] = IF n = 0 THEN 1 ELSE 10 * g[n - 1]
  BY DEF IsPowers
<1>3. ASSUME Bad # {}
      PROVE  FALSE
  <2>1. PICK n \in Bad : \A k \in Bad : n <= k
    BY <1>1, <1>3, LeastNumber
  <2>2. n \in 0 .. M /\ n # 0
    BY <1>1, <1>2
  <2>3. n - 1 \in 0 .. M /\ ~(n <= n - 1)
    BY <2>2
  <2>4. g[n - 1] \in Nat /\ g[n - 1] > 0
    BY <1>1, <2>1, <2>3
  <2>5. g[n] = 10 * g[n - 1]
    BY <1>2, <2>2
  <2> QED
    BY <1>1, <2>2, <2>4, <2>5
<1> QED
  BY <1>1, <1>3

\* A quotient is cut off below.
LEMMA QuotientBounds ==
  \A t, n \in Nat : n > 0 => /\ t \div n \in Nat
                            /\ (t \div n) * n <= t
                            /\ t < ((t \div n) + 1) * n
OBVIOUS

\* Dividing twice cuts off once, at the product.
LEMMA QuotientTwice ==
  ASSUME NEW t \in Nat, NEW n \in Nat, NEW m \in Nat, n > 0, m > 0
  PROVE  (t \div n) \div m \in Nat /\ (t \div n) \div m = t \div (n * m)
<1>1. PICK q \in Nat : q = t \div n
  BY QuotientBounds
<1>2. PICK r \in Nat : r = q \div m
  BY QuotientBounds
<1>3. q * n <= t /\ t < (q + 1) * n
  BY <1>1, QuotientBounds
<1>4. r * m <= q /\ q < (r + 1) * m
  BY <1>2, QuotientBounds
<1>5. \A a, b \in Nat : a <= b => a * n <= b * n
  OBVIOUS
<1>6. (r * m) * n <= q * n
  BY <1>4, <1>5
<1>7. (q + 1) * n <= ((r + 1) * m) * n
  <2>1. (r + 1) * m \in Nat /\ q + 1 \in Nat /\ q + 1 <= (r + 1) * m
    BY <1>4
  <2> QED
    BY <1>5, <2>1
<1>8. (r * m) * n = r * (n * m) /\ ((r + 1) * m) * n = (r + 1) * (n * m)
  OBVIOUS
<1>9. r * (n * m) <= t /\ t < (r + 1) * (n * m)
  <2>1. q * n \in Nat /\ (q + 1) * n \in Nat /\ r * (n * m) \in Nat /\ (r + 1) * (n * m) \in Nat
    OBVIOUS
  <2> QED
    BY <1>3, <1>6, <1>7, <1>8, <2>1
<1>10. PICK k \in Nat : k = n * m /\ k > 0
  OBVIOUS
<1>11. PICK u \in Nat : u = t \div k
  BY <1>10, QuotientBounds
<1>12. u * k <= t /\ t < (u + 1) * k
  BY <1>10, <1>11, QuotientBounds
<1>13. r * k <= t /\ t < (r + 1) * k
  BY <1>9, <1>10
<1>14. \A a, b \in Nat : a <= b => a * k <= b * k
  OBVIOUS
<1>15. ASSUME NEW a \in Nat, NEW b \in Nat, a < b, b * k <= t, t < (a + 1) * k
       PROVE  FALSE
  <2>1. (a + 1) * k <= b * k /\ (a + 1) * k \in Nat /\ b * k \in Nat
    BY <1>14, <1>15
  <2> QED
    BY <1>15, <2>1
<1>16. u = r
  BY <1>12, <1>13, <1>15
<1> QED
  BY <1>1, <1>2, <1>10, <1>11, <1>16
=============================================================================
