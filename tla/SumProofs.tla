----------------------------- MODULE SumProofs ------------------------------
(***************************************************************************)
(* The laws of sums over finite sets, which the contract's ledgers and the *)
(* scheduler's shares are made of: a sum exists, and it may be taken       *)
(* apart, compared, scaled and rearranged.                                 *)
(*                                                                         *)
(* No induction theorem can be applied to a formula of ours, so each law   *)
(* takes a smallest set that breaks it and removes one element.            *)
(***************************************************************************)
EXTENDS Sums, FiniteSetTheorems, WellFoundedInduction, TLAPS

-----------------------------------------------------------------------------
(* Least counterexamples *)

\* Of a set of numbers that is not empty one is the least.  The provers cannot
\* use induction theorems; arguments below take a least counterexample.
LEMMA LeastNumber ==
  ASSUME NEW S \in SUBSET Nat, S # {}
  PROVE  \E m \in S : \A y \in S : ~(y < m)
  <1> DEFINE R == OpToRel(<, Nat)
  <1>1. IsWellFoundedOn(R, Nat)
    BY NatLessThanWellFounded
  <1>2. PICK m \in S : \A y \in S : ~(<<y, m>> \in R)
    <2> HIDE DEF R
    <2> QED  BY <1>1, WFMin
  <1>3. \A y \in S : ~(y < m)
    BY <1>2 DEF OpToRel
  <1> QED  BY <1>3

\* A collection of finite sets has one from which no element can be taken away
\* without leaving the collection.
LEMMA SmallestSet ==
  ASSUME NEW B, B # {}, \A s \in B : IsFiniteSet(s)
  PROVE  \E s \in B : \A x \in s : s \ {x} \notin B
  <1> DEFINE counts == {Cardinality(s) : s \in B}
  <1>1. counts \in SUBSET Nat /\ counts # {}
    BY FS_CardinalityType
  <1>2. PICK m \in counts : \A y \in counts : ~(y < m)
    <2> HIDE DEF counts
    <2> QED  BY <1>1, LeastNumber
  <1>3. PICK s \in B : m = Cardinality(s)
    BY <1>2
  <1>4. ASSUME NEW x \in s, s \ {x} \in B PROVE FALSE
    <2>1. Cardinality(s \ {x}) = Cardinality(s) - 1 /\ Cardinality(s) \in Nat
      BY FS_RemoveElement, FS_CardinalityType
    <2>2. ~(Cardinality(s \ {x}) < Cardinality(s))
      BY <1>2, <1>3, <1>4
    <2> QED  BY <2>1, <2>2
  <1> QED  BY <1>4

\* The recursion that sums f over the subsets of S.
Picked(s) == CHOOSE x \in s : TRUE
Sums(g, f, S) ==
  g = [s \in SUBSET S |->
         IF s = {} THEN 0 ELSE f[Picked(s)] + g[s \ {Picked(s)}]]

\* Two such functions agree where both are defined.
LEMMA SumsAgree ==
  ASSUME NEW S, IsFiniteSet(S), NEW T \in SUBSET S, NEW f, NEW g, NEW h,
         Sums(g, f, S), Sums(h, f, T)
  PROVE  g[T] = h[T]
  <1> DEFINE B == {s \in SUBSET T : g[s] # h[s]}
  <1>1. SUFFICES ASSUME B # {} PROVE FALSE
    OBVIOUS
  <1>2. \A s \in B : IsFiniteSet(s)
    BY FS_Subset
  <1>3. PICK s \in B : \A x \in s : s \ {x} \notin B
    <2> HIDE DEF B
    <2> QED  BY <1>1, <1>2, SmallestSet
  <1>4. s \in SUBSET T /\ s \in SUBSET S /\ g[s] # h[s]
    OBVIOUS
  <1>5. /\ g[s] = IF s = {} THEN 0 ELSE f[Picked(s)] + g[s \ {Picked(s)}]
        /\ h[s] = IF s = {} THEN 0 ELSE f[Picked(s)] + h[s \ {Picked(s)}]
    BY <1>4 DEF Sums
  <1>6. s # {} /\ Picked(s) \in s
    BY <1>4, <1>5 DEF Picked
  <1>7. g[s \ {Picked(s)}] = h[s \ {Picked(s)}]
    BY <1>3, <1>6
  <1> QED  BY <1>4, <1>5, <1>6, <1>7

\* What is left of such a function on the subsets of a smaller set is one too.
LEMMA SumsRestrict ==
  ASSUME NEW S, NEW T \in SUBSET S, NEW f, NEW g, Sums(g, f, S)
  PROVE  \E h : Sums(h, f, T)
  <1> DEFINE h == [s \in SUBSET T |-> g[s]]
             e(s) == IF s = {} THEN 0 ELSE f[Picked(s)] + h[s \ {Picked(s)}]
  <1>1. ASSUME NEW s \in SUBSET T PROVE h[s] = e(s)
    <2>1. g[s] = IF s = {} THEN 0 ELSE f[Picked(s)] + g[s \ {Picked(s)}]
      BY DEF Sums
    <2>2. h[s] = g[s] /\ h[s \ {Picked(s)}] = g[s \ {Picked(s)}]
      OBVIOUS
    <2> HIDE DEF h
    <2> QED  BY <2>1, <2>2
  <1>2. h = [s \in SUBSET T |-> e(s)]
    <2>1. h = [s \in SUBSET T |-> h[s]]
      OBVIOUS
    <2> HIDE DEF h, e
    <2> QED  BY <1>1, <2>1
  <1>3. Sums(h, f, T)
    <2> HIDE DEF h
    <2> QED  BY <1>2 DEF Sums
  <1> QED  BY <1>3

\* The sum over one set, once it has such a function.
TotalOf(f, s) == (CHOOSE g : Sums(g, f, s))[s]

\* The sum over a part of S is what a function for S gives.
LEMMA SumOfPart ==
  ASSUME NEW S, IsFiniteSet(S), NEW T \in SUBSET S, NEW f, NEW g, Sums(g, f, S)
  PROVE  TotalOf(f, T) = g[T]
  <1>1. \E h : Sums(h, f, T)
    BY SumsRestrict
  <1>2. PICK h : h = CHOOSE k : Sums(k, f, T)
    OBVIOUS
  <1>3. Sums(h, f, T)
    BY <1>1, <1>2
  <1>4. g[T] = h[T]
    BY <1>3, SumsAgree
  <1> QED  BY <1>2, <1>4 DEF TotalOf

\* There is one for every finite set.
LEMMA SumsExist ==
  ASSUME NEW S, IsFiniteSet(S), NEW f
  PROVE  \E g : Sums(g, f, S)
  <1> DEFINE B == {s \in SUBSET S : ~\E g : Sums(g, f, s)}
  <1>1. SUFFICES ASSUME B # {} PROVE FALSE
    OBVIOUS
  <1>2. \A s \in B : IsFiniteSet(s)
    BY FS_Subset
  <1>3. PICK s \in B : \A x \in s : s \ {x} \notin B
    <2> HIDE DEF B
    <2> QED  BY <1>1, <1>2, SmallestSet
  <1>4. s \in SUBSET S /\ IsFiniteSet(s) /\ ~\E g : Sums(g, f, s)
    BY <1>2
  <1> DEFINE of(u) == TotalOf(f, u)
             h == [u \in SUBSET s |->
                     IF u = {} THEN 0 ELSE f[Picked(u)] + of(u \ {Picked(u)})]
             e(u) == IF u = {} THEN 0 ELSE f[Picked(u)] + h[u \ {Picked(u)}]
  <1>5. ASSUME NEW y \in s, NEW v \in SUBSET (s \ {y})
        PROVE  of(v) = IF v = {} THEN 0 ELSE f[Picked(v)] + of(v \ {Picked(v)})
    <2>1. s \ {y} \notin B /\ s \ {y} \in SUBSET S
      BY <1>3, <1>4
    <2>2. PICK g : Sums(g, f, s \ {y})
      BY <2>1
    <2>3. IsFiniteSet(s \ {y})
      BY <1>4, FS_Subset
    <2>4. of(v) = g[v] /\ of(v \ {Picked(v)}) = g[v \ {Picked(v)}]
      <3>1. PICK z : z = s \ {y}
        OBVIOUS
      <3>2. PICK p : p = v \ {Picked(v)}
        OBVIOUS
      <3>3. v \in SUBSET z /\ p \in SUBSET z
        BY <3>1, <3>2
      <3> QED  BY <2>2, <2>3, <3>1, <3>2, <3>3, SumOfPart
    <2>5. g[v] = IF v = {} THEN 0 ELSE f[Picked(v)] + g[v \ {Picked(v)}]
      BY <2>2 DEF Sums
    <2> QED  BY <2>4, <2>5
  <1>6. ASSUME NEW u \in SUBSET s PROVE h[u] = e(u)
    <2>1. CASE u = {}
      BY <2>1
    <2>2. CASE u # {}
      <3>1. PICK y \in u : y = Picked(u)
        BY <2>2 DEF Picked
      <3>2. PICK v \in SUBSET (s \ {y}) : v = u \ {y}
        OBVIOUS
      <3>3. of(v) = IF v = {} THEN 0 ELSE f[Picked(v)] + of(v \ {Picked(v)})
        BY <1>5
      <3>4. h[v] = of(v)
        <4> HIDE DEF of
        <4> QED  BY <3>3
      <3>5. h[u] = f[y] + of(v)
        BY <2>2, <3>1, <3>2
      <3> HIDE DEF h, of
      <3> QED  BY <2>2, <3>1, <3>2, <3>4, <3>5
    <2> QED  BY <2>1, <2>2
  <1>7. h = [u \in SUBSET s |-> e(u)]
    <2>1. h = [u \in SUBSET s |-> h[u]]
      OBVIOUS
    <2> HIDE DEF h, e
    <2> QED  BY <1>6, <2>1
  <1>8. Sums(h, f, s)
    <2> HIDE DEF h
    <2> QED  BY <1>7 DEF Sums
  <1> QED  BY <1>4, <1>8

\* SumOver is that sum.
LEMMA SumOverIsTotal ==
  ASSUME NEW S, NEW f
  PROVE  SumOver(f, S) = TotalOf(f, S)
  BY DEF SumOver, MapThenSumSet, MapThenFoldSet, TotalOf, Sums, Picked

\* The equation of a sum: one element and the sum of the others.
LEMMA SumStep ==
  ASSUME NEW S, IsFiniteSet(S), NEW f
  PROVE  SumOver(f, S) =
           IF S = {} THEN 0 ELSE f[Picked(S)] + SumOver(f, S \ {Picked(S)})
  <1>1. PICK g : Sums(g, f, S)
    BY SumsExist
  <1>2. PICK T \in SUBSET S : T = S \ {Picked(S)}
    OBVIOUS
  <1>3. SumOver(f, S) = g[S] /\ SumOver(f, T) = g[T]
    BY <1>1, SumOfPart, SumOverIsTotal
  <1>4. g[S] = IF S = {} THEN 0 ELSE f[Picked(S)] + g[S \ {Picked(S)}]
    BY <1>1 DEF Sums
  <1> QED  BY <1>2, <1>3, <1>4

-----------------------------------------------------------------------------
(* The laws of sums *)

\* The sum of nothing.
LEMMA SumEmpty ==
  ASSUME NEW f
  PROVE  SumOver(f, {}) = 0
  BY SumStep, FS_EmptySet

\* A sum of integers is one.
LEMMA SumInt ==
  ASSUME NEW S, IsFiniteSet(S), NEW f, \A x \in S : f[x] \in Int
  PROVE  SumOver(f, S) \in Int
  <1> DEFINE B == {s \in SUBSET S : SumOver(f, s) \notin Int}
  <1>1. SUFFICES ASSUME B # {} PROVE FALSE
    OBVIOUS
  <1>2. \A s \in B : IsFiniteSet(s)
    BY FS_Subset
  <1>3. PICK s \in B : \A x \in s : s \ {x} \notin B
    <2> HIDE DEF B
    <2> QED  BY <1>1, <1>2, SmallestSet
  <1>4. /\ s \in SUBSET S /\ SumOver(f, s) \notin Int
        /\ \A x \in s : SumOver(f, s \ {x}) \in Int
    BY <1>3
  <1>5. SumOver(f, s) =
          IF s = {} THEN 0 ELSE f[Picked(s)] + SumOver(f, s \ {Picked(s)})
    BY <1>2, SumStep
  <1>6. s # {} /\ Picked(s) \in s
    BY <1>4, <1>5 DEF Picked
  <1> QED  BY <1>4, <1>5, <1>6

\* The order of summation does not matter.
LEMMA SumRemove ==
  ASSUME NEW S, IsFiniteSet(S), NEW f, \A x \in S : f[x] \in Int, NEW a \in S
  PROVE  SumOver(f, S) = f[a] + SumOver(f, S \ {a})
  <1> DEFINE B == {s \in SUBSET S :
                     \E x \in s : SumOver(f, s) # f[x] + SumOver(f, s \ {x})}
  <1>1. SUFFICES ASSUME B # {} PROVE FALSE
    OBVIOUS
  <1>2. \A s \in B : IsFiniteSet(s)
    BY FS_Subset
  <1>3. PICK s \in B : \A x \in s : s \ {x} \notin B
    <2> HIDE DEF B
    <2> QED  BY <1>1, <1>2, SmallestSet
  <1>4. s \in SUBSET S /\ IsFiniteSet(s)
    BY <1>2
  <1>5. PICK x \in s : SumOver(f, s) # f[x] + SumOver(f, s \ {x})
    BY <1>3
  <1>6. PICK c \in s : c = Picked(s)
    BY DEF Picked
  <1>7. SumOver(f, s) = f[c] + SumOver(f, s \ {c})
    BY <1>4, <1>6, SumStep
  <1>8. c # x
    BY <1>5, <1>7
  <1>9. \A y \in s : \A z \in s \ {y} :
          SumOver(f, s \ {y}) = f[z] + SumOver(f, (s \ {y}) \ {z})
    <2> SUFFICES ASSUME NEW y \in s, NEW z \in s \ {y}
                 PROVE  SumOver(f, s \ {y}) = f[z] + SumOver(f, (s \ {y}) \ {z})
      OBVIOUS
    <2>1. s \ {y} \notin B /\ s \ {y} \in SUBSET S
      BY <1>3, <1>4
    <2> QED  BY <2>1
  <1>10. PICK r : r = (s \ {c}) \ {x}
    OBVIOUS
  <1>11. r = (s \ {x}) \ {c}
    BY <1>10
  <1>12. /\ SumOver(f, s \ {c}) = f[x] + SumOver(f, r)
         /\ SumOver(f, s \ {x}) = f[c] + SumOver(f, r)
    BY <1>8, <1>9, <1>10, <1>11
  <1>13. SumOver(f, r) \in Int
    <2>1. IsFiniteSet(r) /\ \A y \in r : f[y] \in Int
      BY <1>4, <1>10, FS_Subset
    <2> QED  BY <2>1, SumInt
  <1>14. f[x] \in Int /\ f[c] \in Int
    BY <1>4
  <1> QED  BY <1>5, <1>7, <1>12, <1>13, <1>14

\* A relation between two functions and a third that holds term by term holds
\* between the sums.
LEMMA SumOfSums ==
  ASSUME NEW S, IsFiniteSet(S), NEW f, NEW g, NEW h,
         \A x \in S : f[x] \in Int /\ g[x] \in Int /\ h[x] = f[x] + g[x]
  PROVE  SumOver(h, S) = SumOver(f, S) + SumOver(g, S)
  <1> DEFINE B == {s \in SUBSET S : SumOver(h, s) # SumOver(f, s) + SumOver(g, s)}
  <1>1. SUFFICES ASSUME B # {} PROVE FALSE
    OBVIOUS
  <1>2. \A s \in B : IsFiniteSet(s)
    BY FS_Subset
  <1>3. PICK s \in B : \A x \in s : s \ {x} \notin B
    <2> HIDE DEF B
    <2> QED  BY <1>1, <1>2, SmallestSet
  <1>4. s \in SUBSET S /\ IsFiniteSet(s) /\ SumOver(h, s) # SumOver(f, s) + SumOver(g, s)
    BY <1>2
  <1>5. CASE s = {}
    BY <1>4, <1>5, SumEmpty
  <1>6. CASE s # {}
    <2>1. PICK c \in s : TRUE
      BY <1>6
    <2>2. PICK r : r = s \ {c}
      OBVIOUS
    <2>3. r \notin B /\ r \in SUBSET S /\ IsFiniteSet(r)
      BY <1>3, <1>4, <2>2, FS_Subset
    <2>4. SumOver(h, r) = SumOver(f, r) + SumOver(g, r)
      BY <2>3
    <2>5. SumOver(f, r) \in Int /\ SumOver(g, r) \in Int
      BY <2>3, SumInt
    <2>6. \A x \in s : f[x] \in Int /\ g[x] \in Int /\ h[x] \in Int
      BY <1>4
    <2>7. /\ SumOver(f, s) = f[c] + SumOver(f, r)
          /\ SumOver(g, s) = g[c] + SumOver(g, r)
          /\ SumOver(h, s) = h[c] + SumOver(h, r)
      BY <1>4, <2>2, <2>6, SumRemove
    <2>8. h[c] = f[c] + g[c] /\ f[c] \in Int /\ g[c] \in Int
      BY <1>4
    <2> QED  BY <1>4, <2>4, <2>5, <2>7, <2>8
  <1> QED  BY <1>5, <1>6

\* Nor do the values of a function elsewhere.
LEMMA SumSame ==
  ASSUME NEW S, IsFiniteSet(S), NEW f, NEW g,
         \A x \in S : f[x] \in Int /\ g[x] = f[x]
  PROVE  SumOver(g, S) = SumOver(f, S)
  <1>1. PICK z : z = [x \in S |-> 0]
    OBVIOUS
  <1>2. /\ \A x \in S : g[x] \in Int /\ z[x] \in Int /\ f[x] = g[x] + z[x]
        /\ \A x \in S : z[x] \in Int /\ z[x] = z[x] + z[x]
    BY <1>1
  <1>3. SumOver(f, S) = SumOver(g, S) + SumOver(z, S)
    BY <1>2, SumOfSums
  <1>4. SumOver(z, S) = SumOver(z, S) + SumOver(z, S)
    BY <1>2, SumOfSums
  <1>5. PICK u \in Int : u = SumOver(z, S)
    BY <1>2, SumInt
  <1>6. PICK v \in Int : v = SumOver(g, S)
    BY <1>2, SumInt
  <1>7. u = u + u /\ SumOver(f, S) = v + u
    BY <1>3, <1>4, <1>5, <1>6
  <1>8. u = 0
    BY <1>7
  <1> QED  BY <1>6, <1>7, <1>8

\* A sum of numbers is a number.
LEMMA SumNat ==
  ASSUME NEW S, IsFiniteSet(S), NEW f, \A x \in S : f[x] \in Nat
  PROVE  SumOver(f, S) \in Nat
  <1> DEFINE B == {s \in SUBSET S : SumOver(f, s) \notin Nat}
  <1>1. SUFFICES ASSUME B # {} PROVE FALSE
    OBVIOUS
  <1>2. \A s \in B : IsFiniteSet(s)
    BY FS_Subset
  <1>3. PICK s \in B : \A x \in s : s \ {x} \notin B
    <2> HIDE DEF B
    <2> QED  BY <1>1, <1>2, SmallestSet
  <1>4. /\ s \in SUBSET S /\ SumOver(f, s) \notin Nat
        /\ \A x \in s : SumOver(f, s \ {x}) \in Nat
    BY <1>3
  <1>5. SumOver(f, s) =
          IF s = {} THEN 0 ELSE f[Picked(s)] + SumOver(f, s \ {Picked(s)})
    BY <1>2, SumStep
  <1>6. s # {} /\ Picked(s) \in s
    BY <1>4, <1>5 DEF Picked
  <1> QED  BY <1>4, <1>5, <1>6

\* Elements without a value can be left out.
LEMMA SumPart ==
  ASSUME NEW S, IsFiniteSet(S), NEW T \in SUBSET S, NEW f,
         \A x \in S : f[x] \in Int, \A x \in S \ T : f[x] = 0
  PROVE  SumOver(f, S) = SumOver(f, T)
  <1> DEFINE B == {s \in SUBSET S : T \subseteq s /\ SumOver(f, s) # SumOver(f, T)}
  <1>1. SUFFICES ASSUME B # {} PROVE FALSE
    OBVIOUS
  <1>2. \A s \in B : IsFiniteSet(s)
    BY FS_Subset
  <1>3. PICK s \in B : \A x \in s : s \ {x} \notin B
    <2> HIDE DEF B
    <2> QED  BY <1>1, <1>2, SmallestSet
  <1>4. /\ s \in SUBSET S /\ T \subseteq s /\ SumOver(f, s) # SumOver(f, T)
        /\ IsFiniteSet(s)
    BY <1>2
  <1>5. PICK x \in s : x \notin T
    BY <1>4
  <1>6. SumOver(f, s \ {x}) = SumOver(f, T)
    <2>1. s \ {x} \notin B /\ s \ {x} \in SUBSET S /\ T \subseteq s \ {x}
      BY <1>3, <1>4, <1>5
    <2> QED  BY <2>1
  <1>7. SumOver(f, s) = f[x] + SumOver(f, s \ {x}) /\ f[x] = 0
    <2>1. \A y \in s : f[y] \in Int
      BY <1>4
    <2> QED  BY <1>4, <1>5, <2>1, SumRemove
  <1>8. SumOver(f, T) \in Int
    BY SumInt, FS_Subset
  <1> QED  BY <1>4, <1>6, <1>7, <1>8

\* A sum of equal terms is a product.
LEMMA SumConstant ==
  ASSUME NEW S, IsFiniteSet(S), NEW f, NEW c \in Int, \A x \in S : f[x] = c
  PROVE  SumOver(f, S) = Cardinality(S) * c
  <1> DEFINE B == {s \in SUBSET S : SumOver(f, s) # Cardinality(s) * c}
  <1>1. SUFFICES ASSUME B # {} PROVE FALSE
    OBVIOUS
  <1>2. \A s \in B : IsFiniteSet(s)
    BY FS_Subset
  <1>3. PICK s \in B : \A x \in s : s \ {x} \notin B
    <2> HIDE DEF B
    <2> QED  BY <1>1, <1>2, SmallestSet
  <1>4. s \in SUBSET S /\ IsFiniteSet(s) /\ SumOver(f, s) # Cardinality(s) * c
    BY <1>2
  <1>5. CASE s = {}
    BY <1>4, <1>5, SumEmpty, FS_EmptySet
  <1>6. CASE s # {}
    <2>1. PICK x \in s : TRUE
      BY <1>6
    <2>2. SumOver(f, s \ {x}) = Cardinality(s \ {x}) * c
      <3>1. s \ {x} \notin B /\ s \ {x} \in SUBSET S
        BY <1>3, <1>4
      <3> QED  BY <3>1
    <2>3. Cardinality(s \ {x}) = Cardinality(s) - 1
      BY <1>4, FS_RemoveElement
    <2>4. SumOver(f, s) = c + SumOver(f, s \ {x})
      <3>1. f[x] = c /\ \A y \in s : f[y] \in Int
        BY <1>4
      <3> QED  BY <1>4, <3>1, SumRemove
    <2>5. PICK n \in Nat : n = Cardinality(s)
      BY <1>4, FS_CardinalityType
    <2>6. c + (n - 1) * c = n * c
      OBVIOUS
    <2> QED  BY <1>4, <2>2, <2>3, <2>4, <2>5, <2>6
  <1> QED  BY <1>5, <1>6

\* Larger terms make a larger sum.
LEMMA SumMonotone ==
  ASSUME NEW S, IsFiniteSet(S), NEW f, NEW g,
         \A x \in S : f[x] \in Int /\ g[x] \in Int /\ f[x] <= g[x]
  PROVE  SumOver(f, S) <= SumOver(g, S)
  <1>1. PICK d : d = [x \in S |-> g[x] - f[x]]
    OBVIOUS
  <1>2. \A x \in S : d[x] \in Nat /\ d[x] \in Int /\ g[x] = f[x] + d[x]
    BY <1>1
  <1>3. SumOver(g, S) = SumOver(f, S) + SumOver(d, S)
    BY <1>2, SumOfSums
  <1>4. SumOver(d, S) \in Nat /\ SumOver(f, S) \in Int
    BY <1>2, SumNat, SumInt
  <1> QED  BY <1>3, <1>4

\* A common factor can be taken out of a sum.
LEMMA SumScaled ==
  ASSUME NEW S, IsFiniteSet(S), NEW f, NEW g, NEW k \in Int,
         \A x \in S : f[x] \in Int /\ g[x] = k * f[x]
  PROVE  SumOver(g, S) = k * SumOver(f, S)
  <1> DEFINE B == {s \in SUBSET S : SumOver(g, s) # k * SumOver(f, s)}
  <1>1. SUFFICES ASSUME B # {} PROVE FALSE
    OBVIOUS
  <1>2. \A s \in B : IsFiniteSet(s)
    BY FS_Subset
  <1>3. PICK s \in B : \A x \in s : s \ {x} \notin B
    <2> HIDE DEF B
    <2> QED  BY <1>1, <1>2, SmallestSet
  <1>4. s \in SUBSET S /\ IsFiniteSet(s) /\ SumOver(g, s) # k * SumOver(f, s)
    BY <1>2
  <1>5. CASE s = {}
    BY <1>4, <1>5, SumEmpty
  <1>6. CASE s # {}
    <2>1. PICK x \in s : TRUE
      BY <1>6
    <2>2. PICK r : r = s \ {x}
      OBVIOUS
    <2>3. r \notin B /\ r \in SUBSET S /\ IsFiniteSet(r)
      BY <1>3, <1>4, <2>2, FS_Subset
    <2>4. PICK m \in Int : m = SumOver(f, r)
      BY <2>3, SumInt
    <2>5. PICK v \in Int : v = f[x]
      BY <1>4
    <2>6. \A y \in s : f[y] \in Int /\ g[y] \in Int
      BY <1>4
    <2>7. SumOver(f, s) = v + m
      BY <1>4, <2>2, <2>4, <2>5, <2>6, SumRemove
    <2>8. SumOver(g, s) = k * v + k * m
      <3>1. SumOver(g, r) = k * m /\ g[x] = k * v
        BY <1>4, <2>3, <2>4, <2>5
      <3>2. SumOver(g, s) = g[x] + SumOver(g, r)
        BY <1>4, <2>2, <2>6, SumRemove
      <3> QED  BY <3>1, <3>2
    <2>9. k * (v + m) = k * v + k * m
      OBVIOUS
    <2> QED  BY <1>4, <2>7, <2>8, <2>9
  <1> QED  BY <1>5, <1>6

\* Disjoint sets can be summed one after the other.
LEMMA SumUnion ==
  ASSUME NEW S, IsFiniteSet(S), NEW T, IsFiniteSet(T), S \cap T = {}, NEW f,
         \A x \in S \cup T : f[x] \in Int
  PROVE  SumOver(f, S \cup T) = SumOver(f, S) + SumOver(f, T)
  <1> DEFINE B == {s \in SUBSET T :
                     SumOver(f, S \cup s) # SumOver(f, S) + SumOver(f, s)}
  <1>1. SUFFICES ASSUME B # {} PROVE FALSE
    OBVIOUS
  <1>2. \A s \in B : IsFiniteSet(s)
    BY FS_Subset
  <1>3. PICK s \in B : \A x \in s : s \ {x} \notin B
    <2> HIDE DEF B
    <2> QED  BY <1>1, <1>2, SmallestSet
  <1>4. /\ s \in SUBSET T /\ IsFiniteSet(s)
        /\ SumOver(f, S \cup s) # SumOver(f, S) + SumOver(f, s)
    BY <1>2
  <1>5. SumOver(f, S) \in Int
    BY SumInt
  <1>6. CASE s = {}
    <2>1. S \cup s = S
      BY <1>6
    <2> QED  BY <1>4, <1>5, <1>6, <2>1, SumEmpty
  <1>7. CASE s # {}
    <2>1. PICK x \in s : TRUE
      BY <1>7
    <2>2. PICK r : r = s \ {x}
      OBVIOUS
    <2>3. SumOver(f, S \cup r) = SumOver(f, S) + SumOver(f, r)
      <3>1. r \notin B /\ r \in SUBSET T
        BY <1>3, <1>4, <2>2
      <3> QED  BY <3>1
    <2>4. SumOver(f, s) = f[x] + SumOver(f, r)
      <3>1. \A y \in s : f[y] \in Int
        BY <1>4
      <3> QED  BY <1>4, <2>2, <3>1, SumRemove
    <2>5. SumOver(f, S \cup s) = f[x] + SumOver(f, S \cup r)
      <3>1. PICK u : u = S \cup s
        OBVIOUS
      <3>2. IsFiniteSet(u) /\ (\A y \in u : f[y] \in Int) /\ x \in u /\ u \ {x} = S \cup r
        BY <1>4, <2>2, <3>1, FS_Union
      <3> QED  BY <3>1, <3>2, SumRemove
    <2>6. SumOver(f, r) \in Int /\ f[x] \in Int
      <3>1. IsFiniteSet(r) /\ \A y \in r : f[y] \in Int
        BY <1>4, <2>2, FS_Subset
      <3> QED  BY <1>4, <3>1, SumInt
    <2> QED  BY <1>4, <1>5, <2>3, <2>4, <2>5, <2>6
  <1> QED  BY <1>6, <1>7

\* f and g agree on the row of the pairs that start with a.
RowAgrees(f, a, g, I) ==
  /\ IsFiniteSet(I)
  /\ \A i \in I : g[i] \in Int
  /\ \A i \in I : f[<<a, i>>] = g[i]

\* The pairs of a row are summed as their second components.
LEMMA SumRow ==
  ASSUME NEW f, NEW a, NEW g, NEW I, RowAgrees(f, a, g, I)
  PROVE  IsFiniteSet({a} \X I) /\ SumOver(f, {a} \X I) = SumOver(g, I)
  <1> USE DEF RowAgrees
  <1> DEFINE ok(s) == /\ IsFiniteSet({a} \X s)
                      /\ SumOver(f, {a} \X s) = SumOver(g, s)
             B == {s \in SUBSET I : ~ok(s)}
  <1>1. SUFFICES ASSUME B # {} PROVE FALSE
    OBVIOUS
  <1>2. \A s \in B : IsFiniteSet(s)
    BY FS_Subset
  <1>3. PICK s \in B : \A x \in s : s \ {x} \notin B
    <2> HIDE DEF B
    <2> QED  BY <1>1, <1>2, SmallestSet
  <1>4. s \in SUBSET I /\ IsFiniteSet(s) /\ ~ok(s)
    BY <1>2
  <1>5. CASE s = {}
    <2>1. {a} \X s = {}
      BY <1>5
    <2> QED  BY <1>4, <1>5, <2>1, SumEmpty, FS_EmptySet
  <1>6. CASE s # {}
    <2>1. PICK x \in s : TRUE
      BY <1>6
    <2>2. PICK r : r = s \ {x}
      OBVIOUS
    <2>3. PICK u : u = {a} \X r
      OBVIOUS
    <2>4. IsFiniteSet(u) /\ SumOver(f, u) = SumOver(g, r)
      <3>1. r \notin B /\ r \in SUBSET I
        BY <1>3, <1>4, <2>2
      <3> QED  BY <2>3, <3>1
    <2>5. PICK v : v = {a} \X s
      OBVIOUS
    <2>6. v = u \cup {<<a, x>>} /\ v \ {<<a, x>>} = u /\ <<a, x>> \in v
      BY <2>1, <2>2, <2>3, <2>5
    <2>7. IsFiniteSet(v)
      BY <2>4, <2>6, FS_AddElement
    <2>8. \A y \in v : f[y] \in Int
      BY <1>4, <2>5
    <2>9. SumOver(f, v) = f[<<a, x>>] + SumOver(f, u)
      BY <2>6, <2>7, <2>8, SumRemove
    <2>10. SumOver(g, s) = g[x] + SumOver(g, r)
      <3>1. \A y \in s : g[y] \in Int
        BY <1>4
      <3> QED  BY <1>4, <2>2, <3>1, SumRemove
    <2>11. f[<<a, x>>] = g[x]
      BY <1>4
    <2> QED  BY <1>4, <2>4, <2>5, <2>7, <2>9, <2>10, <2>11
  <1> QED  BY <1>5, <1>6

\* A table is summed row by row.
Rows(I, D) == UNION {{a} \X I[a] : a \in D}

\* The rows are finite and h has their sums.
RowSums(f, h, I, D) ==
  /\ IsFiniteSet(D)
  /\ \A a \in D : IsFiniteSet({a} \X I[a])
  /\ \A a \in D : \A i \in I[a] : f[<<a, i>>] \in Int
  /\ \A a \in D : h[a] = SumOver(f, {a} \X I[a])

\* The sum of all rows is the sum of their sums.
LEMMA SumRows ==
  ASSUME NEW f, NEW h, NEW I, NEW D, RowSums(f, h, I, D)
  PROVE  IsFiniteSet(Rows(I, D)) /\ SumOver(f, Rows(I, D)) = SumOver(h, D)
  <1> USE DEF RowSums
  <1> DEFINE ok(s) == /\ IsFiniteSet(Rows(I, s))
                      /\ SumOver(f, Rows(I, s)) = SumOver(h, s)
             B == {s \in SUBSET D : ~ok(s)}
  <1>1. SUFFICES ASSUME B # {} PROVE FALSE
    OBVIOUS
  <1>2. \A s \in B : IsFiniteSet(s)
    BY FS_Subset
  <1>3. PICK s \in B : \A x \in s : s \ {x} \notin B
    <2> HIDE DEF B
    <2> QED  BY <1>1, <1>2, SmallestSet
  <1>4. s \in SUBSET D /\ IsFiniteSet(s) /\ ~ok(s)
    BY <1>2
  <1>5. CASE s = {}
    <2>1. Rows(I, s) = {}
      BY <1>5 DEF Rows
    <2> QED  BY <1>4, <1>5, <2>1, SumEmpty, FS_EmptySet
  <1>6. CASE s # {}
    <2>1. PICK x \in s : TRUE
      BY <1>6
    <2>2. PICK r : r = s \ {x}
      OBVIOUS
    <2>3. PICK u : u = Rows(I, r)
      OBVIOUS
    <2>4. IsFiniteSet(u) /\ SumOver(f, u) = SumOver(h, r)
      <3>1. r \notin B /\ r \in SUBSET D
        BY <1>3, <1>4, <2>2
      <3> QED  BY <2>3, <3>1
    <2>5. PICK row : row = {x} \X I[x]
      OBVIOUS
    <2>6. IsFiniteSet(row) /\ h[x] = SumOver(f, row)
      BY <1>4, <2>5
    <2>7. Rows(I, s) = u \cup row /\ u \cap row = {}
      BY <2>1, <2>2, <2>3, <2>5 DEF Rows
    <2>8. IsFiniteSet(u \cup row)
      BY <2>4, <2>6, FS_Union
    <2>9. \A y \in u \cup row : f[y] \in Int
      BY <1>4, <2>2, <2>3, <2>5 DEF Rows
    <2>10. SumOver(f, u \cup row) = SumOver(f, u) + SumOver(f, row)
      BY <2>4, <2>6, <2>7, <2>9, SumUnion
    <2>11. \A y \in s : h[y] \in Int
      <3> SUFFICES ASSUME NEW y \in s PROVE h[y] \in Int
        OBVIOUS
      <3>1. PICK v : v = {y} \X I[y]
        OBVIOUS
      <3>2. IsFiniteSet(v) /\ h[y] = SumOver(f, v) /\ \A z \in v : f[z] \in Int
        BY <1>4, <3>1
      <3> QED  BY <3>2, SumInt
    <2>12. SumOver(h, s) = h[x] + SumOver(h, r)
      BY <1>4, <2>2, <2>11, SumRemove
    <2>13. SumOver(h, r) \in Int /\ h[x] \in Int
      <3>1. IsFiniteSet(r) /\ \A y \in r : h[y] \in Int
        BY <1>4, <2>2, <2>11, FS_Subset
      <3> QED  BY <2>11, <3>1, SumInt
    <2> QED  BY <1>4, <2>4, <2>6, <2>7, <2>8, <2>10, <2>12, <2>13
  <1> QED  BY <1>5, <1>6

\* The size of a union of disjoint sets: h has the sizes of the sets A.
UnionOver(A, D) == UNION {A[a] : a \in D}
Sizes(h, A, D) ==
  /\ IsFiniteSet(D)
  /\ \A a \in D : IsFiniteSet(A[a]) /\ h[a] = Cardinality(A[a])
  /\ \A a, b \in D : a # b => A[a] \cap A[b] = {}

\* The sizes of disjoint sets add up to the size of their union.
LEMMA SumSizes ==
  ASSUME NEW h, NEW A, NEW D, Sizes(h, A, D)
  PROVE  /\ IsFiniteSet(UnionOver(A, D))
         /\ SumOver(h, D) = Cardinality(UnionOver(A, D))
  <1> USE DEF Sizes, UnionOver
  <1> DEFINE all(s) == UnionOver(A, s)
             ok(s) == IsFiniteSet(all(s)) /\ SumOver(h, s) = Cardinality(all(s))
             B == {s \in SUBSET D : ~ok(s)}
  <1>1. SUFFICES ASSUME B # {} PROVE FALSE
    OBVIOUS
  <1>2. \A s \in B : IsFiniteSet(s)
    BY FS_Subset
  <1>3. PICK s \in B : \A x \in s : s \ {x} \notin B
    <2> HIDE DEF B
    <2> QED  BY <1>1, <1>2, SmallestSet
  <1>4. s \in SUBSET D /\ IsFiniteSet(s) /\ ~ok(s)
    BY <1>2
  <1>5. CASE s = {}
    <2>1. all(s) = {}
      BY <1>5
    <2> QED  BY <1>4, <1>5, <2>1, SumEmpty, FS_EmptySet
  <1>6. CASE s # {}
    <2>1. PICK x \in s : TRUE
      BY <1>6
    <2>2. PICK r : r = s \ {x}
      OBVIOUS
    <2>3. PICK u : u = all(r)
      OBVIOUS
    <2>4. IsFiniteSet(u) /\ SumOver(h, r) = Cardinality(u)
      <3>1. r \notin B /\ r \in SUBSET D
        BY <1>3, <1>4, <2>2
      <3> QED  BY <2>3, <3>1
    <2>5. PICK v : v = A[x]
      OBVIOUS
    <2>6. IsFiniteSet(v) /\ h[x] = Cardinality(v)
      BY <1>4, <2>5
    <2>7. all(s) = u \cup v /\ u \cap v = {}
      BY <1>4, <2>1, <2>2, <2>3, <2>5
    <2>8. IsFiniteSet(u \cup v) /\ Cardinality(u \cup v) = Cardinality(u) + Cardinality(v)
      <3>1. /\ IsFiniteSet(u \cup v)
            /\ Cardinality(u \cup v) =
                 Cardinality(u) + Cardinality(v) - Cardinality(u \cap v)
        BY <2>4, <2>6, FS_Union
      <3>2. Cardinality(u \cap v) = 0 /\ Cardinality(u) \in Nat /\ Cardinality(v) \in Nat
        BY <2>4, <2>6, <2>7, FS_EmptySet, FS_CardinalityType
      <3> QED  BY <3>1, <3>2
    <2>9. SumOver(h, s) = h[x] + SumOver(h, r)
      <3>1. \A y \in s : h[y] \in Int
        BY <1>4, FS_CardinalityType
      <3> QED  BY <1>4, <2>2, <3>1, SumRemove
    <2>10. Cardinality(u) \in Nat /\ Cardinality(v) \in Nat
      BY <2>4, <2>6, FS_CardinalityType
    <2>11. SumOver(h, s) = Cardinality(u \cup v)
      BY <2>4, <2>6, <2>8, <2>9, <2>10
    <2>12. ok(s)
      BY <2>7, <2>8, <2>11
    <2> QED  BY <1>4, <2>12
  <1> QED  BY <1>5, <1>6

-----------------------------------------------------------------------------
(* Factors and division *)

\* What integer division leaves is less than the divisor.
LEMMA DivBounds ==
  ASSUME NEW a \in Int, NEW p \in Nat \ {0}
  PROVE  /\ a \div p \in Int
         /\ p * (a \div p) <= a
         /\ a < p * (a \div p) + p
  OBVIOUS

\* The quotient is the only number with these bounds.
LEMMA DivUnique ==
  ASSUME NEW a \in Int, NEW p \in Nat \ {0}, NEW q \in Int
  PROVE  a \div p = q <=> p * q <= a /\ a < p * q + p
  <1>1. PICK d \in Int : d = a \div p
    OBVIOUS
  <1>2. p * d <= a /\ a < p * d + p
    BY <1>1
  <1>3. ASSUME p * q <= a, a < p * q + p PROVE d = q
    <2>1. CASE d < q
      <3>1. p * (d + 1) <= p * q
        BY <2>1
      <3> QED  BY <1>2, <1>3, <3>1
    <2>2. CASE q < d
      <3>1. p * (q + 1) <= p * d
        BY <2>2
      <3> QED  BY <1>2, <1>3, <3>1
    <2> QED  BY <2>1, <2>2
  <1> QED  BY <1>1, <1>2, <1>3

\* Cancelling a factor, up to a remainder.
LEMMA Cancel ==
  ASSUME NEW p \in Nat \ {0}, NEW x \in Int, NEW y \in Int, p * x < p * y + p
  PROVE  x <= y
  <1>1. SUFFICES ASSUME x >= y + 1 PROVE FALSE
    OBVIOUS
  <1>2. p * x >= p * (y + 1) /\ p * (y + 1) = p * y + p
    BY <1>1
  <1> QED  BY <1>2

\* A factor keeps an order.
LEMMA Scaling ==
  ASSUME NEW a \in Nat, NEW x \in Int, NEW y \in Int, x <= y
  PROVE  a * x <= a * y
  OBVIOUS

=============================================================================
