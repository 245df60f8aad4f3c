----------------------------- MODULE SumLemmas -----------------------------
(***************************************************************************)
(* What a sum over a finite set is: SumFunctionOnSet(f, S) of Functions    *)
(* adds the values f[s] of the members s of S, in an order of its own.     *)
(*                                                                         *)
(* The sum is computed by a function that is recursive over the subsets of *)
(* S.  That such a function exists, and that the order does not matter, is *)
(* induction over the subsets: of the subsets that a fact fails for, take  *)
(* one that has no smaller one among them (MinimalSubset).                 *)
(***************************************************************************)
EXTENDS Integers, Sequences, FiniteSetsExt, FiniteSetTheorems, WellFoundedInduction, TLAPS

AnyOf(s) == CHOOSE x \in s : TRUE

\* g adds up f over every subset of S.
AddsUp(f, S, g) ==
  g = [s \in SUBSET S |->
         IF s = {} THEN 0 ELSE f[AnyOf(s)] + g[s \ {AnyOf(s)}]]

AddedUp(f, S) == (CHOOSE g : AddsUp(f, S, g))[S]

-----------------------------------------------------------------------------
(* Induction over the subsets of a finite set.                             *)

\* Picking from a set yields a member of it.
LEMMA AnyOfIsMember == ASSUME NEW s, s # {}  PROVE AnyOf(s) \in s
  BY DEF AnyOf

\* Among any subsets of a finite set there is a smallest one.
LEMMA MinimalSubset ==
  ASSUME NEW S, IsFiniteSet(S), NEW T \in SUBSET (SUBSET S), T # {}
  PROVE  \E x \in T : \A y \in T : y \subseteq x => y = x
<1>1. IsWellFoundedOn(StrictSubsetOrdering(S), SUBSET S)
  BY FS_StrictSubsetOrderingWellFounded, FS_FiniteSubsetsOfFinite
<1>2. PICK x \in T : \A y \in T : ~ (<<y, x>> \in StrictSubsetOrdering(S))
  BY <1>1, WFMin
<1>3. QED  BY <1>2 DEF StrictSubsetOrdering

-----------------------------------------------------------------------------
(* The recursive function of the sum exists, once.                         *)

\* The value of such a function at one subset.
LEMMA AddsUpAt ==
  ASSUME NEW f, NEW S, NEW g, AddsUp(f, S, g), NEW s \in SUBSET S
  PROVE  g[s] = IF s = {} THEN 0 ELSE f[AnyOf(s)] + g[s \ {AnyOf(s)}]
<1> DEFINE h == [r \in SUBSET S |->
                   IF r = {} THEN 0 ELSE f[AnyOf(r)] + g[r \ {AnyOf(r)}]]
<1>1. g = h  BY DEF AddsUp
<1>2. h[s] = IF s = {} THEN 0 ELSE f[AnyOf(s)] + g[s \ {AnyOf(s)}]  OBVIOUS
<1>3. QED  BY <1>1, <1>2

\* Two functions that add up f agree.
LEMMA AddsUpOnce ==
  ASSUME NEW f, NEW S, IsFiniteSet(S), NEW g, NEW h,
         AddsUp(f, S, g), AddsUp(f, S, h)
  PROVE  \A s \in SUBSET S : g[s] = h[s]
<1> DEFINE T == {s \in SUBSET S : g[s] # h[s]}
<1>1. SUFFICES ASSUME T # {}  PROVE FALSE  OBVIOUS
<1> T \in SUBSET (SUBSET S)  OBVIOUS
<1>2. PICK x \in T : \A y \in T : y \subseteq x => y = x
  <2> HIDE DEF T
  <2>1. QED  BY <1>1, MinimalSubset
<1>3. x \in SUBSET S /\ g[x] # h[x]  OBVIOUS
<1>4. ASSUME NEW y \in SUBSET x, y # x  PROVE g[y] = h[y]
  BY <1>2, <1>3, <1>4
<1> HIDE DEF T
<1>5. x # {}  BY <1>3, AddsUpAt
<1>6. AnyOf(x) \in x  BY <1>5, AnyOfIsMember
<1>7. g[x \ {AnyOf(x)}] = h[x \ {AnyOf(x)}]  BY <1>4, <1>6
<1>8. g[x] = IF x = {} THEN 0 ELSE f[AnyOf(x)] + g[x \ {AnyOf(x)}]
  BY <1>3, AddsUpAt
<1>9. h[x] = IF x = {} THEN 0 ELSE f[AnyOf(x)] + h[x \ {AnyOf(x)}]
  BY <1>3, AddsUpAt
<1>10. QED  BY <1>3, <1>5, <1>7, <1>8, <1>9

\* What adds up f over S does so over a subset of S.
LEMMA AddsUpWithin ==
  ASSUME NEW f, NEW S, NEW g, AddsUp(f, S, g), NEW U \in SUBSET S
  PROVE  AddsUp(f, U, [s \in SUBSET U |-> g[s]])
<1> DEFINE r == [s \in SUBSET U |-> g[s]]
           b == [s \in SUBSET U |->
                   IF s = {} THEN 0 ELSE f[AnyOf(s)] + r[s \ {AnyOf(s)}]]
<1>1. ASSUME NEW s \in SUBSET U  PROVE r[s] = b[s]
  <2>1. g[s] = IF s = {} THEN 0 ELSE f[AnyOf(s)] + g[s \ {AnyOf(s)}]
    BY AddsUpAt
  <2>2. r[s] = g[s] /\ r[s \ {AnyOf(s)}] = g[s \ {AnyOf(s)}]  OBVIOUS
  <2>3. QED  BY <2>1, <2>2
<1>2. r = b  BY <1>1
<1>3. QED  BY <1>2 DEF AddsUp

\* For a finite set there is a function that adds up f.
LEMMA AddsUpExists ==
  ASSUME NEW f, NEW S, IsFiniteSet(S)
  PROVE  \E g : AddsUp(f, S, g)
<1> DEFINE T == {s \in SUBSET S : ~ \E g : AddsUp(f, s, g)}
<1>1. SUFFICES ASSUME T # {}  PROVE FALSE  OBVIOUS
<1> T \in SUBSET (SUBSET S)  OBVIOUS
<1>2. PICK x \in T : \A y \in T : y \subseteq x => y = x
  <2> HIDE DEF T
  <2>1. QED  BY <1>1, MinimalSubset
<1>3. x \in SUBSET S /\ ~ \E g : AddsUp(f, x, g)  OBVIOUS
<1>4. ASSUME NEW u \in SUBSET x, u # x
      PROVE  AddsUp(f, u, CHOOSE g : AddsUp(f, u, g))
  <2>1. \E g : AddsUp(f, u, g)  BY <1>2, <1>3, <1>4
  <2>2. QED  BY <2>1
<1> DEFINE h == [s \in SUBSET x |->
                   IF s = {} THEN 0
                   ELSE f[AnyOf(s)] + AddedUp(f, s \ {AnyOf(s)})]
           b == [s \in SUBSET x |->
                   IF s = {} THEN 0 ELSE f[AnyOf(s)] + h[s \ {AnyOf(s)}]]
<1>5. ASSUME NEW u \in SUBSET x, u # x  PROVE h[u] = AddedUp(f, u)
  <2> DEFINE G == CHOOSE g : AddsUp(f, u, g)
  <2>1. AddsUp(f, u, G)  BY <1>4, <1>5
  <2>2. AddedUp(f, u) = G[u]  BY DEF AddedUp
  <2>3. G[u] = IF u = {} THEN 0 ELSE f[AnyOf(u)] + G[u \ {AnyOf(u)}]
    BY <2>1, AddsUpAt
  <2>4. ASSUME u # {}  PROVE AddedUp(f, u \ {AnyOf(u)}) = G[u \ {AnyOf(u)}]
    <3> DEFINE v == u \ {AnyOf(u)}
               H == CHOOSE g : AddsUp(f, v, g)
    <3>1. v \in SUBSET x /\ v # x
      BY <2>4, <1>5, AnyOfIsMember
    <3>2. AddsUp(f, v, H)  BY <1>4, <3>1
    <3>3. AddsUp(f, v, [s \in SUBSET v |-> G[s]])
      <4>1. v \in SUBSET u  OBVIOUS
      <4> HIDE DEF G, v
      <4>2. QED  BY <2>1, <4>1, AddsUpWithin
    <3>4. IsFiniteSet(v)  BY <1>3, <3>1, FS_Subset
    <3>5. H[v] = [s \in SUBSET v |-> G[s]][v]
      BY <3>2, <3>3, <3>4, AddsUpOnce
    <3>6. QED  BY <3>5 DEF AddedUp
  <2>5. h[u] = IF u = {} THEN 0 ELSE f[AnyOf(u)] + AddedUp(f, u \ {AnyOf(u)})
    OBVIOUS
  <2>6. QED  BY <2>2, <2>3, <2>4, <2>5
<1>6. ASSUME NEW s \in SUBSET x  PROVE h[s] = b[s]
  <2>1. CASE s = {}  BY <2>1
  <2>2. CASE s # {}
    <3>1. s \ {AnyOf(s)} \in SUBSET x /\ s \ {AnyOf(s)} # x
      BY <2>2, AnyOfIsMember
    <3>2. h[s \ {AnyOf(s)}] = AddedUp(f, s \ {AnyOf(s)})  BY <3>1, <1>5
    <3>3. QED  BY <2>2, <3>2
  <2>3. QED  BY <2>1, <2>2
<1>7. h = b  BY <1>6
<1>8. AddsUp(f, x, h)  BY <1>7 DEF AddsUp
<1>9. QED  BY <1>3, <1>8

-----------------------------------------------------------------------------
(* The sum.                                                                *)

\* The sum is the value of that function at the whole set.
LEMMA SumIsAddedUp ==
  ASSUME NEW f, NEW S
  PROVE  SumFunctionOnSet(f, S) = AddedUp(f, S)
  BY DEF AddedUp, AddsUp, AnyOf, SumFunctionOnSet, FoldFunctionOnSet,
         MapThenFoldSet

\* The equation of the sum: some member first, then the rest.
LEMMA SumEquation ==
  ASSUME NEW f, NEW S, IsFiniteSet(S)
  PROVE  SumFunctionOnSet(f, S) =
           IF S = {} THEN 0
           ELSE f[AnyOf(S)] + SumFunctionOnSet(f, S \ {AnyOf(S)})
<1> DEFINE g == CHOOSE g : AddsUp(f, S, g)
           U == S \ {AnyOf(S)}
           h == CHOOSE h : AddsUp(f, U, h)
<1>1. AddsUp(f, S, g)  BY AddsUpExists
<1>2. IsFiniteSet(U)  BY FS_Subset
<1>3. AddsUp(f, U, h)  BY <1>2, AddsUpExists
<1>4. AddedUp(f, S) = g[S] /\ AddedUp(f, U) = h[U]  BY DEF AddedUp
<1>5. U \in SUBSET S  OBVIOUS
<1>6. h[U] = g[U]
  <2> HIDE DEF g, h, U
  <2>1. AddsUp(f, U, [s \in SUBSET U |-> g[s]])
    BY <1>1, <1>5, AddsUpWithin
  <2>2. h[U] = [s \in SUBSET U |-> g[s]][U]
    BY <1>2, <1>3, <2>1, AddsUpOnce
  <2>3. QED  BY <2>2
<1>7. g[S] = IF S = {} THEN 0 ELSE f[AnyOf(S)] + g[U]
  <2> HIDE DEF g
  <2>1. S \in SUBSET S  OBVIOUS
  <2>2. QED  BY <1>1, <2>1, AddsUpAt
<1>8. QED  BY <1>4, <1>6, <1>7, SumIsAddedUp

\* The sum over no member is 0.
LEMMA SumOfNone == ASSUME NEW f  PROVE SumFunctionOnSet(f, {}) = 0
  BY SumEquation, FS_EmptySet

\* A sum of integers is an integer.
LEMMA SumIsInt ==
  ASSUME NEW f, NEW S, IsFiniteSet(S), \A s \in S : f[s] \in Int
  PROVE  SumFunctionOnSet(f, S) \in Int
<1> DEFINE T == {s \in SUBSET S : SumFunctionOnSet(f, s) \notin Int}
<1>1. SUFFICES ASSUME T # {}  PROVE FALSE  OBVIOUS
<1> T \in SUBSET (SUBSET S)  OBVIOUS
<1>2. PICK x \in T : \A y \in T : y \subseteq x => y = x
  <2> HIDE DEF T
  <2>1. QED  BY <1>1, MinimalSubset
<1>3. x \in SUBSET S /\ SumFunctionOnSet(f, x) \notin Int  OBVIOUS
<1>4. ASSUME NEW y \in SUBSET x, y # x
      PROVE  SumFunctionOnSet(f, y) \in Int
  BY <1>2, <1>3, <1>4
<1> HIDE DEF T
<1>5. IsFiniteSet(x)  BY <1>3, FS_Subset
<1>6. SumFunctionOnSet(f, x) =
        IF x = {} THEN 0
        ELSE f[AnyOf(x)] + SumFunctionOnSet(f, x \ {AnyOf(x)})
  BY <1>5, SumEquation
<1>7. x # {}  BY <1>3, <1>6
<1>8. AnyOf(x) \in x  BY <1>7, AnyOfIsMember
<1>9. SumFunctionOnSet(f, x \ {AnyOf(x)}) \in Int  BY <1>4, <1>8
<1>10. f[AnyOf(x)] \in Int  BY <1>3, <1>8
<1>11. QED  BY <1>3, <1>6, <1>7, <1>9, <1>10

\* Any member can be taken out first.
LEMMA SumTakeOut ==
  ASSUME NEW f, NEW S, IsFiniteSet(S), \A s \in S : f[s] \in Int,
         NEW m \in S
  PROVE  SumFunctionOnSet(f, S) = f[m] + SumFunctionOnSet(f, S \ {m})
<1> DEFINE Sum(s) == SumFunctionOnSet(f, s)
           Fails(s) == \E e \in s : Sum(s) # f[e] + Sum(s \ {e})
           T == {s \in SUBSET S : Fails(s)}
<1>1. SUFFICES ASSUME T # {}  PROVE FALSE
  <2>1. CASE Fails(S)  BY <1>1, <2>1
  <2>2. CASE ~ Fails(S)  BY <2>2
  <2>3. QED  BY <2>1, <2>2
<1> T \in SUBSET (SUBSET S)  OBVIOUS
<1>2. PICK x \in T : \A y \in T : y \subseteq x => y = x
  <2> HIDE DEF T
  <2>1. QED  BY <1>1, MinimalSubset
<1>3. x \in SUBSET S /\ Fails(x)  OBVIOUS
<1>4. ASSUME NEW y \in SUBSET x, y # x, NEW e \in y
      PROVE  Sum(y) = f[e] + Sum(y \ {e})
  BY <1>2, <1>3, <1>4
<1> HIDE DEF T
<1>5. PICK e \in x : Sum(x) # f[e] + Sum(x \ {e})  BY <1>3
<1> DEFINE c == AnyOf(x)
<1>6. c \in x  BY <1>5, AnyOfIsMember
<1>7. IsFiniteSet(x) /\ \A y \in SUBSET x : IsFiniteSet(y)
  BY <1>3, FS_Subset
<1>8. \A y \in SUBSET x : Sum(y) \in Int
  BY <1>3, <1>7, SumIsInt
<1>9. Sum(x) = f[c] + Sum(x \ {c})
  BY <1>5, <1>7, SumEquation
<1>10. f[c] \in Int /\ f[e] \in Int  BY <1>3, <1>5, <1>6
<1> HIDE DEF c, Sum
<1>11. e # c  BY <1>5, <1>9
<1>12. Sum(x \ {c}) = f[e] + Sum((x \ {c}) \ {e})
  BY <1>4, <1>5, <1>6, <1>11
<1>13. Sum(x \ {e}) = f[c] + Sum((x \ {e}) \ {c})
  BY <1>4, <1>5, <1>6, <1>11
<1>14. Sum((x \ {c}) \ {e}) = Sum((x \ {e}) \ {c})
  <2>1. (x \ {c}) \ {e} = (x \ {e}) \ {c}  OBVIOUS
  <2>2. QED  BY <2>1
<1>15. Sum((x \ {c}) \ {e}) \in Int  BY <1>8
<1>16. Sum(x) = f[c] + (f[e] + Sum((x \ {c}) \ {e}))  BY <1>9, <1>12
<1>17. Sum(x \ {e}) = f[c] + Sum((x \ {c}) \ {e})  BY <1>13, <1>14
<1>18. QED  BY <1>5, <1>10, <1>15, <1>16, <1>17

\* A new member adds its value.
LEMMA SumAddOne ==
  ASSUME NEW f, NEW S, IsFiniteSet(S), NEW m, m \notin S,
         \A s \in S \cup {m} : f[s] \in Int
  PROVE  SumFunctionOnSet(f, S \cup {m}) = SumFunctionOnSet(f, S) + f[m]
<1>1. IsFiniteSet(S \cup {m})  BY FS_AddElement
<1>2. (S \cup {m}) \ {m} = S  OBVIOUS
<1>3. SumFunctionOnSet(f, S \cup {m}) =
        f[m] + SumFunctionOnSet(f, (S \cup {m}) \ {m})
  BY <1>1, SumTakeOut
<1>4. SumFunctionOnSet(f, (S \cup {m}) \ {m}) = SumFunctionOnSet(f, S)
  BY <1>2
<1>5. SumFunctionOnSet(f, S) \in Int /\ f[m] \in Int  BY SumIsInt
<1>6. QED  BY <1>3, <1>4, <1>5

\* The sum depends on the values of the members only.
LEMMA SumSame ==
  ASSUME NEW f, NEW g, NEW S, IsFiniteSet(S), \A s \in S : f[s] = g[s]
  PROVE  SumFunctionOnSet(f, S) = SumFunctionOnSet(g, S)
<1> DEFINE T == {s \in SUBSET S :
                   SumFunctionOnSet(f, s) # SumFunctionOnSet(g, s)}
<1>1. SUFFICES ASSUME T # {}  PROVE FALSE  OBVIOUS
<1> T \in SUBSET (SUBSET S)  OBVIOUS
<1>2. PICK x \in T : \A y \in T : y \subseteq x => y = x
  <2> HIDE DEF T
  <2>1. QED  BY <1>1, MinimalSubset
<1>3. x \in SUBSET S /\ SumFunctionOnSet(f, x) # SumFunctionOnSet(g, x)
  OBVIOUS
<1>4. ASSUME NEW y \in SUBSET x, y # x
      PROVE  SumFunctionOnSet(f, y) = SumFunctionOnSet(g, y)
  BY <1>2, <1>3, <1>4
<1> HIDE DEF T
<1>5. IsFiniteSet(x)  BY <1>3, FS_Subset
<1>6. \A h : SumFunctionOnSet(h, x) =
        IF x = {} THEN 0
        ELSE h[AnyOf(x)] + SumFunctionOnSet(h, x \ {AnyOf(x)})
  BY <1>5, SumEquation
<1>7. x # {}  BY <1>3, <1>6
<1>8. AnyOf(x) \in x  BY <1>7, AnyOfIsMember
<1>9. SumFunctionOnSet(f, x \ {AnyOf(x)}) = SumFunctionOnSet(g, x \ {AnyOf(x)})
  BY <1>4, <1>8
<1>10. f[AnyOf(x)] = g[AnyOf(x)]  BY <1>3, <1>8
<1>11. SumFunctionOnSet(f, x) = f[AnyOf(x)] + SumFunctionOnSet(f, x \ {AnyOf(x)})
  BY <1>6, <1>7
<1>12. SumFunctionOnSet(g, x) = g[AnyOf(x)] + SumFunctionOnSet(g, x \ {AnyOf(x)})
  BY <1>6, <1>7
<1>13. QED  BY <1>3, <1>9, <1>10, <1>11, <1>12

\* When one value changes, the sum changes by as much.
LEMMA SumChangeOne ==
  ASSUME NEW f, NEW g, NEW S, IsFiniteSet(S), NEW m \in S,
         \A s \in S : f[s] \in Int /\ g[s] \in Int,
         \A s \in S : s # m => g[s] = f[s]
  PROVE  SumFunctionOnSet(g, S) = SumFunctionOnSet(f, S) + g[m] - f[m]
<1>1. SumFunctionOnSet(f, S) = f[m] + SumFunctionOnSet(f, S \ {m})
  BY SumTakeOut
<1>2. SumFunctionOnSet(g, S) = g[m] + SumFunctionOnSet(g, S \ {m})
  BY SumTakeOut
<1>3. IsFiniteSet(S \ {m})  BY FS_Subset
<1>4. SumFunctionOnSet(f, S \ {m}) = SumFunctionOnSet(g, S \ {m})
  BY <1>3, SumSame
<1>5. SumFunctionOnSet(f, S \ {m}) \in Int  BY <1>3, SumIsInt
<1>6. QED  BY <1>1, <1>2, <1>4, <1>5

\* Members that are worth a each, and others that are worth nothing, add up to a
\* times their number.
LEMMA SumOfEqual ==
  ASSUME NEW f, NEW S, IsFiniteSet(S), NEW L \in SUBSET S, NEW a \in Int,
         \A s \in S : f[s] = IF s \in L THEN a ELSE 0
  PROVE  SumFunctionOnSet(f, S) = a * Cardinality(L)
<1> DEFINE T == {s \in SUBSET S : SumFunctionOnSet(f, s) # a * Cardinality(s \cap L)}
<1>1. SUFFICES ASSUME T # {}  PROVE FALSE
  <2>1. S \cap L = L  OBVIOUS
  <2>2. QED  BY <1>1, <2>1
<1> T \in SUBSET (SUBSET S)  OBVIOUS
<1>2. PICK x \in T : \A y \in T : y \subseteq x => y = x
  <2> HIDE DEF T
  <2>1. QED  BY <1>1, MinimalSubset
<1>3. x \in SUBSET S /\ SumFunctionOnSet(f, x) # a * Cardinality(x \cap L)
  OBVIOUS
<1>4. ASSUME NEW y \in SUBSET x, y # x
      PROVE  SumFunctionOnSet(f, y) = a * Cardinality(y \cap L)
  BY <1>2, <1>3, <1>4
<1> HIDE DEF T
<1>5. x # {}
  <2>1. {} \cap L = {}  OBVIOUS
  <2>2. Cardinality({}) = 0  BY FS_EmptySet
  <2>3. a * Cardinality({}) = 0  BY <2>2
  <2>4. SUFFICES ASSUME x = {}  PROVE FALSE  OBVIOUS
  <2>5. SumFunctionOnSet(f, x) = 0  BY <2>4, SumOfNone
  <2>6. QED  BY <1>3, <2>1, <2>3, <2>4, <2>5
<1> DEFINE m == AnyOf(x)
           y == x \ {m}
<1>6. m \in x  BY <1>5, AnyOfIsMember
<1>7. IsFiniteSet(x) /\ IsFiniteSet(y)  BY <1>3, FS_Subset
<1>8. SumFunctionOnSet(f, x) = f[m] + SumFunctionOnSet(f, y)
  BY <1>5, <1>7, SumEquation
<1> HIDE DEF m
<1>9. SumFunctionOnSet(f, y) = a * Cardinality(y \cap L)  BY <1>4, <1>6
<1>10. IsFiniteSet(y \cap L)  BY <1>7, FS_Subset
<1> DEFINE n == Cardinality(y \cap L)
<1>11. n \in Int  BY <1>10, FS_CardinalityType
<1>12. CASE m \in L
  <2>1. x \cap L = (y \cap L) \cup {m} /\ m \notin y \cap L  BY <1>6, <1>12
  <2>2. Cardinality(x \cap L) = n + 1  BY <2>1, <1>10, FS_AddElement
  <2>3. f[m] = a  BY <1>3, <1>6, <1>12
  <2> HIDE DEF n
  <2>4. a * (n + 1) = a + a * n  BY <1>11
  <2>5. QED  BY <1>3, <1>8, <1>9, <2>2, <2>3, <2>4 DEF n
<1>13. CASE m \notin L
  <2>1. x \cap L = y \cap L  BY <1>13
  <2>2. f[m] = 0  BY <1>3, <1>6, <1>13
  <2>3. Cardinality(x \cap L) = n  BY <2>1
  <2> HIDE DEF n, y
  <2>4. a * n \in Int  BY <1>11
  <2>5. 0 + a * n = a * n  BY <2>4
  <2>6. QED  BY <1>3, <1>8, <1>9, <2>2, <2>3, <2>5 DEF n
<1>14. QED  BY <1>12, <1>13

-----------------------------------------------------------------------------
(* Sums over an interval, in its order.                                    *)

\* Induction from 0 to n: a set that has 0, and with every number the next one.
LEMMA UpTo ==
  ASSUME NEW n \in Nat, NEW T \in SUBSET (0 .. n), 0 \in T,
         \A k \in 0 .. n : k \in T /\ k < n => k + 1 \in T
  PROVE  T = 0 .. n
<1> DEFINE F == {0 .. k : k \in (0 .. n) \ T}
<1>1. SUFFICES ASSUME NEW k \in (0 .. n) \ T  PROVE FALSE  OBVIOUS
<1>2. IsFiniteSet(0 .. n)  BY FS_Interval
<1>3. F \in SUBSET (SUBSET (0 .. n)) /\ F # {}  BY <1>1
<1>4. PICK x \in F : \A y \in F : y \subseteq x => y = x
  <2> DEFINE S == 0 .. n
  <2>1. F \in SUBSET (SUBSET S) /\ F # {} /\ IsFiniteSet(S)  BY <1>2, <1>3
  <2> HIDE DEF F, S
  <2>2. QED  BY <2>1, MinimalSubset
<1>5. PICK m \in (0 .. n) \ T : x = 0 .. m  OBVIOUS
<1>6. m # 0 /\ m - 1 \in 0 .. n /\ m - 1 < n  BY <1>5
<1>7. m - 1 \notin T
  <2>1. m - 1 + 1 = m  BY <1>5
  <2>2. QED  BY <1>5, <1>6, <2>1
<1>8. 0 .. (m - 1) \in F  BY <1>6, <1>7
<1>9. 0 .. (m - 1) \subseteq x /\ m \in x /\ m \notin 0 .. (m - 1)  BY <1>5, <1>6
<1>10. QED  BY <1>4, <1>8, <1>9

\* One more number, one more value.
LEMMA SumNext ==
  ASSUME NEW k \in Nat, NEW f, \A i \in 1 .. (k + 1) : f[i] \in Int
  PROVE  /\ SumFunctionOnSet(f, 1 .. (k + 1)) = SumFunctionOnSet(f, 1 .. k) + f[k + 1]
         /\ SumFunctionOnSet(f, 1 .. k) \in Int
<1>1. IsFiniteSet(1 .. k)  BY FS_Interval
<1>2. 1 .. (k + 1) = (1 .. k) \cup {k + 1} /\ k + 1 \notin 1 .. k  OBVIOUS
<1>3. \A i \in (1 .. k) \cup {k + 1} : f[i] \in Int  BY <1>2
<1>4. QED  BY <1>1, <1>2, <1>3, SumAddOne, SumIsInt

\* Counting through the members of a set adds up the same values.
LEMMA SumInOrder ==
  ASSUME NEW n \in Nat, NEW P, NEW g, \A l \in P : g[l] \in Int,
         NEW o \in [1 .. n -> P], \A i, j \in 1 .. n : i # j => o[i] # o[j],
         \A l \in P : \E i \in 1 .. n : o[i] = l,
         NEW f, \A i \in 1 .. n : f[i] = g[o[i]]
  PROVE  SumFunctionOnSet(f, 1 .. n) = SumFunctionOnSet(g, P)
<1> DEFINE At(k) == {o[i] : i \in 1 .. k}
           T == {k \in 0 .. n : SumFunctionOnSet(f, 1 .. k) = SumFunctionOnSet(g, At(k))}
<1>1. 0 \in T
  <2>1. 1 .. 0 = {} /\ At(0) = {} /\ 0 \in 0 .. n  OBVIOUS
  <2>2. SumFunctionOnSet(f, {}) = 0 /\ SumFunctionOnSet(g, {}) = 0  BY SumOfNone
  <2> HIDE DEF At
  <2>3. QED  BY <2>1, <2>2
<1>2. ASSUME NEW k \in 0 .. n, k \in T, k < n  PROVE k + 1 \in T
  <2>1. k \in Nat /\ k + 1 \in 0 .. n /\ \A i \in 1 .. (k + 1) : i \in 1 .. n  BY <1>2
  <2>2. \A i \in 1 .. (k + 1) : f[i] \in Int  BY <2>1
  <2>3. SumFunctionOnSet(f, 1 .. (k + 1)) = SumFunctionOnSet(f, 1 .. k) + f[k + 1]
    BY <2>1, <2>2, SumNext
  <2>4. At(k + 1) = At(k) \cup {o[k + 1]} /\ o[k + 1] \notin At(k)
    <3>1. 1 .. (k + 1) = (1 .. k) \cup {k + 1}  BY <2>1
    <3>2. \A i \in 1 .. k : i \in 1 .. n /\ i # k + 1  BY <2>1
    <3>3. k + 1 \in 1 .. n  BY <2>1
    <3>4. QED  BY <3>1, <3>2, <3>3
  <2>5. IsFiniteSet(At(k))
    <3> DEFINE D == 1 .. k
               h == [i \in D |-> o[i]]
    <3>1. IsFiniteSet(D)  BY FS_Interval
    <3>2. h \in Surjection(D, At(k))  BY DEF Surjection
    <3> HIDE DEF D, h
    <3>3. QED  BY <3>1, <3>2, FS_Surjection
  <2>6. At(k) \subseteq P /\ o[k + 1] \in P  BY <2>1
  <2>7. SumFunctionOnSet(g, At(k + 1)) = SumFunctionOnSet(g, At(k)) + g[o[k + 1]]
    <3> DEFINE A == At(k)
               m == o[k + 1]
    <3>1. /\ \A l \in A \cup {m} : g[l] \in Int
          /\ IsFiniteSet(A) /\ m \notin A
      BY <2>4, <2>5, <2>6
    <3> HIDE DEF A, m
    <3>2. SumFunctionOnSet(g, A \cup {m}) = SumFunctionOnSet(g, A) + g[m]
      BY <3>1, SumAddOne
    <3>3. QED  BY <2>4, <3>2 DEF A, m
  <2>8. f[k + 1] = g[o[k + 1]]  BY <2>1
  <2>9. QED  BY <1>2, <2>1, <2>3, <2>7, <2>8
<1>3. T = 0 .. n
  <2>1. T \in SUBSET (0 .. n)  OBVIOUS
  <2> HIDE DEF T
  <2>2. QED  BY <1>1, <1>2, <2>1, UpTo
<1>4. n \in T
  <2> HIDE DEF T
  <2>1. QED  BY <1>3
<1>5. At(n) = P  OBVIOUS
<1>6. SumFunctionOnSet(f, 1 .. n) = SumFunctionOnSet(g, At(n))  BY <1>4
<1> HIDE DEF At
<1>7. QED  BY <1>5, <1>6

\* A sum of natural numbers is one.
LEMMA SumIsNat ==
  ASSUME NEW f, NEW S, IsFiniteSet(S), \A s \in S : f[s] \in Nat
  PROVE  SumFunctionOnSet(f, S) \in Nat
<1> DEFINE T == {s \in SUBSET S : SumFunctionOnSet(f, s) \notin Nat}
<1>1. SUFFICES ASSUME T # {}  PROVE FALSE  OBVIOUS
<1> T \in SUBSET (SUBSET S)  OBVIOUS
<1>2. PICK x \in T : \A y \in T : y \subseteq x => y = x
  <2> HIDE DEF T
  <2>1. QED  BY <1>1, MinimalSubset
<1>3. x \in SUBSET S /\ SumFunctionOnSet(f, x) \notin Nat  OBVIOUS
<1>4. ASSUME NEW y \in SUBSET x, y # x  PROVE SumFunctionOnSet(f, y) \in Nat
  BY <1>2, <1>3, <1>4
<1> HIDE DEF T
<1>5. x # {}
  <2>1. SumFunctionOnSet(f, {}) = 0 /\ 0 \in Nat  BY SumOfNone
  <2>2. QED  BY <1>3, <2>1
<1> DEFINE m == AnyOf(x)
           y == x \ {m}
<1>6. m \in x  BY <1>5, AnyOfIsMember
<1>7. IsFiniteSet(x)  BY <1>3, FS_Subset
<1>8. SumFunctionOnSet(f, x) = f[m] + SumFunctionOnSet(f, y)
  BY <1>5, <1>7, SumEquation
<1> HIDE DEF m
<1>9. SumFunctionOnSet(f, y) \in Nat  BY <1>4, <1>6
<1>10. f[m] \in Nat  BY <1>3, <1>6
<1>11. QED  BY <1>3, <1>8, <1>9, <1>10

\* The sum of two functions is the sum of their sums.
LEMMA SumPlus ==
  ASSUME NEW S, IsFiniteSet(S), NEW f, NEW g, NEW h,
         \A s \in S : f[s] \in Int /\ g[s] \in Int /\ h[s] = f[s] + g[s]
  PROVE  SumFunctionOnSet(h, S) = SumFunctionOnSet(f, S) + SumFunctionOnSet(g, S)
<1> DEFINE Sum(e, s) == SumFunctionOnSet(e, s)
           T == {s \in SUBSET S : Sum(h, s) # Sum(f, s) + Sum(g, s)}
<1>1. SUFFICES ASSUME T # {}  PROVE FALSE  OBVIOUS
<1> T \in SUBSET (SUBSET S)  OBVIOUS
<1>2. PICK x \in T : \A y \in T : y \subseteq x => y = x
  <2> HIDE DEF T
  <2>1. QED  BY <1>1, MinimalSubset
<1>3. x \in SUBSET S /\ Sum(h, x) # Sum(f, x) + Sum(g, x)  OBVIOUS
<1>4. ASSUME NEW y \in SUBSET x, y # x  PROVE Sum(h, y) = Sum(f, y) + Sum(g, y)
  BY <1>2, <1>3, <1>4
<1> HIDE DEF T
<1>5. x # {}
  <2>1. SUFFICES ASSUME x = {}  PROVE FALSE  OBVIOUS
  <2>2. Sum(h, x) = 0 /\ Sum(f, x) = 0 /\ Sum(g, x) = 0  BY <2>1, SumOfNone
  <2> HIDE DEF Sum
  <2>3. QED  BY <1>3, <2>2
<1> DEFINE m == AnyOf(x)
           y == x \ {m}
<1>6. m \in x  BY <1>5, AnyOfIsMember
<1>7. IsFiniteSet(x) /\ IsFiniteSet(y)  BY <1>3, FS_Subset
<1>8. /\ Sum(h, x) = h[m] + Sum(h, y)
      /\ Sum(f, x) = f[m] + Sum(f, y)
      /\ Sum(g, x) = g[m] + Sum(g, y)
  BY <1>5, <1>7, SumEquation
<1> HIDE DEF m
<1>9. Sum(f, y) \in Int /\ Sum(g, y) \in Int
  <2>1. \A s \in y : f[s] \in Int /\ g[s] \in Int  BY <1>3
  <2>2. QED  BY <1>7, <2>1, SumIsInt
<1>10. Sum(h, y) = Sum(f, y) + Sum(g, y)  BY <1>4, <1>6
<1>11. f[m] \in Int /\ g[m] \in Int /\ h[m] = f[m] + g[m]  BY <1>3, <1>6
<1> HIDE DEF Sum, y
<1>12. QED  BY <1>3, <1>8, <1>9, <1>10, <1>11

\* What day is on or before d.
By(day, n, d) == IF day <= d THEN n ELSE 0

\* A sum over days, of which one counts.
LEMMA SumOfDay ==
  ASSUME NEW a \in Int, NEW b \in Int, a - 1 <= b, NEW day \in Int, NEW n \in Int,
         NEW f, \A d \in a .. b : f[d] = IF d = day THEN n ELSE 0
  PROVE  SumFunctionOnSet(f, a .. b) = By(day, n, b) - By(day, n, a - 1)
<1> DEFINE S == a .. b
           L == {day} \cap S
<1>1. IsFiniteSet(S) /\ L \in SUBSET S  BY FS_Interval
<1>2. \A d \in S : f[d] = IF d \in L THEN n ELSE 0  OBVIOUS
<1>3. Cardinality(L) = IF day \in S THEN 1 ELSE 0
  <2>1. L = IF day \in S THEN {day} ELSE {}  OBVIOUS
  <2>2. QED  BY <2>1, FS_Singleton, FS_EmptySet
<1>4. day \in S <=> a <= day /\ day <= b  OBVIOUS
<1> HIDE DEF L, S
<1>5. SumFunctionOnSet(f, S) = n * Cardinality(L)  BY <1>1, <1>2, SumOfEqual
<1>6. SumFunctionOnSet(f, S) = IF day \in S THEN n ELSE 0  BY <1>3, <1>5
<1>7. SumFunctionOnSet(f, S) = By(day, n, b) - By(day, n, a - 1)
  BY <1>4, <1>6 DEF By
<1>8. QED  BY <1>7 DEF S

\* The sum over a part is the sum over the whole with 0 for the rest.
LEMMA SumOfPart ==
  ASSUME NEW S, IsFiniteSet(S), NEW L \in SUBSET S, NEW f, NEW h,
         \A s \in S : f[s] \in Int,
         \A s \in S : h[s] = IF s \in L THEN f[s] ELSE 0
  PROVE  SumFunctionOnSet(f, L) = SumFunctionOnSet(h, S)
<1> DEFINE Sum(e, s) == SumFunctionOnSet(e, s)
           T == {s \in SUBSET S : Sum(h, s) # Sum(f, s \cap L)}
<1>1. SUFFICES ASSUME T # {}  PROVE FALSE
  <2>1. S \cap L = L  OBVIOUS
  <2>2. QED  BY <1>1, <2>1
<1> T \in SUBSET (SUBSET S)  OBVIOUS
<1>2. PICK x \in T : \A y \in T : y \subseteq x => y = x
  <2> HIDE DEF T
  <2>1. QED  BY <1>1, MinimalSubset
<1>3. x \in SUBSET S /\ Sum(h, x) # Sum(f, x \cap L)  OBVIOUS
<1>4. x # {}
  <2>1. {} \cap L = {} /\ Sum(h, {}) = 0 /\ Sum(f, {}) = 0  BY SumOfNone
  <2>2. QED  BY <1>3, <2>1
<1>5. PICK m \in x : TRUE  BY <1>4
<1> DEFINE y == x \ {m}
<1>6. Sum(h, y) = Sum(f, y \cap L)
  <2>1. y \in SUBSET S /\ y \subseteq x /\ y # x  BY <1>3
  <2>2. y \notin T  BY <1>2, <2>1
  <2>3. QED  BY <2>1, <2>2
<1>7. IsFiniteSet(x) /\ IsFiniteSet(x \cap L) /\ IsFiniteSet(y \cap L)  BY <1>3, FS_Subset
<1>8. \A s \in S : h[s] \in Int  OBVIOUS
<1>9. Sum(h, x) = h[m] + Sum(h, y)
  <2>1. \A s \in x : h[s] \in Int  BY <1>3, <1>8
  <2> HIDE DEF y
  <2>2. QED  BY <1>7, <2>1, SumTakeOut DEF y
<1>10. Sum(f, y \cap L) \in Int
  <2>1. \A s \in y \cap L : f[s] \in Int  BY <1>3
  <2> DEFINE part == y \cap L
  <2> HIDE DEF part
  <2>2. IsFiniteSet(part) /\ \A s \in part : f[s] \in Int  BY <1>7, <2>1 DEF part
  <2>3. QED  BY <2>2, SumIsInt DEF part
<1>11. CASE m \in L
  <2> DEFINE part == x \cap L
  <2>1. IsFiniteSet(part) /\ m \in part /\ \A s \in part : f[s] \in Int  BY <1>3, <1>7, <1>11
  <2>2. part \ {m} = y \cap L /\ part = x \cap L  OBVIOUS
  <2> HIDE DEF part, y
  <2>3. Sum(f, part) = f[m] + Sum(f, part \ {m})  BY <2>1, SumTakeOut
  <2>4. h[m] = f[m] /\ f[m] \in Int  BY <1>3, <1>11
  <2>5. Sum(f, part \ {m}) = Sum(h, y) /\ Sum(h, y) \in Int /\ Sum(f, part) # Sum(h, x)
    BY <1>3, <1>6, <1>10, <2>2
  <2> HIDE DEF Sum
  <2>6. QED  BY <1>9, <2>3, <2>4, <2>5
<1>12. CASE m \notin L
  <2>1. x \cap L = y \cap L  BY <1>12
  <2>2. h[m] = 0  BY <1>3, <1>12
  <2>3. Sum(f, y \cap L) = Sum(h, y) /\ Sum(h, y) # Sum(h, x)  BY <1>3, <1>6, <2>1
  <2> HIDE DEF Sum, y
  <2>4. QED  BY <1>9, <1>10, <2>2, <2>3
<1>13. QED  BY <1>11, <1>12

\* A sum grows with its terms.
LEMMA SumAtMost ==
  ASSUME NEW S, IsFiniteSet(S), NEW f, NEW g,
         \A s \in S : f[s] \in Int /\ g[s] \in Int /\ f[s] <= g[s]
  PROVE  SumFunctionOnSet(f, S) <= SumFunctionOnSet(g, S)
<1> DEFINE d == [s \in S |-> g[s] - f[s]]
<1>1. \A s \in S : d[s] \in Nat /\ f[s] \in Int /\ d[s] \in Int /\ g[s] = f[s] + d[s]  OBVIOUS
<1> HIDE DEF d
<1>2. SumFunctionOnSet(g, S) = SumFunctionOnSet(f, S) + SumFunctionOnSet(d, S)
  BY <1>1, SumPlus
<1>3. SumFunctionOnSet(d, S) \in Nat /\ SumFunctionOnSet(f, S) \in Int
  BY <1>1, SumIsNat, SumIsInt
<1>4. QED  BY <1>2, <1>3

-----------------------------------------------------------------------------
(* The sum of w over the members of a sequence *)

SeqSum(w, s) == SumFunctionOnSet([i \in 1 .. Len(s) |-> w[s[i]]], 1 .. Len(s))

LEMMA SeqSumAppend ==
  ASSUME NEW E, NEW w \in [E -> Int], NEW s \in Seq(E), NEW x \in E
  PROVE  /\ SeqSum(w, Append(s, x)) = SeqSum(w, s) + w[x]
         /\ SeqSum(w, s) \in Int
<1> DEFINE n == Len(s)
           t == Append(s, x)
           f == [i \in 1 .. n |-> w[s[i]]]
           g == [i \in 1 .. (n + 1) |-> w[t[i]]]
<1>1. n \in Nat /\ t \in Seq(E) /\ Len(t) = n + 1 /\ t[n + 1] = x
      /\ \A i \in 1 .. n : t[i] = s[i] /\ s[i] \in E
  OBVIOUS
<1>2. \A i \in 1 .. (n + 1) : g[i] = w[t[i]] /\ t[i] \in E  BY <1>1
<1>3. \A i \in 1 .. (n + 1) : g[i] \in Int  BY <1>2
<1>4. \A i \in 1 .. n : g[i] = f[i]  BY <1>1
<1>5. SeqSum(w, t) = SumFunctionOnSet(g, 1 .. (n + 1)) /\ SeqSum(w, s) = SumFunctionOnSet(f, 1 .. n)
  BY <1>1 DEF SeqSum
<1>6. g[n + 1] = w[x]  BY <1>1
<1> HIDE DEF n, t, f, g
<1>7. SumFunctionOnSet(g, 1 .. (n + 1)) = SumFunctionOnSet(g, 1 .. n) + g[n + 1]
      /\ SumFunctionOnSet(g, 1 .. n) \in Int
  BY <1>1, <1>3, SumNext
<1>8. SumFunctionOnSet(g, 1 .. n) = SumFunctionOnSet(f, 1 .. n)
  <2>1. IsFiniteSet(1 .. n)  BY <1>1, FS_Interval
  <2>2. QED  BY <1>4, <2>1, SumSame
<1>9. QED  BY <1>5, <1>6, <1>7, <1>8 DEF t

LEMMA SeqSumOfNone == ASSUME NEW w  PROVE SeqSum(w, << >>) = 0
<1>1. 1 .. Len(<< >>) = {}  OBVIOUS
<1>2. QED  BY <1>1, SumOfNone DEF SeqSum

=============================================================================
