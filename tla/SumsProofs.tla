----------------------------- MODULE SumsProofs -----------------------------
(***************************************************************************)
(* Facts about the sums of module Sums, for functions from a finite set     *)
(* into Nat: what a sum is, how it moves when one term changes, and that it *)
(* grows with its terms.  Also the existence of the maximum MaxOf chooses.  *)
(***************************************************************************)
EXTENDS Sums, FiniteSetTheorems, WellFoundedInduction, TLAPS

\* The units of one term are finitely many: as many as its value.
LEMMA TermUnits ==
    ASSUME NEW x, NEW n \in Nat
    PROVE  /\ IsFiniteSet({x} \X (1 .. n))
           /\ Cardinality({x} \X (1 .. n)) = n
<1>1. IsFiniteSet({x}) /\ Cardinality({x}) = 1
  BY FS_Singleton
<1>2. IsFiniteSet(1 .. n) /\ Cardinality(1 .. n) = n
  BY FS_Interval
<1>3. /\ IsFiniteSet({x} \X (1 .. n))
      /\ Cardinality({x} \X (1 .. n)) = Cardinality({x}) * Cardinality(1 .. n)
  BY <1>1, <1>2, FS_Product
<1> QED BY <1>1, <1>2, <1>3

\* A sum of finitely many natural numbers is a natural number.
LEMMA SumType ==
    ASSUME NEW S, IsFiniteSet(S), NEW g \in [S -> Nat]
    PROVE  IsFiniteSet(Units(g)) /\ SumOver(g) \in Nat
<1> DEFINE term == [x \in S |-> {x} \X (1 .. g[x])]
           terms == {{x} \X (1 .. g[x]) : x \in S}
<1>1. term \in Surjection(S, terms)
  BY DEF Surjection
<1>2. IsFiniteSet(terms)
  BY <1>1, FS_Surjection
<1>3. ASSUME NEW T \in terms PROVE IsFiniteSet(T)
  <2>1. PICK x \in S : T = {x} \X (1 .. g[x])
    OBVIOUS
  <2>2. g[x] \in Nat
    OBVIOUS
  <2> QED BY <2>1, <2>2, TermUnits
<1>4. IsFiniteSet(UNION terms)
  BY <1>2, <1>3, FS_UNION
<1>5. Units(g) = UNION terms
  BY DEF Units
<1> QED BY <1>4, <1>5, FS_CardinalityType DEF SumOver

\* The units of g are the pairs <<x, i>> with i at most g[x].
LEMMA UnitsMember ==
    ASSUME NEW S, NEW g \in [S -> Nat], NEW u
    PROVE  u \in Units(g) <=> \E x \in S : \E i \in 1 .. g[x] : u = <<x, i>>
BY DEF Units

\* The sum grows with its terms.
LEMMA SumMonotone ==
    ASSUME NEW S, IsFiniteSet(S), NEW g \in [S -> Nat], NEW h \in [S -> Nat],
           \A x \in S : g[x] =< h[x]
    PROVE  SumOver(g) =< SumOver(h)
<1>1. Units(g) \subseteq Units(h)
  <2> SUFFICES ASSUME NEW u \in Units(g) PROVE u \in Units(h)
    OBVIOUS
  <2>1. PICK x \in S : \E i \in 1 .. g[x] : u = <<x, i>>
    BY UnitsMember
  <2>2. PICK i \in 1 .. g[x] : u = <<x, i>>
    BY <2>1
  <2>3. i \in 1 .. h[x]
    BY <2>2
  <2> QED BY <2>2, <2>3, UnitsMember
<1>2. IsFiniteSet(Units(h))
  BY SumType
<1> QED BY <1>1, <1>2, FS_Subset DEF SumOver

\* A sum is the term of z and the sum with that term set to zero.
LEMMA SumSplit ==
    ASSUME NEW S, IsFiniteSet(S), NEW g \in [S -> Nat], NEW z \in S
    PROVE  SumOver(g) = g[z] + SumOver([g EXCEPT ![z] = 0])
<1> DEFINE rest == [g EXCEPT ![z] = 0]
           own == {z} \X (1 .. g[z])
<1>1. /\ rest \in [S -> Nat]
      /\ rest[z] = 0
      /\ \A x \in S \ {z} : rest[x] = g[x]
  OBVIOUS
<1> HIDE DEF rest
<1>2. Units(g) = Units(rest) \cup own
  <2>1. ASSUME NEW u PROVE u \in Units(g) <=> u \in Units(rest) \cup own
    <3>1. u \in Units(g) => u \in Units(rest) \cup own
      <4> SUFFICES ASSUME u \in Units(g) PROVE u \in Units(rest) \cup own
        OBVIOUS
      <4>1. PICK x \in S : \E i \in 1 .. g[x] : u = <<x, i>>
        BY UnitsMember
      <4>2. CASE x = z
        BY <4>1, <4>2
      <4>3. CASE x # z
        <5>1. rest[x] = g[x]
          BY <1>1, <4>3
        <5> QED BY <1>1, <4>1, <5>1, UnitsMember
      <4> QED BY <4>2, <4>3
    <3>2. u \in Units(rest) => u \in Units(g)
      <4> SUFFICES ASSUME u \in Units(rest) PROVE u \in Units(g)
        OBVIOUS
      <4>1. PICK x \in S : \E i \in 1 .. rest[x] : u = <<x, i>>
        BY <1>1, UnitsMember
      <4>2. rest[x] \in Nat /\ g[x] \in Nat /\ rest[x] =< g[x]
        BY <1>1
      <4>3. \E i \in 1 .. g[x] : u = <<x, i>>
        BY <1>1, <4>1, <4>2
      <4> QED BY <4>3, UnitsMember
    <3>3. u \in own => u \in Units(g)
      <4> SUFFICES ASSUME u \in own PROVE u \in Units(g)
        OBVIOUS
      <4>1. \E i \in 1 .. g[z] : u = <<z, i>>
        OBVIOUS
      <4> QED BY <4>1, UnitsMember
    <3> QED BY <3>1, <3>2, <3>3
  <2> QED BY <2>1
<1>3. Units(rest) \cap own = {}
  <2> SUFFICES ASSUME NEW u \in Units(rest), u \in own PROVE FALSE
    OBVIOUS
  <2>1. PICK x \in S : \E i \in 1 .. rest[x] : u = <<x, i>>
    BY <1>1, UnitsMember
  <2>2. x = z
    BY <2>1
  <2>3. rest[x] = 0
    BY <1>1, <2>2
  <2> QED BY <2>1, <2>3
<1>4. IsFiniteSet(Units(rest)) /\ SumOver(rest) \in Nat
  BY <1>1, SumType
<1>5. IsFiniteSet(own) /\ Cardinality(own) = g[z]
  <2>1. g[z] \in Nat
    OBVIOUS
  <2> QED BY <2>1, TermUnits
<1> HIDE DEF own
<1>6. Cardinality(Units(rest) \cup own)
        = Cardinality(Units(rest)) + Cardinality(own) - Cardinality({})
  <2>1. Cardinality(Units(rest) \cup own)
          = Cardinality(Units(rest)) + Cardinality(own)
              - Cardinality(Units(rest) \cap own)
    BY <1>4, <1>5, FS_Union
  <2> QED BY <1>3, <2>1
<1>7. Cardinality({}) = 0
  BY FS_EmptySet
<1> QED BY <1>2, <1>4, <1>5, <1>6, <1>7 DEF SumOver, rest

\* A new term adds its value.
LEMMA SumExtend ==
    ASSUME NEW S, IsFiniteSet(S), NEW z, z \notin S,
           NEW g \in [S -> Nat], NEW h \in [S \cup {z} -> Nat],
           \A x \in S : h[x] = g[x]
    PROVE  SumOver(h) = SumOver(g) + h[z]
<1> DEFINE T == S \cup {z}
           rest == [h EXCEPT ![z] = 0]
<1>1. IsFiniteSet(T) /\ z \in T /\ h \in [T -> Nat]
  BY FS_AddElement
<1>2. SumOver(h) = h[z] + SumOver(rest)
  BY <1>1, SumSplit
<1>3. /\ rest \in [T -> Nat] /\ rest[z] = 0
      /\ \A x \in S : rest[x] = g[x]
  OBVIOUS
<1> HIDE DEF rest
<1>4. \A u : u \in Units(rest) <=> u \in Units(g)
  <2>1. ASSUME NEW u
        PROVE  u \in Units(rest) <=> \E x \in S : \E i \in 1 .. g[x] : u = <<x, i>>
    <3>1. u \in Units(rest) <=> \E x \in T : \E i \in 1 .. rest[x] : u = <<x, i>>
      BY <1>3, UnitsMember
    <3>2. 1 .. rest[z] = {}
      BY <1>3
    <3> QED BY <1>3, <3>1, <3>2
  <2> QED BY <2>1, UnitsMember
<1>5. SumOver(rest) = SumOver(g)
  <2>1. Units(rest) = Units(g)
    BY <1>4
  <2> QED BY <2>1 DEF SumOver
<1>6. SumOver(g) \in Nat /\ h[z] \in Nat
  BY <1>1, SumType
<1> QED BY <1>2, <1>5, <1>6

\* Changing one term changes the sum by as much.
LEMMA SumUpdate ==
    ASSUME NEW S, IsFiniteSet(S), NEW g \in [S -> Nat], NEW h \in [S -> Nat],
           NEW z \in S, \A x \in S \ {z} : h[x] = g[x]
    PROVE  SumOver(h) = SumOver(g) - g[z] + h[z]
<1>1. [h EXCEPT ![z] = 0] = [g EXCEPT ![z] = 0]
  OBVIOUS
<1>2. SumOver(h) = h[z] + SumOver([h EXCEPT ![z] = 0])
  BY SumSplit
<1>3. SumOver(g) = g[z] + SumOver([g EXCEPT ![z] = 0])
  BY SumSplit
<1>4. [g EXCEPT ![z] = 0] \in [S -> Nat]
  OBVIOUS
<1>5. SumOver([g EXCEPT ![z] = 0]) \in Nat
  BY <1>4, SumType
<1> QED BY <1>1, <1>2, <1>3, <1>5

\* Where one term changes by d and no other grows, the sum grows by at most d.
LEMMA SumShiftBelow ==
    ASSUME NEW S, IsFiniteSet(S), NEW g \in [S -> Nat], NEW h \in [S -> Nat],
           NEW z \in S, NEW d \in Int, h[z] = g[z] + d,
           \A x \in S \ {z} : h[x] =< g[x]
    PROVE  SumOver(h) =< SumOver(g) + d
<1> DEFINE mid == [g EXCEPT ![z] = h[z]]
<1>1. mid \in [S -> Nat] /\ mid[z] = h[z] /\ \A x \in S \ {z} : mid[x] = g[x]
  OBVIOUS
<1> HIDE DEF mid
<1>2. SumOver(mid) = SumOver(g) - g[z] + mid[z]
  BY <1>1, SumUpdate
<1>3. \A x \in S : h[x] =< mid[x]
  BY <1>1
<1>4. SumOver(h) =< SumOver(mid)
  BY <1>1, <1>3, SumMonotone
<1>5. SumOver(g) \in Nat /\ SumOver(h) \in Nat /\ SumOver(mid) \in Nat
  BY <1>1, SumType
<1> QED BY <1>1, <1>2, <1>4, <1>5

\* What one term loses and another gains leaves the sum as it was.
LEMMA SumTransfer ==
    ASSUME NEW S, IsFiniteSet(S), NEW g \in [S -> Nat], NEW h \in [S -> Nat],
           NEW y \in S, NEW z \in S, y # z, NEW d \in Int,
           h[y] = g[y] + d, h[z] = g[z] - d,
           \A x \in S \ {y, z} : h[x] = g[x]
    PROVE  SumOver(h) = SumOver(g)
<1> DEFINE mid == [g EXCEPT ![y] = h[y]]
<1>1. mid \in [S -> Nat] /\ mid[y] = h[y] /\ \A x \in S \ {y} : mid[x] = g[x]
  OBVIOUS
<1> HIDE DEF mid
<1>2. SumOver(mid) = SumOver(g) - g[y] + mid[y]
  BY <1>1, SumUpdate
<1>3. \A x \in S \ {z} : h[x] = mid[x]
  BY <1>1
<1>4. SumOver(h) = SumOver(mid) - mid[z] + h[z]
  BY <1>1, <1>3, SumUpdate
<1>5. SumOver(g) \in Nat /\ SumOver(h) \in Nat /\ SumOver(mid) \in Nat
  BY <1>1, SumType
<1>6. mid[z] = g[z] /\ g[z] \in Nat /\ g[y] \in Nat
  BY <1>1
<1> QED BY <1>1, <1>2, <1>4, <1>5, <1>6

\* No term exceeds the sum.
LEMMA SumTerm ==
    ASSUME NEW S, IsFiniteSet(S), NEW g \in [S -> Nat], NEW z \in S
    PROVE  g[z] =< SumOver(g)
<1>1. SumOver(g) = g[z] + SumOver([g EXCEPT ![z] = 0])
  BY SumSplit
<1>2. [g EXCEPT ![z] = 0] \in [S -> Nat]
  OBVIOUS
<1>3. SumOver([g EXCEPT ![z] = 0]) \in Nat
  BY <1>2, SumType
<1> QED BY <1>1, <1>3

\* A sum of zeros is zero.
LEMMA SumZero ==
    ASSUME NEW S, IsFiniteSet(S), NEW g \in [S -> Nat], \A x \in S : g[x] = 0
    PROVE  SumOver(g) = 0
<1>1. Units(g) = {}
  BY UnitsMember
<1> QED BY <1>1, FS_EmptySet DEF SumOver

\* A finite set of integers that is not empty has a maximum, and MaxOf is it.
LEMMA MaxType ==
    ASSUME NEW S, IsFiniteSet(S), S # {}, S \subseteq Int
    PROVE  MaxOf(S) \in S /\ \A n \in S : n =< MaxOf(S)
<1> DEFINE HasMax(U) == \E m \in U : \A n \in U : n =< m
           bad == {n \in Nat : \E U \in SUBSET S :
                      U # {} /\ Cardinality(U) = n /\ ~HasMax(U)}
<1>1. ASSUME ~HasMax(S) PROVE FALSE
  <2>1. Cardinality(S) \in bad
    BY <1>1, FS_CardinalityType
  <2> HIDE DEF HasMax
  <2>2. bad \subseteq Nat /\ bad # {}
    BY <2>1
  <2>3. PICK n \in bad : \A k \in bad : ~(<<k, n>> \in OpToRel(<, Nat))
    BY <2>2, WFMin, NatLessThanWellFounded
  <2>4. PICK U \in SUBSET S : U # {} /\ Cardinality(U) = n /\ ~HasMax(U)
    BY <2>3
  <2>5. IsFiniteSet(U)
    BY FS_Subset
  <2>6. PICK x \in U : TRUE
    BY <2>4
  <2>7. IsFiniteSet(U \ {x}) /\ Cardinality(U \ {x}) = n - 1
    BY <2>4, <2>5, <2>6, FS_RemoveElement
  <2>8. n - 1 \in Nat
    BY <2>7, FS_CardinalityType
  <2>9. U \ {x} # {}
    <3> SUFFICES ASSUME U \ {x} = {} PROVE FALSE
      OBVIOUS
    <3>1. U = {x}
      BY <2>6
    <3>2. HasMax(U)
      BY <3>1 DEF HasMax
    <3> QED BY <2>4, <3>2
  <2>10. HasMax(U \ {x})
    <3> SUFFICES ASSUME ~HasMax(U \ {x}) PROVE FALSE
      OBVIOUS
    <3>1. U \ {x} \in SUBSET S
      OBVIOUS
    <3>2. n - 1 \in bad
      BY <2>7, <2>8, <2>9, <3>1
    <3>3. <<n - 1, n>> \in OpToRel(<, Nat)
      BY <2>8 DEF OpToRel
    <3> QED BY <2>3, <3>2, <3>3
  <2>11. PICK m \in U \ {x} : \A k \in U \ {x} : k =< m
    BY <2>10 DEF HasMax
  <2>12. m \in Int /\ x \in Int /\ U \subseteq Int
    OBVIOUS
  <2>13. HasMax(U)
    <3>1. CASE x =< m
      BY <2>11, <2>12, <3>1 DEF HasMax
    <3>2. CASE ~(x =< m)
      <4>1. \A k \in U : k =< x
        BY <2>11, <2>12, <3>2
      <4> QED BY <2>6, <4>1 DEF HasMax
    <3> QED BY <3>1, <3>2
  <2> QED BY <2>4, <2>13
<1> QED BY <1>1 DEF MaxOf
=============================================================================
