----------------------------- MODULE SumsProofs -----------------------------
(***************************************************************************)
(* What Total computes: facts about sums over a finite set, for tables of  *)
(* any size, from the library's theorems on cardinality; and induction     *)
(* over the naturals.                                                      *)
(***************************************************************************)
EXTENDS Sums, Integers, FiniteSetTheorems, FunctionTheorems, NaturalsInduction,
        WellFoundedInduction, TLAPS

(* The units of a table, spelled out. *)
LEMMA UnitsMember ==
  ASSUME NEW D, NEW f \in [D -> Nat], NEW u
  PROVE  u \in Units(f) <=> \E x \in D : \E i \in 1 .. f[x] : u = <<x, i>>
  BY DEF Units

(* A table of naturals over a finite set has finitely many units, so its   *)
(* total is a natural number.                                              *)
LEMMA TotalType ==
  ASSUME NEW D, IsFiniteSet(D), NEW f \in [D -> Nat]
  PROVE  IsFiniteSet(Units(f)) /\ Total(f) \in Nat
<1> DEFINE piece == [x \in D |-> {x} \X (1 .. f[x])]
           pieces == { {x} \X (1 .. f[x]) : x \in D }
<1>1. piece \in [D -> pieces]
  OBVIOUS
<1>2. \A t \in pieces : \E x \in D : piece[x] = t
  OBVIOUS
<1>3. piece \in Surjection(D, pieces)
  BY <1>1, <1>2, Fun_IsSurj
<1>4. IsFiniteSet(pieces)
  BY <1>3, FS_Surjection
<1>5. ASSUME NEW t \in pieces PROVE IsFiniteSet(t)
  <2>1. PICK x \in D : t = {x} \X (1 .. f[x])
    OBVIOUS
  <2>2. IsFiniteSet({x}) /\ IsFiniteSet(1 .. f[x])
    <3>1. f[x] \in Int /\ 1 \in Int
      OBVIOUS
    <3>2. QED BY <3>1, FS_Singleton, FS_Interval
  <2>3. QED BY <2>1, <2>2, FS_Product
<1>6. IsFiniteSet(UNION pieces)
  BY <1>4, <1>5, FS_UNION
<1>7. Units(f) = UNION pieces
  BY DEF Units
<1>8. QED BY <1>6, <1>7, FS_CardinalityType DEF Total

(* Totals add up: a table that is the pointwise sum of two others has the  *)
(* sum of their totals.                                                    *)
LEMMA TotalAdd ==
  ASSUME NEW D, IsFiniteSet(D), NEW f \in [D -> Nat], NEW g \in [D -> Nat],
         NEW h \in [D -> Nat], \A x \in D : h[x] = f[x] + g[x]
  PROVE  Total(h) = Total(f) + Total(g)
<1> DEFINE upper == { u \in Units(h) : u \notin Units(f) }
           lift == [u \in Units(g) |-> <<u[1], f[u[1]] + u[2]>>]
<1>1. Units(f) \subseteq Units(h)
  <2> SUFFICES ASSUME NEW x \in D, NEW i \in 1 .. f[x] PROVE <<x, i>> \in Units(h)
    BY UnitsMember
  <2>1. i \in 1 .. h[x]
    OBVIOUS
  <2>2. QED BY <2>1, UnitsMember
<1>2. lift \in [Units(g) -> upper]
  <2> SUFFICES ASSUME NEW x \in D, NEW i \in 1 .. g[x]
               PROVE  <<x, f[x] + i>> \in upper
    BY UnitsMember
  <2>1. f[x] + i \in 1 .. h[x] /\ f[x] + i \notin 1 .. f[x]
    OBVIOUS
  <2>2. QED BY <2>1, UnitsMember
<1>3. \A a, b \in Units(g) : lift[a] = lift[b] => a = b
  <2> SUFFICES ASSUME NEW x \in D, NEW i \in 1 .. g[x],
                      NEW y \in D, NEW j \in 1 .. g[y],
                      <<x, f[x] + i>> = <<y, f[y] + j>>
               PROVE  <<x, i>> = <<y, j>>
    BY SMTT(30), UnitsMember
  <2> QED OBVIOUS
<1>4. ASSUME NEW t \in upper PROVE \E u \in Units(g) : lift[u] = t
  <2>a. PICK x \in D : \E i \in 1 .. h[x] : t = <<x, i>>
    BY UnitsMember
  <2>0. PICK i \in 1 .. h[x] : t = <<x, i>>
    BY <2>a
  <2>1. i \notin 1 .. f[x]
    BY <2>0, UnitsMember
  <2>2. i - f[x] \in 1 .. g[x] /\ f[x] + (i - f[x]) = i
    BY <2>1
  <2>3. <<x, i - f[x]>> \in Units(g)
    BY <2>2, UnitsMember
  <2>4. lift[<<x, i - f[x]>>] = <<x, i>>
    BY <2>2, <2>3
  <2>5. QED BY <2>0, <2>3, <2>4
<1>5. ExistsBijection(Units(g), upper)
  BY <1>2, <1>3, <1>4, Fun_IsBij, Fun_ExistsBij
<1>6. Cardinality(upper) = Cardinality(Units(g)) /\ IsFiniteSet(upper)
  BY <1>5, FS_Bijection, TotalType
<1>7. Units(h) = Units(f) \cup upper /\ Units(f) \cap upper = {}
  BY <1>1
<1>8. IsFiniteSet(Units(f))
  BY TotalType
<1>9. Cardinality(Units(h)) = Cardinality(Units(f)) + Cardinality(upper) - Cardinality({})
  BY <1>6, <1>7, <1>8, FS_Union
<1>10. Cardinality(Units(f)) \in Nat /\ Cardinality(upper) \in Nat
  BY <1>6, <1>8, FS_CardinalityType
<1>11. QED BY <1>6, <1>9, <1>10, FS_EmptySet DEF Total

(* A table with one entry other than zero totals that entry. *)
LEMMA TotalSingle ==
  ASSUME NEW D, NEW a \in D, NEW v \in Nat
  PROVE  Total([x \in D |-> IF x = a THEN v ELSE 0]) = v
<1> DEFINE g == [x \in D |-> IF x = a THEN v ELSE 0]
           count == [i \in 1 .. v |-> <<a, i>>]
<1>0. g \in [D -> Nat]
  OBVIOUS
<1>1. \A u : u \in Units(g) <=> \E i \in 1 .. v : u = <<a, i>>
  <2> TAKE u
  <2>1. \A x \in D : x # a => 1 .. g[x] = {}
    OBVIOUS
  <2>2. g[a] = v
    OBVIOUS
  <2> HIDE DEF g
  <2>3. QED BY <1>0, <2>1, <2>2, UnitsMember
<1> HIDE DEF g
<1>2. count \in [1 .. v -> Units(g)]
  BY <1>1
<1>3. \A i, j \in 1 .. v : count[i] = count[j] => i = j
  OBVIOUS
<1>4. \A u \in Units(g) : \E i \in 1 .. v : count[i] = u
  BY <1>1
<1>5. ExistsBijection(1 .. v, Units(g))
  BY <1>2, <1>3, <1>4, Fun_IsBij, Fun_ExistsBij
<1>6. QED BY <1>5, FS_CountingElements DEF Total, g

(* The total of an empty table of balances. *)
LEMMA TotalZero ==
  ASSUME NEW D
  PROVE  Total([x \in D |-> 0]) = 0
<1>1. Units([x \in D |-> 0]) = {}
  BY DEF Units
<1>2. QED BY <1>1, FS_EmptySet DEF Total

(* Raising one entry raises the total by as much. *)
LEMMA TotalRaise ==
  ASSUME NEW D, IsFiniteSet(D), NEW f \in [D -> Nat], NEW a \in D, NEW v \in Nat
  PROVE  Total([f EXCEPT ![a] = @ + v]) = Total(f) + v
<1> DEFINE g == [x \in D |-> IF x = a THEN v ELSE 0]
           h == [f EXCEPT ![a] = @ + v]
<1>1. g \in [D -> Nat] /\ h \in [D -> Nat] /\ \A x \in D : h[x] = f[x] + g[x]
  OBVIOUS
<1>2. Total(g) = v
  BY TotalSingle
<1> HIDE DEF g, h
<1>3. Total(h) = Total(f) + Total(g)
  BY <1>1, TotalAdd
<1>4. QED BY <1>2, <1>3 DEF h

(* Lowering one entry lowers the total by as much, and an entry is never   *)
(* more than the total.                                                    *)
LEMMA TotalLower ==
  ASSUME NEW D, IsFiniteSet(D), NEW f \in [D -> Nat], NEW a \in D, NEW v \in Nat,
         v <= f[a]
  PROVE  /\ Total([f EXCEPT ![a] = @ - v]) = Total(f) - v
         /\ v <= Total(f)
<1> DEFINE g == [x \in D |-> IF x = a THEN v ELSE 0]
           h == [f EXCEPT ![a] = @ - v]
<1>1. g \in [D -> Nat] /\ h \in [D -> Nat] /\ \A x \in D : f[x] = h[x] + g[x]
  OBVIOUS
<1>2. Total(g) = v
  BY TotalSingle
<1> HIDE DEF g, h
<1>3. Total(f) = Total(h) + Total(g)
  BY <1>1, TotalAdd
<1>4. Total(h) \in Nat /\ Total(f) \in Nat
  BY <1>1, TotalType
<1>5. QED BY <1>2, <1>3, <1>4 DEF h

(* A table over a part of the set totals the same when it is extended with *)
(* zeros.                                                                  *)
LEMMA TotalExtend ==
  ASSUME NEW D, NEW W \in SUBSET D, NEW f \in [W -> Nat]
  PROVE  Total([x \in D |-> IF x \in W THEN f[x] ELSE 0]) = Total(f)
<1> DEFINE g == [x \in D |-> IF x \in W THEN f[x] ELSE 0]
<1>1. g \in [D -> Nat]
  OBVIOUS
<1>2. \A x \in D : 1 .. g[x] = IF x \in W THEN 1 .. f[x] ELSE {}
  OBVIOUS
<1> HIDE DEF g
<1>3. \A u : u \in Units(g) <=> u \in Units(f)
  BY <1>1, <1>2, UnitsMember
<1>4. Units(g) = Units(f)
  BY <1>3
<1>5. QED BY <1>4 DEF Total, g

(* Two tables that differ in one entry, and a table with one entry more.   *)
LEMMA TotalMore ==
  ASSUME NEW D, IsFiniteSet(D), NEW f \in [D -> Nat], NEW g \in [D -> Nat],
         NEW a \in D, NEW v \in Nat, g[a] = f[a] + v, \A x \in D \ {a} : g[x] = f[x]
  PROVE  Total(g) = Total(f) + v
<1> DEFINE h == [x \in D |-> IF x = a THEN v ELSE 0]
<1>1. h \in [D -> Nat] /\ \A x \in D : g[x] = f[x] + h[x]
  OBVIOUS
<1>2. Total(h) = v
  BY TotalSingle
<1> HIDE DEF h
<1>3. Total(g) = Total(f) + Total(h)
  BY <1>1, TotalAdd
<1>4. QED BY <1>2, <1>3

LEMMA TotalInsert ==
  ASSUME NEW W, IsFiniteSet(W), NEW a, a \notin W, NEW f \in [W -> Nat],
         NEW g \in [W \cup {a} -> Nat], \A x \in W : g[x] = f[x]
  PROVE  Total(g) = Total(f) + g[a]
<1> DEFINE D == W \cup {a}
           ext == [x \in D |-> IF x \in W THEN f[x] ELSE 0]
<1>1. IsFiniteSet(D)
  BY FS_AddElement
<1>2. /\ ext \in [D -> Nat] /\ a \in D /\ g[a] \in Nat /\ g \in [D -> Nat]
      /\ g[a] = ext[a] + g[a] /\ \A x \in D \ {a} : g[x] = ext[x]
  OBVIOUS
<1>3. W \in SUBSET D
  OBVIOUS
<1>4. Total(ext) = Total(f)
  BY <1>3, TotalExtend
<1> HIDE DEF ext, D
<1>5. Total(g) = Total(ext) + g[a]
  BY <1>1, <1>2, TotalMore
<1>6. QED BY <1>4, <1>5

(* The same amount for each member of a subset.                            *)
LEMMA TotalShares ==
  ASSUME NEW D, IsFiniteSet(D), NEW S \in SUBSET D, NEW c \in Nat
  PROVE  Total([x \in D |-> IF x \in S THEN c ELSE 0]) = Cardinality(S) * c
<1> DEFINE f == [x \in S |-> c]
           g == [x \in D |-> IF x \in S THEN f[x] ELSE 0]
<1>1. f \in [S -> Nat] /\ IsFiniteSet(S)
  BY FS_Subset
<1>2. Total(g) = Total(f)
  BY <1>1, TotalExtend
<1>3. g = [x \in D |-> IF x \in S THEN c ELSE 0]
  OBVIOUS
<1>4. Units(f) = S \X (1 .. c)
  BY <1>1, UnitsMember
<1>5. IsFiniteSet(1 .. c) /\ Cardinality(1 .. c) = c
  BY FS_Interval
<1>6. Cardinality(S \X (1 .. c)) = Cardinality(S) * Cardinality(1 .. c)
  BY <1>1, <1>5, FS_Product
<1> HIDE DEF f, g
<1>7. Total(f) = Cardinality(S) * c
  BY <1>4, <1>5, <1>6 DEF Total
<1>8. QED BY <1>2, <1>3, <1>7

(* One more entry at the end of a list.                                    *)
LEMMA TotalAppend ==
  ASSUME NEW n \in Nat, NEW f, NEW g, f \in [1..n -> Nat], g \in [1..(n + 1) -> Nat],
         \A i \in 1..n : g[i] = f[i]
  PROVE  Total(g) = Total(f) + g[n + 1] /\ Total(f) \in Nat
<1> DEFINE W == 1..n
           m == n + 1
<1>1. IsFiniteSet(W) /\ m \notin W
  BY FS_Interval
<1>2. f \in [W -> Nat] /\ g \in [W \cup {m} -> Nat] /\ \A i \in W : g[i] = f[i]
  <2>1. W \cup {m} = 1..(n + 1)
    OBVIOUS
  <2>2. QED BY <2>1
<1> HIDE DEF W, m
<1>3. Total(g) = Total(f) + g[m]
  BY ONLY <1>1, <1>2, TotalInsert
<1>4. Total(f) \in Nat
  BY <1>1, <1>2, TotalType
<1>5. QED BY <1>3, <1>4 DEF m

(* As much as one entry grows, and no other, the total grows.               *)
LEMMA TotalGrow ==
  ASSUME NEW D, IsFiniteSet(D), NEW f \in [D -> Nat], NEW g \in [D -> Nat],
         NEW a \in D, f[a] <= g[a], \A x \in D \ {a} : g[x] = f[x]
  PROVE  Total(g) = Total(f) + (g[a] - f[a])
<1>1. PICK v \in Nat : v = g[a] - f[a]
  OBVIOUS
<1>2. g[a] = f[a] + v
  BY <1>1
<1>3. QED BY <1>1, <1>2, TotalMore

(***************************************************************************)
(* Induction over the naturals in terms of a set, where the library's      *)
(* theorem takes an operator: what is defined by recursion on a natural    *)
(* number can be reasoned about with it.                                   *)
(***************************************************************************)
(* A set of naturals has a least element. *)
LEMMA NatHasLeast ==
  ASSUME NEW T \in SUBSET Nat, T # {}
  PROVE  \E x \in T : \A y \in T : x <= y
<1>1. IsWellFoundedOn(OpToRel(<, Nat), Nat)
  BY NatLessThanWellFounded
<1> DEFINE R == OpToRel(<, Nat)
<1>2. \E x \in T : \A y \in T : ~(<<y, x>> \in R)
  <2> HIDE DEF R
  <2>1. IsWellFoundedOn(R, Nat) /\ T \subseteq Nat
    BY <1>1 DEF R
  <2>2. QED BY ONLY T # {}, <2>1, WFMin
<1>3. \A x, y \in Nat : <<y, x>> \in R <=> y < x
  BY DEF OpToRel
<1> HIDE DEF R
<1>4. PICK x \in T : \A y \in T : ~(<<y, x>> \in R)
  BY <1>2
<1>5. ASSUME NEW y \in T PROVE x <= y
  <2>1. x \in Nat /\ y \in Nat /\ ~(<<y, x>> \in R)
    BY <1>4
  <2>2. ~(y < x)
    BY <1>3, <2>1
  <2>3. QED BY <2>1, <2>2
<1>6. QED BY <1>5

(* A set that holds 0, and n + 1 with every n, holds every natural. *)
LEMMA NatInduct ==
  ASSUME NEW T, 0 \in T, \A n \in Nat : n \in T => n + 1 \in T
  PROVE  Nat \subseteq T
<1> SUFFICES ASSUME Nat \ T # {} PROVE FALSE
  OBVIOUS
<1>1. PICK x \in Nat \ T : \A y \in Nat \ T : x <= y
  BY NatHasLeast
<1>2. x - 1 \in Nat /\ x - 1 \in T
  BY <1>1
<1>3. x - 1 + 1 \in T
  BY <1>2
<1>4. QED BY <1>1, <1>3

=============================================================================
