------------------------- MODULE StoragePurgeProofs -------------------------
(***************************************************************************)
(* Proofs about StoragePurge: the count of used blocks and the protocol of *)
(* the main thread and the I/O thread, for every pool, every limit and     *)
(* every bound.                                                            *)
(*                                                                         *)
(* The first half is about sums over finite sets, the sorted list of a set *)
(* of numbers, and what the operators of the model do to the blocks of the *)
(* files of a container and of the pool.  The second half is the inductive *)
(* invariant PoolInv, with one lemma for each step of Next.                *)
(***************************************************************************)
EXTENDS StoragePurge, FiniteSetTheorems, FunctionTheorems, NaturalsInduction,
        SequenceTheorems, TLAPS

-----------------------------------------------------------------------------
(* Finite sets of numbers.                                                  *)

LEMMA NatLeast ==
  ASSUME NEW T \in SUBSET Nat, T # {}
  PROVE  \E x \in T : \A y \in T : x <= y
<1>1. \E x \in T : \A y \in T : ~(<<y, x>> \in OpToRel(<, Nat))
  BY NatLessThanWellFounded, WFMin
<1>2. \A x, y \in Nat : y < x => <<y, x>> \in OpToRel(<, Nat)
  <2>1. \A x, y \in Nat : y < x => <<y, x>> \in {r \in Nat \X Nat : r[1] < r[2]}
    OBVIOUS
  <2> QED BY <2>1, Zenon DEF OpToRel
<1>3. \E x \in T : \A y \in T : ~(y < x)
  BY <1>1, <1>2, Zenon
<1> QED BY <1>3

\* A set of numbers that contains 0 and, with a number, the next.
LEMMA NatInduct ==
  ASSUME NEW T \in SUBSET Nat, 0 \in T, \A n \in T : n + 1 \in T
  PROVE  T = Nat
<1> SUFFICES ASSUME Nat \ T # {} PROVE FALSE OBVIOUS
<1>1. PICK x \in Nat \ T : \A y \in Nat \ T : x <= y
  <2>1. (Nat \ T) \in SUBSET Nat OBVIOUS
  <2> DEFINE U == Nat \ T
  <2>2. U \in SUBSET Nat /\ U # {} BY <2>1
  <2> HIDE DEF U
  <2>3. \E x \in U : \A y \in U : x <= y BY <2>2, NatLeast
  <2> QED BY <2>3 DEF U
<1>2. x # 0 /\ x - 1 \in Nat BY <1>1
<1>3. x - 1 \in T BY <1>1, <1>2
<1>4. (x - 1) + 1 = x BY <1>1
<1> QED BY <1>1, <1>3, <1>4


\* A family of sets that contains a finite set as soon as it contains all its
\* proper subsets contains every finite set.
LEMMA SetInduct ==
  ASSUME NEW S, IsFiniteSet(S), NEW F,
         \A s \in SUBSET S : (\A t \in SUBSET s : t # s => t \in F) => s \in F
  PROVE  \A s \in SUBSET S : s \in F
<1> DEFINE T == {n \in Nat : \A s \in SUBSET S : Cardinality(s) <= n => s \in F}
<1>1. ASSUME NEW s \in SUBSET S
      PROVE  /\ IsFiniteSet(s) /\ Cardinality(s) \in Nat
             /\ \A t \in SUBSET s : /\ Cardinality(t) \in Nat
                                    /\ t # s => Cardinality(t) < Cardinality(s)
  <2>1. IsFiniteSet(s) /\ Cardinality(s) \in Nat BY FS_Subset, FS_CardinalityType
  <2>2. ASSUME NEW t \in SUBSET s
        PROVE  /\ Cardinality(t) \in Nat
               /\ t # s => Cardinality(t) < Cardinality(s)
    <3>1. /\ IsFiniteSet(t) /\ Cardinality(t) <= Cardinality(s)
          /\ Cardinality(s) = Cardinality(t) => s = t
      BY <2>1, FS_Subset
    <3>2. Cardinality(t) \in Nat BY <3>1, FS_CardinalityType
    <3> QED BY <2>1, <3>1, <3>2
  <2> QED BY <2>1, <2>2
<1>2. 0 \in T
  <2> SUFFICES ASSUME NEW s \in SUBSET S, Cardinality(s) <= 0 PROVE s \in F OBVIOUS
  <2>1. \A t \in SUBSET s : t # s => t \in F
    <3> SUFFICES ASSUME NEW t \in SUBSET s, t # s PROVE FALSE OBVIOUS
    <3>1. Cardinality(t) \in Nat /\ Cardinality(t) < Cardinality(s) BY <1>1
    <3> QED BY <1>1, <3>1
  <2> QED BY <2>1
<1>3. ASSUME NEW n \in T PROVE n + 1 \in T
  <2> SUFFICES ASSUME NEW s \in SUBSET S, Cardinality(s) <= n + 1 PROVE s \in F
    OBVIOUS
  <2>1. \A t \in SUBSET s : t # s => t \in F
    <3> SUFFICES ASSUME NEW t \in SUBSET s, t # s PROVE t \in F OBVIOUS
    <3>1. /\ Cardinality(t) \in Nat /\ Cardinality(t) < Cardinality(s)
          /\ Cardinality(s) \in Nat
      BY <1>1
    <3>2. Cardinality(t) <= n BY <3>1
    <3> QED BY <3>2
  <2> QED BY <2>1
<1>4. T \in SUBSET Nat OBVIOUS
<1> HIDE DEF T
<1>5. T = Nat BY <1>2, <1>3, <1>4, NatInduct
<1> USE DEF T
<1> SUFFICES ASSUME NEW s \in SUBSET S PROVE s \in F OBVIOUS
<1>6. Cardinality(s) \in T BY <1>1, <1>5
<1>7. Cardinality(s) <= Cardinality(s) BY <1>1
<1> QED BY <1>6, <1>7

-----------------------------------------------------------------------------
(* Sums.                                                                    *)

Some(s) == CHOOSE x \in s : TRUE
Body(f, it, s) == IF s = {} THEN 0 ELSE f[Some(s)] + it[s \ {Some(s)}]
Iter(f, S) == CHOOSE it : it = [s \in SUBSET S |-> Body(f, it, s)]

LEMMA SumIs ==
  ASSUME NEW f, NEW S
  PROVE  SumFunctionOnSet(f, S) = Iter(f, S)[S]
BY DEF SumFunctionOnSet, FoldFunctionOnSet, MapThenFoldSet, Iter, Body, Some

LEMMA SomeIn == \A s : s # {} => Some(s) \in s
BY DEF Some

\* The recursive function of the fold exists.
LEMMA IterIs ==
  ASSUME NEW f, NEW S, IsFiniteSet(S)
  PROVE  \A s \in SUBSET S : Iter(f, S)[s] = Body(f, Iter(f, S), s)
<1> DEFINE Good(it, n) == \A s \in SUBSET S : Cardinality(s) <= n => it[s] = Body(f, it, s)
           T == {n \in Nat : \E it : Good(it, n)}
<1>1. ASSUME NEW s \in SUBSET S
      PROVE  /\ Cardinality(s) \in Nat /\ (Cardinality(s) = 0 <=> s = {})
             /\ s # {} => /\ Cardinality(s \ {Some(s)}) = Cardinality(s) - 1
                          /\ s \ {Some(s)} \in SUBSET S
  <2>1. IsFiniteSet(s) /\ Cardinality(s) \in Nat BY FS_Subset, FS_CardinalityType
  <2>2. s # {} => Cardinality(s \ {Some(s)}) = Cardinality(s) - 1
    BY <2>1, SomeIn, FS_RemoveElement
  <2> QED BY <2>1, <2>2, FS_EmptySet
<1>0. \A s \in SUBSET S : Cardinality(s) \in Nat /\ (Cardinality(s) = 0 <=> s = {})
  BY <1>1
<1>2. 0 \in T
  <2> DEFINE it == [s \in SUBSET S |-> 0]
  <2>1. Good(it, 0)
    <3> SUFFICES ASSUME NEW s \in SUBSET S, Cardinality(s) <= 0
                 PROVE  it[s] = Body(f, it, s)
      OBVIOUS
    <3>1. s = {} BY <1>0
    <3>2. it[s] = 0 OBVIOUS
    <3> QED BY <3>1, <3>2 DEF Body
  <2> HIDE DEF it, Good
  <2> QED BY <2>1
<1>3. ASSUME NEW n \in T PROVE n + 1 \in T
  <2>0. n \in Nat OBVIOUS
  <2>1. PICK it : Good(it, n) OBVIOUS
  <2> DEFINE jt == [s \in SUBSET S |-> IF Cardinality(s) = n + 1 THEN Body(f, it, s) ELSE it[s]]
  <2>2. Good(jt, n + 1)
    <3> SUFFICES ASSUME NEW s \in SUBSET S, Cardinality(s) <= n + 1
                 PROVE  jt[s] = Body(f, jt, s)
      OBVIOUS
    <3> DEFINE r == s \ {Some(s)}
    <3>1. s # {} => r \in SUBSET S /\ Cardinality(r) # n + 1
      BY <1>1
    <3>2. s # {} => jt[r] = it[r]
      BY <3>1
    <3>3. Body(f, jt, s) = Body(f, it, s)
      <4> HIDE DEF jt
      <4> QED BY <3>2 DEF Body
    <3>4. CASE Cardinality(s) = n + 1 BY <3>3, <3>4
    <3>5. CASE Cardinality(s) # n + 1
      <4>0. Cardinality(s) \in Nat BY <1>0
      <4>1. Cardinality(s) <= n BY <2>0, <3>5, <4>0
      <4>2. it[s] = Body(f, it, s) BY <2>1, <4>1
      <4>3. jt[s] = it[s] BY <3>5
      <4> HIDE DEF jt
      <4> QED BY <3>3, <4>2, <4>3
    <3> QED BY <3>4, <3>5
  <2> HIDE DEF jt, Good
  <2>3. \E jj : Good(jj, n + 1) BY <2>2
  <2>4. n + 1 \in Nat BY <2>0
  <2> QED BY <2>3, <2>4
<1>4. T \in SUBSET Nat OBVIOUS
<1> HIDE DEF T
<1>5. T = Nat BY <1>2, <1>3, <1>4, NatInduct
<1>6. \E it : it = [s \in SUBSET S |-> Body(f, it, s)]
  <2>1. Cardinality(S) \in T BY <1>1, <1>5
  <2>2. PICK it : Good(it, Cardinality(S)) BY <2>1 DEF T
  <2>3. \A s \in SUBSET S : Cardinality(s) <= Cardinality(S) BY FS_Subset
  <2>4. \A s \in SUBSET S : it[s] = Body(f, it, s) BY <2>2, <2>3
  <2> DEFINE jt == [s \in SUBSET S |-> it[s]]
  <2>5. jt = [s \in SUBSET S |-> Body(f, jt, s)]
    <3>1. ASSUME NEW s \in SUBSET S PROVE jt[s] = Body(f, jt, s)
      <4>1. s # {} => jt[s \ {Some(s)}] = it[s \ {Some(s)}] BY <1>1
      <4>2. jt[s] = it[s] OBVIOUS
      <4> HIDE DEF jt
      <4>3. Body(f, jt, s) = Body(f, it, s) BY <4>1 DEF Body
      <4> QED BY <2>4, <4>2, <4>3
    <3> QED BY <3>1
  <2> QED BY <2>5
<1>7. Iter(f, S) = [s \in SUBSET S |-> Body(f, Iter(f, S), s)] BY <1>6 DEF Iter
<1> HIDE DEF Good
<1> SUFFICES ASSUME NEW s \in SUBSET S PROVE Iter(f, S)[s] = Body(f, Iter(f, S), s)
  OBVIOUS
<1> QED BY <1>7, Zenon

SumOn(f, S) == SumFunctionOnSet(f, S)



\* The functions of two folds over f agree where both are defined.
LEMMA IterAgree ==
  ASSUME NEW f, NEW S, IsFiniteSet(S), NEW R \in SUBSET S
  PROVE  Iter(f, S)[R] = Iter(f, R)[R]
<1>1. IsFiniteSet(R) BY FS_Subset
<1>12. \A s \in SUBSET S : Iter(f, S)[s] = Body(f, Iter(f, S), s) BY IterIs
<1>13. \A s \in SUBSET R : Iter(f, R)[s] = Body(f, Iter(f, R), s) BY <1>1, IterIs
<1> DEFINE F == {s \in SUBSET R : Iter(f, S)[s] = Iter(f, R)[s]}
<1>2. ASSUME NEW s \in SUBSET R
      PROVE  Iter(f, S)[s] = Body(f, Iter(f, S), s) /\ Iter(f, R)[s] = Body(f, Iter(f, R), s)
  <2>1. s \in SUBSET S OBVIOUS
  <2> QED BY <2>1, <1>12, <1>13
<1>3. ASSUME NEW s \in SUBSET R, \A t \in SUBSET s : t # s => t \in F
      PROVE  s \in F
  <2>1. CASE s = {}
    <3>1. Body(f, Iter(f, S), s) = 0 /\ Body(f, Iter(f, R), s) = 0 BY <2>1 DEF Body
    <3> QED BY <1>2, <3>1
  <2>2. CASE s # {}
    <3> DEFINE r == s \ {Some(s)}
    <3>1. r \in SUBSET s /\ r # s BY <2>2, SomeIn
    <3>2. Iter(f, S)[r] = Iter(f, R)[r] BY <1>3, <3>1
    <3>3. Body(f, Iter(f, S), s) = Body(f, Iter(f, R), s) BY <3>2 DEF Body
    <3> QED BY <1>2, <3>3
  <2> QED BY <2>1, <2>2
<1> HIDE DEF F
<1>4. \A s \in SUBSET R : s \in F BY <1>1, <1>3, SetInduct
<1> QED BY <1>4 DEF F

LEMMA SumNone == \A f : SumOn(f, {}) = 0
<1> SUFFICES ASSUME NEW f PROVE SumOn(f, {}) = 0 OBVIOUS
<1>1. \A s \in SUBSET {} : Iter(f, {})[s] = Body(f, Iter(f, {}), s) BY IterIs, FS_EmptySet
<1>2. {} \in SUBSET {} OBVIOUS
<1>3. Iter(f, {})[{}] = Body(f, Iter(f, {}), {}) BY <1>1, <1>2, Zenon
<1> QED BY <1>3, SumIs DEF SumOn, Body

LEMMA SumSome ==
  ASSUME NEW f, NEW S, IsFiniteSet(S), S # {}
  PROVE  SumOn(f, S) = f[Some(S)] + SumOn(f, S \ {Some(S)})
<1> DEFINE R == S \ {Some(S)}
<1>1. \A s \in SUBSET S : Iter(f, S)[s] = Body(f, Iter(f, S), s) BY IterIs
<1>2. S \in SUBSET S /\ R \in SUBSET S OBVIOUS
<1>3. Iter(f, S)[S] = Body(f, Iter(f, S), S) BY <1>1, <1>2, Zenon
<1>4. Iter(f, S)[S] = f[Some(S)] + Iter(f, S)[R] BY <1>3 DEF Body
<1>5. Iter(f, S)[R] = Iter(f, R)[R] BY <1>2, IterAgree
<1> QED BY <1>4, <1>5, SumIs DEF SumOn

LEMMA SumInt ==
  ASSUME NEW f, NEW S, IsFiniteSet(S), \A x \in S : f[x] \in Int
  PROVE  SumOn(f, S) \in Int
<1> DEFINE F == {s \in SUBSET S : SumOn(f, s) \in Int}
<1>1. ASSUME NEW s \in SUBSET S, \A t \in SUBSET s : t # s => t \in F
      PROVE  s \in F
  <2>1. IsFiniteSet(s) BY FS_Subset
  <2>2. CASE s = {} BY <2>2, SumNone
  <2>3. CASE s # {}
    <3>1. Some(s) \in s BY <2>3, SomeIn
    <3>2. SumOn(f, s \ {Some(s)}) \in Int BY <1>1, <3>1
    <3>3. f[Some(s)] \in Int BY <3>1
    <3> QED BY <2>1, <2>3, <3>2, <3>3, SumSome
  <2> QED BY <2>2, <2>3
<1> HIDE DEF F
<1>2. \A s \in SUBSET S : s \in F BY <1>1, SetInduct
<1>3. S \in SUBSET S OBVIOUS
<1> QED BY <1>2, <1>3 DEF F

\* Any element may be taken out of a sum.
LEMMA SumOut ==
  ASSUME NEW f, NEW S, IsFiniteSet(S), \A x \in S : f[x] \in Int, NEW x \in S
  PROVE  SumOn(f, S) = f[x] + SumOn(f, S \ {x})
<1> DEFINE F == {s \in SUBSET S : \A y \in s : SumOn(f, s) = f[y] + SumOn(f, s \ {y})}
<1>1. ASSUME NEW s \in SUBSET S, \A t \in SUBSET s : t # s => t \in F
      PROVE  s \in F
  <2> SUFFICES ASSUME NEW y \in s
               PROVE  SumOn(f, s) = f[y] + SumOn(f, s \ {y})
    OBVIOUS
  <2> DEFINE p == Some(s)
  <2>1. IsFiniteSet(s) /\ s # {} BY FS_Subset
  <2>2. p \in s BY <2>1, SomeIn
  <2>3. SumOn(f, s) = f[p] + SumOn(f, s \ {p}) BY <2>1, SumSome
  <2> HIDE DEF p
  <2>4. CASE y = p BY <2>3, <2>4
  <2>5. CASE y # p
    <3>1. s \ {p} \in F /\ s \ {y} \in F BY <1>1, <2>2
    <3>2. y \in s \ {p} /\ p \in s \ {y} BY <2>2, <2>5
    <3>3. SumOn(f, s \ {p}) = f[y] + SumOn(f, (s \ {p}) \ {y}) BY <3>1, <3>2
    <3>4. SumOn(f, s \ {y}) = f[p] + SumOn(f, (s \ {y}) \ {p}) BY <3>1, <3>2
    <3>5. (s \ {p}) \ {y} = (s \ {y}) \ {p} OBVIOUS
    <3> DEFINE r == SumOn(f, (s \ {y}) \ {p})
    <3>6. r \in Int
      <4>1. IsFiniteSet((s \ {y}) \ {p}) BY <2>1, FS_Subset
      <4>2. \A z \in (s \ {y}) \ {p} : f[z] \in Int OBVIOUS
      <4> QED BY <4>1, <4>2, SumInt
    <3>7. f[p] \in Int /\ f[y] \in Int BY <2>2
    <3>8. SumOn(f, s) = f[p] + (f[y] + r) BY <2>3, <3>3, <3>5
    <3>9. SumOn(f, s \ {y}) = f[p] + r BY <3>4
    <3> HIDE DEF r
    <3> QED BY <3>6, <3>7, <3>8, <3>9
  <2> QED BY <2>4, <2>5
<1> HIDE DEF F
<1>2. \A s \in SUBSET S : s \in F BY <1>1, SetInduct
<1>3. S \in SUBSET S OBVIOUS
<1> QED BY <1>2, <1>3 DEF F

LEMMA SumSame ==
  ASSUME NEW f, NEW g, NEW S, IsFiniteSet(S), \A x \in S : f[x] = g[x]
  PROVE  SumOn(f, S) = SumOn(g, S)
<1> DEFINE F == {s \in SUBSET S : SumOn(f, s) = SumOn(g, s)}
<1>1. ASSUME NEW s \in SUBSET S, \A t \in SUBSET s : t # s => t \in F
      PROVE  s \in F
  <2>1. IsFiniteSet(s) BY FS_Subset
  <2>2. CASE s = {} BY <2>2, SumNone
  <2>3. CASE s # {}
    <3>1. Some(s) \in s BY <2>3, SomeIn
    <3>2. SumOn(f, s \ {Some(s)}) = SumOn(g, s \ {Some(s)}) BY <1>1, <3>1
    <3>3. f[Some(s)] = g[Some(s)] BY <3>1
    <3>4. SumOn(f, s) = SumOn(g, s) BY <2>1, <2>3, <3>2, <3>3, SumSome
    <3> QED BY <3>4
  <2> QED BY <2>2, <2>3
<1> HIDE DEF F
<1>2. \A s \in SUBSET S : s \in F BY <1>1, SetInduct
<1>3. S \in SUBSET S OBVIOUS
<1> QED BY <1>2, <1>3 DEF F

LEMMA SumPlus ==
  ASSUME NEW f, NEW g, NEW h, NEW S, IsFiniteSet(S),
         \A x \in S : f[x] \in Int /\ g[x] \in Int /\ h[x] = f[x] + g[x]
  PROVE  SumOn(h, S) = SumOn(f, S) + SumOn(g, S)
<1> DEFINE F == {s \in SUBSET S : SumOn(h, s) = SumOn(f, s) + SumOn(g, s)}
<1>1. ASSUME NEW s \in SUBSET S, \A t \in SUBSET s : t # s => t \in F
      PROVE  s \in F
  <2>1. IsFiniteSet(s) BY FS_Subset
  <2>2. CASE s = {} BY <2>2, SumNone
  <2>3. CASE s # {}
    <3> DEFINE p == Some(s)
               r == s \ {p}
    <3>1. p \in s /\ p \in S BY <2>3, SomeIn
    <3>2. SumOn(h, r) = SumOn(f, r) + SumOn(g, r) BY <1>1, <3>1
    <3>3. /\ SumOn(h, s) = h[p] + SumOn(h, r) /\ SumOn(f, s) = f[p] + SumOn(f, r)
          /\ SumOn(g, s) = g[p] + SumOn(g, r)
      BY <2>1, <2>3, SumSome
    <3>4. IsFiniteSet(r) /\ \A x \in r : f[x] \in Int /\ g[x] \in Int
      BY <2>1, FS_Subset
    <3>5. SumOn(f, r) \in Int /\ SumOn(g, r) \in Int BY <3>4, SumInt
    <3> HIDE DEF p, r
    <3>6. f[p] \in Int /\ g[p] \in Int /\ h[p] = f[p] + g[p] BY <3>1
    <3>7. SumOn(h, s) = SumOn(f, s) + SumOn(g, s) BY <3>2, <3>3, <3>5, <3>6
    <3> QED BY <3>7
  <2> QED BY <2>2, <2>3
<1> HIDE DEF F
<1>2. \A s \in SUBSET S : s \in F BY <1>1, SetInduct
<1>3. S \in SUBSET S OBVIOUS
<1> QED BY <1>2, <1>3 DEF F

LEMMA SumZero ==
  ASSUME NEW f, NEW S, IsFiniteSet(S), \A x \in S : f[x] = 0
  PROVE  SumOn(f, S) = 0
<1>1. \A x \in S : f[x] \in Int /\ f[x] = f[x] + f[x] OBVIOUS
<1>2. SumOn(f, S) = SumOn(f, S) + SumOn(f, S) BY <1>1, SumPlus
<1>3. SumOn(f, S) \in Int BY <1>1, SumInt
<1>4. \A t \in Int : t = t + t => t = 0 OBVIOUS
<1> QED BY <1>2, <1>3, <1>4, Zenon

\* A sum over disjoint sets.
LEMMA SumParts ==
  ASSUME NEW f, NEW S, NEW R, IsFiniteSet(S), IsFiniteSet(R), S \intersect R = {},
         \A x \in S \union R : f[x] \in Int
  PROVE  SumOn(f, S \union R) = SumOn(f, S) + SumOn(f, R)
<1> DEFINE F == {s \in SUBSET S : SumOn(f, s \union R) = SumOn(f, s) + SumOn(f, R)}
<1>0. SumOn(f, R) \in Int BY SumInt
<1>1. ASSUME NEW s \in SUBSET S, \A t \in SUBSET s : t # s => t \in F
      PROVE  s \in F
  <2>1. IsFiniteSet(s) /\ IsFiniteSet(s \union R) BY FS_Subset, FS_Union
  <2>2. CASE s = {}
    <3>1. s \union R = R BY <2>2
    <3> QED BY <1>0, <2>2, <3>1, SumNone
  <2>3. CASE s # {}
    <3> DEFINE p == Some(s)
               r == s \ {p}
    <3>1. p \in s BY <2>3, SomeIn
    <3>2. SumOn(f, r \union R) = SumOn(f, r) + SumOn(f, R) BY <1>1, <3>1
    <3>3. SumOn(f, s) = f[p] + SumOn(f, r) BY <2>1, <2>3, SumSome
    <3>4. SumOn(f, s \union R) = f[p] + SumOn(f, (s \union R) \ {p})
      <4>1. p \in s \union R /\ \A x \in s \union R : f[x] \in Int BY <3>1
      <4> QED BY <2>1, <4>1, SumOut
    <3>5. (s \union R) \ {p} = r \union R BY <3>1
    <3>6. SumOn(f, r) \in Int
      <4>1. IsFiniteSet(r) BY <2>1, FS_Subset
      <4> QED BY <4>1, SumInt
    <3>7. f[p] \in Int BY <3>1
    <3>8. SumOn(f, s \union R) = f[p] + (SumOn(f, r) + SumOn(f, R))
      BY <3>2, <3>4, <3>5
    <3> HIDE DEF p, r
    <3>9. \A a, b, c \in Int : a + (b + c) = (a + b) + c OBVIOUS
    <3>10. f[p] + (SumOn(f, r) + SumOn(f, R)) = (f[p] + SumOn(f, r)) + SumOn(f, R)
      BY <1>0, <3>6, <3>7, <3>9, Zenon
    <3>11. SumOn(f, s \union R) = SumOn(f, s) + SumOn(f, R)
      BY <3>3, <3>8, <3>10, Zenon
    <3> QED BY <3>11
  <2> QED BY <2>2, <2>3
<1> HIDE DEF F
<1>2. \A s \in SUBSET S : s \in F BY <1>1, SetInduct
<1>3. S \in SUBSET S OBVIOUS
<1> QED BY <1>2, <1>3 DEF F

\* A sum over shifted indices.
Above(k, m) == (k + 1) .. (k + m)
Shifted(f, g, k, m) == \A i \in 1 .. m : g[i] \in Int /\ f[k + i] = g[i]

LEMMA SumShift ==
  ASSUME NEW f, NEW g, NEW k \in Nat, NEW m \in Nat, Shifted(f, g, k, m)
  PROVE  SumOn(f, Above(k, m)) = SumOn(g, 1 .. m)
<1> USE DEF Above, Shifted
<1> DEFINE T == {n \in Nat : n <= m => SumOn(f, (k + 1) .. (k + n)) = SumOn(g, 1 .. n)}
<1>1. 0 \in T
  <2>1. (k + 1) .. (k + 0) = {} /\ 1 .. 0 = {} OBVIOUS
  <2>2. SumOn(f, (k + 1) .. (k + 0)) = SumOn(g, 1 .. 0) BY <2>1, SumNone
  <2> QED BY <2>2
<1>2. ASSUME NEW n \in T PROVE n + 1 \in T
  <2>0. n \in Nat OBVIOUS
  <2> SUFFICES ASSUME n + 1 <= m
               PROVE  SumOn(f, (k + 1) .. (k + (n + 1))) = SumOn(g, 1 .. (n + 1))
    BY <2>0
  <2> DEFINE A == (k + 1) .. (k + (n + 1))
             B == 1 .. (n + 1)
             a == k + (n + 1)
             b == n + 1
  <2>1. SumOn(f, (k + 1) .. (k + n)) = SumOn(g, 1 .. n) BY <2>0
  <2>2. IsFiniteSet(A) /\ IsFiniteSet(B) BY <2>0, FS_Interval
  <2>3. a \in A /\ b \in B BY <2>0
  <2>4. A \ {a} = (k + 1) .. (k + n) /\ B \ {b} = 1 .. n
    <3>1. \A x : x \in A \ {a} <=> x \in (k + 1) .. (k + n) BY <2>0
    <3>2. \A x : x \in B \ {b} <=> x \in 1 .. n BY <2>0
    <3> HIDE DEF A, B, a, b
    <3> QED BY <3>1, <3>2, Zenon
  <2>5. \A i \in B : g[i] \in Int BY <2>0
  <2>6. \A i \in A : f[i] \in Int
    <3> SUFFICES ASSUME NEW i \in A PROVE f[i] \in Int OBVIOUS
    <3>1. i - k \in 1 .. m /\ k + (i - k) = i BY <2>0
    <3> QED BY <3>1
  <2>7. f[a] = g[b]
    <3>1. n + 1 \in 1 .. m BY <2>0
    <3> QED BY <3>1
  <2> HIDE DEF A, B, a, b
  <2>8. SumOn(f, A) = f[a] + SumOn(f, A \ {a})
    BY <2>2, <2>3, <2>6, SumOut
  <2>9. SumOn(g, B) = g[b] + SumOn(g, B \ {b})
    BY <2>2, <2>3, <2>5, SumOut
  <2>10. SumOn(f, A) = SumOn(g, B) BY <2>1, <2>4, <2>7, <2>8, <2>9, Zenon
  <2> QED BY <2>10 DEF A, B
<1>3. T \in SUBSET Nat OBVIOUS
<1> HIDE DEF T
<1>4. T = Nat BY <1>1, <1>2, <1>3, NatInduct
<1>5. m \in T BY <1>4
<1>6. m <= m OBVIOUS
<1> QED BY <1>5, <1>6 DEF T
\* A finite set of numbers has a greatest one and can be put in order.
Increasing(q, S) ==
  /\ q \in [1 .. Cardinality(S) -> S]
  /\ \A i, j \in 1 .. Cardinality(S) : i < j => q[i] < q[j]

Sortable(n) == \A S \in SUBSET Nat : IsFiniteSet(S) /\ Cardinality(S) = n =>
    /\ \E q : Increasing(q, S)
    /\ S # {} => \E x \in S : \A y \in S : y <= x

LEMMA SortMore ==
  ASSUME NEW n \in Nat, Sortable(n)
  PROVE  Sortable(n + 1)
<1> SUFFICES ASSUME NEW S \in SUBSET Nat, IsFiniteSet(S), Cardinality(S) = n + 1
             PROVE  /\ \E q : Increasing(q, S)
                    /\ \E x \in S : \A y \in S : y <= x
  BY DEF Sortable
<1>1. S # {} BY FS_EmptySet
<1>2. ASSUME NEW z \in S
      PROVE  /\ IsFiniteSet(S \ {z}) /\ Cardinality(S \ {z}) = n
             /\ S \ {z} \in SUBSET Nat
  BY FS_RemoveElement
<1>3. PICK x \in S : \A y \in S : y <= x
  <2>1. PICK z \in S : TRUE BY <1>1
  <2>2. CASE S \ {z} = {}
    BY <2>1, <2>2
  <2>3. CASE S \ {z} # {}
    <3>1. PICK w \in S \ {z} : \A y \in S \ {z} : y <= w
      BY <1>2, <2>3 DEF Sortable
    <3>2. CASE z <= w BY <3>1, <3>2
    <3>3. CASE ~(z <= w) BY <3>1, <3>3
    <3> QED BY <3>2, <3>3
  <2> QED BY <2>2, <2>3
<1>4. PICK q : Increasing(q, S \ {x})
  BY <1>2 DEF Sortable
<1> DEFINE r == [i \in 1 .. n + 1 |-> IF i = n + 1 THEN x ELSE q[i]]
<1>5. q \in [1 .. n -> S \ {x}] /\ \A i, j \in 1 .. n : i < j => q[i] < q[j]
  BY <1>2, <1>4 DEF Increasing
<1>6. r \in [1 .. n + 1 -> S]
  <2>1. \A i \in 1 .. n + 1 : i # n + 1 => i \in 1 .. n OBVIOUS
  <2> QED BY <1>5, <2>1
<1>7. ASSUME NEW i \in 1 .. n + 1, NEW j \in 1 .. n + 1, i < j PROVE r[i] < r[j]
  <2>1. i \in 1 .. n /\ r[i] = q[i] BY <1>7
  <2>2. CASE j = n + 1
    <3>1. q[i] \in S \ {x} BY <1>5, <2>1
    <3>2. q[i] <= x /\ q[i] # x /\ q[i] \in Nat /\ x \in Nat BY <1>3, <3>1
    <3>3. r[j] = x BY <2>2
    <3> HIDE DEF r
    <3> QED BY <2>1, <3>2, <3>3
  <2>3. CASE j # n + 1
    <3>1. j \in 1 .. n /\ r[j] = q[j] BY <2>3
    <3> QED BY <1>5, <1>7, <2>1, <3>1
  <2> QED BY <2>2, <2>3
<1> HIDE DEF r
<1>8. Increasing(r, S) BY <1>6, <1>7 DEF Increasing
<1> QED BY <1>3, <1>8

LEMMA AllSortable == \A n \in Nat : Sortable(n)
<1> DEFINE T == {n \in Nat : Sortable(n)}
<1>1. Sortable(0)
  <2> SUFFICES ASSUME NEW S \in SUBSET Nat, IsFiniteSet(S), Cardinality(S) = 0
               PROVE  S = {} /\ \E q : Increasing(q, S)
    BY DEF Sortable
  <2>1. S = {} BY FS_EmptySet
  <2>2. [i \in 1 .. 0 |-> 0] \in [1 .. 0 -> S] OBVIOUS
  <2>3. Increasing([i \in 1 .. 0 |-> 0], S) BY <2>2 DEF Increasing
  <2> QED BY <2>1, <2>3
<1>2. 0 \in T BY <1>1
<1>3. \A n \in T : n + 1 \in T BY SortMore
<1>4. T \in SUBSET Nat OBVIOUS
<1> HIDE DEF T
<1>5. T = Nat BY <1>2, <1>3, <1>4, NatInduct
<1> QED BY <1>5 DEF T

LEMMA MaxIn ==
  ASSUME NEW S \in SUBSET Nat, IsFiniteSet(S), S # {}
  PROVE  Max(S) \in S /\ \A y \in S : y <= Max(S)
<1>1. \E x \in S : \A y \in S : y <= x
  BY AllSortable, FS_CardinalityType DEF Sortable
<1>2. \E x \in S : \A y \in S : x >= y
  BY <1>1
<1>3. Max(S) \in S /\ \A y \in S : Max(S) >= y
  BY <1>2, Zenon DEF Max
<1> QED BY <1>3

LEMMA SortedIs ==
  ASSUME NEW S \in SUBSET Nat, IsFiniteSet(S)
  PROVE  /\ InOrder(S) \in [1 .. Cardinality(S) -> S]
         /\ Cardinality(S) \in Nat
         /\ InOrder(S) \in Seq(S) /\ Len(InOrder(S)) = Cardinality(S)
         /\ DOMAIN InOrder(S) = 1 .. Cardinality(S)
         /\ \A i, j \in 1 .. Cardinality(S) : i < j => InOrder(S)[i] < InOrder(S)[j]
         /\ \A x \in S : \E i \in 1 .. Cardinality(S) : InOrder(S)[i] = x
<1> DEFINE n == Cardinality(S)
           q == InOrder(S)
<1>1. n \in Nat /\ IsFiniteSet(1 .. n) /\ Cardinality(1 .. n) = n
  BY FS_CardinalityType, FS_Interval
<1>2. \E f \in [1 .. n -> S] : \A i, j \in DOMAIN f : i < j => f[i] < f[j]
  <2>1. PICK f : Increasing(f, S) BY <1>1, AllSortable DEF Sortable
  <2> QED BY <2>1 DEF Increasing
<1>3. q \in [1 .. n -> S] /\ \A i, j \in DOMAIN q : i < j => q[i] < q[j]
  BY <1>2 DEF InOrder
<1> HIDE DEF q, n
<1>4. \A i, j \in 1 .. n : i < j => q[i] < q[j] BY <1>3
<1>5. q \in Injection(1 .. n, S)
  <2>1. ASSUME NEW i \in 1 .. n, NEW j \in 1 .. n, q[i] = q[j] PROVE i = j
    <3>1. q[i] \in S /\ q[j] \in S BY <1>3
    <3>0. n \in Nat => i \in Nat /\ j \in Nat OBVIOUS
    <3>2. i \in Nat /\ j \in Nat /\ q[i] \in Nat /\ q[j] \in Nat
      BY <1>1, <3>0, <3>1, Zenon
    <3>3. ~(i < j) /\ ~(j < i)
      <4>1. \A x, y \in Nat : x = y => ~(x < y) /\ ~(y < x) OBVIOUS
      <4>2. ~(q[i] < q[j]) /\ ~(q[j] < q[i]) BY <2>1, <3>2, <4>1
      <4> QED BY <1>4, <4>2
    <3> QED BY <3>2, <3>3
  <2> QED BY <1>3, <2>1 DEF Injection, IsInjective
<1>6. q \in Surjection(1 .. n, S)
  <2>1. Cardinality(1 .. n) = Cardinality(S) BY <1>1 DEF n
  <2> QED BY <1>5, <2>1, FS_Injection
<1>7. \A x \in S : \E i \in 1 .. n : q[i] = x
  BY <1>6 DEF Surjection
<1>8. q \in Seq(S) /\ Len(q) = n
  BY <1>1, <1>3
<1>9. DOMAIN q = 1 .. n BY <1>3
<1> QED BY <1>1, <1>3, <1>4, <1>7, <1>8, <1>9 DEF q, n

\* The sorted list of a finite set of numbers.
LEMMA OrderedIs ==
  ASSUME NEW S \in SUBSET Nat, IsFiniteSet(S)
  PROVE  LET q == InOrder(S)
         IN  /\ q \in Seq(Nat) /\ \A i \in 1 .. Len(q) : q[i] \in S
             /\ \A i, j \in 1 .. Len(q) : i < j => q[i] < q[j]
<1> DEFINE q == InOrder(S)
<1>1. /\ q \in Seq(S) /\ Len(q) = Cardinality(S)
      /\ \A i, j \in 1 .. Cardinality(S) : i < j => q[i] < q[j]
  BY SortedIs
<1> HIDE DEF q
<1>2. \A i \in 1 .. Len(q) : q[i] \in S BY <1>1
<1>3. \A i \in 1 .. Len(q) : q[i] \in Nat BY <1>2
<1>4. q = [i \in 1 .. Len(q) |-> q[i]] /\ Len(q) \in Nat BY <1>1
<1>5. q \in [1 .. Len(q) -> Nat] BY <1>3, <1>4, Zenon
<1>6. q \in Seq(Nat) BY <1>4, <1>5, IsASeq
<1> QED BY <1>1, <1>2, <1>6 DEF q

-----------------------------------------------------------------------------
(* The files of a container.                                                *)

File == [kind : Kinds, size : Nat, open : BOOLEAN]
Files == Seq(File)
Shut(f) == IF f.open THEN 0 ELSE Blocks(f.size)

LEMMA SumOf == \A f : SumFunction(f) = SumOn(f, DOMAIN f)
BY DEF SumFunction, SumOn

LEMMA BlocksInt == \A n \in Int : Blocks(n) \in Int
<1> SUFFICES ASSUME NEW n \in Int PROVE Blocks(n) \in Int OBVIOUS
<1>1. BlockSize \in Int /\ BlockSize > 0 BY PurgeAssumption
<1>2. \A a \in Int : a \div BlockSize \in Int BY <1>1
<1>3. n + BlockSize - 1 \in Int BY <1>1
<1> QED BY <1>2, <1>3 DEF Blocks

LEMMA FilesAre ==
  ASSUME NEW fs \in Files
  PROVE  /\ Len(fs) \in Nat /\ DOMAIN fs = 1 .. Len(fs) /\ IsFiniteSet(DOMAIN fs)
         /\ \A i \in DOMAIN fs : /\ fs[i] \in File /\ fs[i].size \in Nat
                                 /\ fs[i].open \in BOOLEAN /\ Blocks(fs[i].size) \in Int
<1>1. Len(fs) \in Nat /\ DOMAIN fs = 1 .. Len(fs) BY DEF Files
<1>2. \A i \in DOMAIN fs : fs[i] \in File BY <1>1 DEF Files
<1>3. \A i \in DOMAIN fs : fs[i].size \in Nat /\ fs[i].open \in BOOLEAN BY <1>2 DEF File
<1>4. \A i \in DOMAIN fs : Blocks(fs[i].size) \in Int BY <1>3, BlocksInt
<1>5. IsFiniteSet(DOMAIN fs) BY <1>1, FS_Interval
<1> QED BY <1>1, <1>2, <1>3, <1>4, <1>5

AllOf(fs) == [i \in DOMAIN fs |-> Blocks(fs[i].size)]
ShutOf(fs) == [i \in DOMAIN fs |-> IF fs[i].open THEN 0 ELSE Blocks(fs[i].size)]
OpenOf(fs) == [i \in DOMAIN fs |-> IF fs[i].open THEN Blocks(fs[i].size) ELSE 0]

LEMMA SumsAre ==
  \A fs : /\ FileBlocks(fs) = SumOn(AllOf(fs), DOMAIN fs)
          /\ closedBlocks(fs) = SumOn(ShutOf(fs), DOMAIN fs)
          /\ addBaseStorage(fs) = SumOn(OpenOf(fs), DOMAIN fs)
<1> SUFFICES ASSUME NEW fs
             PROVE  /\ FileBlocks(fs) = SumOn(AllOf(fs), DOMAIN fs)
                    /\ closedBlocks(fs) = SumOn(ShutOf(fs), DOMAIN fs)
                    /\ addBaseStorage(fs) = SumOn(OpenOf(fs), DOMAIN fs)
  OBVIOUS
<1>1. /\ DOMAIN AllOf(fs) = DOMAIN fs /\ DOMAIN ShutOf(fs) = DOMAIN fs
      /\ DOMAIN OpenOf(fs) = DOMAIN fs
  BY DEF AllOf, ShutOf, OpenOf
<1>2. FileBlocks(fs) = SumFunction(AllOf(fs)) BY DEF FileBlocks, AllOf
<1>3. closedBlocks(fs) = SumFunction(ShutOf(fs)) BY DEF closedBlocks, ShutOf
<1>4. addBaseStorage(fs) = SumFunction(OpenOf(fs)) BY DEF addBaseStorage, OpenOf
<1> QED BY <1>1, <1>2, <1>3, <1>4, SumOf

\* What is counted of a container and what is not.
LEMMA FileSums ==
  ASSUME NEW fs \in Files
  PROVE  /\ FileBlocks(fs) \in Int /\ closedBlocks(fs) \in Int /\ addBaseStorage(fs) \in Int
         /\ FileBlocks(fs) = closedBlocks(fs) + addBaseStorage(fs)
<1> DEFINE D == DOMAIN fs
           f == AllOf(fs)
           g == ShutOf(fs)
           h == OpenOf(fs)
<1>1. IsFiniteSet(D) BY FilesAre
<1>2. \A i \in D : g[i] \in Int /\ h[i] \in Int /\ f[i] = g[i] + h[i]
  <2> SUFFICES ASSUME NEW i \in D PROVE g[i] \in Int /\ h[i] \in Int /\ f[i] = g[i] + h[i]
    OBVIOUS
  <2> DEFINE b == Blocks(fs[i].size)
  <2>1. /\ f[i] = b /\ g[i] = (IF fs[i].open THEN 0 ELSE b)
        /\ h[i] = (IF fs[i].open THEN b ELSE 0)
    BY DEF AllOf, ShutOf, OpenOf
  <2>2. b \in Int BY FilesAre
  <2> HIDE DEF b, f, g, h
  <2> QED BY <2>1, <2>2
<1> HIDE DEF f, g, h, D
<1>3. SumOn(g, D) \in Int /\ SumOn(h, D) \in Int BY <1>1, <1>2, SumInt
<1>4. SumOn(f, D) = SumOn(g, D) + SumOn(h, D) BY <1>1, <1>2, SumPlus
<1>5. /\ FileBlocks(fs) = SumOn(f, D) /\ closedBlocks(fs) = SumOn(g, D)
      /\ addBaseStorage(fs) = SumOn(h, D)
  BY SumsAre DEF f, g, h, D
<1> QED BY <1>3, <1>4, <1>5

LEMMA OpenSizeInt == \A fs \in Files : openSize(fs) \in Int /\ Bytes(fs) \in Int
<1> SUFFICES ASSUME NEW fs \in Files PROVE openSize(fs) \in Int /\ Bytes(fs) \in Int OBVIOUS
<1> DEFINE D == DOMAIN fs
           f == [i \in D |-> IF fs[i].open THEN fs[i].size ELSE 0]
           g == [i \in D |-> fs[i].size]
<1>1. IsFiniteSet(D) BY FilesAre
<1>2. \A i \in D : f[i] \in Int /\ g[i] \in Int BY FilesAre
<1>3. openSize(fs) = SumFunction(f) /\ Bytes(fs) = SumFunction(g) BY DEF openSize, Bytes
<1>4. DOMAIN f = D /\ DOMAIN g = D OBVIOUS
<1> HIDE DEF f, g, D
<1> QED BY <1>1, <1>2, <1>3, <1>4, SumInt, SumOf

LEMMA ClosedIs ==
  ASSUME NEW fs \in Files
  PROVE  /\ Closed(fs) \in Files /\ Len(Closed(fs)) = Len(fs)
         /\ closedBlocks(Closed(fs)) = FileBlocks(fs)
<1> DEFINE q == Closed(fs)
           n == Len(fs)
<1>1. n \in Nat /\ DOMAIN fs = 1 .. n BY FilesAre
<1>2. \A i \in 1 .. n : fs[i] \in File BY <1>1, FilesAre
<1>3. q = [i \in 1 .. n |-> [fs[i] EXCEPT !.open = FALSE]] BY <1>1 DEF Closed
<1>4. \A i \in 1 .. n : /\ q[i] \in File /\ q[i].size = fs[i].size /\ q[i].open = FALSE
  BY <1>2, <1>3 DEF File
<1>5. q \in [1 .. n -> File] BY <1>3, <1>4
<1> HIDE DEF q, n
<1>6. q \in Seq(File) /\ Len(q) = n /\ DOMAIN q = 1 .. n BY <1>1, <1>5
<1>7. \A i \in 1 .. n : ShutOf(q)[i] = AllOf(fs)[i] BY <1>1, <1>4, <1>6 DEF ShutOf, AllOf
<1>8. SumOn(ShutOf(q), 1 .. n) = SumOn(AllOf(fs), 1 .. n)
  <2>1. IsFiniteSet(1 .. n) BY <1>1, FS_Interval
  <2> QED BY <1>7, <2>1, SumSame
<1>9. closedBlocks(q) = FileBlocks(fs) BY <1>1, <1>6, <1>8, SumsAre
<1> QED BY <1>6, <1>9 DEF q, n, Files

\* One file is written on, or closed.
LEMMA PutIs ==
  ASSUME NEW fs \in Files, NEW i \in DOMAIN fs, NEW f \in File
  PROVE  /\ [fs EXCEPT ![i] = f] \in Files /\ Len([fs EXCEPT ![i] = f]) = Len(fs)
         /\ closedBlocks([fs EXCEPT ![i] = f]) = closedBlocks(fs) + Shut(f) - Shut(fs[i])
<1> DEFINE q == [fs EXCEPT ![i] = f]
           n == Len(fs)
           S == (1 .. n) \ {i}
<1>1. n \in Nat /\ DOMAIN fs = 1 .. n /\ i \in 1 .. n BY FilesAre
<1>2. \A j \in 1 .. n : fs[j] \in File BY <1>1, FilesAre
<1>3. q = [j \in 1 .. n |-> IF j = i THEN f ELSE fs[j]] BY <1>1
<1> HIDE DEF q, n
<1>4. q \in [1 .. n -> File] BY <1>2, <1>3
<1>16. q[i] = f /\ \A j \in S : q[j] = fs[j] BY <1>1, <1>3
<1>17. q \in Seq(File) /\ Len(q) = n /\ DOMAIN q = 1 .. n BY <1>1, <1>4
<1>5. /\ q \in Seq(File) /\ Len(q) = n /\ DOMAIN q = 1 .. n /\ q[i] = f
      /\ \A j \in S : q[j] = fs[j]
      /\ \A j \in 1 .. n : q[j] \in File
  BY <1>4, <1>16, <1>17
<1>6. \A j \in 1 .. n : ShutOf(q)[j] = Shut(q[j]) /\ ShutOf(fs)[j] = Shut(fs[j])
  BY <1>1, <1>5 DEF ShutOf, Shut
<1>7. \A g \in File : Shut(g) \in Int
  <2> SUFFICES ASSUME NEW g \in File PROVE Shut(g) \in Int OBVIOUS
  <2>1. g.size \in Int BY DEF File
  <2>2. Blocks(g.size) \in Int BY <2>1, BlocksInt
  <2> QED BY <2>2 DEF Shut
<1>8. IsFiniteSet(1 .. n) /\ IsFiniteSet(S) BY <1>1, FS_Interval, FS_Subset
<1>9. \A j \in 1 .. n : ShutOf(q)[j] \in Int /\ ShutOf(fs)[j] \in Int
  <2>1. \A j \in 1 .. n : q[j] \in File BY <1>5
  <2> QED BY <1>2, <1>6, <1>7, <2>1
<1>10. SumOn(ShutOf(q), S) = SumOn(ShutOf(fs), S)
  <2>1. \A j \in S : ShutOf(q)[j] = ShutOf(fs)[j] BY <1>5, <1>6
  <2> HIDE DEF S
  <2> QED BY <1>8, <2>1, SumSame
<1>11. SumOn(ShutOf(fs), S) \in Int
  <2>1. \A j \in S : ShutOf(fs)[j] \in Int BY <1>9
  <2> HIDE DEF S
  <2> QED BY <1>8, <2>1, SumInt
<1>12. /\ SumOn(ShutOf(q), 1 .. n) = ShutOf(q)[i] + SumOn(ShutOf(q), S)
       /\ SumOn(ShutOf(fs), 1 .. n) = ShutOf(fs)[i] + SumOn(ShutOf(fs), S)
  <2> DEFINE N == 1 .. n
             g == ShutOf(q)
             h == ShutOf(fs)
  <2>1. i \in N /\ IsFiniteSet(N) /\ S = N \ {i} BY <1>1, <1>8
  <2>2. \A j \in N : g[j] \in Int /\ h[j] \in Int BY <1>9
  <2> HIDE DEF N, g, h, S
  <2>3. SumOn(g, N) = g[i] + SumOn(g, S) BY <2>1, <2>2, SumOut
  <2>4. SumOn(h, N) = h[i] + SumOn(h, S) BY <2>1, <2>2, SumOut
  <2> QED BY <2>3, <2>4 DEF N, g, h
<1>13. closedBlocks(q) = SumOn(ShutOf(q), 1 .. n) /\ closedBlocks(fs) = SumOn(ShutOf(fs), 1 .. n)
  BY <1>1, <1>5, SumsAre
<1>14. ShutOf(q)[i] = Shut(f) /\ ShutOf(fs)[i] = Shut(fs[i]) BY <1>1, <1>5, <1>6
<1> HIDE DEF S
<1>15. closedBlocks(q) = closedBlocks(fs) + Shut(f) - Shut(fs[i])
  <2>1. Shut(f) \in Int /\ Shut(fs[i]) \in Int BY <1>1, <1>2, <1>7
  <2> QED BY <1>10, <1>11, <1>12, <1>13, <1>14, <2>1
<1> QED BY <1>5, <1>15 DEF q, n, Files

\* One list of files after another.
LEMMA ConcatIs ==
  ASSUME NEW a \in Files, NEW b \in Files
  PROVE  /\ a \o b \in Files
         /\ closedBlocks(a \o b) = closedBlocks(a) + closedBlocks(b)
<1> DEFINE q == a \o b
           k == Len(a)
           m == Len(b)
           A == 1 .. k
           f == ShutOf(q)
           g == ShutOf(b)
<1>1. k \in Nat /\ m \in Nat /\ DOMAIN a = 1 .. k /\ DOMAIN b = 1 .. m BY FilesAre
<1>2. /\ q \in Files /\ Len(q) = k + m
      /\ \A i \in 1 .. k + m : q[i] = IF i <= k THEN a[i] ELSE b[i - k]
  BY ConcatProperties DEF Files
<1>3. DOMAIN q = 1 .. k + m BY <1>2, FilesAre
<1> HIDE DEF q, k, m
<1>4. A \intersect Above(k, m) = {} /\ A \union Above(k, m) = 1 .. k + m
  <2>1. \A x : x \in A \union Above(k, m) <=> x \in 1 .. k + m BY <1>1 DEF Above
  <2>2. A \union Above(k, m) = 1 .. k + m BY <2>1, Zenon
  <2>3. A \intersect Above(k, m) = {} BY <1>1 DEF Above
  <2> QED BY <2>2, <2>3
<1>5. IsFiniteSet(A) /\ IsFiniteSet(Above(k, m)) BY <1>1, FS_Interval DEF Above
<1>6. \A i \in 1 .. k + m : f[i] \in Int
  <2>1. \A i \in 1 .. k + m : Blocks(q[i].size) \in Int BY <1>2, <1>3, FilesAre
  <2> QED BY <1>3, <2>1 DEF ShutOf
<1>7. \A i \in 1 .. m : g[i] \in Int
  <2>1. \A i \in 1 .. m : Blocks(b[i].size) \in Int BY <1>1, FilesAre
  <2> QED BY <1>1, <2>1 DEF ShutOf
<1>8. \A i \in A : f[i] = ShutOf(a)[i]
  <2> SUFFICES ASSUME NEW i \in A PROVE f[i] = ShutOf(a)[i] OBVIOUS
  <2>1. i \in 1 .. k + m /\ i \in 1 .. k /\ q[i] = a[i] BY <1>1, <1>2
  <2> QED BY <1>1, <1>3, <2>1 DEF ShutOf
<1>9. Shifted(f, g, k, m)
  <2> SUFFICES ASSUME NEW i \in 1 .. m PROVE f[k + i] = g[i] BY <1>7 DEF Shifted
  <2> DEFINE j == k + i
  <2>1. j \in 1 .. k + m /\ ~(j <= k) /\ j - k = i BY <1>1
  <2> HIDE DEF j
  <2>2. q[j] = b[i] BY <1>2, <2>1
  <2>3. f[j] = g[i] BY <1>1, <1>3, <2>1, <2>2 DEF ShutOf
  <2> QED BY <2>3 DEF j
<1> HIDE DEF f, g, A
<1>10. SumOn(f, Above(k, m)) = SumOn(g, 1 .. m) BY <1>1, <1>9, SumShift
<1>11. SumOn(f, A) = SumOn(ShutOf(a), 1 .. k) BY <1>5, <1>8, SumSame DEF A
<1>12. SumOn(f, A \union Above(k, m)) = SumOn(f, A) + SumOn(f, Above(k, m))
  BY <1>4, <1>5, <1>6, SumParts
<1>13. /\ closedBlocks(q) = SumOn(f, 1 .. k + m) /\ closedBlocks(a) = SumOn(ShutOf(a), 1 .. k)
       /\ closedBlocks(b) = SumOn(g, 1 .. m)
  BY <1>1, <1>3, SumsAre DEF f, g
<1> QED BY <1>2, <1>4, <1>10, <1>11, <1>12, <1>13 DEF q

LEMMA OneIs ==
  ASSUME NEW f \in File
  PROVE  <<f>> \in Files /\ closedBlocks(<<f>>) = Shut(f)
<1> DEFINE q == <<f>>
<1>1. q \in Files /\ DOMAIN q = {1} /\ q[1] = f
  <2>1. 1 .. 1 = {1} OBVIOUS
  <2> QED BY <2>1 DEF Files
<1> HIDE DEF q
<1>2. ShutOf(q)[1] = Shut(f) BY <1>1 DEF ShutOf, Shut
<1>3. Blocks(q[1].size) \in Int BY <1>1, FilesAre
<1>4. Shut(f) \in Int BY <1>1, <1>3 DEF Shut
<1>5. IsFiniteSet({1}) BY FS_Singleton
<1>6. {1} \ {1} = {} OBVIOUS
<1>7. SumOn(ShutOf(q), {1}) = ShutOf(q)[1] + SumOn(ShutOf(q), {1} \ {1})
  BY <1>2, <1>4, <1>5, SumOut
<1>8. SumOn(ShutOf(q), {1}) = Shut(f) BY <1>2, <1>4, <1>6, <1>7, SumNone
<1> QED BY <1>1, <1>8, SumsAre DEF q

\* A list is its first k files and the others.
LEMMA SplitIs ==
  ASSUME NEW fs \in Files, NEW k \in 0 .. Len(fs)
  PROVE  LET rest == SubSeq(fs, k + 1, Len(fs))
             cut == SubSeq(fs, 1, k)
         IN  /\ rest \in Files /\ cut \in Files /\ fs = cut \o rest
             /\ Len(cut) = k /\ \A i \in 1 .. k : cut[i] = fs[i]
<1> DEFINE n == Len(fs)
           m == n - k
           rest == SubSeq(fs, k + 1, n)
           cut == SubSeq(fs, 1, k)
<1>1. n \in Nat /\ DOMAIN fs = 1 .. n /\ k \in Nat /\ m \in Nat /\ k + m = n /\ k <= n
  BY FilesAre
<1>2. \A i \in 1 .. n : fs[i] \in File BY <1>1, FilesAre
<1>3. rest \in Files /\ Len(rest) = m /\ \A i \in 1 .. m : rest[i] = fs[k + i]
  <2>1. \A i \in (k + 1) .. n : i \in 1 .. n BY <1>1
  <2>2. \A i \in (k + 1) .. n : fs[i] \in File BY <1>2, <2>1
  <2>3. k + 1 \in Int /\ n \in Int BY <1>1
  <2>4. /\ rest \in Seq(File) /\ Len(rest) = (IF k + 1 <= n THEN n - (k + 1) + 1 ELSE 0)
        /\ \A i \in 1 .. n - (k + 1) + 1 : rest[i] = fs[(k + 1) + i - 1]
    BY <2>2, <2>3, SubSeqProperties
  <2>5. n - (k + 1) + 1 = m BY <1>1
  <2>6. \A i \in 1 .. m : (k + 1) + i - 1 = k + i BY <1>1
  <2>7. (IF k + 1 <= n THEN m ELSE 0) = m
    <3> HIDE DEF m, n
    <3>1. k + 1 <= n \/ m = 0 BY <1>1
    <3> QED BY <3>1
  <2> HIDE DEF rest, n, m
  <2> QED BY <2>4, <2>5, <2>6, <2>7 DEF Files
<1>4. cut \in Files /\ Len(cut) = k /\ \A i \in 1 .. k : cut[i] = fs[i]
  <2>1. \A i \in 1 .. k : fs[i] \in File BY <1>1, <1>2
  <2>2. /\ cut \in Seq(File) /\ Len(cut) = (IF 1 <= k THEN k - 1 + 1 ELSE 0)
        /\ \A i \in 1 .. k - 1 + 1 : cut[i] = fs[1 + i - 1]
    BY <2>1, <1>1, SubSeqProperties
  <2>3. k - 1 + 1 = k BY <1>1
  <2>4. \A i \in 1 .. k : 1 + i - 1 = i BY <1>1
  <2>5. (IF 1 <= k THEN k ELSE 0) = k BY <1>1
  <2> HIDE DEF cut
  <2> QED BY <2>2, <2>3, <2>4, <2>5 DEF Files
<1> HIDE DEF rest, cut, n, m
<1>5. fs = cut \o rest
  <2> DEFINE q == cut \o rest
  <2>1. /\ q \in Seq(File) /\ Len(q) = n
        /\ \A i \in 1 .. n : q[i] = IF i <= k THEN cut[i] ELSE rest[i - k]
    <3>1. cut \in Seq(File) /\ rest \in Seq(File) BY <1>3, <1>4 DEF Files
    <3> QED BY <1>1, <1>3, <1>4, <3>1, ConcatProperties
  <2> HIDE DEF q
  <2>2. ASSUME NEW i \in 1 .. n PROVE q[i] = fs[i]
    <3>1. CASE i <= k
      <4>1. i \in 1 .. k BY <1>1, <3>1
      <4> QED BY <1>4, <2>1, <3>1, <4>1
    <3>2. CASE ~(i <= k)
      <4> DEFINE j == i - k
      <4>1. j \in 1 .. m /\ k + j = i BY <1>1, <3>2
      <4>2. q[i] = rest[j] BY <2>1, <3>2
      <4> HIDE DEF j
      <4>3. rest[j] = fs[i] BY <1>3, <4>1
      <4> QED BY <4>2, <4>3
    <3> QED BY <3>1, <3>2
  <2>3. fs \in Seq(File) /\ Len(fs) = n BY DEF Files, n
  <2>4. q = fs BY <2>1, <2>2, <2>3, SeqEqual
  <2> QED BY <2>4 DEF q
<1> QED BY <1>3, <1>4, <1>5 DEF rest, cut, n

\* A file comes between others.
LEMMA InsertIs ==
  ASSUME NEW fs \in Files, NEW i \in 1 .. Len(fs) + 1, NEW f \in File
  PROVE  /\ InsertAt(fs, i, f) \in Files
         /\ closedBlocks(InsertAt(fs, i, f)) = closedBlocks(fs) + Shut(f)
<1> DEFINE k == i - 1
           n == Len(fs)
           cut == SubSeq(fs, 1, k)
           rest == SubSeq(fs, k + 1, n)
           ci == cut \o <<f>>
<1>1. n \in Nat /\ k \in 0 .. n /\ k + 1 = i BY FilesAre
<1>2. InsertAt(fs, i, f) = ci \o rest BY <1>1 DEF InsertAt
<1> HIDE DEF k
<1>3. rest \in Files /\ cut \in Files /\ fs = cut \o rest BY <1>1, SplitIs
<1> HIDE DEF cut, rest, n
<1>4. <<f>> \in Files /\ closedBlocks(<<f>>) = Shut(f) BY OneIs
<1>5. ci \in Files /\ closedBlocks(ci) = closedBlocks(cut) + Shut(f) BY <1>3, <1>4, ConcatIs
<1> HIDE DEF ci
<1>6. /\ ci \o rest \in Files
      /\ closedBlocks(ci \o rest) = closedBlocks(ci) + closedBlocks(rest)
  BY <1>3, <1>5, ConcatIs
<1>7. closedBlocks(fs) = closedBlocks(cut) + closedBlocks(rest) BY <1>3, ConcatIs
<1>8. /\ closedBlocks(cut) \in Int /\ closedBlocks(rest) \in Int
      /\ closedBlocks(<<f>>) \in Int
  BY <1>3, <1>4, FileSums
<1> QED BY <1>2, <1>4, <1>5, <1>6, <1>7, <1>8

LEMMA MinIn ==
  ASSUME NEW T \in SUBSET Nat, T # {}
  PROVE  Min(T) \in T /\ \A y \in T : Min(T) <= y
<1>1. \E x \in T : \A y \in T : x <= y BY NatLeast
<1> QED BY <1>1, Zenon DEF Min

\* Files none of which is open.
LEMMA NoneOpen ==
  ASSUME NEW fs \in Files, \A i \in DOMAIN fs : ~fs[i].open
  PROVE  closedBlocks(fs) = FileBlocks(fs)
<1>1. IsFiniteSet(DOMAIN fs) BY FilesAre
<1>2. \A i \in DOMAIN fs : ShutOf(fs)[i] = AllOf(fs)[i] BY DEF ShutOf, AllOf
<1>3. SumOn(ShutOf(fs), DOMAIN fs) = SumOn(AllOf(fs), DOMAIN fs) BY <1>1, <1>2, SumSame
<1> QED BY <1>3, SumsAre

\* The first k files go: what they held and what is left.
LEMMA CutIs ==
  ASSUME NEW fs \in Files, NEW k \in 0 .. Len(fs)
  PROVE  LET rest == SubSeq(fs, k + 1, Len(fs))
             cut == SubSeq(fs, 1, k)
         IN  /\ rest \in Files /\ cut \in Files
             /\ FileBlocks(cut) \in Int
             /\ (\A i \in 1 .. k : ~fs[i].open) =>
                   closedBlocks(fs) = FileBlocks(cut) + closedBlocks(rest)
<1> DEFINE rest == SubSeq(fs, k + 1, Len(fs))
           cut == SubSeq(fs, 1, k)
<1>1. /\ rest \in Files /\ cut \in Files /\ fs = cut \o rest
      /\ Len(cut) = k /\ \A i \in 1 .. k : cut[i] = fs[i]
  BY SplitIs
<1> HIDE DEF rest, cut
<1>2. FileBlocks(cut) \in Int BY <1>1, FileSums
<1>3. ASSUME \A i \in 1 .. k : ~fs[i].open
      PROVE  closedBlocks(fs) = FileBlocks(cut) + closedBlocks(rest)
  <2>1. DOMAIN cut = 1 .. k BY <1>1, FilesAre
  <2>2. closedBlocks(cut) = FileBlocks(cut) BY <1>1, <1>3, <2>1, NoneOpen
  <2> QED BY <1>1, <2>2, ConcatIs
<1> QED BY <1>1, <1>2, <1>3 DEF rest, cut

LEMMA EnoughIs ==
  ASSUME NEW fs \in Files, NEW n
  PROVE  Enough(fs, n) \in 0 .. Len(fs)
<1> DEFINE T == {k \in 0 .. Len(fs) : FileBlocks(SubSeq(fs, 1, k)) >= n \/ k = Len(fs)}
<1>1. Len(fs) \in Nat BY FilesAre
<1>2. T \in SUBSET Nat /\ Len(fs) \in T BY <1>1
<1>3. Enough(fs, n) = Min(T) BY DEF Enough
<1>4. T \subseteq 0 .. Len(fs) OBVIOUS
<1> HIDE DEF T
<1>5. Min(T) \in T BY <1>2, MinIn
<1> QED BY <1>3, <1>4, <1>5

-----------------------------------------------------------------------------
(* The pool.                                                                *)

Marks == {"translated", "manual"}
Container == [day : Nat, run : Nat, files : Files, marks : SUBSET Marks]
IsDisk(D) == /\ DOMAIN D \subseteq Nat /\ IsFiniteSet(DOMAIN D)
             /\ \A c \in DOMAIN D : D[c] \in Container

ShutIn(D) == [c \in DOMAIN D |-> closedBlocks(D[c].files)]
AllIn(D, T) == [c \in T \intersect DOMAIN D |-> FileBlocks(D[c].files)]
OpenIn(D, T) == [c \in T \intersect DOMAIN D |-> addBaseStorage(D[c].files)]
SumShut(D) == SumOn(ShutIn(D), DOMAIN D)
SumAll(D, T) == SumOn(AllIn(D, T), T \intersect DOMAIN D)
SumOpen(D, T) == SumOn(OpenIn(D, T), T \intersect DOMAIN D)

LEMMA PoolSums ==
  /\ ClosedBlocks = SumShut(disk)
  /\ NotScanned = IF At("scan") THEN SumAll(disk, io.todo) ELSE 0
  /\ \A T : SumFunction([c \in T \intersect DOMAIN disk |-> addBaseStorage(disk[c].files)])
              = SumOpen(disk, T)
<1>1. ClosedBlocks = SumFunction(ShutIn(disk)) BY DEF ClosedBlocks, ShutIn
<1>2. DOMAIN ShutIn(disk) = DOMAIN disk BY DEF ShutIn
<1>3. ClosedBlocks = SumShut(disk) BY <1>1, <1>2, SumOf DEF SumShut
<1>4. \A T : /\ DOMAIN AllIn(disk, T) = T \intersect DOMAIN disk
             /\ DOMAIN OpenIn(disk, T) = T \intersect DOMAIN disk
  BY DEF AllIn, OpenIn
<1>5. NotScanned = IF At("scan") THEN SumFunction(AllIn(disk, io.todo)) ELSE 0
  BY DEF NotScanned, AllIn
<1>6. NotScanned = IF At("scan") THEN SumAll(disk, io.todo) ELSE 0
  BY <1>4, <1>5, SumOf DEF SumAll
<1>7. \A T : SumFunction(OpenIn(disk, T)) = SumOpen(disk, T)
  BY <1>4, SumOf DEF SumOpen
<1> QED BY <1>3, <1>6, <1>7 DEF OpenIn

LEMMA InPool ==
  ASSUME NEW D, IsDisk(D), NEW c \in DOMAIN D
  PROVE  /\ c \in Nat /\ D[c].day \in Nat /\ D[c].run \in Nat /\ D[c].files \in Files
         /\ D[c].marks \in SUBSET Marks
         /\ FileBlocks(D[c].files) \in Int /\ closedBlocks(D[c].files) \in Int
         /\ addBaseStorage(D[c].files) \in Int
         /\ FileBlocks(D[c].files) = closedBlocks(D[c].files) + addBaseStorage(D[c].files)
<1>1. c \in Nat /\ D[c] \in Container BY DEF IsDisk
<1>2. D[c].files \in Files /\ D[c].day \in Nat /\ D[c].run \in Nat
  BY <1>1 DEF Container
<1>3. D[c].marks \in SUBSET Marks BY <1>1 DEF Container
<1> QED BY <1>1, <1>2, <1>3, FileSums

LEMMA PoolInts ==
  ASSUME NEW D, IsDisk(D), NEW T
  PROVE  SumShut(D) \in Int /\ SumAll(D, T) \in Int /\ SumOpen(D, T) \in Int
<1>1. IsFiniteSet(DOMAIN D) /\ IsFiniteSet(T \intersect DOMAIN D) BY FS_Subset DEF IsDisk
<1>2. \A c \in DOMAIN D : ShutIn(D)[c] \in Int BY InPool DEF ShutIn
<1>3. \A c \in T \intersect DOMAIN D : AllIn(D, T)[c] \in Int /\ OpenIn(D, T)[c] \in Int
  BY InPool DEF AllIn, OpenIn
<1> QED BY <1>1, <1>2, <1>3, SumInt DEF SumShut, SumAll, SumOpen

LEMMA SameShut ==
  ASSUME NEW D, NEW E, IsDisk(D), DOMAIN E = DOMAIN D,
         \A c \in DOMAIN D : closedBlocks(E[c].files) = closedBlocks(D[c].files)
  PROVE  SumShut(E) = SumShut(D)
<1>1. IsFiniteSet(DOMAIN D) BY DEF IsDisk
<1>2. \A c \in DOMAIN D : ShutIn(E)[c] = ShutIn(D)[c] BY DEF ShutIn
<1> QED BY <1>1, <1>2, SumSame DEF SumShut

\* Containers are not counted before they are scanned.
LEMMA SameAll ==
  ASSUME NEW D, NEW E, NEW T, IsDisk(D), T \intersect DOMAIN E = T \intersect DOMAIN D,
         \A c \in T \intersect DOMAIN D : E[c].files = D[c].files
  PROVE  SumAll(E, T) = SumAll(D, T)
<1> DEFINE R == T \intersect DOMAIN D
<1>1. IsFiniteSet(R) BY FS_Subset DEF IsDisk
<1>2. \A c \in R : AllIn(E, T)[c] = AllIn(D, T)[c] BY DEF AllIn
<1> HIDE DEF R
<1>3. SumOn(AllIn(E, T), R) = SumOn(AllIn(D, T), R) BY <1>1, <1>2, SumSame
<1> QED BY <1>3 DEF SumAll, R

LEMMA OutOfAll ==
  ASSUME NEW D, NEW T, IsDisk(D), NEW c \in T \intersect DOMAIN D
  PROVE  SumAll(D, T) = FileBlocks(D[c].files) + SumAll(D, T \ {c})
<1> DEFINE R == T \intersect DOMAIN D
           S == (T \ {c}) \intersect DOMAIN D
           f == AllIn(D, T)
           g == AllIn(D, T \ {c})
<1>1. IsFiniteSet(R) /\ IsFiniteSet(S) BY FS_Subset DEF IsDisk
<1>2. \A x \in R : f[x] = FileBlocks(D[x].files) BY DEF AllIn
<1>3. \A x \in R : f[x] \in Int BY <1>2, InPool
<1>4. R \ {c} = S /\ c \in R OBVIOUS
<1>5. \A x \in S : f[x] = g[x] BY DEF AllIn
<1>6. SumAll(D, T) = SumOn(f, R) /\ SumAll(D, T \ {c}) = SumOn(g, S) BY DEF SumAll
<1> HIDE DEF R, S, f, g
<1>7. SumOn(f, R) = f[c] + SumOn(f, R \ {c}) BY <1>1, <1>3, <1>4, SumOut
<1>8. SumOn(f, S) = SumOn(g, S) BY <1>1, <1>5, SumSame
<1> QED BY <1>2, <1>4, <1>6, <1>7, <1>8

\* One container comes.
LEMMA ComesIn ==
  ASSUME NEW D, NEW E, NEW c, IsDisk(E), c \in DOMAIN E, DOMAIN D = DOMAIN E \ {c},
         \A x \in DOMAIN D : closedBlocks(E[x].files) = closedBlocks(D[x].files)
  PROVE  SumShut(E) = closedBlocks(E[c].files) + SumShut(D)
<1> DEFINE f == ShutIn(E)
           g == ShutIn(D)
<1>1. IsFiniteSet(DOMAIN E) /\ IsFiniteSet(DOMAIN D) BY FS_Subset DEF IsDisk
<1>2. \A x \in DOMAIN E : f[x] = closedBlocks(E[x].files) BY DEF ShutIn
<1>3. \A x \in DOMAIN E : f[x] \in Int BY <1>2, InPool
<1>4. \A x \in DOMAIN D : f[x] = g[x] BY DEF ShutIn
<1>5. SumShut(E) = SumOn(f, DOMAIN E) /\ SumShut(D) = SumOn(g, DOMAIN D) BY DEF SumShut
<1> HIDE DEF f, g
<1>6. SumOn(f, DOMAIN E) = f[c] + SumOn(f, DOMAIN E \ {c}) BY <1>1, <1>3, SumOut
<1>7. SumOn(f, DOMAIN D) = SumOn(g, DOMAIN D) BY <1>1, <1>4, SumSame
<1> QED BY <1>2, <1>5, <1>6, <1>7

\* One container changes.
LEMMA ChangesIn ==
  ASSUME NEW D, NEW E, NEW c, IsDisk(D), IsDisk(E), c \in DOMAIN D, DOMAIN E = DOMAIN D,
         \A x \in DOMAIN D \ {c} : closedBlocks(E[x].files) = closedBlocks(D[x].files)
  PROVE  SumShut(E) - closedBlocks(E[c].files) = SumShut(D) - closedBlocks(D[c].files)
<1> DEFINE f == ShutIn(E)
           g == ShutIn(D)
           R == DOMAIN D
           S == R \ {c}
<1>1. IsFiniteSet(R) /\ IsFiniteSet(S) /\ c \in R BY FS_Subset DEF IsDisk
<1>2. \A x \in R : f[x] = closedBlocks(E[x].files) /\ g[x] = closedBlocks(D[x].files)
  BY DEF ShutIn
<1>3. \A x \in R : f[x] \in Int /\ g[x] \in Int BY <1>2, InPool
<1>4. \A x \in S : f[x] = g[x] BY <1>2
<1>5. SumShut(E) = SumOn(f, R) /\ SumShut(D) = SumOn(g, R) BY DEF SumShut
<1>6. \A x \in S : g[x] \in Int BY <1>3
<1>7. S = R \ {c} OBVIOUS
<1> HIDE DEF f, g, R, S
<1>8. SumOn(f, R) = f[c] + SumOn(f, S) BY <1>1, <1>3, <1>7, SumOut
<1>9. SumOn(g, R) = g[c] + SumOn(g, S) BY <1>1, <1>3, <1>7, SumOut
<1>10. SumOn(f, S) = SumOn(g, S) /\ SumOn(g, S) \in Int BY <1>1, <1>4, <1>6, SumSame, SumInt
<1>11. /\ f[c] = closedBlocks(E[c].files) /\ g[c] = closedBlocks(D[c].files)
       /\ f[c] \in Int /\ g[c] \in Int
  BY <1>1, <1>2, <1>3
<1> DEFINE s == SumOn(g, S)
<1>12. SumShut(E) = f[c] + s /\ SumShut(D) = g[c] + s BY <1>5, <1>8, <1>9, <1>10
<1>13. s \in Int BY <1>10
<1> HIDE DEF s
<1> QED BY <1>11, <1>12, <1>13

\* The containers in T are closed.
LEMMA ClosesIn ==
  ASSUME NEW D, NEW E, NEW T, IsDisk(D), DOMAIN E = DOMAIN D,
         \A c \in DOMAIN D : closedBlocks(E[c].files) =
             IF c \in T THEN FileBlocks(D[c].files) ELSE closedBlocks(D[c].files)
  PROVE  SumShut(E) = SumShut(D) + SumOpen(D, T)
<1> DEFINE R == DOMAIN D
           U == T \intersect R
           V == R \ T
           f == ShutIn(D)
           g == [c \in R |-> IF c \in T THEN addBaseStorage(D[c].files) ELSE 0]
           h == ShutIn(E)
           o == OpenIn(D, T)
<1>1. IsFiniteSet(R) /\ IsFiniteSet(U) /\ IsFiniteSet(V) BY FS_Subset DEF IsDisk
<1>2. ASSUME NEW c \in R
      PROVE  f[c] \in Int /\ g[c] \in Int /\ h[c] = f[c] + g[c]
  <2>1. /\ f[c] = closedBlocks(D[c].files) /\ h[c] = closedBlocks(E[c].files)
        /\ g[c] = IF c \in T THEN addBaseStorage(D[c].files) ELSE 0
    BY DEF ShutIn
  <2>2. /\ FileBlocks(D[c].files) \in Int /\ closedBlocks(D[c].files) \in Int
        /\ addBaseStorage(D[c].files) \in Int
        /\ FileBlocks(D[c].files) = closedBlocks(D[c].files) + addBaseStorage(D[c].files)
    BY InPool
  <2>3. closedBlocks(E[c].files) =
             IF c \in T THEN FileBlocks(D[c].files) ELSE closedBlocks(D[c].files)
    OBVIOUS
  <2> HIDE DEF f, g, h
  <2>4. CASE c \in T
    <3>1. h[c] = FileBlocks(D[c].files) /\ g[c] = addBaseStorage(D[c].files) BY <2>1, <2>3, <2>4
    <3> QED BY <2>1, <2>2, <3>1
  <2>5. CASE c \notin T
    <3>1. h[c] = f[c] /\ g[c] = 0 BY <2>1, <2>3, <2>5
    <3> QED BY <2>1, <2>2, <3>1
  <2> QED BY <2>4, <2>5
<1>3. \A c \in U : g[c] = o[c] BY DEF OpenIn
<1>4. \A c \in V : g[c] = 0 OBVIOUS
<1>5. U \union V = R /\ U \intersect V = {} OBVIOUS
<1>6. /\ SumShut(E) = SumOn(h, R) /\ SumShut(D) = SumOn(f, R) /\ SumOpen(D, T) = SumOn(o, U)
  BY DEF SumShut, SumOpen
<1> HIDE DEF R, U, V, f, g, h, o
<1>7. SumOn(h, R) = SumOn(f, R) + SumOn(g, R) BY <1>1, <1>2, SumPlus
<1>8. SumOn(g, R) = SumOn(g, U) + SumOn(g, V)
  <2>1. \A c \in U \union V : g[c] \in Int BY <1>2, <1>5
  <2>2. SumOn(g, U \union V) = SumOn(g, U) + SumOn(g, V) BY <1>1, <1>5, <2>1, SumParts
  <2> QED BY <1>5, <2>2
<1>9. SumOn(g, V) = 0 BY <1>1, <1>4, SumZero
<1>10. SumOn(g, U) = SumOn(o, U) BY <1>1, <1>3, SumSame
<1>11. SumOn(o, U) \in Int BY <1>6, PoolInts
<1>12. SumOn(g, R) = SumOn(o, U) + 0 BY <1>8, <1>9, <1>10
<1>13. SumOn(g, R) = SumOn(o, U) BY <1>11, <1>12
<1> QED BY <1>6, <1>7, <1>13

-----------------------------------------------------------------------------
(* The inductive invariant.                                                 *)

IsCache(C) ==
  /\ DOMAIN C \subseteq Nat /\ IsFiniteSet(DOMAIN C)
  /\ \A d \in DOMAIN C : /\ IsFiniteSet(DOMAIN C[d])
                         /\ \A c \in DOMAIN C[d] : C[d][c] \in Int
Steps == {"scan", "idle", "days", "conts", "ended"}
IoStates == [pc : Steps, left : Int, todo : SUBSET Nat, days : Seq(Nat), conts : Seq(Nat),
             last : BOOLEAN]
Typed ==
  /\ IsDisk(disk) /\ stack \in Seq(Nat) /\ IsCache(cache) /\ io \in IoStates
  /\ used \in Int /\ maxBlocks \in Int /\ scanned \in Int /\ purged \in Int
  /\ missed \in Int /\ ioActive \in BOOLEAN /\ exact \in BOOLEAN

\* The stack is newest first, and its containers were not there when the scan
\* began.
StackOK(s, todo) ==
  /\ \A i, j \in 1 .. Len(s) : i < j => s[j] < s[i]
  /\ \A i \in 1 .. Len(s) : s[i] \notin todo
\* The number after the current one is new.
Newest(D, s, m, o) ==
  m = "up" => /\ s # <<>>
              /\ \A c \in DOMAIN D : c <= s[1]
              /\ \A c \in o.todo : c <= s[1]
              /\ \A i \in 1 .. Len(o.conts) : o.conts[i] <= s[1]

\* The list of days a purge goes through is cached, and every container of the
\* list of a day is of that day.
ListsOK(D, C, o) ==
  /\ \A i \in 1 .. Len(o.days) : o.days[i] \in DOMAIN C
  /\ \A i, j \in 1 .. Len(o.days) : i < j => o.days[i] < o.days[j]
  /\ o.pc = "conts" => /\ o.days # <<>>
                       /\ \A i \in 1 .. Len(o.conts) :
                            o.conts[i] \in DOMAIN D => D[o.conts[i]].day = o.days[1]
\* What the cache knows is on disk.
CacheOK(D, C) == \A d \in DOMAIN C : \A c \in DOMAIN C[d] : c \in DOMAIN D /\ D[c].day = d

EndsDown == (io.pc = "ended" \/ startFd = IOCMD_SHUTDOWN) => ~Up

PoolInv ==
  /\ Typed
  /\ StackOK(stack, io.todo) /\ Newest(disk, stack, main, io)
  /\ ListsOK(disk, cache, io) /\ (exact => CacheOK(disk, cache))
  /\ OneCommand /\ EndsDown
  /\ BlocksAccounted


\* Files all of which are closed.
AllShut(fs) == fs \in Files /\ \A i \in DOMAIN fs : ~fs[i].open

LEMMA ShutConcat ==
  ASSUME NEW a, NEW b, AllShut(a), AllShut(b)
  PROVE  AllShut(a \o b)
<1> DEFINE q == a \o b
           k == Len(a)
           m == Len(b)
<1>1. a \in Files /\ b \in Files BY DEF AllShut
<1>2. k \in Nat /\ m \in Nat /\ DOMAIN a = 1 .. k /\ DOMAIN b = 1 .. m BY <1>1, FilesAre
<1>3. /\ q \in Files /\ Len(q) = k + m
      /\ \A i \in 1 .. k + m : q[i] = IF i <= k THEN a[i] ELSE b[i - k]
  BY <1>1, ConcatProperties DEF Files
<1>4. DOMAIN q = 1 .. k + m BY <1>3, FilesAre
<1> HIDE DEF q, k, m
<1>5. ASSUME NEW i \in 1 .. k + m PROVE ~q[i].open
  <2>1. CASE i <= k
    <3>1. i \in 1 .. k /\ q[i] = a[i] BY <1>2, <1>3, <2>1
    <3> QED BY <1>2, <3>1 DEF AllShut
  <2>2. CASE ~(i <= k)
    <3> DEFINE j == i - k
    <3>1. j \in 1 .. m /\ q[i] = b[j] BY <1>2, <1>3, <2>2
    <3> HIDE DEF j
    <3> QED BY <1>2, <3>1 DEF AllShut
  <2> QED BY <2>1, <2>2
<1>6. AllShut(q) BY <1>3, <1>4, <1>5 DEF AllShut
<1> QED BY <1>6 DEF q

LEMMA ShutIs ==
  ASSUME NEW fs, AllShut(fs)
  PROVE  /\ fs \in Files /\ closedBlocks(fs) = FileBlocks(fs) /\ FileBlocks(fs) \in Int
<1>1. fs \in Files /\ \A i \in DOMAIN fs : ~fs[i].open BY DEF AllShut
<1> QED BY <1>1, NoneOpen, FileSums

LEMMA EmptyShut == AllShut(<<>>)
<1>1. <<>> \in Files /\ DOMAIN <<>> = {} BY DEF Files
<1> QED BY <1>1 DEF AllShut

LEMMA PrologueShut == \A k \in Kinds : AllShut(<<Prologue(k)>>)
<1> SUFFICES ASSUME NEW k \in Kinds PROVE AllShut(<<Prologue(k)>>) OBVIOUS
<1> DEFINE f == Prologue(k)
<1>1. f \in File /\ f.open = FALSE BY PurgeAssumption DEF Prologue, File
<1> HIDE DEF f
<1>2. <<f>> \in Files BY <1>1, OneIs
<1>3. \A i \in DOMAIN <<f>> : <<f>>[i] = f OBVIOUS
<1>4. AllShut(<<f>>) BY <1>1, <1>2, <1>3 DEF AllShut
<1> QED BY <1>4 DEF f

\* Prologues are closed when they are written.
LEMMA ProloguesShut ==
  ASSUME NEW fs
  PROVE  AllShut(getLastPrologueFiles(fs)) /\ AllShut(copyLastPrologueFiles(fs))
<1> DEFINE x == <<Prologue("prologue-ds")>>
           y == <<Prologue("prologue-m")>>
           e == <<>>
           p == OpenFiles(fs, "saved") # {} /\ ~Has(fs, "prologue-ds")
           q == Has(fs, "prologue-m")
           r == Has(fs, "prologue-ds")
<1>1. AllShut(x) /\ AllShut(y) BY PrologueShut DEF Kinds
<1>2. AllShut(e) BY EmptyShut
<1>3. /\ getLastPrologueFiles(fs) = (IF p THEN x ELSE e) \o (IF q THEN e ELSE y)
      /\ copyLastPrologueFiles(fs) = (IF r THEN x ELSE e) \o (IF q THEN y ELSE e)
  BY DEF getLastPrologueFiles, copyLastPrologueFiles
<1> HIDE DEF x, y, e, p, q, r
<1> DEFINE a == IF p THEN x ELSE e
           b == IF q THEN e ELSE y
           c == IF r THEN x ELSE e
           d == IF q THEN y ELSE e
<1>4. AllShut(a) /\ AllShut(b) /\ AllShut(c) /\ AllShut(d) BY <1>1, <1>2
<1>5. getLastPrologueFiles(fs) = a \o b /\ copyLastPrologueFiles(fs) = c \o d BY <1>3
<1> HIDE DEF a, b, c, d
<1>6. AllShut(a \o b) /\ AllShut(c \o d) BY <1>4, ShutConcat
<1> QED BY <1>5, <1>6

LEMMA NewIs == /\ NewFile \in File /\ Shut(NewFile) = 0
               /\ <<NewFile>> \in Files /\ closedBlocks(<<NewFile>>) = 0
<1>1. NewFile \in File /\ Shut(NewFile) = 0 BY DEF NewFile, File, Kinds, Shut
<1> QED BY <1>1, OneIs

LEMMA OldIs ==
  ASSUME NEW fs \in Seq([kind : Kinds, size : Nat, open : {FALSE}])
  PROVE  fs \in Files /\ closedBlocks(fs) = FileBlocks(fs)
<1>1. \A i \in 1 .. Len(fs) : fs[i] \in File /\ fs[i].open = FALSE
  <2> DEFINE S == [kind : Kinds, size : Nat, open : {FALSE}]
  <2>0. fs \in Seq(S) OBVIOUS
  <2> HIDE DEF S
  <2>3. \A i \in 1 .. Len(fs) : fs[i] \in S BY <2>0
  <2>1. \A i \in 1 .. Len(fs) : fs[i] \in [kind : Kinds, size : Nat, open : {FALSE}]
    BY <2>3 DEF S
  <2>2. \A f \in [kind : Kinds, size : Nat, open : {FALSE}] : f \in File /\ f.open = FALSE
    BY DEF File
  <2> QED BY <2>1, <2>2
<1>2. fs \in Files
  <2>1. fs \in [1 .. Len(fs) -> File] /\ Len(fs) \in Nat BY <1>1
  <2>2. fs \in Seq(File) BY <2>1, IsASeq
  <2> QED BY <2>2 DEF Files
<1>3. DOMAIN fs = 1 .. Len(fs) BY <1>2, FilesAre
<1>4. AllShut(fs) BY <1>1, <1>2, <1>3 DEF AllShut
<1> QED BY <1>4, ShutIs

\* The days of the containers are finitely many.
LEMMA DaysFinite ==
  ASSUME NEW D, IsFiniteSet(DOMAIN D)
  PROVE  IsFiniteSet({D[c].day : c \in DOMAIN D})
<1> DEFINE f == [c \in DOMAIN D |-> D[c].day]
           T == {D[c].day : c \in DOMAIN D}
<1>1. f \in Surjection(DOMAIN D, T) BY DEF Surjection
<1> HIDE DEF f, T
<1>2. IsFiniteSet(T) BY <1>1, FS_Surjection
<1> QED BY <1>2 DEF T

LEMMA InitInv ==
  ASSUME Init
  PROVE  PoolInv
<1>1. PICK d \in OldDisks :
        LET c == Max(DOMAIN d) + 1
            day == Max({d[x].day : x \in DOMAIN d})
        IN  /\ disk = [x \in DOMAIN d \union {c} |->
                          IF x # c THEN d[x]
                          ELSE [day |-> day, run |-> 0, files |-> <<NewFile>>, marks |-> {}]]
            /\ stack = <<c>>
            /\ io = [pc |-> "scan", left |-> 0, todo |-> DOMAIN d,
                     days |-> <<>>, conts |-> <<>>, last |-> FALSE]
  BY DEF Init
<1> DEFINE c == Max(DOMAIN d) + 1
           day == Max({d[x].day : x \in DOMAIN d})
           new == [day |-> day, run |-> 0, files |-> <<NewFile>>, marks |-> {}]
<1>2. DOMAIN d \subseteq Nat /\ DOMAIN d # {} /\ IsFiniteSet(DOMAIN d) BY PurgeAssumption
<1>3. \A x \in DOMAIN d : d[x] \in OldContainers BY PurgeAssumption
<1>4. \A x \in DOMAIN d : /\ d[x].day \in Nat /\ d[x].run \in Nat
                          /\ d[x].files \in Seq([kind : Kinds, size : Nat, open : {FALSE}])
                          /\ d[x].marks \in SUBSET Marks
  BY <1>3 DEF OldContainers, Marks
<1>5. \A x \in DOMAIN d : /\ d[x].files \in Files
                          /\ closedBlocks(d[x].files) = FileBlocks(d[x].files)
  BY <1>4, OldIs
<1>6. \A x \in DOMAIN d : d[x] \in Container
  <2>1. \A x \in DOMAIN d : d[x] = [day |-> d[x].day, run |-> d[x].run,
                                    files |-> d[x].files, marks |-> d[x].marks]
    BY <1>3 DEF OldContainers
  <2> QED BY <1>4, <1>5, <2>1 DEF Container
<1>7. c \in Nat /\ c \notin DOMAIN d /\ \A x \in DOMAIN d : x <= c
  <2>1. Max(DOMAIN d) \in DOMAIN d /\ \A x \in DOMAIN d : x <= Max(DOMAIN d)
    BY <1>2, MaxIn
  <2> QED BY <1>2, <2>1
<1>8. day \in Nat
  <2> DEFINE T == {d[x].day : x \in DOMAIN d}
  <2>1. T \in SUBSET Nat /\ T # {} /\ IsFiniteSet(T) BY <1>2, <1>4, DaysFinite
  <2> HIDE DEF T
  <2>2. Max(T) \in Nat BY <2>1, MaxIn
  <2> QED BY <2>2 DEF T
<1> HIDE DEF c, day
<1>9. /\ disk = [x \in DOMAIN d \union {c} |-> IF x # c THEN d[x] ELSE new]
      /\ stack = <<c>>
      /\ io = [pc |-> "scan", left |-> 0, todo |-> DOMAIN d,
               days |-> <<>>, conts |-> <<>>, last |-> FALSE]
  BY <1>1 DEF c, day
<1>10. new \in Container /\ new.files = <<NewFile>> BY <1>8, NewIs DEF Container
<1> HIDE DEF new
<1>11. DOMAIN disk = DOMAIN d \union {c} /\ disk[c] = new /\ \A x \in DOMAIN d : disk[x] = d[x]
  BY <1>7, <1>9
<1>12. IsDisk(disk)
  <2>1. IsFiniteSet(DOMAIN disk) BY <1>2, <1>11, FS_AddElement
  <2> QED BY <1>2, <1>6, <1>7, <1>10, <1>11, <2>1 DEF IsDisk
<1>13. /\ used = 0 /\ maxBlocks = Max(Limits) /\ ioActive = TRUE
       /\ startFd = 0 /\ completeFd = 0 /\ scanned = 0 /\ purged = 0
       /\ cache = <<>> /\ main = "up" /\ exact = TRUE /\ missed = 0
  BY DEF Init
<1>14. Typed
  <2>1. maxBlocks \in Int
    <3>1. Limits \in SUBSET Nat /\ Limits # {} /\ IsFiniteSet(Limits) BY PurgeAssumption
    <3>2. Max(Limits) \in Limits BY <3>1, MaxIn
    <3>4. \A x \in Limits : x \in Int BY PurgeAssumption
    <3>3. Max(Limits) \in Int BY <3>2, <3>4, Zenon
    <3> QED BY <1>13, <3>3, Zenon
  <2>2. stack \in Seq(Nat) BY <1>7, <1>9
  <2>3. DOMAIN cache = {} BY <1>13
  <2>4. IsCache(cache) BY <2>3, FS_EmptySet DEF IsCache
  <2>5. io \in IoStates BY <1>2, <1>9 DEF IoStates, Steps
  <2> QED BY <1>12, <1>13, <2>1, <2>2, <2>4, <2>5 DEF Typed
<1>15. Len(stack) = 1 /\ stack[1] = c /\ io.todo = DOMAIN d /\ io.pc = "scan"
       /\ Len(io.conts) = 0 /\ Len(io.days) = 0
  BY <1>9
<1>16. StackOK(stack, io.todo) BY <1>7, <1>15 DEF StackOK
<1>17. Newest(disk, stack, main, io)
  <2>1. stack # <<>> BY <1>9
  <2>2. \A x \in DOMAIN disk : x <= c BY <1>7, <1>11
  <2> QED BY <1>7, <1>15, <2>1, <2>2 DEF Newest
<1>18. ListsOK(disk, cache, io) BY <1>15 DEF ListsOK
<1>19. CacheOK(disk, cache) BY <1>13 DEF CacheOK
<1>20. OneCommand /\ EndsDown
  BY <1>13, <1>15 DEF OneCommand, EndsDown, Up, IOCMD_SHUTDOWN, At, IOCMD_PURGE_MAX
<1>21. BlocksAccounted
  <2>1. SumShut(disk) = closedBlocks(disk[c].files) + SumShut(d)
    BY <1>7, <1>11, <1>12, ComesIn
  <2>2. closedBlocks(disk[c].files) = 0 BY <1>10, <1>11, NewIs
  <2>3. SumShut(d) = SumAll(disk, DOMAIN d)
    <3>1. DOMAIN d \intersect DOMAIN disk = DOMAIN d BY <1>11
    <3>2. \A x \in DOMAIN d : ShutIn(d)[x] = AllIn(disk, DOMAIN d)[x]
      BY <1>5, <1>11 DEF ShutIn, AllIn
    <3>3. SumOn(ShutIn(d), DOMAIN d) = SumOn(AllIn(disk, DOMAIN d), DOMAIN d)
      BY <1>2, <3>2, SumSame
    <3> QED BY <3>1, <3>3 DEF SumShut, SumAll
  <2>4. SumAll(disk, DOMAIN d) \in Int BY <1>12, PoolInts
  <2>5. ClosedBlocks = SumShut(disk) /\ NotScanned = SumAll(disk, DOMAIN d)
    BY <1>15, PoolSums DEF At
  <2> QED BY <1>13, <2>1, <2>2, <2>3, <2>4, <2>5 DEF BlocksAccounted
<1> QED BY <1>14, <1>16, <1>17, <1>18, <1>19, <1>20, <1>21 DEF PoolInv

-----------------------------------------------------------------------------
(* The protocol of the two threads.                                         *)

Prot(pc, st, co, act, m) ==
  /\ st \in (0 .. 100) \union {1001}
  /\ co \in {0, 1002, 1003}
  /\ st # 0 => (pc = "idle" /\ co = 0)
  /\ co # 0 => (pc \in {"idle", "ended"} /\ st = 0)
  /\ (m = "up" /\ ~act) => (pc = "idle" /\ st = 0 /\ co = 0)
  /\ (pc = "ended" \/ st = 1001) => m # "up"

LEMMA ProtIs == OneCommand /\ EndsDown <=> Prot(io.pc, startFd, completeFd, ioActive, main)
BY DEF OneCommand, EndsDown, Prot, Up, At, IOCMD_PURGE_MAX, IOCMD_SHUTDOWN, IOCMD_DONE,
       IOCMD_INITIAL

LEMMA ProtNext ==
  (OneCommand /\ EndsDown)' <=> Prot(io'.pc, startFd', completeFd', ioActive', main')
BY DEF OneCommand, EndsDown, Prot, Up, At, IOCMD_PURGE_MAX, IOCMD_SHUTDOWN, IOCMD_DONE,
       IOCMD_INITIAL

LEMMA GoalIs == \A g \in Int : g > 0 => Min({g, 100}) \in 1 .. 100
<1> SUFFICES ASSUME NEW g \in Int, g > 0 PROVE Min({g, 100}) \in 1 .. 100 OBVIOUS
<1> DEFINE T == {g, 100}
<1>1. T \in SUBSET Nat /\ T # {} /\ 100 \in T /\ \A x \in T : x \in Nat /\ x > 0 OBVIOUS
<1> HIDE DEF T
<1>2. Min(T) \in T /\ Min(T) <= 100 BY <1>1, MinIn
<1>3. Min(T) \in Nat /\ Min(T) > 0 BY <1>1, <1>2
<1>4. Min(T) \in 1 .. 100 BY <1>2, <1>3
<1> QED BY <1>4 DEF T

LEMMA TakenInt == \A n \in Int, fs \in Files : Taken(n, fs) \in Int
<1> SUFFICES ASSUME NEW n \in Int, NEW fs \in Files PROVE Taken(n, fs) \in Int OBVIOUS
<1>1. Modulus \in Int /\ Modulus > 0 BY PurgeAssumption
<1>2. Blocks(openSize(fs)) \in Int BY OpenSizeInt, BlocksInt
<1>3. \A a \in Int : a % Modulus \in Int BY <1>1
<1> DEFINE a == n + Blocks(openSize(fs))
<1>4. a \in Int BY <1>2
<1>5. Taken(n, fs) = a % Modulus BY DEF Taken
<1> HIDE DEF a
<1> QED BY <1>3, <1>4, <1>5

\* The main thread asks for a purge only when the other thread is idle.
LEMMA AskIs ==
  ASSUME Typed, Prot(io.pc, startFd, completeFd, ioActive, main), Up, NEW files \in Files,
         NEW count \in Int, CheckSpace(count, files)
  PROVE  Prot(io.pc, startFd', completeFd, ioActive', main) /\ ioActive' \in BOOLEAN
<1> DEFINE all == Taken(count, files)
           goal == all - maxBlocks
<1>1. all \in Int BY TakenInt
<1>2. maxBlocks \in Int /\ ioActive \in BOOLEAN BY DEF Typed
<1>3. IF all > maxBlocks THEN requestPurge(goal) ELSE UNCHANGED <<ioActive, startFd>>
  BY DEF CheckSpace
<1>4. CASE UNCHANGED <<ioActive, startFd>>
  <2>1. ioActive' = ioActive /\ startFd' = startFd BY <1>4
  <2> QED BY <1>2, <2>1
<1>5. CASE ~(UNCHANGED <<ioActive, startFd>>)
  <2>1. all > maxBlocks /\ requestPurge(goal) BY <1>3, <1>5
  <2>2. ~ioActive /\ ioActive' = TRUE /\ startFd' = startFd + Min({goal, 100})
    BY <1>5, <2>1 DEF requestPurge, IOCMD_PURGE_MAX
  <2>3. goal \in Int /\ goal > 0 BY <1>1, <1>2, <2>1
  <2> DEFINE n == Min({goal, 100})
  <2>4. n \in 1 .. 100 BY <2>3, GoalIs
  <2>5. io.pc = "idle" /\ startFd = 0 /\ completeFd = 0 BY <2>2 DEF Prot, Up
  <2>6. startFd' = startFd + n BY <2>2
  <2> HIDE DEF n, all
  <2>7. startFd' \in 1 .. 100 BY <2>4, <2>5, <2>6
  <2> QED BY <2>2, <2>5, <2>7 DEF Prot
<1> QED BY <1>4, <1>5

-----------------------------------------------------------------------------
(* The steps.                                                               *)

Found(D, o) == IF o.pc = "scan" THEN SumAll(D, o.todo) ELSE 0
Account(D, o, u, s, p, m) == u + s + Found(D, o) - p = SumShut(D) - m

LEMMA PoolSumsOf ==
  \A D, o :
    /\ SumFunction([c \in DOMAIN D |-> closedBlocks(D[c].files)]) = SumShut(D)
    /\ (IF o.pc = "scan"
        THEN SumFunction([c \in o.todo \intersect DOMAIN D |-> FileBlocks(D[c].files)])
        ELSE 0) = Found(D, o)
<1> SUFFICES ASSUME NEW D, NEW o
    PROVE /\ SumFunction([c \in DOMAIN D |-> closedBlocks(D[c].files)]) = SumShut(D)
          /\ (IF o.pc = "scan"
              THEN SumFunction([c \in o.todo \intersect DOMAIN D |-> FileBlocks(D[c].files)])
              ELSE 0) = Found(D, o)
  OBVIOUS
<1>1. DOMAIN ShutIn(D) = DOMAIN D BY DEF ShutIn
<1>2. SumFunction(ShutIn(D)) = SumShut(D) BY <1>1, SumOf DEF SumShut
<1>3. DOMAIN AllIn(D, o.todo) = o.todo \intersect DOMAIN D BY DEF AllIn
<1>4. SumFunction(AllIn(D, o.todo)) = SumAll(D, o.todo) BY <1>3, SumOf DEF SumAll
<1>5. (IF o.pc = "scan" THEN SumFunction(AllIn(D, o.todo)) ELSE 0) = Found(D, o)
  BY <1>4 DEF Found
<1> QED BY <1>2, <1>5 DEF ShutIn, AllIn

LEMMA AccountIs == BlocksAccounted <=> (exact => Account(disk, io, used, scanned, purged, missed))
<1>1. ClosedBlocks = SumShut(disk) /\ NotScanned = Found(disk, io)
  BY PoolSumsOf DEF ClosedBlocks, NotScanned, At
<1> QED BY <1>1 DEF BlocksAccounted, Account

LEMMA AccountNext ==
  BlocksAccounted' <=> (exact' => Account(disk', io', used', scanned', purged', missed'))
<1>1. ClosedBlocks' = SumShut(disk') /\ NotScanned' = Found(disk', io')
  BY PoolSumsOf DEF ClosedBlocks, NotScanned, At
<1> QED BY <1>1 DEF BlocksAccounted, Account

LEMMA Parts ==
  ASSUME PoolInv
  PROVE  /\ Typed /\ StackOK(stack, io.todo) /\ Newest(disk, stack, main, io)
         /\ ListsOK(disk, cache, io) /\ (exact => CacheOK(disk, cache))
         /\ Prot(io.pc, startFd, completeFd, ioActive, main)
         /\ (exact => Account(disk, io, used, scanned, purged, missed))
         /\ IsDisk(disk) /\ stack \in Seq(Nat) /\ Len(stack) \in Nat
BY AccountIs, ProtIs DEF PoolInv, Typed

LEMMA Gather ==
  ASSUME /\ IsDisk(disk') /\ stack' \in Seq(Nat) /\ IsCache(cache') /\ io' \in IoStates
         /\ used' \in Int /\ maxBlocks' \in Int /\ scanned' \in Int /\ purged' \in Int
         /\ missed' \in Int /\ ioActive' \in BOOLEAN /\ exact' \in BOOLEAN,
         StackOK(stack', io'.todo), Newest(disk', stack', main', io'),
         ListsOK(disk', cache', io'), exact' => CacheOK(disk', cache'),
         Prot(io'.pc, startFd', completeFd', ioActive', main'),
         exact' => Account(disk', io', used', scanned', purged', missed')
  PROVE  PoolInv'
<1>1. Typed' BY DEF Typed
<1>2. BlocksAccounted' BY AccountNext
<1>3. (OneCommand /\ EndsDown)' BY ProtNext
<1> QED BY <1>1, <1>2, <1>3 DEF PoolInv

LEMMA FoundInt == \A D, o : IsDisk(D) => Found(D, o) \in Int
BY PoolInts DEF Found

\* A step of the main thread that leaves the containers where they are.
Kept(D, E) == /\ IsDisk(E) /\ DOMAIN E = DOMAIN D
              /\ \A x \in DOMAIN D : E[x].day = D[x].day

LEMMA KeptIs ==
  ASSUME NEW D, NEW E, NEW C, NEW o, Kept(D, E)
  PROVE  /\ ListsOK(D, C, o) => ListsOK(E, C, o)
         /\ CacheOK(D, C) => CacheOK(E, C)
         /\ \A s, m : Newest(D, s, m, o) => Newest(E, s, m, o)
<1>1. DOMAIN E = DOMAIN D /\ \A x \in DOMAIN D : E[x].day = D[x].day BY DEF Kept
<1>2. ASSUME ListsOK(D, C, o) PROVE ListsOK(E, C, o) BY <1>1, <1>2 DEF ListsOK
<1>3. ASSUME CacheOK(D, C) PROVE CacheOK(E, C) BY <1>1, <1>3 DEF CacheOK
<1>4. ASSUME NEW s, NEW m, Newest(D, s, m, o) PROVE Newest(E, s, m, o)
  BY <1>1, <1>4 DEF Newest
<1> QED BY <1>2, <1>3, <1>4

\* The count and the closed files grow alike.
LEMMA Alike ==
  ASSUME NEW u \in Int, NEW v \in Int, NEW t \in Int, NEW S \in Int, NEW T \in Int,
         NEW m \in Int, u + t = S - m, v - u = T - S
  PROVE  v + t = T - m
OBVIOUS

LEMMA Counted ==
  ASSUME NEW u \in Int, NEW v \in Int, NEW s \in Int, NEW F \in Int, NEW p \in Int,
         NEW S \in Int, NEW T \in Int, NEW m \in Int,
         u + s + F - p = S - m, v - u = T - S
  PROVE  v + s + F - p = T - m
<1> DEFINE t == s + F - p
<1>1. t \in Int OBVIOUS
<1>2. u + t = S - m /\ v + s + F - p = v + t OBVIOUS
<1> HIDE DEF t
<1>3. v + t = T - m BY <1>1, <1>2, Alike
<1> QED BY <1>2, <1>3

LEMMA Scanned ==
  ASSUME NEW u \in Int, NEW s \in Int, NEW t \in Int, NEW A \in Int, NEW B \in Int,
         NEW p \in Int, NEW S \in Int, NEW m \in Int, NEW n \in Int,
         u + s + B - p = S - m, t + A + n = s + B + m
  PROVE  u + t + A - p = S - n
OBVIOUS

LEMMA KeptStep ==
  ASSUME PoolInv, Kept(disk, disk'), io' = io, cache' = cache, exact' = exact, missed' = missed,
         scanned' = scanned, purged' = purged, stack' = stack, main' = main,
         used' \in Int, maxBlocks' \in Int, ioActive' \in BOOLEAN,
         Prot(io.pc, startFd', completeFd', ioActive', main),
         exact => Account(disk', io, used', scanned, purged, missed)
  PROVE  PoolInv'
<1>1. /\ Typed /\ Newest(disk, stack, main, io) /\ ListsOK(disk, cache, io)
      /\ (exact => CacheOK(disk, cache)) /\ StackOK(stack, io.todo)
  BY Parts
<1>2. /\ Newest(disk', stack, main, io) /\ ListsOK(disk', cache, io)
      /\ (exact => CacheOK(disk', cache))
  BY <1>1, KeptIs
<1>3. IsDisk(disk') BY DEF Kept
<1>4. /\ stack' \in Seq(Nat) /\ IsCache(cache') /\ io' \in IoStates
      /\ scanned' \in Int /\ purged' \in Int /\ missed' \in Int /\ exact' \in BOOLEAN
  BY <1>1 DEF Typed
<1>5. /\ StackOK(stack', io'.todo) /\ Newest(disk', stack', main', io')
      /\ ListsOK(disk', cache', io') /\ (exact' => CacheOK(disk', cache'))
      /\ Prot(io'.pc, startFd', completeFd', ioActive', main')
      /\ (exact' => Account(disk', io', used', scanned', purged', missed'))
  BY <1>1, <1>2
<1> QED BY <1>3, <1>4, <1>5, Gather

\* The files of one container are replaced.
Replaced(D, E, c, fs) ==
  /\ Kept(D, E) /\ c \in DOMAIN D /\ E[c].files = fs
  /\ \A x \in DOMAIN D : x # c => E[x] = D[x]

LEMMA FilesPut ==
  ASSUME NEW D, IsDisk(D), NEW c \in DOMAIN D, NEW fs \in Files
  PROVE  Replaced(D, [D EXCEPT ![c].files = fs], c, fs)
<1> DEFINE E == [D EXCEPT ![c].files = fs]
           k == [D[c] EXCEPT !.files = fs]
<1>1. DOMAIN E = DOMAIN D /\ E[c] = k /\ \A x \in DOMAIN D : x # c => E[x] = D[x]
  OBVIOUS
<1>2. D[c] \in Container BY DEF IsDisk
<1>3. k \in Container /\ k.files = fs /\ k.day = D[c].day BY <1>2 DEF Container
<1> HIDE DEF E, k
<1>4. \A x \in DOMAIN D : E[x] \in Container /\ E[x].day = D[x].day
  BY <1>1, <1>3 DEF IsDisk
<1>5. IsDisk(E) BY <1>1, <1>4 DEF IsDisk
<1> QED BY <1>1, <1>3, <1>4, <1>5 DEF Replaced, Kept, E

LEMMA ReplacedSums ==
  ASSUME NEW D, NEW E, NEW c, NEW fs \in Files, NEW o, IsDisk(D), Replaced(D, E, c, fs)
  PROVE  /\ SumShut(E) = SumShut(D) + closedBlocks(fs) - closedBlocks(D[c].files)
         /\ (o.pc = "scan" => c \notin o.todo) => Found(E, o) = Found(D, o)
         /\ SumShut(E) \in Int /\ SumShut(D) \in Int /\ Found(D, o) \in Int
         /\ closedBlocks(fs) \in Int /\ closedBlocks(D[c].files) \in Int
<1>1. /\ IsDisk(E) /\ DOMAIN E = DOMAIN D /\ c \in DOMAIN D /\ E[c].files = fs
      /\ \A x \in DOMAIN D : x # c => E[x] = D[x]
  BY DEF Replaced, Kept
<1>2. \A x \in DOMAIN D \ {c} : closedBlocks(E[x].files) = closedBlocks(D[x].files)
  BY <1>1
<1>3. SumShut(E) - closedBlocks(E[c].files) = SumShut(D) - closedBlocks(D[c].files)
  BY <1>1, <1>2, ChangesIn
<1>4. SumShut(E) \in Int /\ SumShut(D) \in Int BY <1>1, PoolInts
<1>5. closedBlocks(fs) \in Int BY FileSums
<1>6. closedBlocks(D[c].files) \in Int BY <1>1, InPool
<1>7. ASSUME o.pc = "scan" => c \notin o.todo PROVE Found(E, o) = Found(D, o)
  <2>1. CASE o.pc = "scan"
    <3>1. \A x \in o.todo \intersect DOMAIN D : E[x].files = D[x].files
      BY <1>1, <1>7, <2>1
    <3>2. SumAll(E, o.todo) = SumAll(D, o.todo) BY <1>1, <3>1, SameAll
    <3> QED BY <2>1, <3>2 DEF Found
  <2>2. CASE o.pc # "scan" BY <2>2 DEF Found
  <2> QED BY <2>1, <2>2
<1>8. Found(D, o) \in Int BY FoundInt
<1>9. SumShut(E) = SumShut(D) + closedBlocks(fs) - closedBlocks(D[c].files)
  BY <1>1, <1>3, <1>4, <1>5, <1>6
<1> QED BY <1>4, <1>5, <1>6, <1>7, <1>8, <1>9

LEMMA InStack ==
  ASSUME PoolInv, NEW c \in Range(stack)
  PROVE  c \notin io.todo
<1>1. stack \in Seq(Nat) /\ StackOK(stack, io.todo) BY Parts
<1>2. PICK i \in 1 .. Len(stack) : stack[i] = c BY <1>1 DEF Range
<1> QED BY <1>1, <1>2 DEF StackOK

\* What a write of the main thread leaves alone.
Beside ==
  /\ stack' = stack /\ maxBlocks' = maxBlocks /\ main' = main /\ io' = io /\ cache' = cache
  /\ completeFd' = completeFd /\ scanned' = scanned /\ purged' = purged
  /\ exact' = exact /\ missed' = missed

\* The main thread writes files of a container, and counts what it closes.
LEMMA WriteStep ==
  ASSUME PoolInv, NEW c \in Range(stack), c \in DOMAIN disk, NEW fs \in Files,
         disk' = WithFiles(c, fs), Beside, used' \in Int,
         used' - used = closedBlocks(fs) - closedBlocks(disk[c].files),
         Prot(io.pc, startFd', completeFd, ioActive', main), ioActive' \in BOOLEAN
  PROVE  PoolInv'
<1>0. Typed /\ IsDisk(disk)
      /\ (exact => Account(disk, io, used, scanned, purged, missed))
  BY Parts
<1>1. Replaced(disk, disk', c, fs) BY <1>0, FilesPut DEF WithFiles
<1>2. Kept(disk, disk') BY <1>1 DEF Replaced
<1>3. c \notin io.todo BY InStack
<1>4. /\ SumShut(disk') = SumShut(disk) + closedBlocks(fs) - closedBlocks(disk[c].files)
      /\ Found(disk', io) = Found(disk, io) /\ SumShut(disk) \in Int
      /\ Found(disk, io) \in Int /\ closedBlocks(fs) \in Int
      /\ closedBlocks(disk[c].files) \in Int
  BY <1>0, <1>1, <1>3, ReplacedSums
<1>5. used \in Int /\ scanned \in Int /\ purged \in Int /\ missed \in Int BY <1>0 DEF Typed
<1>6. exact => Account(disk', io, used', scanned, purged, missed)
  <2> SUFFICES ASSUME exact
               PROVE  used' + scanned + Found(disk', io) - purged = SumShut(disk') - missed
    BY DEF Account
  <2>1. used + scanned + Found(disk, io) - purged = SumShut(disk) - missed
    BY <1>0 DEF Account
  <2>2. SumShut(disk') \in Int /\ used' - used = SumShut(disk') - SumShut(disk) BY <1>4
  <2>3. used' + scanned + Found(disk, io) - purged = SumShut(disk') - missed
    BY <1>4, <1>5, <2>1, <2>2, Counted
  <2> QED BY <1>4, <2>3
<1>7. maxBlocks' \in Int BY <1>0 DEF Typed, Beside
<1> QED BY <1>2, <1>6, <1>7, KeptStep DEF Beside

LEMMA OpenIs ==
  ASSUME NEW fs \in Files, NEW k, NEW i \in OpenFiles(fs, k)
  PROVE  /\ i \in DOMAIN fs /\ i \in 1 .. Len(fs) /\ i + 1 \in 1 .. Len(fs) + 1
         /\ fs[i] \in File /\ fs[i].size \in Nat /\ fs[i].open
         /\ Blocks(fs[i].size) \in Int
         /\ Shut(fs[i]) = 0 /\ Shut([fs[i] EXCEPT !.open = FALSE]) = Blocks(fs[i].size)
         /\ [fs[i] EXCEPT !.open = FALSE] \in File
<1>1. i \in DOMAIN fs /\ fs[i].open BY DEF OpenFiles, OfKind
<1>2. /\ Len(fs) \in Nat /\ DOMAIN fs = 1 .. Len(fs) /\ fs[i] \in File /\ fs[i].size \in Nat
      /\ Blocks(fs[i].size) \in Int
  BY <1>1, FilesAre
<1>3. i \in 1 .. Len(fs) /\ i + 1 \in 1 .. Len(fs) + 1 BY <1>1, <1>2
<1> DEFINE f == [fs[i] EXCEPT !.open = FALSE]
<1>4. f \in File /\ f.open = FALSE /\ f.size = fs[i].size BY <1>2 DEF File
<1> HIDE DEF f
<1>5. Shut(f) = Blocks(fs[i].size) /\ Shut(fs[i]) = 0 BY <1>1, <1>4 DEF Shut
<1> QED BY <1>1, <1>2, <1>3, <1>4, <1>5 DEF f

\* An open file is written on.
LEMMA GrownIs ==
  ASSUME NEW fs \in Files, NEW k, NEW i \in OpenFiles(fs, k), NEW n \in Nat
  PROVE  LET gs == [fs EXCEPT ![i].size = @ + n]
         IN  gs \in Files /\ closedBlocks(gs) = closedBlocks(fs)
<1> DEFINE f == [fs[i] EXCEPT !.size = @ + n]
           gs == [fs EXCEPT ![i].size = @ + n]
<1>1. i \in DOMAIN fs /\ fs[i] \in File /\ fs[i].open /\ Shut(fs[i]) = 0 BY OpenIs
<1>2. f \in File /\ f.open = fs[i].open
  <2> DEFINE g == fs[i]
             z == g.size + n
  <2>1. g \in File BY <1>1
  <2>2. z \in Nat BY <2>1 DEF File
  <2>3. f = [g EXCEPT !.size = z] OBVIOUS
  <2> HIDE DEF z, f, g
  <2>4. f \in File /\ f.open = g.open BY <2>1, <2>2, <2>3 DEF File
  <2> QED BY <2>4 DEF g
<1>3. gs = [fs EXCEPT ![i] = f] OBVIOUS
<1> HIDE DEF f, gs
<1>4. Shut(f) = 0 BY <1>1, <1>2 DEF Shut
<1>5. gs \in Files /\ closedBlocks(gs) = closedBlocks(fs) + Shut(f) - Shut(fs[i])
  BY <1>1, <1>2, <1>3, PutIs
<1>6. closedBlocks(fs) \in Int BY FileSums
<1>7. closedBlocks(gs) = closedBlocks(fs) BY <1>1, <1>4, <1>5, <1>6
<1> QED BY <1>5, <1>7 DEF gs

\* An open file is closed, and the next one opened.
LEMMA RolledIs ==
  ASSUME NEW fs \in Files, NEW k, NEW i \in OpenFiles(fs, k), NEW f \in File, Shut(f) = 0
  PROVE  LET gs == InsertAt([fs EXCEPT ![i].open = FALSE], i + 1, f)
         IN  gs \in Files /\ closedBlocks(gs) = closedBlocks(fs) + Blocks(fs[i].size)
<1> DEFINE h == [fs[i] EXCEPT !.open = FALSE]
           hs == [fs EXCEPT ![i].open = FALSE]
           j == i + 1
           gs == InsertAt(hs, j, f)
<1>1. /\ i \in DOMAIN fs /\ j \in 1 .. Len(fs) + 1 /\ h \in File
      /\ Shut(fs[i]) = 0 /\ Shut(h) = Blocks(fs[i].size) /\ Blocks(fs[i].size) \in Int
  BY OpenIs
<1>2. hs = [fs EXCEPT ![i] = h] OBVIOUS
<1> HIDE DEF h, hs, j
<1>3. /\ hs \in Files /\ Len(hs) = Len(fs)
      /\ closedBlocks(hs) = closedBlocks(fs) + Shut(h) - Shut(fs[i])
  BY <1>1, <1>2, PutIs
<1>4. gs \in Files /\ closedBlocks(gs) = closedBlocks(hs) + Shut(f)
  BY <1>1, <1>3, InsertIs
<1> HIDE DEF gs
<1>5. closedBlocks(fs) \in Int BY FileSums
<1>6. closedBlocks(gs) = closedBlocks(fs) + Blocks(fs[i].size) BY <1>1, <1>3, <1>4, <1>5
<1> QED BY <1>4, <1>6 DEF gs, hs, j

LEMMA AddPacketStep ==
  ASSUME PoolInv, NEW c \in Range(stack), NEW n \in {0, 1}, AddPacket(c, n)
  PROVE  PoolInv'
<1>0. Up /\ Typed /\ IsDisk(disk) /\ used \in Int /\ n \in Nat
      /\ Prot(io.pc, startFd, completeFd, ioActive, main)
      /\ (exact => Account(disk, io, used, scanned, purged, missed))
  BY Parts DEF AddPacket, Typed
<1>1. Beside /\ used' = used
  BY DEF AddPacket, mainVars, ioVars, Beside
<1>2. \A fs \in Files : CheckSpace(used, fs) =>
        Prot(io.pc, startFd', completeFd, ioActive', main) /\ ioActive' \in BOOLEAN
  BY <1>0, AskIs
<1>3. ASSUME NEW i \in OpenFiles(FilesOf(c), "run"),
             disk' = WithFiles(c, [FilesOf(c) EXCEPT ![i].size = @ + n]),
             CheckSpace(used, disk'[c].files)
      PROVE  PoolInv'
  <2>1. c \in DOMAIN disk /\ FilesOf(c) = disk[c].files
    BY <1>3 DEF FilesOf, OpenFiles, OfKind
  <2> DEFINE fs == disk[c].files
             gs == [fs EXCEPT ![i].size = @ + n]
  <2>2. fs \in Files /\ closedBlocks(fs) \in Int BY <1>0, <2>1, InPool
  <2>3. disk' = WithFiles(c, gs) /\ i \in OpenFiles(fs, "run") BY <1>3, <2>1
  <2> HIDE DEF fs
  <2>4. gs \in Files /\ closedBlocks(gs) = closedBlocks(fs)
    BY <1>0, <2>2, <2>3, GrownIs
  <2> HIDE DEF gs
  <2>5. disk'[c].files = gs
    <3>1. Replaced(disk, disk', c, gs) BY <1>0, <2>1, <2>3, <2>4, FilesPut DEF WithFiles
    <3> QED BY <3>1 DEF Replaced
  <2>6. Prot(io.pc, startFd', completeFd, ioActive', main) /\ ioActive' \in BOOLEAN
    BY <1>2, <1>3, <2>4, <2>5
  <2>7. used' \in Int /\ used' - used = closedBlocks(gs) - closedBlocks(disk[c].files)
    BY <1>0, <1>1, <2>2, <2>4 DEF fs
  <2> QED BY <1>1, <2>1, <2>3, <2>4, <2>6, <2>7, WriteStep
<1>4. ASSUME OpenFiles(FilesOf(c), "run") = {}, CheckSpace(used, FilesOf(c)), disk' = disk
      PROVE  PoolInv'
  <2>1. FilesOf(c) \in Files
    <3>1. CASE c \in DOMAIN disk BY <1>0, <3>1, InPool DEF FilesOf
    <3>2. CASE c \notin DOMAIN disk
      <4>1. FilesOf(c) = <<>> BY <3>2 DEF FilesOf
      <4> QED BY <4>1, EmptyShut DEF AllShut
    <3> QED BY <3>1, <3>2
  <2>2. Prot(io.pc, startFd', completeFd, ioActive', main) /\ ioActive' \in BOOLEAN
    BY <1>2, <1>4, <2>1
  <2>3. Kept(disk, disk') BY <1>0, <1>4 DEF Kept
  <2>4. /\ used' \in Int /\ maxBlocks' \in Int
        /\ exact => Account(disk', io, used', scanned, purged, missed)
    BY <1>0, <1>1, <1>4 DEF Beside, Typed
  <2> QED BY <1>1, <2>2, <2>3, <2>4, KeptStep DEF Beside
<1> QED BY <1>3, <1>4 DEF AddPacket

LEMMA KindCount ==
  ASSUME NEW fs \in Files, NEW k
  PROVE  Cardinality(OfKind(fs, k)) + 1 \in 1 .. Len(fs) + 1
<1> DEFINE S == OfKind(fs, k)
           n == Len(fs)
           D == DOMAIN fs
<1>1. n \in Nat /\ IsFiniteSet(D) /\ Cardinality(D) = n
  <2>1. n \in Nat /\ D = 1 .. n BY FilesAre
  <2> HIDE DEF n
  <2> QED BY <2>1, FS_Interval
<1>2. S \in SUBSET D BY DEF OfKind
<1> HIDE DEF S, n, D
<1>3. IsFiniteSet(S) /\ Cardinality(S) <= n BY <1>1, <1>2, FS_Subset
<1>4. Cardinality(S) \in Nat BY <1>3, FS_CardinalityType
<1>5. Cardinality(S) + 1 \in 1 .. n + 1 BY <1>1, <1>3, <1>4
<1> QED BY <1>5 DEF S, n

LEMMA SavePacketStep ==
  ASSUME PoolInv, NEW c \in Range(stack), NEW n \in {0, 1}, savePacket(c, n)
  PROVE  PoolInv'
<1>0. Up /\ Typed /\ IsDisk(disk) /\ used \in Int /\ n \in Nat /\ c \in DOMAIN disk
      /\ Prot(io.pc, startFd, completeFd, ioActive, main)
  BY Parts DEF savePacket, Typed
<1>1. Beside
  BY DEF savePacket, ioVars, Beside
<1> DEFINE fs == disk[c].files
           opened == [kind |-> "saved", size |-> n, open |-> TRUE]
<1>2. fs \in Files /\ closedBlocks(fs) \in Int BY <1>0, InPool
<1>3. opened \in File /\ Shut(opened) = 0 BY <1>0 DEF File, Kinds, Shut
<1>4. ASSUME NEW gs \in Files, disk' = WithFiles(c, gs), CheckSpace(used', gs),
             used' \in Int, used' - used = closedBlocks(gs) - closedBlocks(fs)
      PROVE  PoolInv'
  <2>2. Prot(io.pc, startFd', completeFd, ioActive', main) /\ ioActive' \in BOOLEAN
    BY <1>0, <1>4, AskIs
  <2> QED BY <1>0, <1>1, <1>4, <2>2, WriteStep
<1> DEFINE j == Cardinality(OfKind(fs, "saved")) + 1
           a == InsertAt(fs, j, opened)
<1>5. CASE used' = used /\ disk' = WithFiles(c, a) /\ CheckSpace(used', a)
  <2>1. j \in 1 .. Len(fs) + 1 BY <1>2, KindCount
  <2> HIDE DEF j, opened, fs
  <2>2. a \in Files /\ closedBlocks(a) = closedBlocks(fs) + Shut(opened)
    BY <1>2, <1>3, <2>1, InsertIs
  <2> HIDE DEF a
  <2>3. used' \in Int /\ used' - used = closedBlocks(a) - closedBlocks(fs)
    BY <1>0, <1>2, <1>3, <1>5, <2>2
  <2> QED BY <1>4, <1>5, <2>2, <2>3
<1>6. ASSUME NEW i \in OpenFiles(fs, "saved"), used' = used,
             disk' = WithFiles(c, [fs EXCEPT ![i].size = @ + n]),
             CheckSpace(used', [fs EXCEPT ![i].size = @ + n])
      PROVE  PoolInv'
  <2> HIDE DEF fs
  <2> DEFINE gs == [fs EXCEPT ![i].size = @ + n]
  <2>1. gs \in Files /\ closedBlocks(gs) = closedBlocks(fs) BY <1>0, <1>2, GrownIs
  <2>2. disk' = WithFiles(c, gs) /\ CheckSpace(used', gs) BY <1>6
  <2> HIDE DEF gs
  <2>3. used' \in Int /\ used' - used = closedBlocks(gs) - closedBlocks(fs)
    BY <1>0, <1>2, <1>6, <2>1
  <2> QED BY <1>4, <1>6, <2>1, <2>2, <2>3
<1>7. ASSUME NEW i \in OpenFiles(fs, "saved"), used' = used + Blocks(fs[i].size),
             disk' = WithFiles(c, InsertAt([fs EXCEPT ![i].open = FALSE], i + 1, opened)),
             CheckSpace(used', InsertAt([fs EXCEPT ![i].open = FALSE], i + 1, opened))
      PROVE  PoolInv'
  <2> HIDE DEF fs, opened
  <2> DEFINE gs == InsertAt([fs EXCEPT ![i].open = FALSE], i + 1, opened)
  <2>1. gs \in Files /\ closedBlocks(gs) = closedBlocks(fs) + Blocks(fs[i].size)
    BY <1>2, <1>3, RolledIs
  <2>2. disk' = WithFiles(c, gs) /\ CheckSpace(used', gs) BY <1>7
  <2> HIDE DEF gs
  <2>3. Blocks(fs[i].size) \in Int BY <1>2, OpenIs
  <2>4. used' \in Int /\ used' - used = closedBlocks(gs) - closedBlocks(fs)
    BY <1>0, <1>2, <1>7, <2>1, <2>3
  <2> QED BY <1>4, <1>7, <2>1, <2>2, <2>4
<1>8. \/ used' = used /\ disk' = WithFiles(c, a) /\ CheckSpace(used', a)
      \/ \E i \in OpenFiles(fs, "saved") :
            /\ used' = used /\ disk' = WithFiles(c, [fs EXCEPT ![i].size = @ + n])
            /\ CheckSpace(used', [fs EXCEPT ![i].size = @ + n])
      \/ \E i \in OpenFiles(fs, "saved") :
            /\ used' = used + Blocks(fs[i].size)
            /\ disk' = WithFiles(c, InsertAt([fs EXCEPT ![i].open = FALSE], i + 1, opened))
            /\ CheckSpace(used', InsertAt([fs EXCEPT ![i].open = FALSE], i + 1, opened))
  BY DEF savePacket
<1> QED BY <1>5, <1>6, <1>7, <1>8

LEMMA RollFileStep ==
  ASSUME PoolInv, NEW c \in Range(stack), RollFile(c)
  PROVE  PoolInv'
<1>0. Typed /\ IsDisk(disk) /\ used \in Int
      /\ Prot(io.pc, startFd, completeFd, ioActive, main) /\ ioActive \in BOOLEAN
  BY Parts DEF Typed
<1>1. Beside /\ ioActive' = ioActive /\ startFd' = startFd
  BY DEF RollFile, sharedVars, ioVars, Beside
<1>2. PICK i \in OpenFiles(FilesOf(c), "run") :
        /\ disk' = WithFiles(c, InsertAt([FilesOf(c) EXCEPT ![i].open = FALSE], i + 1, NewFile))
        /\ used' = used + Blocks(disk[c].files[i].size)
  BY DEF RollFile
<1>3. c \in DOMAIN disk /\ FilesOf(c) = disk[c].files
  BY DEF FilesOf, OpenFiles, OfKind
<1> DEFINE fs == disk[c].files
           gs == InsertAt([fs EXCEPT ![i].open = FALSE], i + 1, NewFile)
<1>4. fs \in Files /\ closedBlocks(fs) \in Int BY <1>0, <1>3, InPool
<1>5. /\ disk' = WithFiles(c, gs) /\ used' = used + Blocks(fs[i].size)
      /\ i \in OpenFiles(fs, "run")
  BY <1>2, <1>3
<1> HIDE DEF fs
<1>6. gs \in Files /\ closedBlocks(gs) = closedBlocks(fs) + Blocks(fs[i].size)
  BY <1>4, <1>5, NewIs, RolledIs
<1> HIDE DEF gs
<1>7. Blocks(fs[i].size) \in Int BY <1>4, <1>5, OpenIs
<1>8. used' \in Int /\ used' - used = closedBlocks(gs) - closedBlocks(disk[c].files)
  BY <1>0, <1>4, <1>5, <1>6, <1>7 DEF fs
<1> QED BY <1>0, <1>1, <1>3, <1>5, <1>6, <1>8, WriteStep

LEMMA MarkerStep ==
  ASSUME PoolInv, NEW c \in DOMAIN disk, NEW m \in {"translated", "manual"},
         createMarker(c, m)
  PROVE  PoolInv'
<1>0. Typed /\ IsDisk(disk) /\ StackOK(stack, io.todo)
      /\ Prot(io.pc, startFd, completeFd, ioActive, main)
      /\ (exact => Account(disk, io, used, scanned, purged, missed))
  BY Parts
<1>1. /\ stack' = stack /\ maxBlocks' = maxBlocks /\ main' = main /\ used' = used
      /\ io' = io /\ cache' = cache /\ completeFd' = completeFd /\ scanned' = scanned
      /\ purged' = purged /\ exact' = exact /\ missed' = missed
      /\ ioActive' = ioActive /\ startFd' = startFd
      /\ disk' = [disk EXCEPT ![c].marks = {m}]
  BY DEF createMarker, mainVars, sharedVars, ioVars
<1> DEFINE k == [disk[c] EXCEPT !.marks = {m}]
<1>2. DOMAIN disk' = DOMAIN disk /\ disk'[c] = k
      /\ \A x \in DOMAIN disk : x # c => disk'[x] = disk[x]
  BY <1>1
<1>3. disk[c] \in Container BY <1>0 DEF IsDisk
<1>4. k \in Container /\ k.files = disk[c].files /\ k.day = disk[c].day
  BY <1>3 DEF Container, Marks
<1> HIDE DEF k
<1>5. \A x \in DOMAIN disk : /\ disk'[x] \in Container /\ disk'[x].day = disk[x].day
                             /\ disk'[x].files = disk[x].files
  BY <1>0, <1>2, <1>4 DEF IsDisk
<1>6. Kept(disk, disk') BY <1>0, <1>2, <1>5 DEF Kept, IsDisk
<1>8. SumShut(disk') = SumShut(disk) BY <1>0, <1>2, <1>5, SameShut
<1>9. Found(disk', io) = Found(disk, io) BY <1>0, <1>2, <1>5, SameAll DEF Found
<1>10. used' \in Int /\ maxBlocks' \in Int /\ ioActive' \in BOOLEAN BY <1>0, <1>1 DEF Typed
<1>11. exact => Account(disk', io, used', scanned, purged, missed)
  BY <1>0, <1>1, <1>8, <1>9 DEF Account
<1> QED BY <1>0, <1>1, <1>6, <1>10, <1>11, KeptStep

LEMMA LimitStep ==
  ASSUME PoolInv, NEW n \in Limits, set_max_blocks_allowed(n)
  PROVE  PoolInv'
<1>0. Typed /\ IsDisk(disk) /\ StackOK(stack, io.todo)
      /\ Prot(io.pc, startFd, completeFd, ioActive, main)
      /\ (exact => Account(disk, io, used, scanned, purged, missed))
  BY Parts
<1>1. /\ stack' = stack /\ maxBlocks' = n /\ main' = main /\ used' = used /\ disk' = disk
      /\ io' = io /\ cache' = cache /\ completeFd' = completeFd /\ scanned' = scanned
      /\ purged' = purged /\ exact' = exact /\ missed' = missed
      /\ ioActive' = ioActive /\ startFd' = startFd
  BY DEF set_max_blocks_allowed, sharedVars, ioVars
<1>2. n \in Int BY PurgeAssumption
<1>3. used' \in Int /\ maxBlocks' \in Int /\ ioActive' \in BOOLEAN
  BY <1>0, <1>1, <1>2 DEF Typed
<1>4. Kept(disk, disk') BY <1>0, <1>1 DEF Kept
<1> QED BY <1>0, <1>1, <1>3, <1>4, KeptStep

LEMMA CompletedStep ==
  ASSUME PoolInv, ioCompleted
  PROVE  PoolInv'
<1>0. Typed /\ IsDisk(disk) /\ StackOK(stack, io.todo)
      /\ Newest(disk, stack, main, io) /\ ListsOK(disk, cache, io)
      /\ (exact => CacheOK(disk, cache))
      /\ Prot(io.pc, startFd, completeFd, ioActive, main)
      /\ (exact => Account(disk, io, used, scanned, purged, missed))
  BY Parts
<1>1. /\ stack' = stack /\ maxBlocks' = maxBlocks /\ main' = main /\ disk' = disk
      /\ io' = io /\ cache' = cache /\ completeFd' = 0 /\ ioActive' = FALSE
      /\ exact' = exact /\ missed' = missed /\ startFd' = startFd /\ main = "up" /\ completeFd # 0
  BY DEF ioCompleted, ioVars, Up
<1>2. \/ used' = used + scanned /\ scanned' = 0 /\ purged' = purged
      \/ used' = used - purged /\ purged' = 0 /\ scanned' = scanned
  BY DEF ioCompleted
<1>3. used \in Int /\ scanned \in Int /\ purged \in Int /\ missed \in Int /\ Found(disk, io) \in Int
  BY <1>0, FoundInt DEF Typed
<1>4. /\ IsDisk(disk') /\ stack' \in Seq(Nat) /\ IsCache(cache') /\ io' \in IoStates
      /\ maxBlocks' \in Int /\ missed' \in Int /\ ioActive' \in BOOLEAN /\ exact' \in BOOLEAN
  BY <1>0, <1>1 DEF Typed
<1>5. used' \in Int /\ scanned' \in Int /\ purged' \in Int BY <1>2, <1>3
<1>6. Prot(io'.pc, startFd', completeFd', ioActive', main')
  <2>1. io.pc = "idle" /\ startFd = 0 BY <1>0, <1>1 DEF Prot
  <2> QED BY <1>1, <2>1 DEF Prot
<1>7. exact' => Account(disk', io', used', scanned', purged', missed')
  <2> SUFFICES ASSUME exact
               PROVE  used' + scanned' + Found(disk, io) - purged' = SumShut(disk) - missed'
    BY <1>1 DEF Account
  <2>1. used + scanned + Found(disk, io) - purged = SumShut(disk) - missed BY <1>0 DEF Account
  <2>2. missed' = missed BY <1>1
  <2> DEFINE F == Found(disk, io)
             r == SumShut(disk) - missed
  <2>3. used + scanned + F - purged = r /\ F \in Int BY <1>3, <2>1
  <2> HIDE DEF F, r
  <2>4. used' + scanned' + F - purged' = r
    <3>1. CASE used' = used + scanned /\ scanned' = 0 /\ purged' = purged
      BY <1>3, <2>3, <3>1
    <3>2. CASE used' = used - purged /\ purged' = 0 /\ scanned' = scanned
      BY <1>3, <2>3, <3>2
    <3> QED BY <1>2, <3>1, <3>2
  <2> QED BY <2>2, <2>4 DEF F, r
<1>8. /\ StackOK(stack', io'.todo) /\ Newest(disk', stack', main', io')
      /\ ListsOK(disk', cache', io') /\ (exact' => CacheOK(disk', cache'))
  BY <1>0, <1>1
<1> QED BY <1>4, <1>5, <1>6, <1>7, <1>8, Gather

-----------------------------------------------------------------------------
(* Containers are closed.                                                   *)

Closes(D, E, T) ==
  /\ Kept(D, E)
  /\ \A x \in DOMAIN D : E[x].files = IF x \in T THEN Closed(D[x].files) ELSE D[x].files

LEMMA ClosesIs ==
  ASSUME IsDisk(disk), NEW T
  PROVE  Closes(disk, ClosedIn(T), T)
<1> DEFINE E == ClosedIn(T)
<1>1. DOMAIN E = DOMAIN disk BY DEF ClosedIn
<1>2. ASSUME NEW x \in DOMAIN disk
      PROVE  /\ E[x] \in Container /\ E[x].day = disk[x].day
             /\ E[x].files = IF x \in T THEN Closed(disk[x].files) ELSE disk[x].files
  <2> DEFINE fs == Closed(disk[x].files)
             k == [disk[x] EXCEPT !.files = fs]
  <2>1. E[x] = IF x \in T THEN k ELSE disk[x] BY DEF ClosedIn
  <2>2. disk[x] \in Container /\ fs \in Files BY InPool, ClosedIs DEF IsDisk
  <2> HIDE DEF fs
  <2>3. k \in Container /\ k.files = fs /\ k.day = disk[x].day BY <2>2 DEF Container
  <2> HIDE DEF k, E
  <2>4. CASE x \in T BY <2>1, <2>3, <2>4 DEF fs
  <2>5. CASE x \notin T BY <2>1, <2>2, <2>5
  <2> QED BY <2>4, <2>5
<1> HIDE DEF E
<1>3. IsDisk(E) BY <1>1, <1>2 DEF IsDisk
<1>4. Closes(disk, E, T) BY <1>1, <1>2, <1>3 DEF Closes, Kept
<1> QED BY <1>4 DEF E

LEMMA ClosesSums ==
  ASSUME NEW D, NEW E, NEW T, NEW o, IsDisk(D), Closes(D, E, T), \A x \in T : x \notin o.todo
  PROVE  /\ SumShut(E) = SumShut(D) + SumOpen(D, T) /\ Found(E, o) = Found(D, o)
         /\ SumShut(E) \in Int /\ SumShut(D) \in Int /\ SumOpen(D, T) \in Int
         /\ Found(D, o) \in Int
<1>1. DOMAIN E = DOMAIN D /\ IsDisk(E)
      /\ \A x \in DOMAIN D :
            E[x].files = IF x \in T THEN Closed(D[x].files) ELSE D[x].files
  BY DEF Closes, Kept
<1>2. ASSUME NEW x \in DOMAIN D
      PROVE  closedBlocks(E[x].files) =
               IF x \in T THEN FileBlocks(D[x].files) ELSE closedBlocks(D[x].files)
  <2>1. closedBlocks(Closed(D[x].files)) = FileBlocks(D[x].files) BY InPool, ClosedIs
  <2>2. CASE x \in T BY <1>1, <2>1, <2>2
  <2>3. CASE x \notin T BY <1>1, <2>3
  <2> QED BY <2>2, <2>3
<1>3. SumShut(E) = SumShut(D) + SumOpen(D, T) BY <1>1, <1>2, ClosesIn
<1>4. Found(E, o) = Found(D, o)
  <2>1. \A x \in o.todo \intersect DOMAIN D : E[x].files = D[x].files BY <1>1
  <2>2. SumAll(E, o.todo) = SumAll(D, o.todo) BY <1>1, <2>1, SameAll
  <2> QED BY <2>2 DEF Found
<1> QED BY <1>1, <1>3, <1>4, PoolInts, FoundInt

LEMMA CountIs ==
  ASSUME IsDisk(disk), NEW T, CountClosed(T)
  PROVE  used' = used + SumOpen(disk, T)
<1>1. used' = used
        + SumFunction([c \in T \intersect DOMAIN disk |-> addBaseStorage(disk[c].files)])
  BY DEF CountClosed
<1>2. SumFunction([c \in T \intersect DOMAIN disk |-> addBaseStorage(disk[c].files)])
        = SumOpen(disk, T)
  BY PoolSums
<1> QED BY <1>1, <1>2, Zenon

\* A stack t whose ranges are some of those of s, in the same order.
Within(t, s, g) ==
  /\ t \in Seq(Nat) /\ Len(t) \in Nat
  /\ \A j \in 1 .. Len(t) : g[j] \in 1 .. Len(s) /\ t[j] = s[g[j]]
  /\ \A i, j \in 1 .. Len(t) : i < j => g[i] < g[j]

LEMMA WithinOK ==
  ASSUME NEW s, NEW t, NEW g, NEW todo, StackOK(s, todo), Within(t, s, g)
  PROVE  StackOK(t, todo)
<1>1. \A i, j \in 1 .. Len(t) : i < j => t[j] < t[i]
  <2> SUFFICES ASSUME NEW i \in 1 .. Len(t), NEW j \in 1 .. Len(t), i < j
               PROVE  t[j] < t[i]
    OBVIOUS
  <2>1. g[i] \in 1 .. Len(s) /\ g[j] \in 1 .. Len(s) /\ g[i] < g[j]
        /\ t[i] = s[g[i]] /\ t[j] = s[g[j]]
    BY DEF Within
  <2> QED BY <2>1 DEF StackOK
<1>2. ASSUME NEW j \in 1 .. Len(t) PROVE t[j] \notin todo
  <2>1. g[j] \in 1 .. Len(s) /\ t[j] = s[g[j]] BY DEF Within
  <2> QED BY <2>1 DEF StackOK
<1> QED BY <1>1, <1>2 DEF StackOK

LEMMA RemovedIs ==
  ASSUME NEW s \in Seq(Nat), NEW i \in 2 .. Len(s)
  PROVE  LET t == RemoveAt(s, i)
             g == [j \in 1 .. Len(s) |-> IF j < i THEN j ELSE j + 1]
         IN  /\ Within(t, s, g) /\ t # <<>> /\ t[1] = s[1]
             /\ \A j \in 1 .. Len(t) : g[j] # i
<1> DEFINE n == Len(s)
           a == SubSeq(s, 1, i - 1)
           b == SubSeq(s, i + 1, n)
           t == a \o b
           g == [j \in 1 .. n |-> IF j < i THEN j ELSE j + 1]
<1>1. n \in Nat /\ i \in Nat /\ i >= 2 /\ i <= n /\ \A j \in 1 .. n : s[j] \in Nat OBVIOUS
<1>2. a \in Seq(Nat) /\ Len(a) = i - 1 /\ \A j \in 1 .. i - 1 : a[j] = s[j]
  <2>1. \A j \in 1 .. i - 1 : s[j] \in Nat BY <1>1
  <2>2. 1 \in Int /\ i - 1 \in Int BY <1>1
  <2>3. /\ a \in Seq(Nat) /\ Len(a) = (IF 1 <= i - 1 THEN (i - 1) - 1 + 1 ELSE 0)
        /\ \A j \in 1 .. (i - 1) - 1 + 1 : a[j] = s[1 + j - 1]
    BY <2>1, <2>2, SubSeqProperties
  <2> HIDE DEF a
  <2>4. (IF 1 <= i - 1 THEN (i - 1) - 1 + 1 ELSE 0) = i - 1 /\ (i - 1) - 1 + 1 = i - 1
    BY <1>1
  <2>5. \A j \in 1 .. i - 1 : 1 + j - 1 = j BY <1>1
  <2> QED BY <2>3, <2>4, <2>5
<1>3. b \in Seq(Nat) /\ Len(b) = n - i /\ \A j \in 1 .. n - i : b[j] = s[i + j]
  <2>1. \A j \in i + 1 .. n : s[j] \in Nat BY <1>1
  <2> DEFINE p == i + 1
  <2>2. p \in Int /\ n \in Int BY <1>1
  <2>7. \A j \in p .. n : s[j] \in Nat BY <2>1
  <2>8. b = SubSeq(s, p, n) OBVIOUS
  <2> HIDE DEF a, b, t, g, n, p
  <2>9. /\ SubSeq(s, p, n) \in Seq(Nat)
        /\ Len(SubSeq(s, p, n)) = (IF p <= n THEN n - p + 1 ELSE 0)
        /\ \A j \in 1 .. n - p + 1 : SubSeq(s, p, n)[j] = s[p + j - 1]
    BY <2>2, <2>7, SubSeqProperties
  <2>3. /\ b \in Seq(Nat) /\ Len(b) = (IF i + 1 <= n THEN n - (i + 1) + 1 ELSE 0)
        /\ \A j \in 1 .. n - (i + 1) + 1 : b[j] = s[(i + 1) + j - 1]
    BY <2>8, <2>9 DEF p
  <2> HIDE DEF b, n
  <2>4. n - (i + 1) + 1 = n - i BY <1>1
  <2>5. (IF i + 1 <= n THEN n - i ELSE 0) = n - i
    <3>1. i + 1 <= n \/ n - i = 0 BY <1>1
    <3> QED BY <3>1
  <2>6. \A j \in 1 .. n - i : (i + 1) + j - 1 = i + j BY <1>1
  <2> QED BY <2>3, <2>4, <2>5, <2>6
<1> HIDE DEF a, b, n
<1>4. /\ t \in Seq(Nat) /\ Len(t) = Len(a) + Len(b)
      /\ \A j \in 1 .. Len(a) + Len(b) : t[j] = IF j <= Len(a) THEN a[j] ELSE b[j - Len(a)]
  BY <1>2, <1>3, ConcatProperties
<1> HIDE DEF t
<1>5. Len(t) = n - 1 BY <1>1, <1>2, <1>3, <1>4
<1>6. ASSUME NEW j \in 1 .. Len(t)
      PROVE  g[j] \in 1 .. n /\ t[j] = s[g[j]] /\ g[j] # i
  <2>1. j \in 1 .. n /\ j \in Int /\ j >= 1 /\ j <= n - 1 BY <1>1, <1>5
  <2>2. t[j] = IF j <= Len(a) THEN a[j] ELSE b[j - Len(a)] BY <1>4, <1>5
  <2>3. CASE j < i
    <3>1. g[j] = j BY <2>1, <2>3
    <3>2. j <= Len(a) /\ j \in 1 .. i - 1 BY <1>1, <1>2, <2>1, <2>3
    <3>3. t[j] = s[j] BY <1>2, <2>2, <3>2
    <3> HIDE DEF g
    <3> QED BY <1>1, <2>1, <2>3, <3>1, <3>3
  <2>4. CASE ~(j < i)
    <3>1. g[j] = j + 1 BY <2>1, <2>4
    <3> DEFINE r == j - Len(a)
    <3>2. ~(j <= Len(a)) /\ r \in 1 .. n - i /\ i + r = j + 1
      BY <1>1, <1>2, <2>1, <2>4
    <3>3. t[j] = b[r] BY <2>2, <3>2
    <3> HIDE DEF r, g
    <3>4. t[j] = s[i + r] BY <1>3, <3>2, <3>3
    <3>5. t[j] = s[j + 1] BY <3>2, <3>4
    <3> QED BY <1>1, <2>1, <2>4, <3>1, <3>5
  <2> QED BY <2>3, <2>4
<1>7. ASSUME NEW k \in 1 .. Len(t), NEW j \in 1 .. Len(t), k < j
      PROVE  g[k] < g[j]
  <2>1. k \in 1 .. n /\ j \in 1 .. n /\ k \in Int /\ j \in Int BY <1>1, <1>5
  <2>2. /\ g[k] = IF k < i THEN k ELSE k + 1
        /\ g[j] = IF j < i THEN j ELSE j + 1
    BY <2>1
  <2> HIDE DEF g
  <2>3. CASE k < i /\ j < i BY <1>7, <2>1, <2>2, <2>3
  <2>4. CASE k < i /\ ~(j < i) BY <1>7, <2>1, <2>2, <2>4
  <2>5. CASE ~(k < i) /\ ~(j < i) BY <1>7, <2>1, <2>2, <2>5
  <2>6. CASE ~(k < i) /\ j < i BY <1>1, <1>7, <2>1, <2>6
  <2> QED BY <2>3, <2>4, <2>5, <2>6
<1>8. t # <<>> /\ t[1] = s[1]
  <2>1. Len(t) >= 1 BY <1>1, <1>5
  <2>2. t # <<>>
    <3>1. t = <<>> => Len(t) = 0 OBVIOUS
    <3> QED BY <2>1, <3>1
  <2>3. 1 \in 1 .. Len(t) BY <1>1, <1>5
  <2>4. g[1] = 1 BY <1>1
  <2> HIDE DEF g
  <2>5. t[1] = s[1] BY <1>6, <2>3, <2>4
  <2> QED BY <2>2, <2>5
<1> HIDE DEF g
<1>10. t \in Seq(Nat) /\ Len(t) \in Nat BY <1>4
<1>11. \A j \in 1 .. Len(t) : g[j] \in 1 .. Len(s) /\ t[j] = s[g[j]] BY <1>6 DEF n
<1>12. \A k, j \in 1 .. Len(t) : k < j => g[k] < g[j] BY <1>7
<1>9. Within(t, s, g) BY <1>10, <1>11, <1>12 DEF Within
<1> QED BY <1>6, <1>8, <1>9 DEF RemoveAt, t, g, a, b, n

\* What closing the containers in T does to the pool and to the count.
LEMMA ClosingStep ==
  ASSUME PoolInv, NEW T, NEW E, Closes(disk, E, T), CountClosed(T),
         \A x \in T : x \notin io.todo
  PROVE  /\ Kept(disk, E) /\ used' \in Int
         /\ ListsOK(E, cache, io) /\ (exact => CacheOK(E, cache))
         /\ \A s, m : Newest(disk, s, m, io) => Newest(E, s, m, io)
         /\ exact => Account(E, io, used', scanned, purged, missed)
<1>0. Typed /\ IsDisk(disk) /\ ListsOK(disk, cache, io) /\ (exact => CacheOK(disk, cache))
      /\ (exact => Account(disk, io, used, scanned, purged, missed))
  BY Parts
<1>1. Kept(disk, E) BY DEF Closes
<1>2. /\ ListsOK(E, cache, io) /\ (exact => CacheOK(E, cache))
      /\ \A s, m : Newest(disk, s, m, io) => Newest(E, s, m, io)
  BY <1>0, <1>1, KeptIs
<1>3. used' = used + SumOpen(disk, T) BY <1>0, CountIs
<1>4. /\ SumShut(E) = SumShut(disk) + SumOpen(disk, T) /\ Found(E, io) = Found(disk, io)
      /\ SumShut(E) \in Int /\ SumShut(disk) \in Int /\ SumOpen(disk, T) \in Int
      /\ Found(disk, io) \in Int
  BY <1>0, ClosesSums
<1>5. used \in Int /\ scanned \in Int /\ purged \in Int /\ missed \in Int BY <1>0 DEF Typed
<1>6. exact => Account(E, io, used', scanned, purged, missed)
  <2> SUFFICES ASSUME exact
               PROVE  used' + scanned + Found(E, io) - purged = SumShut(E) - missed
    BY DEF Account
  <2>1. used + scanned + Found(disk, io) - purged = SumShut(disk) - missed BY <1>0 DEF Account
  <2>2. used' \in Int /\ used' - used = SumShut(E) - SumShut(disk) BY <1>3, <1>4, <1>5
  <2> DEFINE F == Found(disk, io)
             S == SumShut(disk)
             R == SumShut(E)
             v == used'
  <2>3. /\ F \in Int /\ S \in Int /\ R \in Int /\ v \in Int /\ v - used = R - S
        /\ used + scanned + F - purged = S - missed
    BY <1>4, <2>1, <2>2
  <2> HIDE DEF F, S, R, v
  <2>4. v + scanned + F - purged = R - missed BY <1>5, <2>3, Counted
  <2> QED BY <1>4, <2>4 DEF F, R, v
<1>7. used' \in Int BY <1>3, <1>4, <1>5
<1> QED BY <1>1, <1>2, <1>6, <1>7

LEMMA TerminateStep ==
  ASSUME PoolInv, NEW i \in 2 .. Len(stack), terminate(i)
  PROVE  PoolInv'
<1>0. Typed /\ IsDisk(disk) /\ StackOK(stack, io.todo)
      /\ Newest(disk, stack, main, io) /\ stack \in Seq(Nat)
      /\ Prot(io.pc, startFd, completeFd, ioActive, main)
  BY Parts
<1> DEFINE c == stack[i]
           t == RemoveAt(stack, i)
           g == [j \in 1 .. Len(stack) |-> IF j < i THEN j ELSE j + 1]
           E == ClosedIn({c})
<1>1. /\ stack' = t /\ maxBlocks' = maxBlocks /\ main' = main /\ disk' = E
      /\ io' = io /\ cache' = cache /\ completeFd' = completeFd /\ scanned' = scanned
      /\ purged' = purged /\ exact' = exact /\ missed' = missed
      /\ ioActive' = ioActive /\ startFd' = startFd
      /\ CountClosed({c})
  BY DEF terminate, sharedVars, ioVars
<1>2. Closes(disk, E, {c}) BY <1>0, ClosesIs
<1>3. /\ Within(t, stack, g) /\ t # <<>> /\ t[1] = stack[1]
      /\ \A j \in 1 .. Len(t) : g[j] # i
  BY <1>0, RemovedIs
<1>4. i \in 1 .. Len(stack) /\ c \notin io.todo
  <2>1. i \in 1 .. Len(stack) BY <1>0
  <2> QED BY <1>0, <2>1 DEF StackOK
<1> HIDE DEF E, t, g
<1> HIDE DEF c
<1>6. StackOK(t, io.todo) BY <1>0, <1>3, WithinOK
<1>7. \A x \in {c} : x \notin io.todo BY <1>4
<1>8. /\ Kept(disk, E) /\ used' \in Int
      /\ ListsOK(E, cache, io) /\ (exact => CacheOK(E, cache))
      /\ Newest(E, stack, main, io)
      /\ exact => Account(E, io, used', scanned, purged, missed)
  BY <1>0, <1>1, <1>2, <1>7, ClosingStep
<1>9. Newest(E, t, main, io) BY <1>3, <1>8 DEF Newest
<1>10. IsDisk(E) /\ t \in Seq(Nat) BY <1>3, <1>8 DEF Kept, Within
<1>11. /\ IsDisk(disk') /\ stack' \in Seq(Nat) /\ IsCache(cache') /\ io' \in IoStates
       /\ used' \in Int /\ maxBlocks' \in Int /\ scanned' \in Int /\ purged' \in Int
       /\ missed' \in Int /\ ioActive' \in BOOLEAN /\ exact' \in BOOLEAN
  BY <1>0, <1>1, <1>8, <1>10 DEF Typed
<1>12. /\ StackOK(stack', io'.todo) /\ Newest(disk', stack', main', io')
       /\ ListsOK(disk', cache', io') /\ (exact' => CacheOK(disk', cache'))
       /\ Prot(io'.pc, startFd', completeFd', ioActive', main')
       /\ (exact' => Account(disk', io', used', scanned', purged', missed'))
  BY <1>0, <1>1, <1>6, <1>8, <1>9
<1> QED BY <1>11, <1>12, Gather

LEMMA StopStep ==
  ASSUME PoolInv, stop
  PROVE  PoolInv'
<1>0. Typed /\ IsDisk(disk) /\ StackOK(stack, io.todo) /\ stack \in Seq(Nat)
      /\ Prot(io.pc, startFd, completeFd, ioActive, main)
  BY Parts
<1> DEFINE T == Range(stack)
           E == ClosedIn(T)
<1>1. /\ stack' = <<>> /\ maxBlocks' = maxBlocks /\ disk' = E
      /\ io' = io /\ cache' = cache /\ completeFd' = completeFd /\ scanned' = scanned
      /\ purged' = purged /\ exact' = exact /\ missed' = missed /\ ioActive' = ioActive
      /\ CountClosed(T)
      /\ IF ioActive THEN main' = "threw" /\ startFd' = startFd
         ELSE main' = "stopped" /\ startFd' = startFd + 1001
  BY DEF stop, ioVars, IOCMD_SHUTDOWN
<1>2. Closes(disk, E, T) BY <1>0, ClosesIs
<1>3. \A x \in T : x \notin io.todo BY InStack
<1> HIDE DEF E, T
<1>4. /\ Kept(disk, E) /\ used' \in Int
      /\ ListsOK(E, cache, io) /\ (exact => CacheOK(E, cache))
      /\ exact => Account(E, io, used', scanned, purged, missed)
  BY <1>1, <1>2, <1>3, ClosingStep
<1>5. Len(stack') = 0 /\ main' # "up" BY <1>1
<1>6. StackOK(stack', io.todo) BY <1>5 DEF StackOK
<1>7. Newest(E, stack', main', io) BY <1>5 DEF Newest
<1>8. Prot(io.pc, startFd', completeFd, ioActive, main')
  <2>1. CASE ioActive BY <1>0, <1>1, <2>1 DEF Prot
  <2>2. CASE ~ioActive
    <3>1. io.pc = "idle" /\ startFd = 0 /\ completeFd = 0
      BY <1>0, <2>2 DEF Prot, stop, Up
    <3>2. startFd' = 1001 /\ main' = "stopped" BY <1>1, <2>2, <3>1
    <3> QED BY <3>1, <3>2 DEF Prot
  <2> QED BY <2>1, <2>2
<1>9. IsDisk(E) /\ stack' \in Seq(Nat) BY <1>1, <1>4 DEF Kept
<1>10. /\ IsDisk(disk') /\ stack' \in Seq(Nat) /\ IsCache(cache') /\ io' \in IoStates
       /\ used' \in Int /\ maxBlocks' \in Int /\ scanned' \in Int /\ purged' \in Int
       /\ missed' \in Int /\ ioActive' \in BOOLEAN /\ exact' \in BOOLEAN
  BY <1>0, <1>1, <1>4, <1>9 DEF Typed
<1>11. /\ StackOK(stack', io'.todo) /\ Newest(disk', stack', main', io')
       /\ ListsOK(disk', cache', io') /\ (exact' => CacheOK(disk', cache'))
       /\ Prot(io'.pc, startFd', completeFd', ioActive', main')
       /\ (exact' => Account(disk', io', used', scanned', purged', missed'))
  BY <1>1, <1>4, <1>6, <1>7, <1>8
<1> QED BY <1>10, <1>11, Gather

-----------------------------------------------------------------------------
(* A new container.                                                         *)

\* c is a container the disk E has and D does not.
Added(D, E, c, k) ==
  /\ c \in Nat /\ c \notin DOMAIN D /\ k \in Container
  /\ DOMAIN E = DOMAIN D \union {c} /\ E[c] = k
  /\ \A x \in DOMAIN D : E[x] = D[x]

Fresh(o, c) == c \notin o.todo /\ \A i \in 1 .. Len(o.conts) : o.conts[i] # c
Below(u, c) == \A j \in 1 .. Len(u) : u[j] < c

LEMMA AddedIs ==
  ASSUME NEW D, NEW E, NEW c, NEW k, NEW o, NEW C, IsDisk(D), Added(D, E, c, k),
         Fresh(o, c)
  PROVE  /\ IsDisk(E) /\ SumShut(E) = closedBlocks(k.files) + SumShut(D)
         /\ SumShut(D) \in Int /\ Found(E, o) = Found(D, o)
         /\ CacheOK(D, C) => CacheOK(E, C)
         /\ ListsOK(D, C, o) => ListsOK(E, C, o)
<1>1. /\ c \in Nat /\ c \notin DOMAIN D /\ k \in Container
      /\ DOMAIN E = DOMAIN D \union {c} /\ E[c] = k
      /\ \A x \in DOMAIN D : E[x] = D[x]
  BY DEF Added
<1>2. IsDisk(E)
  <2>1. IsFiniteSet(DOMAIN E) BY <1>1, FS_AddElement DEF IsDisk
  <2> QED BY <1>1, <2>1 DEF IsDisk
<1>3. SumShut(E) = closedBlocks(k.files) + SumShut(D)
  <2>1. DOMAIN D = DOMAIN E \ {c} BY <1>1
  <2> QED BY <1>1, <1>2, <2>1, ComesIn
<1>4. Found(E, o) = Found(D, o)
  <2>1. o.todo \intersect DOMAIN E = o.todo \intersect DOMAIN D BY <1>1 DEF Fresh
  <2>2. \A x \in o.todo \intersect DOMAIN D : E[x].files = D[x].files BY <1>1
  <2>3. SumAll(E, o.todo) = SumAll(D, o.todo) BY <2>1, <2>2, SameAll
  <2> QED BY <2>3 DEF Found
<1>5. ASSUME CacheOK(D, C) PROVE CacheOK(E, C) BY <1>1, <1>5 DEF CacheOK
<1>6. ASSUME ListsOK(D, C, o) PROVE ListsOK(E, C, o)
  BY <1>1, <1>6 DEF ListsOK, Fresh
<1> QED BY <1>2, <1>3, <1>4, <1>5, <1>6, PoolInts

Topped(t, c, todo) == StackOK(t, todo) /\ t \in Seq(Nat) /\ t # <<>> /\ t[1] = c

LEMMA AddedStack ==
  ASSUME NEW c \in Nat, NEW u \in Seq(Nat), NEW todo, c \notin todo,
         StackOK(u, todo), Below(u, c)
  PROVE  Topped(<<c>> \o u, c, todo)
<1> DEFINE t == <<c>> \o u
           n == Len(u)
<1>1. /\ t \in Seq(Nat) /\ n \in Nat /\ Len(t) = n + 1 /\ t[1] = c
      /\ \A j \in 2 .. n + 1 : t[j] = u[j - 1]
  OBVIOUS
<1>2. t # <<>> BY <1>1
<1> HIDE DEF t, n
<1>3. \A j \in 2 .. n + 1 : j - 1 \in 1 .. n BY <1>1
<1>4. ASSUME NEW i \in 1 .. n + 1, NEW j \in 1 .. n + 1, i < j
      PROVE  t[j] < t[i]
  <2>1. j \in 2 .. n + 1 /\ i \in Int /\ j \in Int BY <1>1, <1>4
  <2> DEFINE q == j - 1
  <2>2. q \in 1 .. n /\ t[j] = u[q] BY <1>1, <1>3, <2>1
  <2>3. CASE i = 1
    <3> HIDE DEF q
    <3>1. u[q] < c BY <2>2 DEF n, Below
    <3> QED BY <1>1, <2>2, <2>3, <3>1
  <2>4. CASE i # 1
    <3> DEFINE p == i - 1
    <3>1. i \in 2 .. n + 1 BY <1>1, <2>4
    <3>2. p \in 1 .. n /\ t[i] = u[p] /\ p < q BY <1>1, <1>3, <1>4, <2>1, <3>1
    <3> HIDE DEF p, q
    <3>3. u[q] < u[p] BY <2>2, <3>2 DEF StackOK, n
    <3> QED BY <2>2, <3>2, <3>3
  <2> QED BY <2>3, <2>4
<1>5. ASSUME NEW j \in 1 .. n + 1 PROVE t[j] \notin todo
  <2>1. CASE j = 1 BY <1>1, <2>1
  <2>2. CASE j # 1
    <3> DEFINE q == j - 1
    <3>1. j \in 2 .. n + 1 BY <1>1, <2>2
    <3>2. q \in 1 .. n /\ t[j] = u[q] BY <1>1, <1>3, <3>1
    <3> HIDE DEF q
    <3> QED BY <3>2 DEF StackOK, n
  <2> QED BY <2>1, <2>2
<1>6. StackOK(t, todo)
  <2>1. 1 .. Len(t) = 1 .. n + 1 BY <1>1
  <2> QED BY <1>4, <1>5, <2>1 DEF StackOK
<1>7. Topped(t, c, todo) BY <1>1, <1>2, <1>6 DEF Topped
<1> QED BY <1>7 DEF t

LEMMA RangeFinite ==
  ASSUME NEW s \in Seq(Nat)
  PROVE  IsFiniteSet(Range(s)) /\ Range(s) \subseteq Nat
         /\ \A i \in 1 .. Len(s) : s[i] \in Range(s)
<1>1. Len(s) \in Nat /\ DOMAIN s = 1 .. Len(s) /\ \A i \in 1 .. Len(s) : s[i] \in Nat
  OBVIOUS
<1>2. IsFiniteSet(1 .. Len(s)) BY <1>1, FS_Interval
<1> DEFINE f == [i \in 1 .. Len(s) |-> s[i]]
           T == Range(s)
<1>3. f \in Surjection(1 .. Len(s), T) BY <1>1 DEF Surjection, Range
<1> HIDE DEF f, T
<1>4. IsFiniteSet(T) BY <1>2, <1>3, FS_Surjection
<1> QED BY <1>1, <1>4 DEF T, Range

LEMMA TailWithin ==
  ASSUME NEW s \in Seq(Nat), s # <<>>, NEW keep \in BOOLEAN
  PROVE  Within(IF keep THEN s ELSE Tail(s), s,
                [j \in 1 .. Len(s) |-> IF keep THEN j ELSE j + 1])
<1> DEFINE n == Len(s)
           g == [j \in 1 .. n |-> IF keep THEN j ELSE j + 1]
           u == IF keep THEN s ELSE Tail(s)
<1>1. n \in Nat /\ n >= 1 OBVIOUS
<1>2. CASE keep
  <2>1. u = s /\ Len(u) = n BY <1>2
  <2>2. \A j \in 1 .. n : g[j] = j BY <1>2
  <2> HIDE DEF u, g
  <2>3. Within(u, s, g) BY <1>1, <2>1, <2>2 DEF Within, n
  <2> QED BY <2>3 DEF u, g, n
<1>3. CASE ~keep
  <2>1. u = Tail(s) BY <1>3
  <2>2. u \in Seq(Nat) /\ Len(u) = n - 1 /\ \A j \in 1 .. Len(u) : u[j] = s[j + 1]
    <3> HIDE DEF u
    <3> QED BY <2>1, HeadTailProperties
  <2>3. \A j \in 1 .. n - 1 : g[j] = j + 1 BY <1>1, <1>3
  <2> HIDE DEF u, g, n
  <2>4. ASSUME NEW j \in 1 .. n - 1 PROVE g[j] \in 1 .. n /\ u[j] = s[g[j]]
    <3>1. j + 1 \in 1 .. n BY <1>1
    <3>2. u[j] = s[j + 1] BY <1>1, <2>2
    <3> QED BY <2>3, <3>1, <3>2
  <2>5. \A i, j \in 1 .. n - 1 : i < j => g[i] < g[j]
    <3> SUFFICES ASSUME NEW i \in 1 .. n - 1, NEW j \in 1 .. n - 1, i < j
                 PROVE  g[i] < g[j]
      OBVIOUS
    <3>1. g[i] = i + 1 /\ g[j] = j + 1 BY <2>3
    <3>2. i + 1 < j + 1 BY <1>1
    <3> QED BY <3>1, <3>2
  <2>6. Within(u, s, g) BY <1>1, <2>2, <2>4, <2>5 DEF Within, n
  <2> QED BY <2>6 DEF u, g, n
<1> QED BY <1>2, <1>3

\* What a new container finds of the one before: a prologue for it, or its end.
LEMMA BeforeStep ==
  ASSUME PoolInv, NEW top, NEW keep \in BOOLEAN, NEW last, AllShut(last),
         NEW stays, stays <=> keep /\ top \in DOMAIN disk, ~stays => last = <<>>,
         top \notin io.todo, CountClosed(IF keep THEN {} ELSE {top}),
         NEW E, E = IF stays THEN WithFiles(top, FilesOf(top) \o last)
                    ELSE ClosedIn(IF keep THEN {} ELSE {top})
  PROVE  /\ Kept(disk, E) /\ used' \in Int /\ FileBlocks(last) \in Int
         /\ ListsOK(E, cache, io) /\ (exact => CacheOK(E, cache))
         /\ exact => Account(E, io, used', scanned, purged, missed + FileBlocks(last))
<1>0. Typed /\ IsDisk(disk) /\ ListsOK(disk, cache, io) /\ (exact => CacheOK(disk, cache))
      /\ (exact => Account(disk, io, used, scanned, purged, missed))
  BY Parts
<1> DEFINE old == IF keep THEN {} ELSE {top}
           b == FileBlocks(last)
<1>1. last \in Files /\ closedBlocks(last) = b /\ b \in Int BY ShutIs
<1>2. used \in Int /\ scanned \in Int /\ purged \in Int /\ missed \in Int BY <1>0 DEF Typed
<1> HIDE DEF b
<1>3. CASE stays
  <2> DEFINE fs == disk[top].files
             gs == fs \o last
  <2>1. top \in DOMAIN disk /\ keep /\ E = [disk EXCEPT ![top].files = gs]
    BY <1>3 DEF WithFiles, FilesOf
  <2>2. fs \in Files /\ closedBlocks(fs) \in Int BY <1>0, <2>1, InPool
  <2> HIDE DEF fs
  <2>3. gs \in Files /\ closedBlocks(gs) = closedBlocks(fs) + b
    BY <1>1, <2>2, ConcatIs
  <2> HIDE DEF gs
  <2>4. Replaced(disk, E, top, gs) BY <1>0, <2>1, <2>3, FilesPut
  <2>5. /\ SumShut(E) = SumShut(disk) + closedBlocks(gs) - closedBlocks(fs)
        /\ Found(E, io) = Found(disk, io) /\ SumShut(disk) \in Int /\ Found(disk, io) \in Int
    BY <1>0, <2>3, <2>4, ReplacedSums DEF fs
  <2>6. used' = used
    <3> DEFINE none == {}
    <3>1. CountClosed(none) BY <2>1
    <3> HIDE DEF none
    <3>2. used' = used + SumOpen(disk, none) BY <1>0, <3>1, CountIs
    <3>3. SumOpen(disk, none) = 0
      <4>1. none \intersect DOMAIN disk = {} BY DEF none
      <4> QED BY <4>1, SumNone DEF SumOpen
    <3> QED BY <1>2, <3>2, <3>3
  <2>7. exact => Account(E, io, used', scanned, purged, missed + b)
    <3> SUFFICES ASSUME exact
                 PROVE  used' + scanned + Found(E, io) - purged = SumShut(E) - (missed + b)
      BY DEF Account
    <3>1. used + scanned + Found(disk, io) - purged = SumShut(disk) - missed
      BY <1>0 DEF Account
    <3> QED BY <1>1, <1>2, <2>2, <2>3, <2>5, <2>6, <3>1
  <2>8. Kept(disk, E) BY <2>4 DEF Replaced
  <2>9. ListsOK(E, cache, io) /\ (exact => CacheOK(E, cache)) BY <1>0, <2>8, KeptIs
  <2> QED BY <1>1, <1>2, <2>6, <2>7, <2>8, <2>9 DEF b
<1>4. CASE ~stays
  <2>1. E = ClosedIn(old) /\ CountClosed(old) /\ \A x \in old : x \notin io.todo BY <1>4
  <2>2. Closes(disk, E, old) BY <1>0, <2>1, ClosesIs
  <2> HIDE DEF old
  <2>3. /\ Kept(disk, E) /\ used' \in Int
        /\ ListsOK(E, cache, io) /\ (exact => CacheOK(E, cache))
        /\ exact => Account(E, io, used', scanned, purged, missed)
    BY <2>1, <2>2, ClosingStep
  <2>4. b = 0
    <3>1. last = <<>> /\ DOMAIN <<>> = {} BY <1>4
    <3> QED BY <3>1, SumsAre, SumNone DEF b
  <2>5. missed + b = missed BY <1>2, <2>4
  <2> QED BY <1>1, <2>3, <2>5 DEF b
<1> QED BY <1>3, <1>4

LEMMA StartStep ==
  ASSUME PoolInv, NEW run \in {0, 1}, NEW keep \in BOOLEAN, NEW split \in BOOLEAN,
         NEW day \in 1 .. MaxDay, startContainer(run, keep, split, day)
  PROVE  PoolInv'
<1>0. Typed /\ IsDisk(disk) /\ StackOK(stack, io.todo)
      /\ Newest(disk, stack, main, io) /\ stack \in Seq(Nat)
      /\ Prot(io.pc, startFd, completeFd, ioActive, main)
  BY Parts
<1> DEFINE c == Max(DOMAIN disk \union Range(stack)) + 1
           top == Head(stack)
           stays == keep /\ top \in DOMAIN disk
           last == IF stays THEN getLastPrologueFiles(FilesOf(top)) ELSE <<>>
           copied == IF split THEN copyLastPrologueFiles(FilesOf(top) \o last) ELSE <<>>
           new == [day |-> day, run |-> run, files |-> <<NewFile>> \o copied, marks |-> {}]
           old == IF keep THEN {} ELSE {top}
           E == IF stays THEN WithFiles(top, FilesOf(top) \o last) ELSE ClosedIn(old)
           u == IF keep THEN stack ELSE Tail(stack)
           g == [j \in 1 .. Len(stack) |-> IF keep THEN j ELSE j + 1]
<1>1. /\ stack' = <<c>> \o u /\ maxBlocks' = maxBlocks /\ main' = main /\ Up
      /\ disk' = [x \in DOMAIN disk \union {c} |-> IF x = c THEN new ELSE E[x]]
      /\ io' = io /\ cache' = cache /\ completeFd' = completeFd /\ scanned' = scanned
      /\ purged' = purged /\ exact' = exact /\ ioActive' = ioActive /\ startFd' = startFd
      /\ CountClosed(old) /\ missed' = missed + FileBlocks(last) + FileBlocks(copied)
  BY DEF startContainer, sharedVars, ioVars
<1>2. /\ stack # <<>> /\ \A x \in DOMAIN disk : x <= stack[1]
      /\ \A x \in io.todo : x <= stack[1]
      /\ \A i \in 1 .. Len(io.conts) : io.conts[i] <= stack[1]
  BY <1>0, <1>1 DEF Newest, Up
<1>3. 1 \in 1 .. Len(stack) /\ Head(stack) = stack[1] /\ stack[1] \in Nat
      /\ Len(stack) \in Nat
  BY <1>0, <1>2
<1>4. c \in Nat /\ stack[1] < c /\ c \notin DOMAIN disk
      /\ \A j \in 1 .. Len(stack) : stack[j] < c
  <2> DEFINE T == DOMAIN disk \union Range(stack)
  <2>1. /\ IsFiniteSet(Range(stack)) /\ Range(stack) \subseteq Nat
        /\ \A i \in 1 .. Len(stack) : stack[i] \in Range(stack)
    BY <1>0, RangeFinite
  <2>2. T \in SUBSET Nat /\ stack[1] \in T /\ DOMAIN disk \subseteq T
        /\ \A i \in 1 .. Len(stack) : stack[i] \in T
    BY <1>0, <1>3, <2>1 DEF IsDisk
  <2>3. IsFiniteSet(T) BY <1>0, <2>1, FS_Union DEF IsDisk
  <2> HIDE DEF T
  <2>4. Max(T) \in T /\ \A x \in T : x <= Max(T) BY <2>2, <2>3, MaxIn
  <2> DEFINE m == Max(T)
  <2>5. c = m + 1 BY DEF T
  <2>6. m \in Nat /\ \A x \in T : x \in Nat /\ x <= m BY <2>2, <2>4
  <2> HIDE DEF c, m
  <2>7. c \in Nat /\ \A x \in T : x < c BY <2>5, <2>6
  <2>8. c \notin T
    <3>1. ~(c < c) BY <2>7
    <3> QED BY <2>7, <3>1
  <2> QED BY <2>2, <2>7, <2>8
<1>5. AllShut(last) /\ AllShut(copied)
  <2>1. CASE stays BY <2>1, ProloguesShut, EmptyShut
  <2>2. CASE ~stays BY <2>2, ProloguesShut, EmptyShut
  <2> QED BY <2>1, <2>2
<1>6. Within(u, stack, g) BY <1>0, <1>2, TailWithin
<1>7. top \notin io.todo BY <1>0, <1>3 DEF StackOK
<1>8. \A j \in 1 .. Len(u) : u[j] < c
  <2> SUFFICES ASSUME NEW j \in 1 .. Len(u) PROVE u[j] < c OBVIOUS
  <2>1. g[j] \in 1 .. Len(stack) /\ u[j] = stack[g[j]] BY <1>6 DEF Within
  <2> HIDE DEF c, u, g
  <2> QED BY <1>4, <2>1
<1> DEFINE a == FileBlocks(last)
           b == FileBlocks(copied)
<1>10. /\ Kept(disk, E) /\ used' \in Int /\ a \in Int
       /\ ListsOK(E, cache, io) /\ (exact => CacheOK(E, cache))
       /\ exact => Account(E, io, used', scanned, purged, missed + a)
  <2>1. ~stays => last = <<>> OBVIOUS
  <2>2. stays <=> keep /\ top \in DOMAIN disk OBVIOUS
  <2>3. E = IF stays THEN WithFiles(top, FilesOf(top) \o last)
            ELSE ClosedIn(IF keep THEN {} ELSE {top})
    OBVIOUS
  <2>4. CountClosed(IF keep THEN {} ELSE {top}) BY <1>1
  <2> HIDE DEF E, last, stays, top, c, u, g, copied, new
  <2> QED BY <1>5, <1>7, <2>1, <2>2, <2>3, <2>4, BeforeStep
<1>9. StackOK(u, io.todo)
  <2> HIDE DEF u, g
  <2> QED BY <1>0, <1>6, WithinOK
<1> HIDE DEF c, u, g, E, old, stays, top, last
<1>11. IsDisk(E) /\ DOMAIN E = DOMAIN disk BY <1>10 DEF Kept
<1>12. new \in Container /\ closedBlocks(new.files) = b /\ b \in Int
  <2>1. copied \in Files /\ closedBlocks(copied) = b /\ b \in Int BY <1>5, ShutIs
  <2> HIDE DEF copied
  <2> DEFINE n == <<NewFile>>
             fs == n \o copied
  <2>2. n \in Files /\ closedBlocks(n) = 0 BY NewIs
  <2> HIDE DEF n
  <2>3. fs \in Files /\ closedBlocks(fs) = closedBlocks(n) + closedBlocks(copied)
    BY <2>1, <2>2, ConcatIs
  <2>4. new = [day |-> day, run |-> run, files |-> fs, marks |-> {}] BY DEF n
  <2>5. day \in Nat /\ run \in Nat /\ {} \in SUBSET Marks BY PurgeAssumption
  <2> HIDE DEF fs, new, b
  <2>6. closedBlocks(fs) = b BY <2>1, <2>2, <2>3
  <2> QED BY <2>1, <2>3, <2>4, <2>5, <2>6 DEF Container
<1> HIDE DEF new, copied, a, b
<1>13. Added(E, disk', c, new)
  BY <1>1, <1>4, <1>11, <1>12 DEF Added
<1>14. c \notin io.todo /\ Fresh(io, c)
  <2>1. ~(c <= stack[1]) BY <1>3, <1>4
  <2> QED BY <1>2, <2>1 DEF Fresh
<1>15. /\ IsDisk(disk') /\ SumShut(disk') = closedBlocks(new.files) + SumShut(E)
       /\ SumShut(E) \in Int /\ Found(disk', io) = Found(E, io)
       /\ CacheOK(E, cache) => CacheOK(disk', cache)
       /\ ListsOK(E, cache, io) => ListsOK(disk', cache, io)
  BY <1>11, <1>13, <1>14, AddedIs
<1>16. u \in Seq(Nat) BY <1>6 DEF Within
<1>17. StackOK(stack', io.todo) /\ stack' \in Seq(Nat) /\ stack' # <<>> /\ stack'[1] = c
  <2>1. Below(u, c) BY <1>8 DEF Below
  <2>2. Topped(<<c>> \o u, c, io.todo)
    BY <1>4, <1>9, <1>14, <1>16, <2>1, AddedStack
  <2>3. stack' = <<c>> \o u BY <1>1
  <2>4. Topped(stack', c, io.todo) BY <2>2, <2>3, Zenon
  <2> QED BY <2>4 DEF Topped
<1>18. Newest(disk', stack', main, io)
  <2>1. \A x \in Int : x <= stack[1] => x <= c BY <1>3, <1>4
  <2>2. \A x \in DOMAIN disk' : x <= c
    <3>1. \A x \in DOMAIN disk : x \in Int BY <1>0 DEF IsDisk
    <3>2. DOMAIN disk' = DOMAIN disk \union {c} BY <1>1
    <3>3. c <= c BY <1>4
    <3> QED BY <1>2, <2>1, <3>1, <3>2, <3>3
  <2>3. \A x \in io.todo : x <= c
    <3>1. \A x \in io.todo : x \in Int BY <1>0 DEF Typed, IoStates
    <3> QED BY <1>2, <2>1, <3>1
  <2>4. \A i \in 1 .. Len(io.conts) : io.conts[i] <= c
    <3>1. io.conts \in Seq(Nat) BY <1>0 DEF Typed, IoStates
    <3>2. \A i \in 1 .. Len(io.conts) : io.conts[i] \in Int BY <3>1
    <3> QED BY <1>2, <2>1, <3>2
  <2> QED BY <1>17, <2>2, <2>3, <2>4 DEF Newest
<1>22. used' \in Int /\ scanned \in Int /\ purged \in Int /\ missed \in Int /\ b \in Int
       /\ missed' = missed + a + b /\ missed' \in Int /\ a \in Int
  <2>1. missed \in Int /\ scanned \in Int /\ purged \in Int BY <1>0 DEF Typed
  <2>2. missed' = missed + a + b BY <1>1 DEF a, b
  <2> QED BY <1>10, <1>12, <2>1, <2>2
<1>19. /\ IsDisk(disk') /\ stack' \in Seq(Nat) /\ IsCache(cache') /\ io' \in IoStates
       /\ used' \in Int /\ maxBlocks' \in Int /\ scanned' \in Int /\ purged' \in Int
       /\ missed' \in Int /\ ioActive' \in BOOLEAN /\ exact' \in BOOLEAN
  BY <1>0, <1>1, <1>15, <1>17, <1>22 DEF Typed
<1>20. exact => Account(disk', io, used', scanned, purged, missed')
  <2> SUFFICES ASSUME exact
               PROVE  used' + scanned + Found(disk', io) - purged = SumShut(disk') - missed'
    BY DEF Account
  <2>1. used' + scanned + Found(E, io) - purged = SumShut(E) - (missed + a)
    BY <1>10 DEF Account
  <2>2. Found(E, io) \in Int BY <1>11, FoundInt
  <2>3. SumShut(disk') = b + SumShut(E) BY <1>12, <1>15
  <2> QED BY <1>15, <1>22, <2>1, <2>2, <2>3
<1>21. /\ StackOK(stack', io'.todo) /\ Newest(disk', stack', main', io')
       /\ ListsOK(disk', cache', io') /\ (exact' => CacheOK(disk', cache'))
       /\ Prot(io'.pc, startFd', completeFd', ioActive', main')
       /\ (exact' => Account(disk', io', used', scanned', purged', missed'))
  BY <1>0, <1>1, <1>10, <1>15, <1>17, <1>18, <1>20
<1> QED BY <1>19, <1>21, Gather

-----------------------------------------------------------------------------
(* The I/O thread.                                                          *)

LEMMA IoIs ==
  ASSUME Typed
  PROVE  /\ io.pc \in Steps /\ io.left \in Int /\ io.todo \in SUBSET Nat
         /\ io.days \in Seq(Nat) /\ io.conts \in Seq(Nat) /\ io.last \in BOOLEAN
         /\ io \in IoStates
BY DEF Typed, IoStates

LEMMA SameTodo ==
  \A D, T, R : T \intersect DOMAIN D = R \intersect DOMAIN D => SumAll(D, T) = SumAll(D, R)
BY DEF SumAll, AllIn

\* The files a scan refuses, the other data files, and the files apart.
LEMMA ScanSums ==
  ASSUME NEW fs \in Files, NEW refused \in SUBSET OfKind(fs, "run")
  PROVE  LET data == OfKind(fs, "run")
         IN  /\ BlocksOf(fs, refused) \in Int /\ BlocksOf(fs, data \ refused) \in Int
             /\ BlocksOf(fs, Apart(fs)) \in Int /\ Blocks(BytesOf(fs, Apart(fs))) \in Int
             /\ FileBlocks(fs) = (BlocksOf(fs, data \ refused) + BlocksOf(fs, refused))
                                   + BlocksOf(fs, Apart(fs))
<1> DEFINE data == OfKind(fs, "run")
           taken == data \ refused
           apart == Apart(fs)
           D == DOMAIN fs
           f == AllOf(fs)
<1>1. IsFiniteSet(D) /\ \A i \in D : /\ fs[i].size \in Int /\ Blocks(fs[i].size) \in Int
                                     /\ f[i] = Blocks(fs[i].size)
  BY FilesAre DEF AllOf
<1>2. /\ data \subseteq D /\ apart \subseteq D /\ refused \subseteq D /\ taken \subseteq D
      /\ taken \union refused = data /\ taken \intersect refused = {}
      /\ data \union apart = D /\ data \intersect apart = {}
  BY DEF OfKind, Apart
<1> HIDE DEF data, taken, apart, D, f
<1>3. ASSUME NEW S \in SUBSET D
      PROVE  /\ IsFiniteSet(S) /\ BlocksOf(fs, S) = SumOn(f, S) /\ SumOn(f, S) \in Int
             /\ Blocks(BytesOf(fs, S)) \in Int
  <2> DEFINE h == [i \in S |-> Blocks(fs[i].size)]
             k == [i \in S |-> fs[i].size]
  <2>1. IsFiniteSet(S) BY <1>1, FS_Subset
  <2>2. BlocksOf(fs, S) = SumOn(h, S)
    <3>1. BlocksOf(fs, S) = SumFunction(h) /\ DOMAIN h = S BY DEF BlocksOf
    <3> HIDE DEF h
    <3> QED BY <3>1, SumOf
  <2>3. BytesOf(fs, S) = SumOn(k, S)
    <3>1. BytesOf(fs, S) = SumFunction(k) /\ DOMAIN k = S BY DEF BytesOf
    <3> HIDE DEF k
    <3> QED BY <3>1, SumOf
  <2>4. \A i \in S : h[i] = f[i] /\ f[i] \in Int /\ k[i] \in Int BY <1>1
  <2> HIDE DEF h, k
  <2>5. SumOn(h, S) = SumOn(f, S) BY <2>1, <2>4, SumSame
  <2>6. SumOn(f, S) \in Int /\ SumOn(k, S) \in Int BY <2>1, <2>4, SumInt
  <2> QED BY <2>1, <2>2, <2>3, <2>5, <2>6, BlocksInt
<1>4. \A i \in D : f[i] \in Int BY <1>1
<1>5. SumOn(f, data) = SumOn(f, taken) + SumOn(f, refused)
  <2>1. \A i \in taken \union refused : f[i] \in Int BY <1>2, <1>4
  <2>2. SumOn(f, taken \union refused) = SumOn(f, taken) + SumOn(f, refused)
    BY <1>2, <1>3, <2>1, SumParts
  <2> QED BY <1>2, <2>2
<1>6. SumOn(f, D) = SumOn(f, data) + SumOn(f, apart)
  <2>1. \A i \in data \union apart : f[i] \in Int BY <1>2, <1>4
  <2>2. SumOn(f, data \union apart) = SumOn(f, data) + SumOn(f, apart)
    BY <1>2, <1>3, <2>1, SumParts
  <2> QED BY <1>2, <2>2
<1>7. FileBlocks(fs) = SumOn(f, D) BY SumsAre DEF f, D
<1>8. /\ BlocksOf(fs, refused) = SumOn(f, refused) /\ BlocksOf(fs, taken) = SumOn(f, taken)
      /\ BlocksOf(fs, apart) = SumOn(f, apart)
      /\ SumOn(f, refused) \in Int /\ SumOn(f, taken) \in Int /\ SumOn(f, apart) \in Int
      /\ Blocks(BytesOf(fs, apart)) \in Int
  BY <1>2, <1>3
<1> QED BY <1>5, <1>6, <1>7, <1>8 DEF data, taken, apart

LEMMA ScanDailyStep ==
  ASSUME PoolInv, NEW bad \in BOOLEAN, scanDaily(bad)
  PROVE  PoolInv'
<1>0. Typed /\ IsDisk(disk) /\ StackOK(stack, io.todo)
      /\ Newest(disk, stack, main, io) /\ ListsOK(disk, cache, io)
      /\ (exact => CacheOK(disk, cache))
      /\ Prot(io.pc, startFd, completeFd, ioActive, main)
      /\ (exact => Account(disk, io, used, scanned, purged, missed))
  BY Parts
<1> DEFINE c == Min(io.todo)
           T == io.todo \ {c}
           fs == FilesOf(c)
<1>1. /\ stack' = stack /\ maxBlocks' = maxBlocks /\ main' = main /\ used' = used
      /\ io' = [io EXCEPT !.todo = T] /\ cache' = cache /\ completeFd' = completeFd
      /\ purged' = purged /\ exact' = exact /\ ioActive' = ioActive /\ startFd' = startFd
      /\ io.pc = "scan" /\ io.todo # {}
  BY DEF scanDaily, mainVars, Runs, At
<1>2. \/ c \notin DOMAIN disk /\ disk' = disk /\ scanned' = scanned /\ missed' = missed
      \/ /\ c \in DOMAIN disk
         /\ \E refused \in SUBSET OfKind(fs, "run") :
              /\ disk' = [disk EXCEPT ![c] = validate(@, bad \/ refused # {})]
              /\ scanned' = scanned + scan(disk'[c], refused).blocks
              /\ missed' = missed + BlocksOf(fs, refused)
                             + (BlocksOf(fs, Apart(fs)) - Blocks(BytesOf(fs, Apart(fs))))
  BY DEF scanDaily
<1>3. /\ io \in IoStates /\ io.todo \in SUBSET Nat
  BY <1>0, IoIs
<1>4. c \in io.todo BY <1>1, <1>3, MinIn
<1> HIDE DEF c, T, fs
<1>5. T \subseteq io.todo /\ T \in SUBSET Nat /\ T = io.todo \ {c} BY <1>3 DEF T
<1>6. /\ io' \in IoStates /\ io'.pc = "scan" /\ io'.todo = T /\ io'.days = io.days
      /\ io'.conts = io.conts
  BY <1>1, <1>3, <1>5 DEF IoStates
<1>7. used \in Int /\ scanned \in Int /\ purged \in Int /\ missed \in Int BY <1>0 DEF Typed
<1>8. /\ Kept(disk, disk') /\ scanned' \in Int /\ missed' \in Int
      /\ \A x \in DOMAIN disk : disk'[x].files = disk[x].files
      /\ scanned' + SumAll(disk', T) + missed' = scanned + SumAll(disk, io.todo) + missed
  <2>1. CASE c \notin DOMAIN disk
    <3>1. disk' = disk /\ scanned' = scanned /\ missed' = missed BY <1>2, <2>1
    <3>2. Kept(disk, disk') BY <1>0, <3>1 DEF Kept
    <3>3. T \intersect DOMAIN disk = io.todo \intersect DOMAIN disk BY <1>5, <2>1
    <3>4. SumAll(disk, T) = SumAll(disk, io.todo) BY <3>3, SameTodo
    <3> QED BY <1>7, <3>1, <3>2, <3>4
  <2>2. CASE c \in DOMAIN disk
    <3>1. PICK refused \in SUBSET OfKind(fs, "run") :
            /\ disk' = [disk EXCEPT ![c] = validate(@, bad \/ refused # {})]
            /\ scanned' = scanned + scan(disk'[c], refused).blocks
            /\ missed' = missed + BlocksOf(fs, refused)
                           + (BlocksOf(fs, Apart(fs)) - Blocks(BytesOf(fs, Apart(fs))))
      BY <1>2, <2>2
    <3> DEFINE k == validate(disk[c], bad \/ refused # {})
    <3>2. disk[c] \in Container BY <1>0, <2>2 DEF IsDisk
    <3>3. k \in Container /\ k.files = disk[c].files /\ k.day = disk[c].day
      BY <3>2 DEF validate, Container, Marks
    <3>13. disk' = [disk EXCEPT ![c] = k] BY <3>1
    <3> HIDE DEF k
    <3>4. DOMAIN disk' = DOMAIN disk /\ disk'[c] = k
          /\ \A x \in DOMAIN disk : x # c => disk'[x] = disk[x]
      BY <2>2, <3>13
    <3>5. \A x \in DOMAIN disk : /\ disk'[x] \in Container /\ disk'[x].day = disk[x].day
                                 /\ disk'[x].files = disk[x].files
      BY <1>0, <3>3, <3>4 DEF IsDisk
    <3>6. Kept(disk, disk') BY <1>0, <3>4, <3>5 DEF Kept, IsDisk
    <3>14. fs = disk[c].files /\ fs \in Files BY <1>0, <2>2, InPool DEF fs, FilesOf
    <3> DEFINE b == FileBlocks(fs)
               r == BlocksOf(fs, OfKind(fs, "run") \ refused)
               s == BlocksOf(fs, refused)
               a == BlocksOf(fs, Apart(fs))
               y == Blocks(BytesOf(fs, Apart(fs)))
    <3>7. scanned' = scanned + (r + y) /\ missed' = missed + s + (a - y)
      <4>1. disk'[c].files = fs BY <2>2, <3>5, <3>14
      <4>2. scan(disk'[c], refused).blocks = r + y BY <4>1 DEF scan
      <4> QED BY <3>1, <4>2
    <3>8. /\ r \in Int /\ s \in Int /\ a \in Int /\ y \in Int /\ b = (r + s) + a
      BY <3>14, ScanSums
    <3>9. SumAll(disk, io.todo) = b + SumAll(disk, T)
      BY <1>0, <1>4, <1>5, <2>2, <3>14, OutOfAll
    <3>10. SumAll(disk', T) = SumAll(disk, T) BY <1>0, <3>4, <3>5, SameAll
    <3>11. SumAll(disk, T) \in Int BY <1>0, PoolInts
    <3> HIDE DEF b, r, s, a, y
    <3>12. /\ scanned' \in Int /\ missed' \in Int
           /\ scanned' + SumAll(disk', T) + missed' = scanned + SumAll(disk, io.todo) + missed
      BY <1>7, <3>7, <3>8, <3>9, <3>10, <3>11
    <3> QED BY <3>5, <3>6, <3>12
  <2> QED BY <2>1, <2>2
<1>9. IsDisk(disk') /\ DOMAIN disk' = DOMAIN disk BY <1>8 DEF Kept
<1>10. exact' => Account(disk', io', used', scanned', purged', missed')
  <2> SUFFICES ASSUME exact
               PROVE  used' + scanned' + Found(disk', io') - purged' = SumShut(disk') - missed'
    BY <1>1 DEF Account
  <2>1. used + scanned + Found(disk, io) - purged = SumShut(disk) - missed
    BY <1>0 DEF Account
  <2>2. SumShut(disk') = SumShut(disk) BY <1>0, <1>8, <1>9, SameShut
  <2>3. Found(disk', io') = SumAll(disk', T) /\ Found(disk, io) = SumAll(disk, io.todo)
    BY <1>1, <1>6 DEF Found
  <2>4. SumAll(disk', T) \in Int /\ SumAll(disk, io.todo) \in Int /\ SumShut(disk) \in Int
    BY <1>0, <1>9, PoolInts
  <2> DEFINE A == SumAll(disk', T)
             B == SumAll(disk, io.todo)
             S == SumShut(disk)
             t == scanned'
             n == missed'
  <2>5. /\ A \in Int /\ B \in Int /\ S \in Int /\ t \in Int /\ n \in Int
        /\ used + scanned + B - purged = S - missed
        /\ t + A + n = scanned + B + missed
    BY <1>8, <2>1, <2>3, <2>4
  <2> HIDE DEF A, B, S, t, n
  <2>6. used + t + A - purged = S - n BY <1>7, <2>5, Scanned
  <2>7. Found(disk', io') = A /\ SumShut(disk') = S BY <2>2, <2>3 DEF A, S
  <2> QED BY <1>1, <2>6, <2>7 DEF t, n
<1>11. StackOK(stack', io'.todo)
  BY <1>0, <1>1, <1>5, <1>6 DEF StackOK
<1>12. Newest(disk', stack', main', io')
  BY <1>0, <1>1, <1>5, <1>6, <1>9 DEF Newest
<1>13. ListsOK(disk', cache', io') BY <1>0, <1>1, <1>6 DEF ListsOK
<1>14. exact' => CacheOK(disk', cache') BY <1>0, <1>1, <1>8, KeptIs
<1>15. Prot(io'.pc, startFd', completeFd', ioActive', main')
  BY <1>0, <1>1, <1>6
<1>16. /\ IsDisk(disk') /\ stack' \in Seq(Nat) /\ IsCache(cache') /\ io' \in IoStates
       /\ used' \in Int /\ maxBlocks' \in Int /\ scanned' \in Int /\ purged' \in Int
       /\ missed' \in Int /\ ioActive' \in BOOLEAN /\ exact' \in BOOLEAN
  BY <1>0, <1>1, <1>6, <1>8, <1>9 DEF Typed
<1> QED BY <1>10, <1>11, <1>12, <1>13, <1>14, <1>15, <1>16, Gather

\* A step of the I/O thread that leaves the pool and the main thread alone.
LEMMA ThreadStep ==
  ASSUME PoolInv, disk' = disk, UNCHANGED mainVars, UNCHANGED <<ioActive, scanned>>,
         exact' = exact, missed' = missed, io' \in IoStates, purged' \in Int, IsCache(cache'),
         io'.todo = io.todo, Newest(disk, stack, main, io'),
         ListsOK(disk, cache', io'), exact => CacheOK(disk, cache'),
         Prot(io'.pc, startFd', completeFd', ioActive, main),
         exact => Found(disk, io') = Found(disk, io) /\ purged' = purged
  PROVE  PoolInv'
<1>0. Typed /\ StackOK(stack, io.todo)
      /\ (exact => Account(disk, io, used, scanned, purged, missed))
  BY Parts
<1>1. /\ stack' = stack /\ used' = used /\ maxBlocks' = maxBlocks /\ main' = main
      /\ ioActive' = ioActive /\ scanned' = scanned
  BY DEF mainVars
<1>2. /\ IsDisk(disk') /\ stack' \in Seq(Nat) /\ IsCache(cache') /\ io' \in IoStates
      /\ used' \in Int /\ maxBlocks' \in Int /\ scanned' \in Int /\ purged' \in Int
      /\ missed' \in Int /\ ioActive' \in BOOLEAN /\ exact' \in BOOLEAN
  BY <1>0, <1>1 DEF Typed
<1>3. exact' => Account(disk', io', used', scanned', purged', missed')
  BY <1>0, <1>1 DEF Account
<1>4. /\ StackOK(stack', io'.todo) /\ Newest(disk', stack', main', io')
      /\ ListsOK(disk', cache', io') /\ (exact' => CacheOK(disk', cache'))
      /\ Prot(io'.pc, startFd', completeFd', ioActive', main')
  BY <1>0, <1>1
<1> QED BY <1>2, <1>3, <1>4, Gather

LEMMA ScanStorageStep ==
  ASSUME PoolInv, scanStorage
  PROVE  PoolInv'
<1>0. Typed /\ Newest(disk, stack, main, io) /\ ListsOK(disk, cache, io)
      /\ (exact => CacheOK(disk, cache))
      /\ Prot(io.pc, startFd, completeFd, ioActive, main)
  BY Parts
<1>1. /\ disk' = disk /\ UNCHANGED mainVars /\ UNCHANGED <<ioActive, scanned>>
      /\ startFd' = startFd /\ purged' = purged /\ cache' = cache /\ exact' = exact
      /\ missed' = missed
      /\ io.pc = "scan" /\ io.todo = {} /\ io' = [io EXCEPT !.pc = "idle"]
      /\ completeFd' = completeFd + 1003
  BY DEF scanStorage, Runs, At, signalComplete, IOCMD_INITIAL
<1>2. /\ io' \in IoStates /\ io'.pc = "idle" /\ io'.todo = io.todo /\ io'.days = io.days
      /\ io'.conts = io.conts
  BY <1>0, <1>1, IoIs DEF IoStates, Steps
<1>3. Newest(disk, stack, main, io') BY <1>0, <1>2 DEF Newest
<1>4. ListsOK(disk, cache', io') BY <1>0, <1>1, <1>2 DEF ListsOK
<1>5. completeFd = 0 /\ startFd = 0 BY <1>0, <1>1 DEF Prot
<1>6. Prot(io'.pc, startFd', completeFd', ioActive, main)
  BY <1>0, <1>1, <1>2, <1>5 DEF Prot
<1>7. Found(disk, io') = Found(disk, io)
  <2>1. {} \intersect DOMAIN disk = {} OBVIOUS
  <2>2. SumAll(disk, {}) = 0 BY <2>1, SumNone DEF SumAll
  <2> QED BY <1>1, <1>2, <2>2 DEF Found
<1>8. purged' \in Int /\ IsCache(cache') BY <1>0, <1>1 DEF Typed
<1> QED BY <1>0, <1>1, <1>2, <1>3, <1>4, <1>6, <1>7, <1>8, ThreadStep

LEMMA PurgeDataStep ==
  ASSUME PoolInv, purgeData
  PROVE  PoolInv'
<1>0. Typed /\ Newest(disk, stack, main, io) /\ ListsOK(disk, cache, io)
      /\ (exact => CacheOK(disk, cache))
      /\ Prot(io.pc, startFd, completeFd, ioActive, main)
  BY Parts
<1>1. /\ disk' = disk /\ UNCHANGED mainVars /\ UNCHANGED <<ioActive, scanned>>
      /\ startFd' = startFd /\ purged' = purged /\ cache' = cache /\ exact' = exact
      /\ missed' = missed
      /\ io.pc = "days" /\ io' = [io EXCEPT !.pc = "idle", !.left = 0, !.days = <<>>]
      /\ completeFd' = completeFd + 1002
  BY DEF purgeData, Runs, At, signalComplete, IOCMD_DONE
<1>2. /\ io' \in IoStates /\ io'.pc = "idle" /\ io'.todo = io.todo /\ io'.days = <<>>
      /\ io'.conts = io.conts
  <2> DEFINE q == <<>>
             z == 0
  <2>1. q \in Seq(Nat) /\ io \in IoStates /\ z \in Int BY <1>0, IoIs
  <2>2. io' = [io EXCEPT !.pc = "idle", !.left = z, !.days = q] BY <1>1
  <2> HIDE DEF q, z
  <2>3. /\ io' \in IoStates /\ io'.pc = "idle" /\ io'.todo = io.todo /\ io'.days = q
        /\ io'.conts = io.conts
    BY <2>1, <2>2 DEF IoStates, Steps
  <2> QED BY <2>3 DEF q
<1>3. Newest(disk, stack, main, io') BY <1>0, <1>2 DEF Newest
<1>4. ListsOK(disk, cache', io') BY <1>2 DEF ListsOK
<1>5. completeFd = 0 /\ startFd = 0 BY <1>0, <1>1 DEF Prot
<1>6. Prot(io'.pc, startFd', completeFd', ioActive, main)
  BY <1>0, <1>1, <1>2, <1>5 DEF Prot
<1>7. Found(disk, io') = Found(disk, io) BY <1>1, <1>2 DEF Found
<1>8. purged' \in Int /\ IsCache(cache') BY <1>0, <1>1 DEF Typed
<1> QED BY <1>0, <1>1, <1>2, <1>3, <1>4, <1>6, <1>7, <1>8, ThreadStep

\* What populateDailyCache() finds.
LEMMA PopulateIs ==
  ASSUME IsDisk(disk)
  PROVE  IsCache(populateDailyCache) /\ CacheOK(disk, populateDailyCache)
<1> DEFINE C == populateDailyCache
           T == {disk[c].day : c \in DOMAIN disk}
<1>1. DOMAIN C = T /\ \A d \in T : C[d] = getDirSize(d) BY DEF populateDailyCache
<1>2. IsFiniteSet(T) BY DaysFinite DEF IsDisk
<1>3. T \subseteq Nat BY InPool
<1>4. \A d \in T : /\ DOMAIN getDirSize(d) = InDay(d)
                   /\ \A c \in InDay(d) : getDirSize(d)[c] = Bytes(disk[c].files)
  BY DEF getDirSize
<1>5. \A d : /\ InDay(d) \subseteq DOMAIN disk /\ IsFiniteSet(InDay(d))
             /\ \A c \in InDay(d) : disk[c].day = d
  BY FS_Subset DEF InDay, IsDisk
<1>6. \A c \in DOMAIN disk : Bytes(disk[c].files) \in Int BY InPool, OpenSizeInt
<1> HIDE DEF C, T
<1>9. ASSUME NEW d \in T
      PROVE  IsFiniteSet(DOMAIN C[d]) /\ \A c \in DOMAIN C[d] : C[d][c] \in Int
  <2> DEFINE s == getDirSize(d)
             S == InDay(d)
  <2>1. /\ C[d] = s /\ DOMAIN s = S /\ IsFiniteSet(S) /\ S \subseteq DOMAIN disk
        /\ \A c \in S : s[c] = Bytes(disk[c].files)
    BY <1>1, <1>4, <1>5
  <2> HIDE DEF s, S
  <2>2. \A c \in S : s[c] \in Int BY <1>6, <2>1
  <2> QED BY <2>1, <2>2
<1>7. IsCache(C) BY <1>1, <1>2, <1>3, <1>9 DEF IsCache
<1>8. CacheOK(disk, C) BY <1>1, <1>4, <1>5 DEF CacheOK
<1> QED BY <1>7, <1>8 DEF C

LEMMA CommandStep ==
  ASSUME PoolInv, backgroundIo
  PROVE  PoolInv'
<1>0. Typed /\ Newest(disk, stack, main, io) /\ ListsOK(disk, cache, io)
      /\ (exact => CacheOK(disk, cache)) /\ IsDisk(disk)
      /\ Prot(io.pc, startFd, completeFd, ioActive, main)
  BY Parts
<1>1. /\ disk' = disk /\ UNCHANGED mainVars /\ UNCHANGED <<ioActive, scanned>>
      /\ startFd' = 0 /\ purged' = purged /\ exact' = exact /\ missed' = missed
      /\ io.pc = "idle" /\ startFd # 0
  BY DEF backgroundIo, Runs, At
<1>2. completeFd = 0 /\ startFd \in Int /\ (main = "up" => ioActive)
      /\ (startFd = 1001 => main # "up")
  BY <1>0, <1>1 DEF Prot
<1>3. purged' \in Int /\ IsCache(cache) /\ io \in IoStates BY <1>0, <1>1 DEF Typed
<1>4. CASE startFd = 1001
  <2>1. /\ io' = [io EXCEPT !.pc = "ended"] /\ completeFd' = completeFd + 1002
        /\ cache' = cache
    BY <1>4 DEF backgroundIo, IOCMD_SHUTDOWN, IOCMD_DONE, signalComplete
  <2>2. /\ io' \in IoStates /\ io'.pc = "ended" /\ io'.todo = io.todo /\ io'.days = io.days
        /\ io'.conts = io.conts
    BY <1>3, <2>1 DEF IoStates, Steps
  <2>3. Newest(disk, stack, main, io') BY <1>0, <2>2 DEF Newest
  <2>4. ListsOK(disk, cache', io') BY <1>0, <2>1, <2>2 DEF ListsOK
  <2>5. Prot(io'.pc, startFd', completeFd', ioActive, main)
    BY <1>1, <1>2, <1>4, <2>1, <2>2 DEF Prot
  <2>6. Found(disk, io') = Found(disk, io) BY <1>1, <2>2 DEF Found
  <2> QED BY <1>0, <1>1, <1>3, <2>1, <2>2, <2>3, <2>4, <2>5, <2>6, ThreadStep
<1>5. CASE startFd # 1001
  <2> DEFINE q == InOrder(DOMAIN cache')
  <2>1. /\ cache' = IF exhausted \/ DOMAIN cache = {} THEN populateDailyCache ELSE cache
        /\ io' = [io EXCEPT !.pc = "days", !.left = startFd, !.days = q]
        /\ completeFd' = completeFd
    BY <1>5 DEF backgroundIo, IOCMD_SHUTDOWN
  <2>2. IsCache(cache') /\ (exact => CacheOK(disk, cache'))
    BY <1>0, <1>3, <2>1, PopulateIs
  <2>3. /\ q \in Seq(Nat) /\ \A i \in 1 .. Len(q) : q[i] \in DOMAIN cache'
        /\ \A i, j \in 1 .. Len(q) : i < j => q[i] < q[j]
    <3> DEFINE S == DOMAIN cache'
    <3>1. S \in SUBSET Nat /\ IsFiniteSet(S) BY <2>2 DEF IsCache
    <3>2. q = InOrder(S) OBVIOUS
    <3> HIDE DEF S, q
    <3>3. /\ q \in Seq(Nat) /\ \A i \in 1 .. Len(q) : q[i] \in S
          /\ \A i, j \in 1 .. Len(q) : i < j => q[i] < q[j]
      BY <3>1, <3>2, OrderedIs
    <3> QED BY <3>3 DEF S
  <2> HIDE DEF q
  <2>4. /\ io' \in IoStates /\ io'.pc = "days" /\ io'.todo = io.todo /\ io'.days = q
        /\ io'.conts = io.conts
    BY <1>2, <1>3, <2>1, <2>3 DEF IoStates, Steps
  <2>5. Newest(disk, stack, main, io') BY <1>0, <2>4 DEF Newest
  <2>6. ListsOK(disk, cache', io') BY <2>3, <2>4 DEF ListsOK
  <2>7. Prot(io'.pc, startFd', completeFd', ioActive, main)
    BY <1>1, <1>2, <2>1, <2>4 DEF Prot
  <2>8. Found(disk, io') = Found(disk, io) BY <1>1, <2>4 DEF Found
  <2> QED BY <1>0, <1>1, <1>3, <2>2, <2>4, <2>5, <2>6, <2>7, <2>8, ThreadStep
<1> QED BY <1>4, <1>5


\* The cache loses a day, or containers of a day.
LEMMA WithoutDay ==
  ASSUME NEW C, IsCache(C), NEW d, NEW D
  PROVE  /\ IsCache(Without(C, {d})) /\ DOMAIN Without(C, {d}) = DOMAIN C \ {d}
         /\ CacheOK(D, C) => CacheOK(D, Without(C, {d}))
<1> DEFINE E == Without(C, {d})
<1>1. DOMAIN E = DOMAIN C \ {d} /\ \A x \in DOMAIN E : E[x] = C[x] BY DEF Without
<1> HIDE DEF E
<1>2. IsFiniteSet(DOMAIN E) BY <1>1, FS_Subset DEF IsCache
<1>3. IsCache(E) BY <1>1, <1>2 DEF IsCache
<1>4. CacheOK(D, C) => CacheOK(D, E) BY <1>1 DEF CacheOK
<1> QED BY <1>1, <1>3, <1>4 DEF E

\* The cache E is C without the containers S of day d.
Forgotten(C, D, d, S, E) ==
  /\ IsCache(E) /\ DOMAIN E = DOMAIN C
  /\ DOMAIN E[d] = DOMAIN C[d] \ S
  /\ \A x \in DOMAIN C : x # d => E[x] = C[x]
  /\ CacheOK(D, C) => CacheOK(D, E)

LEMMA WithoutConts ==
  ASSUME NEW C, IsCache(C), NEW d \in DOMAIN C, NEW S, NEW D, NEW E,
         E = [C EXCEPT ![d] = Without(@, S)]
  PROVE  Forgotten(C, D, d, S, E)
<1> DEFINE w == Without(C[d], S)
<1>0. E = [C EXCEPT ![d] = w] OBVIOUS
<1>1. DOMAIN w = DOMAIN C[d] \ S /\ \A x \in DOMAIN w : w[x] = C[d][x] BY DEF Without
<1> HIDE DEF w
<1>2. DOMAIN E = DOMAIN C /\ E[d] = w /\ \A x \in DOMAIN C : x # d => E[x] = C[x]
  BY <1>0
<1>3. IsFiniteSet(DOMAIN C[d]) /\ \A c \in DOMAIN C[d] : C[d][c] \in Int BY DEF IsCache
<1>4. IsFiniteSet(DOMAIN w) /\ \A c \in DOMAIN w : w[c] \in Int BY <1>1, <1>3, FS_Subset
<1>5. IsCache(E) BY <1>2, <1>4 DEF IsCache
<1>6. CacheOK(D, C) => CacheOK(D, E) BY <1>1, <1>2 DEF CacheOK
<1> QED BY <1>1, <1>2, <1>5, <1>6, Zenon DEF Forgotten

\* The list of days without its first.
LEMMA NextDays ==
  ASSUME NEW q \in Seq(Nat), q # <<>>
  PROVE  /\ Tail(q) \in Seq(Nat) /\ Len(q) \in Nat /\ Len(q) >= 1 /\ Head(q) = q[1]
         /\ Len(Tail(q)) = Len(q) - 1
         /\ \A i \in 1 .. Len(Tail(q)) : i + 1 \in 1 .. Len(q) /\ Tail(q)[i] = q[i + 1]
<1>1. Len(q) \in Nat /\ Len(q) # 0 BY EmptySeq
<1>2. /\ Head(q) = q[1] /\ Tail(q) \in Seq(Nat) /\ Len(Tail(q)) = Len(q) - 1
      /\ \A i \in 1 .. Len(Tail(q)) : Tail(q)[i] = q[i + 1]
  BY HeadTailProperties
<1> DEFINE n == Len(q)
           m == Len(Tail(q))
<1>3. n \in Nat /\ n # 0 /\ m = n - 1 BY <1>1, <1>2
<1> HIDE DEF n, m
<1>4. n >= 1 /\ \A i \in 1 .. m : i + 1 \in 1 .. n BY <1>3
<1> QED BY <1>1, <1>2, <1>4 DEF n, m

Listed(q, C) == /\ \A i \in 1 .. Len(q) : q[i] \in DOMAIN C
                /\ \A i, j \in 1 .. Len(q) : i < j => q[i] < q[j]

LEMMA ListedTail ==
  ASSUME NEW q \in Seq(Nat), q # <<>>, NEW C, Listed(q, C), NEW E,
         DOMAIN C \ {q[1]} \subseteq DOMAIN E
  PROVE  Listed(Tail(q), E)
<1> DEFINE n == Len(q)
           t == Tail(q)
           m == Len(t)
<1>1. /\ n \in Nat /\ n >= 1
      /\ \A i \in 1 .. m : i + 1 \in 1 .. n /\ t[i] = q[i + 1]
  BY NextDays
<1>2. /\ \A i \in 1 .. n : q[i] \in DOMAIN C
      /\ \A i, j \in 1 .. n : i < j => q[i] < q[j]
  BY DEF Listed
<1>3. \A i \in 1 .. n : q[i] \in Nat OBVIOUS
<1> HIDE DEF n, t, m
<1>4. ASSUME NEW i \in 1 .. m PROVE t[i] \in DOMAIN E
  <2> DEFINE a == i + 1
  <2>1. a \in 1 .. n /\ t[i] = q[a] /\ 1 \in 1 .. n /\ 1 < a BY <1>1
  <2> HIDE DEF a
  <2>2. q[1] < q[a] /\ q[1] \in Nat /\ q[a] \in Nat BY <1>2, <1>3, <2>1
  <2>3. q[a] # q[1] BY <2>2
  <2> QED BY <1>2, <2>1, <2>3
<1>5. ASSUME NEW i \in 1 .. m, NEW j \in 1 .. m, i < j PROVE t[i] < t[j]
  <2> DEFINE a == i + 1
             b == j + 1
  <2>1. a \in 1 .. n /\ t[i] = q[a] /\ b \in 1 .. n /\ t[j] = q[b] /\ a < b BY <1>1, <1>5
  <2> HIDE DEF a, b
  <2> QED BY <1>2, <2>1
<1> QED BY <1>4, <1>5 DEF Listed, t, m

LEMMA EndDailyStep ==
  ASSUME PoolInv, EndDaily
  PROVE  PoolInv'
<1>0. Typed /\ Newest(disk, stack, main, io) /\ ListsOK(disk, cache, io)
      /\ (exact => CacheOK(disk, cache))
      /\ Prot(io.pc, startFd, completeFd, ioActive, main)
  BY Parts
<1> DEFINE d == Head(io.days)
           t == Tail(io.days)
           q == <<>>
<1>1. /\ disk' = disk /\ UNCHANGED mainVars /\ UNCHANGED <<ioActive, scanned>>
      /\ startFd' = startFd /\ completeFd' = completeFd /\ purged' = purged
      /\ exact' = exact /\ missed' = missed
      /\ io.pc = "conts" /\ io' = [io EXCEPT !.pc = "days", !.days = t, !.conts = q]
      /\ cache' = cache \/ cache' = Without(cache, {d})
  BY DEF EndDaily, Runs, At, sharedVars
<1>2. io \in IoStates /\ io.days \in Seq(Nat) /\ io.days # <<>> /\ Listed(io.days, cache)
      /\ IsCache(cache) /\ purged' \in Int
  BY <1>0, <1>1, IoIs DEF ListsOK, Listed, Typed
<1>3. t \in Seq(Nat) /\ d = io.days[1] BY <1>2, NextDays
<1>4. q \in Seq(Nat) /\ Len(q) = 0 OBVIOUS
<1> HIDE DEF d, t, q
<1>5. /\ io' \in IoStates /\ io'.pc = "days" /\ io'.todo = io.todo /\ io'.days = t
      /\ io'.conts = q
  BY <1>1, <1>2, <1>3, <1>4 DEF IoStates, Steps
<1>6. /\ IsCache(cache') /\ DOMAIN cache \ {d} \subseteq DOMAIN cache'
      /\ (exact => CacheOK(disk, cache'))
  <2> DEFINE w == Without(cache, {d})
  <2>1. IsCache(w) /\ DOMAIN w = DOMAIN cache \ {d} /\ (CacheOK(disk, cache) => CacheOK(disk, w))
    BY <1>2, WithoutDay
  <2>2. cache' = cache \/ cache' = w BY <1>1
  <2> HIDE DEF w
  <2> QED BY <1>0, <1>2, <2>1, <2>2
<1>7. Listed(t, cache') BY <1>2, <1>3, <1>6, ListedTail DEF t
<1>8. ListsOK(disk, cache', io') BY <1>5, <1>7 DEF ListsOK, Listed
<1>9. Newest(disk, stack, main, io') BY <1>0, <1>4, <1>5 DEF Newest
<1>10. Prot(io'.pc, startFd', completeFd', ioActive, main) BY <1>0, <1>1, <1>5 DEF Prot
<1>11. Found(disk, io') = Found(disk, io) BY <1>1, <1>5 DEF Found
<1> QED BY <1>1, <1>2, <1>5, <1>6, <1>8, <1>9, <1>10, <1>11, ThreadStep

\* What somebody else deleted of a day.
LEMMA GoneIs ==
  ASSUME IsCache(cache), NEW d \in DOMAIN cache
  PROVE  Recovered(d, Gone(d)) \in Int /\ (CacheOK(disk, cache) => Recovered(d, Gone(d)) = 0)
<1> DEFINE S == Gone(d)
           f == [c \in S |-> Blocks(cache[d][c])]
<1>1. S \subseteq DOMAIN cache[d] BY DEF Gone
<1>2. IsFiniteSet(S) /\ \A c \in S : cache[d][c] \in Int BY <1>1, FS_Subset DEF IsCache
<1>3. CacheOK(disk, cache) => S = {} BY DEF CacheOK, Gone, InDay
<1> HIDE DEF S
<1>4. \A c \in S : f[c] \in Int BY <1>2, BlocksInt
<1>5. DOMAIN f = S OBVIOUS
<1>6. Recovered(d, S) = SumFunction(f) BY DEF Recovered
<1> HIDE DEF f
<1>7. Recovered(d, S) = SumOn(f, S) BY <1>5, <1>6, SumOf
<1>8. SumOn(f, S) \in Int BY <1>2, <1>4, SumInt
<1>9. S = {} => SumOn(f, S) = 0 BY SumNone
<1> QED BY <1>3, <1>7, <1>8, <1>9 DEF S

LEMMA PurgeDailyStep ==
  ASSUME PoolInv, purgeDaily
  PROVE  PoolInv'
<1>0. Typed /\ Newest(disk, stack, main, io) /\ ListsOK(disk, cache, io) /\ IsDisk(disk)
      /\ (exact => CacheOK(disk, cache))
      /\ Prot(io.pc, startFd, completeFd, ioActive, main)
  BY Parts
<1> DEFINE d == Head(io.days)
           n == Recovered(d, Gone(d))
           left == io.left - n
           t == Tail(io.days)
           q == InOrder(InDay(d))
           last == Len(io.days) = 1
<1>1. /\ disk' = disk /\ UNCHANGED mainVars /\ UNCHANGED <<ioActive, scanned>>
      /\ startFd' = startFd /\ completeFd' = completeFd /\ purged' = purged + n
      /\ exact' = exact /\ missed' = missed /\ io.pc = "days" /\ io.days # <<>>
  BY DEF purgeDaily, Runs, At
<1>2. \/ cache' = Without(cache, {d}) /\ io' = [io EXCEPT !.days = t, !.left = left]
      \/ /\ cache' = [cache EXCEPT ![d] = Without(@, Gone(d))]
         /\ io' = [io EXCEPT !.pc = "conts", !.left = left, !.conts = q, !.last = last]
  BY DEF purgeDaily
<1>3. io \in IoStates /\ io.days \in Seq(Nat) /\ Listed(io.days, cache) /\ io.left \in Int
      /\ IsCache(cache) /\ purged \in Int /\ missed \in Int
  BY <1>0, IoIs DEF ListsOK, Listed, Typed
<1>4. /\ t \in Seq(Nat) /\ d = io.days[1] /\ Len(io.days) \in Nat /\ Len(io.days) >= 1
      /\ last \in BOOLEAN
  BY <1>1, <1>3, NextDays
<1>5. d \in DOMAIN cache
  <2>1. 1 \in 1 .. Len(io.days) BY <1>4
  <2> QED BY <1>3, <1>4, <2>1 DEF Listed
<1>6. n \in Int /\ (exact => n = 0) BY <1>0, <1>3, <1>5, GoneIs
<1>7. q \in Seq(Nat) /\ \A i \in 1 .. Len(q) : q[i] \in DOMAIN disk /\ disk[q[i]].day = d
  <2> DEFINE S == InDay(d)
  <2>1. S \subseteq DOMAIN disk /\ \A c \in S : disk[c].day = d BY DEF InDay
  <2>2. S \in SUBSET Nat /\ IsFiniteSet(S) BY <1>0, <2>1, FS_Subset DEF IsDisk
  <2>3. q = InOrder(S) OBVIOUS
  <2> HIDE DEF S, q
  <2> QED BY <2>1, <2>2, <2>3, OrderedIs
<1>8. \A E : DOMAIN cache \ {d} \subseteq DOMAIN E => Listed(t, E)
  BY <1>1, <1>3, <1>4, ListedTail
<1> HIDE DEF n, d, t, q, last
<1>9. left \in Int /\ purged' \in Int /\ (exact => purged' = purged)
  BY <1>1, <1>3, <1>6
<1> HIDE DEF left
<1>10. CASE cache' = Without(cache, {d}) /\ io' = [io EXCEPT !.days = t, !.left = left]
  <2>1. /\ io' \in IoStates /\ io'.pc = "days" /\ io'.todo = io.todo /\ io'.days = t
        /\ io'.conts = io.conts
    BY <1>1, <1>3, <1>4, <1>9, <1>10 DEF IoStates, Steps
  <2>2. /\ IsCache(cache') /\ DOMAIN cache \ {d} \subseteq DOMAIN cache'
        /\ (exact => CacheOK(disk, cache'))
    BY <1>0, <1>3, <1>10, WithoutDay
  <2>3. Listed(t, cache') BY <1>8, <2>2
  <2>4. ListsOK(disk, cache', io') BY <2>1, <2>3 DEF ListsOK, Listed
  <2>5. Newest(disk, stack, main, io') BY <1>0, <2>1 DEF Newest
  <2>6. Prot(io'.pc, startFd', completeFd', ioActive, main) BY <1>0, <1>1, <2>1 DEF Prot
  <2>7. Found(disk, io') = Found(disk, io) BY <1>1, <2>1 DEF Found
  <2> QED BY <1>1, <1>9, <2>1, <2>2, <2>4, <2>5, <2>6, <2>7, ThreadStep
<1>11. CASE /\ cache' = [cache EXCEPT ![d] = Without(@, Gone(d))]
            /\ io' = [io EXCEPT !.pc = "conts", !.left = left, !.conts = q, !.last = last]
  <2>1. /\ io' \in IoStates /\ io'.pc = "conts" /\ io'.todo = io.todo /\ io'.days = io.days
        /\ io'.conts = q
    BY <1>1, <1>3, <1>4, <1>7, <1>9, <1>11 DEF IoStates, Steps
  <2>2. IsCache(cache') /\ DOMAIN cache' = DOMAIN cache /\ (exact => CacheOK(disk, cache'))
    <3>1. Forgotten(cache, disk, d, Gone(d), cache') BY <1>3, <1>5, <1>11, WithoutConts
    <3> QED BY <1>0, <3>1, Zenon DEF Forgotten
  <2>3. ListsOK(disk, cache', io')
    BY <1>1, <1>3, <1>4, <1>7, <2>1, <2>2 DEF ListsOK, Listed
  <2>4. Newest(disk, stack, main, io') BY <1>0, <1>7, <2>1 DEF Newest
  <2>5. Prot(io'.pc, startFd', completeFd', ioActive, main) BY <1>0, <1>1, <2>1 DEF Prot
  <2>6. Found(disk, io') = Found(disk, io) BY <1>1, <2>1 DEF Found
  <2> QED BY <1>1, <1>9, <2>1, <2>2, <2>3, <2>4, <2>5, <2>6, ThreadStep
<1> QED BY <1>2, <1>10, <1>11

\* The loop passes over a container.
LEMMA PassOver ==
  ASSUME PoolInv, io.pc = "conts", io.conts # <<>>, io' = [io EXCEPT !.conts = Tail(@)],
         UNCHANGED <<disk, cache, purged, exact>>, UNCHANGED mainVars, missed' = missed,
         UNCHANGED <<ioActive, scanned, startFd, completeFd>>
  PROVE  PoolInv'
<1>0. Typed /\ Newest(disk, stack, main, io) /\ ListsOK(disk, cache, io)
      /\ (exact => CacheOK(disk, cache))
      /\ Prot(io.pc, startFd, completeFd, ioActive, main)
  BY Parts
<1> DEFINE t == Tail(io.conts)
<1>1. io \in IoStates /\ io.conts \in Seq(Nat) /\ purged \in Int /\ missed \in Int /\ IsCache(cache)
  BY <1>0, IoIs DEF Typed
<1>2. /\ t \in Seq(Nat)
      /\ \A i \in 1 .. Len(t) : i + 1 \in 1 .. Len(io.conts) /\ t[i] = io.conts[i + 1]
  BY <1>1, NextDays
<1>3. io' = [io EXCEPT !.conts = t] OBVIOUS
<1> HIDE DEF t
<1>4. /\ io' \in IoStates /\ io'.pc = "conts" /\ io'.todo = io.todo /\ io'.days = io.days
      /\ io'.conts = t
  BY <1>1, <1>2, <1>3 DEF IoStates
<1>5. Newest(disk, stack, main, io') BY <1>0, <1>2, <1>4 DEF Newest
<1>6. ListsOK(disk, cache', io') BY <1>0, <1>2, <1>4 DEF ListsOK
<1>7. Prot(io'.pc, startFd', completeFd', ioActive, main) BY <1>0, <1>4
<1>8. Found(disk, io') = Found(disk, io) BY <1>4 DEF Found
<1> QED BY <1>0, <1>1, <1>4, <1>5, <1>6, <1>7, <1>8, ThreadStep

\* A container goes, or loses its first files: what is true of the pool then.
Lost(D, E, c, rest) ==
  \/ E = Without(D, {c}) /\ rest = <<>>
  \/ E = [D EXCEPT ![c].files = rest] /\ rest # <<>>

Reduced(D, E, c, rest) ==
  /\ IsDisk(E) /\ DOMAIN E \subseteq DOMAIN D /\ DOMAIN D \ {c} \subseteq DOMAIN E
  /\ \A x \in DOMAIN E : E[x].day = D[x].day /\ (x # c => E[x] = D[x])
  /\ c \in DOMAIN E => rest # <<>> /\ E[c].files = rest
  /\ SumShut(E) = SumShut(D) - (closedBlocks(D[c].files) - closedBlocks(rest))

LEMMA LostIs ==
  ASSUME NEW D, IsDisk(D), NEW c \in DOMAIN D, NEW rest \in Files, NEW E, Lost(D, E, c, rest)
  PROVE  Reduced(D, E, c, rest)
<1>1. /\ SumShut(D) \in Int /\ closedBlocks(D[c].files) \in Int /\ closedBlocks(rest) \in Int
  BY PoolInts, InPool, FileSums
<1>2. CASE E = Without(D, {c}) /\ rest = <<>>
  <2>1. DOMAIN E = DOMAIN D \ {c} /\ \A x \in DOMAIN E : E[x] = D[x] BY <1>2 DEF Without
  <2>2. IsFiniteSet(DOMAIN E) BY <2>1, FS_Subset DEF IsDisk
  <2>3. IsDisk(E) BY <2>1, <2>2 DEF IsDisk
  <2>4. SumShut(D) = closedBlocks(D[c].files) + SumShut(E) BY <2>1, ComesIn
  <2>5. SumShut(E) \in Int BY <2>3, PoolInts
  <2>6. closedBlocks(rest) = 0
    <3>1. DOMAIN rest = {} BY <1>2
    <3> QED BY <3>1, SumsAre, SumNone
  <2>7. SumShut(E) = SumShut(D) - (closedBlocks(D[c].files) - closedBlocks(rest))
    BY <1>1, <2>4, <2>5, <2>6
  <2> QED BY <2>1, <2>3, <2>7 DEF Reduced
<1>3. CASE E = [D EXCEPT ![c].files = rest] /\ rest # <<>>
  <2>1. Replaced(D, E, c, rest) BY <1>3, FilesPut
  <2>2. SumShut(E) = SumShut(D) + closedBlocks(rest) - closedBlocks(D[c].files)
    <3> DEFINE o == [pc |-> "idle"]
    <3> QED BY <2>1, ReplacedSums
  <2>3. SumShut(E) = SumShut(D) - (closedBlocks(D[c].files) - closedBlocks(rest))
    BY <1>1, <2>2
  <2> QED BY <1>3, <2>1, <2>3 DEF Replaced, Kept, Reduced
<1> QED BY <1>2, <1>3 DEF Lost

\* What purge() does to the files of a container.
LEMMA PurgedIs ==
  ASSUME IsDisk(disk), NEW c \in DOMAIN disk
  PROVE  /\ purge(c).rest \in Files /\ purge(c).n \in Int
         /\ ~purge(c).open =>
              closedBlocks(disk[c].files) = purge(c).n + closedBlocks(purge(c).rest)
<1> DEFINE fs == disk[c].files
           k == Enough(fs, io.left)
<1>1. fs \in Files BY InPool
<1>2. /\ purge(c).rest = SubSeq(fs, k + 1, Len(fs))
      /\ purge(c).n = FileBlocks(SubSeq(fs, 1, k))
      /\ purge(c).open = (\E i \in 1 .. k : fs[i].open)
  BY DEF purge
<1> HIDE DEF fs
<1>3. k \in 0 .. Len(fs) BY <1>1, EnoughIs
<1> HIDE DEF k
<1> DEFINE rest == SubSeq(fs, k + 1, Len(fs))
           cut == SubSeq(fs, 1, k)
<1>4. /\ rest \in Files
      /\ FileBlocks(cut) \in Int
      /\ (\A i \in 1 .. k : ~fs[i].open) =>
            closedBlocks(fs) = FileBlocks(cut) + closedBlocks(rest)
  BY <1>1, <1>3, CutIs
<1>5. purge(c).rest = rest /\ purge(c).n = FileBlocks(cut) BY <1>2
<1>6. ~purge(c).open => \A i \in 1 .. k : ~fs[i].open BY <1>2
<1> HIDE DEF rest, cut
<1> QED BY <1>4, <1>5, <1>6 DEF fs

LEMMA PurgeContainerStep ==
  ASSUME PoolInv, PurgeContainer
  PROVE  PoolInv'
<1>0. Typed /\ Newest(disk, stack, main, io) /\ ListsOK(disk, cache, io) /\ IsDisk(disk)
      /\ StackOK(stack, io.todo) /\ (exact => CacheOK(disk, cache))
      /\ Prot(io.pc, startFd, completeFd, ioActive, main)
      /\ (exact => Account(disk, io, used, scanned, purged, missed))
  BY Parts
<1> DEFINE c == Head(io.conts)
           d == Head(io.days)
           t == Tail(io.conts)
           rest == purge(c).rest
           n == purge(c).n
           open == purge(c).open
           left == io.left - n
<1>1. /\ UNCHANGED mainVars /\ ioActive' = ioActive /\ scanned' = scanned /\ missed' = missed
      /\ startFd' = startFd /\ completeFd' = completeFd
      /\ io.pc = "conts" /\ io.conts # <<>>
  BY DEF PurgeContainer, Runs, At
<1>2. CASE io' = [io EXCEPT !.conts = Tail(@)] /\ UNCHANGED <<disk, cache, purged, exact>>
  BY <1>1, <1>2, PassOver
<1>3. CASE ~(io' = [io EXCEPT !.conts = Tail(@)] /\ UNCHANGED <<disk, cache, purged, exact>>)
  <2>1. /\ c \in DOMAIN disk
        /\ disk' = IF rest = <<>> THEN Without(disk, {c})
                   ELSE [disk EXCEPT ![c].files = rest]
        /\ cache' = IF rest = <<>> THEN [cache EXCEPT ![d] = Without(@, {c})] ELSE cache
        /\ purged' = purged + n
        /\ io' = [[io EXCEPT !.conts = Tail(@)] EXCEPT !.left = @ - n]
        /\ exact' = (exact /\ ~open)
    BY <1>3 DEF PurgeContainer
  <2>2. /\ rest \in Files /\ n \in Int
        /\ ~open => closedBlocks(disk[c].files) = n + closedBlocks(rest)
    BY <1>0, <2>1, PurgedIs
  <2>3. /\ io \in IoStates /\ io.conts \in Seq(Nat) /\ io.days \in Seq(Nat) /\ io.left \in Int
        /\ IsCache(cache) /\ purged \in Int /\ missed \in Int /\ used \in Int /\ scanned \in Int
        /\ io.days # <<>> /\ Listed(io.days, cache) /\ exact \in BOOLEAN
        /\ \A i \in 1 .. Len(io.conts) :
             io.conts[i] \in DOMAIN disk => disk[io.conts[i]].day = io.days[1]
    BY <1>0, <1>1, IoIs DEF Typed, ListsOK, Listed
  <2>4. /\ t \in Seq(Nat) /\ c = io.conts[1] /\ 1 \in 1 .. Len(io.conts)
        /\ \A i \in 1 .. Len(t) : i + 1 \in 1 .. Len(io.conts) /\ t[i] = io.conts[i + 1]
    BY <1>1, <2>3, NextDays
  <2>5. d = io.days[1] /\ d \in DOMAIN cache
    <3>1. d = io.days[1] /\ 1 \in 1 .. Len(io.days) BY <2>3, NextDays
    <3> QED BY <2>3, <3>1 DEF Listed
  <2>6. disk[c].day = d BY <2>1, <2>3, <2>4, <2>5
  <2>7. left \in Int /\ purged' = purged + n /\ purged' \in Int BY <2>1, <2>2, <2>3
  <2>8. io' = [io EXCEPT !.conts = t, !.left = left] BY <2>1, <2>3 DEF IoStates
  <2> HIDE DEF c, d, t, rest, n, open, left
  <2>9. /\ io' \in IoStates /\ io'.pc = "conts" /\ io'.todo = io.todo /\ io'.days = io.days
        /\ io'.conts = t
    BY <1>1, <2>3, <2>4, <2>7, <2>8 DEF IoStates
  <2>10. Lost(disk, disk', c, rest) BY <2>1 DEF Lost
  <2>11. /\ IsDisk(disk') /\ DOMAIN disk' \subseteq DOMAIN disk
         /\ DOMAIN disk \ {c} \subseteq DOMAIN disk'
         /\ \A x \in DOMAIN disk' : disk'[x].day = disk[x].day /\ (x # c => disk'[x] = disk[x])
         /\ c \in DOMAIN disk' => rest # <<>> /\ disk'[c].files = rest
         /\ SumShut(disk') = SumShut(disk) - (closedBlocks(disk[c].files) - closedBlocks(rest))
    <3>1. Reduced(disk, disk', c, rest) BY <1>0, <2>1, <2>2, <2>10, LostIs
    <3> QED BY <3>1 DEF Reduced
  <2>13. Newest(disk', stack, main, io')
    BY <1>0, <2>4, <2>9, <2>11 DEF Newest
  <2>14. /\ IsCache(cache') /\ DOMAIN cache' = DOMAIN cache
         /\ exact => CacheOK(disk', cache')
    <3>1. CASE rest = <<>>
      <4> DEFINE w == cache'
      <4>0. w = [cache EXCEPT ![d] = Without(@, {c})] BY <2>1, <3>1
      <4>2. cache' = w OBVIOUS
      <4> HIDE DEF w
      <4>3. Forgotten(cache, disk, d, {c}, w) BY <2>3, <2>5, <4>0, WithoutConts
      <4>1. /\ IsCache(w) /\ DOMAIN w = DOMAIN cache /\ DOMAIN w[d] = DOMAIN cache[d] \ {c}
            /\ \A x \in DOMAIN cache : x # d => w[x] = cache[x]
            /\ (CacheOK(disk, cache) => CacheOK(disk, w))
        BY <4>3, Zenon DEF Forgotten
      <4>4. ASSUME exact, NEW x \in DOMAIN w, NEW y \in DOMAIN w[x]
            PROVE  y \in DOMAIN disk' /\ disk'[y].day = x
        <5>1. y \in DOMAIN disk /\ disk[y].day = x BY <1>0, <4>1, <4>4 DEF CacheOK
        <5>2. y # c BY <2>6, <4>1, <5>1
        <5> QED BY <2>11, <5>1, <5>2
      <4> QED BY <4>1, <4>2, <4>4 DEF CacheOK
    <3>2. CASE rest # <<>>
      <4>1. cache' = cache /\ DOMAIN disk' = DOMAIN disk BY <2>1, <3>2
      <4> QED BY <1>0, <2>3, <2>11, <4>1 DEF CacheOK
    <3> QED BY <3>1, <3>2
  <2>15. ListsOK(disk', cache', io')
    <3>1. ASSUME NEW i \in 1 .. Len(t), t[i] \in DOMAIN disk'
          PROVE  disk'[t[i]].day = io.days[1]
      <4> DEFINE j == i + 1
      <4>1. j \in 1 .. Len(io.conts) /\ t[i] = io.conts[j] BY <2>4
      <4> HIDE DEF j
      <4>2. disk[io.conts[j]].day = io.days[1] BY <2>3, <2>11, <3>1, <4>1
      <4> QED BY <2>11, <3>1, <4>1, <4>2
    <3> QED BY <2>3, <2>9, <2>14, <3>1 DEF ListsOK, Listed
  <2>16. exact' => Account(disk', io', used', scanned', purged', missed')
    <3> SUFFICES ASSUME exact, ~open
                 PROVE  used' + scanned' + Found(disk', io') - purged' = SumShut(disk') - missed'
      BY <2>1 DEF Account
    <3>1. used + scanned + Found(disk, io) - purged = SumShut(disk) - missed BY <1>0 DEF Account
    <3>2. Found(disk', io') = 0 /\ Found(disk, io) = 0 BY <1>1, <2>9 DEF Found
    <3>3. closedBlocks(disk[c].files) \in Int /\ closedBlocks(rest) \in Int
          /\ SumShut(disk) \in Int
      BY <1>0, <2>1, <2>2, InPool, FileSums, PoolInts
    <3>4. used' = used /\ scanned' = scanned /\ missed' = missed BY <1>1 DEF mainVars
    <3>5. closedBlocks(disk[c].files) = n + closedBlocks(rest) BY <2>2
    <3> QED BY <2>2, <2>3, <2>7, <2>11, <3>1, <3>2, <3>3, <3>4, <3>5
  <2>17. /\ stack' = stack /\ main' = main /\ used' = used /\ maxBlocks' = maxBlocks
    BY <1>1 DEF mainVars
  <2>18. exact' => exact BY <2>1
  <2>19. /\ IsDisk(disk') /\ stack' \in Seq(Nat) /\ IsCache(cache') /\ io' \in IoStates
         /\ used' \in Int /\ maxBlocks' \in Int /\ scanned' \in Int /\ purged' \in Int
         /\ missed' \in Int /\ ioActive' \in BOOLEAN /\ exact' \in BOOLEAN
    BY <1>0, <1>1, <2>1, <2>7, <2>9, <2>11, <2>14, <2>17 DEF Typed
  <2>20. /\ StackOK(stack', io'.todo) /\ Newest(disk', stack', main', io')
         /\ ListsOK(disk', cache', io') /\ (exact' => CacheOK(disk', cache'))
         /\ Prot(io'.pc, startFd', completeFd', ioActive', main')
    BY <1>0, <1>1, <2>9, <2>13, <2>14, <2>15, <2>17, <2>18
  <2> QED BY <2>16, <2>19, <2>20, Gather
<1> QED BY <1>2, <1>3

LEMMA OutsideStep ==
  ASSUME PoolInv, NEW c \in DOMAIN disk, DeletedOutside(c)
  PROVE  PoolInv'
<1>0. Typed /\ Newest(disk, stack, main, io) /\ ListsOK(disk, cache, io) /\ IsDisk(disk)
      /\ StackOK(stack, io.todo)
      /\ Prot(io.pc, startFd, completeFd, ioActive, main)
  BY Parts
<1>1. /\ stack' = stack /\ used' = used /\ maxBlocks' = maxBlocks /\ main' = main
      /\ ioActive' = ioActive /\ startFd' = startFd /\ completeFd' = completeFd
      /\ scanned' = scanned /\ purged' = purged /\ cache' = cache /\ io' = io
      /\ missed' = missed /\ disk' = Without(disk, {c}) /\ exact' = FALSE
  BY DEF DeletedOutside, mainVars, sharedVars, ioVars
<1>2. DOMAIN disk' = DOMAIN disk \ {c} /\ \A x \in DOMAIN disk' : disk'[x] = disk[x]
  BY <1>1 DEF Without
<1>3. IsFiniteSet(DOMAIN disk') BY <1>0, <1>2, FS_Subset DEF IsDisk
<1>4. IsDisk(disk') BY <1>0, <1>2, <1>3 DEF IsDisk
<1>5. StackOK(stack', io'.todo) BY <1>0, <1>1, <1>2 DEF StackOK
<1>6. Newest(disk', stack', main', io') BY <1>0, <1>1, <1>2 DEF Newest
<1>7. ListsOK(disk', cache', io') BY <1>0, <1>1, <1>2 DEF ListsOK
<1>8. Prot(io'.pc, startFd', completeFd', ioActive', main') BY <1>0, <1>1
<1>9. /\ IsDisk(disk') /\ stack' \in Seq(Nat) /\ IsCache(cache') /\ io' \in IoStates
      /\ used' \in Int /\ maxBlocks' \in Int /\ scanned' \in Int /\ purged' \in Int
      /\ missed' \in Int /\ ioActive' \in BOOLEAN /\ exact' \in BOOLEAN
  BY <1>0, <1>1, <1>4 DEF Typed
<1> QED BY <1>1, <1>5, <1>6, <1>7, <1>8, <1>9, Gather

-----------------------------------------------------------------------------
(* The theorems.                                                            *)

LEMMA MainInv == ASSUME PoolInv, Main PROVE PoolInv'
<1>1. CASE \E c \in Range(stack), n \in {0, 1} : AddPacket(c, n) BY <1>1, AddPacketStep
<1>2. CASE \E c \in Range(stack) : RollFile(c) BY <1>2, RollFileStep
<1>9. CASE \E c \in Range(stack), n \in {0, 1} : savePacket(c, n) BY <1>9, SavePacketStep
<1>3. CASE \E run \in {0, 1}, keep, split \in BOOLEAN, day \in 1 .. MaxDay :
             startContainer(run, keep, split, day)
  BY <1>3, StartStep
<1>4. CASE \E i \in 2 .. Len(stack) : terminate(i) BY <1>4, TerminateStep
<1>5. CASE \E c \in DOMAIN disk, m \in {"translated", "manual"} : createMarker(c, m)
  BY <1>5, MarkerStep
<1>6. CASE \E n \in Limits : set_max_blocks_allowed(n) BY <1>6, LimitStep
<1>7. CASE ioCompleted BY <1>7, CompletedStep
<1>8. CASE stop BY <1>8, StopStep
<1> QED BY <1>1, <1>2, <1>3, <1>4, <1>5, <1>6, <1>7, <1>8, <1>9 DEF Main

LEMMA IoInv == ASSUME PoolInv, IoThread PROVE PoolInv'
<1>1. CASE \E bad \in BOOLEAN : scanDaily(bad) BY <1>1, ScanDailyStep
<1>2. CASE scanStorage BY <1>2, ScanStorageStep
<1>3. CASE backgroundIo BY <1>3, CommandStep
<1>4. CASE purgeDaily BY <1>4, PurgeDailyStep
<1>5. CASE PurgeContainer BY <1>5, PurgeContainerStep
<1>6. CASE EndDaily BY <1>6, EndDailyStep
<1>7. CASE purgeData BY <1>7, PurgeDataStep
<1> QED BY <1>1, <1>2, <1>3, <1>4, <1>5, <1>6, <1>7 DEF IoThread

LEMMA StutterInv == ASSUME PoolInv, UNCHANGED vars PROVE PoolInv'
<1>0. /\ Typed /\ StackOK(stack, io.todo) /\ Newest(disk, stack, main, io)
      /\ ListsOK(disk, cache, io) /\ (exact => CacheOK(disk, cache))
      /\ Prot(io.pc, startFd, completeFd, ioActive, main)
      /\ (exact => Account(disk, io, used, scanned, purged, missed))
  BY Parts
<1>1. /\ disk' = disk /\ stack' = stack /\ used' = used /\ maxBlocks' = maxBlocks
      /\ main' = main /\ ioActive' = ioActive /\ startFd' = startFd
      /\ completeFd' = completeFd /\ scanned' = scanned /\ purged' = purged
      /\ cache' = cache /\ io' = io /\ exact' = exact /\ missed' = missed
  BY DEF vars, mainVars, sharedVars, ioVars
<1>2. /\ IsDisk(disk') /\ stack' \in Seq(Nat) /\ IsCache(cache') /\ io' \in IoStates
      /\ used' \in Int /\ maxBlocks' \in Int /\ scanned' \in Int /\ purged' \in Int
      /\ missed' \in Int /\ ioActive' \in BOOLEAN /\ exact' \in BOOLEAN
  BY <1>0, <1>1 DEF Typed
<1>3. /\ StackOK(stack', io'.todo) /\ Newest(disk', stack', main', io')
      /\ ListsOK(disk', cache', io') /\ (exact' => CacheOK(disk', cache'))
      /\ Prot(io'.pc, startFd', completeFd', ioActive', main')
      /\ (exact' => Account(disk', io', used', scanned', purged', missed'))
  BY <1>0, <1>1
<1> QED BY <1>2, <1>3, Gather

\* The inductive invariant: the types of the pool, the stack of containers being
\* written, the lists a purge works from, the protocol of the two threads and
\* the count of blocks hold in every state of both threads and of the world.
THEOREM PoolInvariant == Spec => []PoolInv
<1>1. Init => PoolInv BY InitInv
<1>2. PoolInv /\ [Next]_vars => PoolInv'
  <2> SUFFICES ASSUME PoolInv, [Next]_vars PROVE PoolInv' OBVIOUS
  <2>1. CASE Main BY <2>1, MainInv
  <2>2. CASE IoThread BY <2>2, IoInv
  <2>3. CASE World BY <2>3, OutsideStep DEF World
  <2>4. CASE UNCHANGED vars BY <2>4, StutterInv
  <2> QED BY <2>1, <2>2, <2>3, <2>4 DEF Next
<1> QED BY <1>1, <1>2, PTL DEF Spec

\* BlocksAccounted: the count of used blocks, with what the scan has still to
\* find and without what a purge has not reported, is the space the closed
\* files take less the files that are never counted (prologues, refused files,
\* what the scan's rounding saves), however long the service runs and whatever
\* the disk held: addBaseStorage(), the scan and purge() count every other file
\* once, and nothing but those files makes the count fall short.
THEOREM BlocksAlwaysAccounted == Spec => []BlocksAccounted
<1>1. PoolInv => BlocksAccounted BY DEF PoolInv
<1> QED BY <1>1, PoolInvariant, PTL

\* OneCommand: the main thread writes the eventfd of the I/O thread only when
\* that thread has nothing to do and has been heard, so that no two commands
\* are ever added up to a third (requestPurge(), stop(), ioCompleted()).
THEOREM OneCommandOnly == Spec => []OneCommand
<1>1. PoolInv => OneCommand BY DEF PoolInv
<1> QED BY <1>1, PoolInvariant, PTL

=============================================================================
