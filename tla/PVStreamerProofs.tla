-------------------------- MODULE PVStreamerProofs --------------------------
(***************************************************************************)
(* The PV streamer, for any devices, variables, configuration files and    *)
(* clients: a device can be redefined again and again, and no two of its   *)
(* variables ever have one number.                                         *)
(***************************************************************************)
EXTENDS PVStreamer, SequenceTheorems, FiniteSetTheorems, WellFoundedInduction, TLAPS

-----------------------------------------------------------------------------
(* A finite set of numbers in order.                                        *)

LEMMA NatLeast ==
  ASSUME NEW T \in SUBSET Nat, T # {}
  PROVE  \E x \in T : \A y \in T : x <= y
<1>1. \E x \in T : \A y \in T : ~(<<y, x>> \in OpToRel(<, Nat))
  BY NatLessThanWellFounded, WFMin
<1>2. \A x, y \in Nat : y < x => <<y, x>> \in OpToRel(<, Nat)
  <2>1. \A x, y \in Nat : y < x => <<y, x>> \in {r \in Nat \X Nat : r[1] < r[2]}
    OBVIOUS
  <2> QED BY <2>1, Zenon DEF OpToRel
<1>3. \E x \in T : \A y \in T : ~(y < x)
  BY <1>1, <1>2, Zenon
<1> QED BY <1>3

UpToIn(S, i) == {j \in S : j <= i}

LEMMA UpToFinite ==
  ASSUME NEW S \in SUBSET Nat, IsFiniteSet(S), NEW i
  PROVE  /\ IsFiniteSet(UpToIn(S, i)) /\ Cardinality(UpToIn(S, i)) \in Nat
         /\ Cardinality(UpToIn(S, i)) <= Cardinality(S)
<1>1. UpToIn(S, i) \subseteq S BY DEF UpToIn
<1> QED BY <1>1, FS_Subset, FS_CardinalityType

LEMMA UpToGrows ==
  ASSUME NEW S \in SUBSET Nat, IsFiniteSet(S), NEW i \in S, NEW k \in S, i < k
  PROVE  Cardinality(UpToIn(S, i)) < Cardinality(UpToIn(S, k))
<1>1. UpToIn(S, i) \subseteq UpToIn(S, k) /\ k \in UpToIn(S, k) /\ k \notin UpToIn(S, i)
  <2>1. i \in Nat /\ k \in Nat /\ k <= k /\ ~(k <= i) OBVIOUS
  <2>2. \A j \in S : j \in Nat /\ (j <= i => j <= k) BY <2>1
  <2> QED BY <2>1, <2>2, Zenon DEF UpToIn
<1>2. IsFiniteSet(UpToIn(S, k)) /\ Cardinality(UpToIn(S, k)) \in Nat
  BY UpToFinite
<1>3. IsFiniteSet(UpToIn(S, i)) /\ Cardinality(UpToIn(S, i)) \in Nat
  BY UpToFinite
<1>4. Cardinality(UpToIn(S, i)) <= Cardinality(UpToIn(S, k))
  BY <1>1, <1>2, FS_Subset
<1>5. Cardinality(UpToIn(S, i)) # Cardinality(UpToIn(S, k))
  BY <1>1, <1>2, FS_Subset
<1> QED BY <1>2, <1>3, <1>4, <1>5

LEMMA NthExists ==
  ASSUME NEW S \in SUBSET Nat, IsFiniteSet(S)
  PROVE  \A n \in 1 .. Cardinality(S) : \E i \in S : Cardinality(UpToIn(S, i)) = n
<1> DEFINE T == {n \in 1 .. Cardinality(S) : ~ \E i \in S : Cardinality(UpToIn(S, i)) = n}
<1>0. Cardinality(S) \in Nat BY FS_CardinalityType
<1> SUFFICES ASSUME T # {} PROVE FALSE OBVIOUS
<1>1. T \in SUBSET Nat BY <1>0
<1>2. PICK n \in T : \A m \in T : n <= m
  <2> HIDE DEF T
  <2> QED BY <1>1, NatLeast
<1>3. n \in 1 .. Cardinality(S) /\ \A i \in S : Cardinality(UpToIn(S, i)) # n
  BY <1>2
<1>4. n - 1 \notin T
  <2> HIDE DEF T
  <2> QED BY <1>0, <1>1, <1>2, <1>3
<1>5. PICK k \in S : Cardinality(UpToIn(S, k)) = n
  <2>1. CASE n = 1
    <3>1. S # {} BY <1>3, FS_EmptySet
    <3>2. PICK k \in S : \A j \in S : k <= j BY <3>1, NatLeast
    <3>3. UpToIn(S, k) = {k}
      <4>1. \A j \in S : j <= k <=> j = k BY <3>2
      <4> QED BY <4>1, Zenon DEF UpToIn
    <3> QED BY <2>1, <3>3, FS_Singleton
  <2>2. CASE n # 1
    <3>1. PICK i \in S : Cardinality(UpToIn(S, i)) = n - 1
      BY <1>0, <1>3, <1>4, <2>2
    <3> DEFINE R == S \ UpToIn(S, i)
    <3>2. R # {}
      <4>1. UpToIn(S, i) \subseteq S BY DEF UpToIn
      <4>2. Cardinality(UpToIn(S, i)) # Cardinality(S) BY <1>0, <1>3, <3>1
      <4>3. UpToIn(S, i) # S BY <4>2, Zenon
      <4> QED BY <4>1, <4>3
    <3>3. R \in SUBSET Nat OBVIOUS
    <3>4. PICK k \in R : \A j \in R : k <= j
      <4> HIDE DEF R
      <4> QED BY <3>2, <3>3, NatLeast
    <3>5. k \in S /\ k \notin UpToIn(S, i) BY <3>4
    <3>6. UpToIn(S, k) = UpToIn(S, i) \cup {k}
      <4>1. i \in Nat /\ k \in Nat /\ ~(k <= i) BY <3>5 DEF UpToIn
      <4>2. ASSUME NEW j \in S PROVE j <= k <=> j <= i \/ j = k
        <5>1. j \in Nat OBVIOUS
        <5>2. j <= i \/ k <= j BY <3>4 DEF UpToIn
        <5> QED BY <4>1, <5>1, <5>2
      <4> QED BY <3>5, <4>2, Zenon DEF UpToIn
    <3>7. IsFiniteSet(UpToIn(S, i)) BY UpToFinite
    <3>8. Cardinality(UpToIn(S, k)) = n - 1 + 1
      BY <3>1, <3>5, <3>6, <3>7, FS_AddElement
    <3> QED BY <1>0, <1>3, <3>5, <3>8
  <2> QED BY <2>1, <2>2
<1> QED BY <1>3, <1>5

LEMMA SortedIs ==
  ASSUME NEW S \in SUBSET Nat, IsFiniteSet(S)
  PROVE  /\ Cardinality(S) \in Nat
         /\ Sorted(S) \in [1 .. Cardinality(S) -> S]
         /\ IsInjective(Sorted(S))
         /\ \A i \in S : \E n \in 1 .. Cardinality(S) : Sorted(S)[n] = i
<1>0. Cardinality(S) \in Nat BY FS_CardinalityType
<1>1. Sorted(S) = [n \in 1 .. Cardinality(S) |-> CHOOSE i \in S : Cardinality(UpToIn(S, i)) = n]
  BY DEF Sorted, UpToIn
<1>2. ASSUME NEW n \in 1 .. Cardinality(S)
      PROVE  Sorted(S)[n] \in S /\ Cardinality(UpToIn(S, Sorted(S)[n])) = n
  <2>1. \E i \in S : Cardinality(UpToIn(S, i)) = n BY NthExists
  <2> QED BY <1>1, <2>1
<1>3. Sorted(S) \in [1 .. Cardinality(S) -> S] BY <1>1, <1>2
<1>4. IsInjective(Sorted(S))
  <2>1. DOMAIN Sorted(S) = 1 .. Cardinality(S) BY <1>1
  <2>2. ASSUME NEW a \in 1 .. Cardinality(S), NEW b \in 1 .. Cardinality(S),
               Sorted(S)[a] = Sorted(S)[b]
        PROVE  a = b
    <3>1. Cardinality(UpToIn(S, Sorted(S)[a])) = a BY <1>2
    <3>2. Cardinality(UpToIn(S, Sorted(S)[b])) = b BY <1>2
    <3> QED BY <2>2, <3>1, <3>2, Zenon
  <2> QED BY <2>1, <2>2, Zenon DEF IsInjective
<1>5. ASSUME NEW i \in S PROVE \E n \in 1 .. Cardinality(S) : Sorted(S)[n] = i
  <2> DEFINE n == Cardinality(UpToIn(S, i))
  <2>1. n \in 1 .. Cardinality(S)
    <3>1. n \in Nat /\ n <= Cardinality(S) /\ IsFiniteSet(UpToIn(S, i)) BY UpToFinite
    <3>2. i \in UpToIn(S, i) BY DEF UpToIn
    <3>3. n # 0 BY <3>1, <3>2, FS_EmptySet
    <3> QED BY <1>0, <3>1, <3>3
  <2> DEFINE k == Sorted(S)[n]
  <2>2. k \in S /\ Cardinality(UpToIn(S, k)) = n BY <1>2, <2>1
  <2>3. n \in Nat BY <1>0, <2>1
  <2> HIDE DEF k
  <2>4. ~(i < k)
    <3>1. SUFFICES ASSUME i < k PROVE FALSE OBVIOUS
    <3>2. Cardinality(UpToIn(S, i)) < Cardinality(UpToIn(S, k)) BY <2>2, <3>1, UpToGrows
    <3> QED BY <2>2, <2>3, <3>2
  <2>5. ~(k < i)
    <3>1. SUFFICES ASSUME k < i PROVE FALSE OBVIOUS
    <3>2. Cardinality(UpToIn(S, k)) < Cardinality(UpToIn(S, i)) BY <2>2, <3>1, UpToGrows
    <3> QED BY <2>2, <2>3, <3>2
  <2>6. k = i BY <2>2, <2>4, <2>5
  <2> QED BY <2>1, <2>6 DEF k
<1> QED BY <1>0, <1>3, <1>4, <1>5

-----------------------------------------------------------------------------
(* Sequences.                                                               *)

LEMMA ListSet ==
  ASSUME NEW V, NEW s \in Seq(V)
  PROVE  /\ DOMAIN s = 1 .. Len(s) /\ Len(s) \in Nat /\ ToSet(s) \subseteq V
         /\ IsFiniteSet(DOMAIN s) /\ IsFiniteSet(ToSet(s))
<1>1. DOMAIN s = 1 .. Len(s) /\ Len(s) \in Nat /\ \A i \in DOMAIN s : s[i] \in V
  OBVIOUS
<1>2. IsFiniteSet(DOMAIN s) BY <1>1, FS_Interval
<1>3. s \in Surjection(DOMAIN s, ToSet(s)) BY <1>1 DEF Surjection, ToSet
<1>4. IsFiniteSet(ToSet(s)) BY <1>2, <1>3, FS_Surjection
<1> QED BY <1>1, <1>2, <1>4 DEF ToSet

\* What Besides leaves out and keeps.
LEMMA BesidesIs ==
  ASSUME NEW V, NEW s \in Seq(V), NEW S
  PROVE  /\ Besides(s, S) \in Seq(V)
         /\ ToSet(Besides(s, S)) = ToSet(s) \ S
         /\ Len(Besides(s, S)) <= Len(s)
<1> DEFINE J == {i \in DOMAIN s : s[i] \notin S}
           at == Sorted(J)
           N == Cardinality(J)
<1>1. DOMAIN s = 1 .. Len(s) /\ Len(s) \in Nat /\ IsFiniteSet(DOMAIN s) BY ListSet
<1>2. J \in SUBSET Nat /\ J \subseteq DOMAIN s BY <1>1
<1>3. IsFiniteSet(J) /\ Cardinality(J) <= Cardinality(DOMAIN s)
  <2> HIDE DEF J
  <2> QED BY <1>1, <1>2, FS_Subset
<1>4. Cardinality(DOMAIN s) = Len(s) BY <1>1, FS_Interval
<1>5. /\ N \in Nat /\ at \in [1 .. N -> J] /\ \A i \in J : \E n \in 1 .. N : at[n] = i
  <2> HIDE DEF J
  <2> QED BY <1>2, <1>3, SortedIs
<1>6. Besides(s, S) = [n \in 1 .. N |-> s[at[n]]]
  <2>1. Besides(s, S) = [n \in DOMAIN at |-> s[at[n]]] BY DEF Besides
  <2>2. DOMAIN at = 1 .. N
    <3> HIDE DEF at, N, J
    <3> QED BY <1>5
  <2> QED BY <2>1, <2>2, Zenon
<1>7. \A i \in J : i \in DOMAIN s /\ s[i] \notin S OBVIOUS
<1>8. \A i \in DOMAIN s : s[i] \notin S => i \in J OBVIOUS
<1> DEFINE b == Besides(s, S)
<1> HIDE DEF at, N, J
<1>9. ASSUME NEW n \in 1 .. N PROVE b[n] = s[at[n]] /\ b[n] \in V /\ at[n] \in J
  BY <1>5, <1>6, <1>7
<1>10. DOMAIN b = 1 .. N BY <1>6
<1> HIDE DEF b
<1>11. b \in [1 .. N -> V] BY <1>6, <1>9, <1>10 DEF b
<1>12. b \in Seq(V) /\ Len(b) = N BY <1>5, <1>11
<1>13. Len(b) <= Len(s) BY <1>3, <1>4, <1>12 DEF N
<1>14. ToSet(b) = ToSet(s) \ S
  <2>1. ASSUME NEW n \in DOMAIN b PROVE b[n] \in ToSet(s) \ S
    BY <1>7, <1>9, <1>10, <2>1, Zenon DEF ToSet
  <2>2. ASSUME NEW i \in DOMAIN s, s[i] \notin S PROVE s[i] \in ToSet(b)
    <3>1. PICK n \in 1 .. N : at[n] = i BY <1>5, <1>8, <2>2
    <3> QED BY <1>9, <1>10, <3>1, Zenon DEF ToSet
  <2> QED BY <2>1, <2>2, Zenon DEF ToSet
<1> QED BY <1>12, <1>13, <1>14 DEF b

-----------------------------------------------------------------------------
(* The numbers of the variables.                                            *)

Acts == Conns \cup {None}

\* The fields of a descriptor and of a record.
DescShape(D) ==
  D \in [id : {D.id}, pvs : {D.pvs}, act : {D.act}, ign : {D.ign}, meta : {D.meta},
         isact : {D.isact}, active : {D.active}]
RecShape(r) ==
  r \in [id : {r.id}, pvs : {r.pvs}, act : {r.act}, ign : {r.ign}, meta : {r.meta},
         isact : {r.isact}, active : {r.active}, ver : {r.ver}, var : {r.var}]

\* A descriptor, and a record with numbers of its own for its variables.
DescOK(D) ==
  /\ DescShape(D)
  /\ D.pvs \in Seq(Conns) /\ D.act \in Acts

Numbered(r) == DOMAIN r.var = ToSet(Order(r)) /\ IsInjective(r.var)

RecOK(r) ==
  /\ RecShape(r)
  /\ r.pvs \in Seq(Conns) /\ r.act \in Acts
  /\ Numbered(r)

LEMMA OrderIs ==
  ASSUME NEW D, D.pvs \in Seq(Conns), D.act \in Acts
  PROVE  /\ Order(D) \in Seq(Conns)
         /\ ToSet(Order(D)) = ToSet(D.pvs) \cup (IF Streamed(D) THEN {D.act} ELSE {})
<1>1. CASE Streamed(D)
  <2>1. D.act \in Conns BY <1>1 DEF Streamed, Acts
  <2>2. Order(D) = <<D.act>> \o D.pvs BY <1>1, Zenon DEF Order
  <2> DEFINE s == <<D.act>> \o D.pvs
  <2>3. /\ s \in Seq(Conns) /\ Len(s) = Len(D.pvs) + 1 /\ s[1] = D.act
        /\ \A i \in 1 .. Len(D.pvs) : s[i + 1] = D.pvs[i]
    BY <2>1
  <2>4. DOMAIN s = 1 .. Len(D.pvs) + 1 /\ DOMAIN D.pvs = 1 .. Len(D.pvs) /\ Len(D.pvs) \in Nat
    BY <2>3, ListSet
  <2> HIDE DEF s
  <2>5. ASSUME NEW i \in DOMAIN s PROVE s[i] = D.act \/ s[i] \in ToSet(D.pvs)
    <3>1. CASE i = 1 BY <2>3, <3>1
    <3>2. CASE i # 1
      <4>1. i - 1 \in 1 .. Len(D.pvs) /\ i - 1 + 1 = i BY <2>4, <3>2
      <4>2. s[i] = D.pvs[i - 1] BY <2>3, <4>1
      <4> QED BY <2>4, <4>1, <4>2, Zenon DEF ToSet
    <3> QED BY <3>1, <3>2
  <2>6. ASSUME NEW i \in DOMAIN D.pvs PROVE D.pvs[i] \in ToSet(s)
    <3>1. i + 1 \in DOMAIN s /\ s[i + 1] = D.pvs[i] BY <2>3, <2>4
    <3> QED BY <3>1 DEF ToSet
  <2>7. D.act \in ToSet(s)
    <3>1. 1 \in DOMAIN s BY <2>4
    <3> QED BY <2>3, <3>1 DEF ToSet
  <2>8. ToSet(s) = ToSet(D.pvs) \cup {D.act}
    <3>1. \A x \in ToSet(s) : x \in ToSet(D.pvs) \cup {D.act} BY <2>5 DEF ToSet
    <3>2. \A x \in ToSet(D.pvs) : x \in ToSet(s) BY <2>6 DEF ToSet
    <3> QED BY <2>7, <3>1, <3>2
  <2> QED BY <1>1, <2>2, <2>3, <2>8 DEF s
<1>2. CASE ~Streamed(D)
  <2>1. Order(D) = <<>> \o D.pvs BY <1>2, Zenon DEF Order
  <2>2. <<>> \o D.pvs = D.pvs OBVIOUS
  <2> QED BY <1>2, <2>1, <2>2
<1> QED BY <1>1, <1>2

\* Where a member of a list is found.
LEMMA PlacesDiffer ==
  ASSUME NEW V, NEW s \in Seq(V), NEW c \in ToSet(s)
  PROVE  LET i == CHOOSE i \in DOMAIN s : s[i] = c IN i \in 1 .. Len(s) /\ s[i] = c
<1>1. \E i \in DOMAIN s : s[i] = c BY DEF ToSet
<1>2. DOMAIN s = 1 .. Len(s) BY ListSet
<1> QED BY <1>1, <1>2

\* A new device numbers its variables.
LEMMA NewVarsDiffer ==
  ASSUME NEW D, D.pvs \in Seq(Conns), D.act \in Acts
  PROVE  DOMAIN NewVars(D) = ToSet(Order(D)) /\ IsInjective(NewVars(D))
<1> DEFINE s == Order(D)
           f == NewVars(D)
<1>1. s \in Seq(Conns) BY OrderIs
<1>2. f = [c \in ToSet(s) |-> CHOOSE i \in DOMAIN s : s[i] = c] BY DEF NewVars
<1> HIDE DEF s, f
<1>3. DOMAIN f = ToSet(s) BY <1>2
<1>4. \A c \in ToSet(s) : s[f[c]] = c BY <1>1, <1>2, PlacesDiffer
<1>5. IsInjective(f)
  <2>1. ASSUME NEW a \in ToSet(s), NEW b \in ToSet(s), f[a] = f[b] PROVE a = b
    BY <1>4, <2>1
  <2> QED BY <1>3, <2>1, Zenon DEF IsInjective
<1> QED BY <1>3, <1>5 DEF s, f

\* The variables a redefined device keeps have their numbers.
LEMMA KeptVarsDiffer ==
  ASSUME NEW D, D.pvs \in Seq(Conns), D.act \in Acts, NEW old, RecOK(old)
  PROVE  /\ DOMAIN KeptVars(D, old) \subseteq ToSet(Order(D))
         /\ IsFiniteSet(DOMAIN KeptVars(D, old))
         /\ IsInjective(KeptVars(D, old))
<1> DEFINE f == KeptVars(D, old)
           K == (ToSet(D.pvs) \cap ToSet(old.pvs))
                  \cup (IF Streamed(D) /\ Streamed(old) /\ D.act = old.act
                        THEN {D.act} ELSE {})
<1>1. f = [c \in K |-> old.var[c]] BY DEF KeptVars
<1>2. /\ Order(D) \in Seq(Conns)
      /\ ToSet(Order(D)) = ToSet(D.pvs) \cup (IF Streamed(D) THEN {D.act} ELSE {})
  BY OrderIs
<1>3. /\ DOMAIN old.var = ToSet(Order(old)) /\ IsInjective(old.var)
      /\ old.pvs \in Seq(Conns) /\ old.act \in Acts
  BY DEF RecOK, Numbered
<1>4. ToSet(Order(old)) = ToSet(old.pvs) \cup (IF Streamed(old) THEN {old.act} ELSE {})
  BY <1>3, OrderIs
<1>5. K \subseteq ToSet(Order(D)) /\ K \subseteq DOMAIN old.var BY <1>2, <1>3, <1>4
<1>6. IsFiniteSet(ToSet(Order(D))) BY <1>2, ListSet
<1> HIDE DEF f, K
<1>7. DOMAIN f = K /\ \A c \in K : f[c] = old.var[c] BY <1>1
<1>8. IsFiniteSet(K) BY <1>5, <1>6, FS_Subset
<1>9. IsInjective(f)
  <2>1. ASSUME NEW a \in K, NEW b \in K, f[a] = f[b] PROVE a = b
    BY <1>3, <1>5, <1>7, <2>1 DEF IsInjective
  <2> QED BY <1>7, <2>1, Zenon DEF IsInjective
<1> QED BY <1>5, <1>7, <1>8, <1>9 DEF f

\* The numbers for the others are free, and there are enough of them.
LEMMA RedefinedVarsDiffer ==
  ASSUME NEW D, D.pvs \in Seq(Conns), D.act \in Acts, NEW old, RecOK(old)
  PROVE  /\ DOMAIN RedefinedVars(D, old) = ToSet(Order(D))
         /\ IsInjective(RedefinedVars(D, old))
<1> DEFINE s == Order(D)
           kept == KeptVars(D, old)
           new == Besides(s, DOMAIN kept)
           used == {kept[c] : c \in DOMAIN kept}
           N == Len(s) + Cardinality(used)
           F == (1 .. N) \ used
           free == Sorted(F)
           g == [c \in ToSet(new) |-> free[CHOOSE i \in DOMAIN new : new[i] = c]]
           f == RedefinedVars(D, old)
<1>1. f = With(kept, g) BY DEF RedefinedVars
<1>2. s \in Seq(Conns) /\ Len(s) \in Nat BY OrderIs, ListSet
<1>3. /\ DOMAIN kept \subseteq ToSet(s) /\ IsFiniteSet(DOMAIN kept) /\ IsInjective(kept)
  BY KeptVarsDiffer
<1> HIDE DEF s, kept, f
<1>4. /\ new \in Seq(Conns) /\ ToSet(new) = ToSet(s) \ DOMAIN kept
      /\ Len(new) <= Len(s) /\ Len(new) \in Nat
  BY <1>2, BesidesIs, ListSet
<1>5. IsFiniteSet(used) /\ Cardinality(used) \in Nat
  <2> DEFINE h == [c \in DOMAIN kept |-> kept[c]]
  <2>1. h \in Surjection(DOMAIN kept, used) BY DEF Surjection
  <2> HIDE DEF h, used
  <2> QED BY <1>3, <2>1, FS_Surjection, FS_CardinalityType
<1> HIDE DEF used, new
<1>6. F \in SUBSET Nat /\ IsFiniteSet(F) /\ Cardinality(F) >= Len(s)
  <2>1. N \in Nat BY <1>2, <1>5
  <2>2. IsFiniteSet(1 .. N) /\ Cardinality(1 .. N) = N BY <2>1, FS_Interval
  <2>3. /\ IsFiniteSet(F)
        /\ Cardinality(F) = Cardinality(1 .. N) - Cardinality((1 .. N) \cap used)
    BY <2>2, FS_Difference
  <2>4. /\ Cardinality((1 .. N) \cap used) <= Cardinality(used)
        /\ Cardinality((1 .. N) \cap used) \in Nat
    <3>1. ((1 .. N) \cap used) \in SUBSET used OBVIOUS
    <3> QED BY <1>5, <3>1, FS_Subset, FS_CardinalityType
  <2>5. F \in SUBSET Nat BY <2>1
  <2> HIDE DEF F
  <2> QED BY <1>2, <1>5, <2>1, <2>2, <2>3, <2>4, <2>5
<1>7. F \cap used = {} OBVIOUS
<1> HIDE DEF F
<1>8. /\ Cardinality(F) \in Nat /\ free \in [1 .. Cardinality(F) -> F] /\ IsInjective(free)
  BY <1>6, SortedIs
<1> HIDE DEF free
<1>9. DOMAIN g = ToSet(new) OBVIOUS
<1>10. ASSUME NEW c \in ToSet(new)
       PROVE  \E i \in 1 .. Cardinality(F) : new[i] = c /\ g[c] = free[i] /\ free[i] \in F
  <2> DEFINE i == CHOOSE i \in DOMAIN new : new[i] = c
  <2>1. i \in 1 .. Len(new) /\ new[i] = c BY <1>4, PlacesDiffer
  <2>2. g[c] = free[i] OBVIOUS
  <2> HIDE DEF i, g
  <2>3. i \in 1 .. Cardinality(F) BY <1>2, <1>4, <1>6, <1>8, <2>1
  <2> QED BY <1>8, <2>1, <2>2, <2>3
<1> HIDE DEF g
<1>11. /\ DOMAIN f = DOMAIN kept \cup ToSet(new)
       /\ \A c \in ToSet(new) : f[c] = g[c]
       /\ \A c \in DOMAIN kept : f[c] = kept[c]
  <2>1. f = [x \in DOMAIN kept \cup ToSet(new) |-> IF x \in ToSet(new) THEN g[x] ELSE kept[x]]
    BY <1>1, <1>9 DEF With
  <2> QED BY <1>4, <2>1
<1>12. ASSUME NEW a \in DOMAIN f, NEW b \in DOMAIN f, f[a] = f[b] PROVE a = b
  <2>1. CASE a \in DOMAIN kept /\ b \in DOMAIN kept
    BY <1>3, <1>11, <1>12, <2>1 DEF IsInjective
  <2>2. CASE a \in ToSet(new) /\ b \in ToSet(new)
    <3>1. PICK i \in 1 .. Cardinality(F) : new[i] = a /\ g[a] = free[i] BY <1>10, <2>2
    <3>2. PICK j \in 1 .. Cardinality(F) : new[j] = b /\ g[b] = free[j] BY <1>10, <2>2
    <3>3. free[i] = free[j] BY <1>11, <1>12, <2>2, <3>1, <3>2
    <3>4. i \in DOMAIN free /\ j \in DOMAIN free BY <1>8
    <3>5. i = j BY <1>8, <3>3, <3>4, Zenon DEF IsInjective
    <3> QED BY <3>1, <3>2, <3>5
  <2>3. CASE a \in ToSet(new) /\ b \in DOMAIN kept
    <3>1. g[a] \in F BY <1>10, <2>3
    <3>2. kept[b] \in used BY <2>3 DEF used
    <3> QED BY <1>7, <1>11, <1>12, <2>3, <3>1, <3>2
  <2>4. CASE a \in DOMAIN kept /\ b \in ToSet(new)
    <3>1. g[b] \in F BY <1>10, <2>4
    <3>2. kept[a] \in used BY <2>4 DEF used
    <3> QED BY <1>7, <1>11, <1>12, <2>4, <3>1, <3>2
  <2> QED BY <1>11, <2>1, <2>2, <2>3, <2>4
<1>13. IsInjective(f) BY <1>12, Zenon DEF IsInjective
<1>14. DOMAIN f = ToSet(s) BY <1>3, <1>4, <1>11
<1> QED BY <1>13, <1>14 DEF s, f

\* What ConfigManager::defineDevice() keeps of a device.
LEMMA DefinedOK ==
  ASSUME NEW d, NEW D, DescOK(D), known[d] # None => RecOK(known[d])
  PROVE  RecOK(defineDevice(d, D).rec)
<1> DEFINE old == known[d]
           ver == lastVer + 1
           new == Record(D, ver, IF old = None THEN NewVars(D) ELSE RedefinedVars(D, old))
           moved == [old EXCEPT !.id = D.id, !.ver = ver]
<1>1. D.pvs \in Seq(Conns) /\ D.act \in Acts BY DEF DescOK
<1>2. RecOK(new)
  <2> DEFINE f == IF old = None THEN NewVars(D) ELSE RedefinedVars(D, old)
  <2>1. DOMAIN f = ToSet(Order(D)) /\ IsInjective(f)
    <3>1. CASE old = None BY <1>1, <3>1, NewVarsDiffer
    <3>2. CASE old # None BY <1>1, <3>2, RedefinedVarsDiffer
    <3> QED BY <3>1, <3>2
  <2> HIDE DEF f
  <2>2. /\ Record(D, ver, f).pvs = D.pvs /\ Record(D, ver, f).act = D.act
        /\ Record(D, ver, f).ign = D.ign /\ Record(D, ver, f).var = f
        /\ Record(D, ver, f).id = D.id /\ Record(D, ver, f).meta = D.meta
        /\ Record(D, ver, f).isact = D.isact /\ Record(D, ver, f).active = D.active
        /\ Record(D, ver, f).ver = ver
    BY DEF Record
  <2>3. Order(Record(D, ver, f)) = Order(D) BY <2>2 DEF Order, Streamed
  <2>4. Numbered(Record(D, ver, f)) BY <2>1, <2>2, <2>3 DEF Numbered
  <2>5. RecShape(Record(D, ver, f)) BY DEF RecShape, Record
  <2>6. RecOK(Record(D, ver, f)) BY <1>1, <2>2, <2>4, <2>5 DEF RecOK
  <2> QED BY <2>6 DEF f
<1>3. ASSUME old # None PROVE RecOK(moved)
  <2>1. RecOK(old) BY <1>3
  <2>2. /\ moved.pvs = old.pvs /\ moved.act = old.act /\ moved.ign = old.ign
        /\ moved.var = old.var /\ RecShape(moved)
    BY <2>1 DEF RecOK, RecShape
  <2> HIDE DEF moved, old
  <2>3. Order(moved) = Order(old) /\ moved.var = old.var BY <2>2 DEF Order, Streamed
  <2>4. Numbered(moved) BY <2>1, <2>3 DEF RecOK, Numbered
  <2> QED BY <2>1, <2>2, <2>4 DEF RecOK
<1>4. ASSUME NEW r, RecOK(r), Streamed(D) <=> Streamed(r), Streamed(D) => D.act = r.act
      PROVE  RecOK(Reactivated(D, r))
  <2>1. CASE ~(D.act # None /\ D.act # r.act) BY <1>4, <2>1 DEF Reactivated
  <2>2. CASE D.act # None /\ D.act # r.act
    <3> DEFINE q == [r EXCEPT !.act = D.act, !.ign = D.ign, !.isact = D.isact, !.active = D.active,
                              !.meta = [@ EXCEPT ![D.act] = D.meta[D.act]]]
    <3>1. Reactivated(D, r) = q BY <2>2 DEF Reactivated
    <3>2. q.pvs = r.pvs /\ q.act = D.act /\ q.ign = D.ign /\ q.var = r.var /\ RecShape(q)
      BY <1>4 DEF RecOK, RecShape
    <3> HIDE DEF q
    <3>3. ~Streamed(D) /\ ~Streamed(r) BY <1>4, <2>2
    <3>4. ~Streamed(q) BY <3>2, <3>3 DEF Streamed
    <3>5. Order(q) = Order(r) BY <3>2, <3>3, <3>4 DEF Order
    <3>6. Numbered(q) BY <1>4, <3>2, <3>5 DEF RecOK, Numbered
    <3>7. RecOK(q) BY <1>1, <1>4, <3>2, <3>6 DEF RecOK
    <3> QED BY <3>1, <3>7
  <2> QED BY <2>1, <2>2
<1>5. CASE old = None
  <2>1. defineDevice(d, D).rec = new BY <1>5 DEF defineDevice
  <2> QED BY <1>2, <2>1
<1>6. CASE old # None /\ SameDevice(D, old) /\ D.id = old.id
  <2>1. defineDevice(d, D).rec = Reactivated(D, old) BY <1>6 DEF defineDevice
  <2>2. RecOK(old) BY <1>6
  <2>3. (Streamed(D) => D.act = old.act /\ D.ign = old.ign)
        /\ (Streamed(old) => old.act = D.act /\ old.ign = D.ign)
    BY <1>6, Zenon DEF SameDevice
  <2>4. Streamed(D) <=> Streamed(old) BY <2>3 DEF Streamed
  <2> HIDE DEF old
  <2>5. RecOK(Reactivated(D, old)) BY <1>4, <2>2, <2>3, <2>4
  <2> QED BY <2>1, <2>5
<1>7. CASE old # None /\ SameDevice(D, old) /\ D.id # old.id
  <2>1. defineDevice(d, D).rec = Reactivated(D, moved) BY <1>7 DEF defineDevice
  <2>2. RecOK(old) BY <1>7
  <2>3. moved.act = old.act /\ moved.ign = old.ign BY <2>2 DEF RecOK, RecShape
  <2>4. Streamed(moved) <=> Streamed(old) BY <2>3 DEF Streamed
  <2>5. (Streamed(D) => D.act = old.act /\ D.ign = old.ign)
        /\ (Streamed(old) => old.act = D.act /\ old.ign = D.ign)
    BY <1>7, Zenon DEF SameDevice
  <2>6. Streamed(D) <=> Streamed(old) BY <2>5 DEF Streamed
  <2> HIDE DEF moved
  <2>7. RecOK(Reactivated(D, moved)) BY <1>3, <1>4, <1>7, <2>3, <2>4, <2>5, <2>6
  <2> QED BY <2>1, <2>7
<1>8. CASE old # None /\ ~SameDevice(D, old)
  <2>1. defineDevice(d, D).rec = new BY <1>8 DEF defineDevice
  <2> QED BY <1>2, <2>1
<1> QED BY <1>5, <1>6, <1>7, <1>8

-----------------------------------------------------------------------------
(* The inductive invariant: every descriptor and record the streamer holds  *)
(* is one, and records have numbers of their own for their variables.       *)

AgentOK(a) ==
  /\ a \in [on : {a.on}, garbage : {a.garbage}, desc : {a.desc}, rec : {a.rec},
            defined : {a.defined}, changed : {a.changed}, mon : {a.mon}]
  /\ a.desc # None => DescOK(a.desc)
  /\ a.rec # None => RecOK(a.rec)

OpOK(o) ==
  /\ o \in [op : {o.op}, dev : {o.dev}, desc : {o.desc}, id : {o.id}, disc : {o.disc},
            had : {o.had}, old : {o.old}]
  /\ o.op \in {"update", "updating"} => DescOK(o.desc)

AgentsOK == agent = [d \in Devices |-> agent[d]] /\ \A d \in Devices : AgentOK(agent[d])
RecordsOK == /\ known = [d \in Devices |-> known[d]]
             /\ \A d \in Devices : known[d] # None => RecOK(known[d])
TodoOK == todo \in Seq(ToSet(todo)) /\ \A o \in ToSet(todo) : OpOK(o)
FileOK == file \in Files \cup {<<>>}

DevicesInv == AgentsOK /\ RecordsOK /\ TodoOK /\ FileOK

LEMMA AgentStep ==
  ASSUME AgentsOK, NEW d, NEW a, d \in Devices => AgentOK(a), agent' = [agent EXCEPT ![d] = a]
  PROVE  AgentsOK'
<1>1. agent' = [e \in Devices |-> IF e = d THEN a ELSE agent[e]] BY DEF AgentsOK
<1>2. \A e \in Devices : AgentOK(agent'[e]) BY <1>1 DEF AgentsOK
<1>3. agent' = [e \in Devices |-> agent'[e]] BY <1>1
<1>4. (\A e \in Devices : AgentOK(agent[e]))' BY <1>2 DEF AgentOK, DescOK, RecOK, Numbered, Order, Streamed
<1> QED BY <1>3, <1>4 DEF AgentsOK

LEMMA RecordStep ==
  ASSUME RecordsOK, NEW d, NEW r, d \in Devices /\ r # None => RecOK(r),
         known' = [known EXCEPT ![d] = r]
  PROVE  RecordsOK'
<1>1. known' = [e \in Devices |-> IF e = d THEN r ELSE known[e]] BY DEF RecordsOK
<1>2. \A e \in Devices : known'[e] # None => RecOK(known'[e]) BY <1>1 DEF RecordsOK
<1>3. known' = [e \in Devices |-> known'[e]] BY <1>1
<1> QED BY <1>2, <1>3 DEF RecordsOK

LEMMA ListOK ==
  ASSUME NEW S, NEW s \in Seq(S), \A o \in S : OpOK(o)
  PROVE  s \in Seq(ToSet(s)) /\ \A o \in ToSet(s) : OpOK(o)
<1>1. DOMAIN s = 1 .. Len(s) /\ Len(s) \in Nat /\ ToSet(s) \subseteq S BY ListSet
<1>2. \A i \in 1 .. Len(s) : s[i] \in ToSet(s) BY <1>1 DEF ToSet
<1>3. s = [i \in 1 .. Len(s) |-> s[i]] OBVIOUS
<1>4. s \in [1 .. Len(s) -> ToSet(s)] BY <1>2, <1>3
<1>5. s \in Seq(ToSet(s)) BY <1>1, <1>4
<1> QED BY <1>1, <1>5

-----------------------------------------------------------------------------
(* What a step makes of a descriptor, a record and an agent.                *)

LEMMA DescFields ==
  ASSUME NEW D, DescOK(D), NEW x
  PROVE  /\ DescOK([D EXCEPT !.isact = x]) /\ DescOK([D EXCEPT !.active = x])
         /\ DescOK([D EXCEPT !.meta = x])
<1>1. /\ [D EXCEPT !.isact = x].pvs = D.pvs /\ [D EXCEPT !.isact = x].act = D.act
      /\ DescShape([D EXCEPT !.isact = x])
  BY DEF DescOK, DescShape
<1>2. /\ [D EXCEPT !.active = x].pvs = D.pvs /\ [D EXCEPT !.active = x].act = D.act
      /\ DescShape([D EXCEPT !.active = x])
  BY DEF DescOK, DescShape
<1>3. /\ [D EXCEPT !.meta = x].pvs = D.pvs /\ [D EXCEPT !.meta = x].act = D.act
      /\ DescShape([D EXCEPT !.meta = x])
  BY DEF DescOK, DescShape
<1> QED BY <1>1, <1>2, <1>3 DEF DescOK

LEMMA SameNumbers ==
  ASSUME NEW r, RecOK(r), NEW q, RecShape(q), q.pvs = r.pvs, q.act = r.act, q.ign = r.ign,
         q.var = r.var
  PROVE  RecOK(q)
<1>1. Order(q) = Order(r) BY DEF Order, Streamed
<1> QED BY <1>1 DEF RecOK, Numbered

LEMMA RecFields ==
  ASSUME NEW r, RecOK(r), NEW x
  PROVE  RecOK([r EXCEPT !.isact = x]) /\ RecOK([r EXCEPT !.active = x])
<1>1. LET q == [r EXCEPT !.isact = x] IN
      RecShape(q) /\ q.pvs = r.pvs /\ q.act = r.act /\ q.ign = r.ign /\ q.var = r.var
  BY DEF RecOK, RecShape
<1>2. LET q == [r EXCEPT !.active = x] IN
      RecShape(q) /\ q.pvs = r.pvs /\ q.act = r.act /\ q.ign = r.ign /\ q.var = r.var
  BY DEF RecOK, RecShape
<1>3. RecOK([r EXCEPT !.isact = x]) BY <1>1, SameNumbers
<1>4. RecOK([r EXCEPT !.active = x]) BY <1>2, SameNumbers
<1> QED BY <1>3, <1>4

LEMMA TransientOK == ASSUME NEW r, RecOK(r) PROVE DescOK(Transient(r))
<1>1. /\ Transient(r).pvs = r.pvs /\ Transient(r).act = r.act /\ DescShape(Transient(r))
  BY DEF Transient, DescShape
<1> QED BY <1>1 DEF DescOK, RecOK

LEMMA AgentFields ==
  ASSUME NEW a, AgentOK(a)
  PROVE  /\ \A D : (D # None => DescOK(D)) =>
              /\ AgentOK([a EXCEPT !.desc = D]) /\ [a EXCEPT !.desc = D].rec = a.rec
              /\ [a EXCEPT !.desc = D].desc = D
         /\ \A r : (r # None => RecOK(r)) =>
              /\ AgentOK([a EXCEPT !.rec = r]) /\ [a EXCEPT !.rec = r].rec = r
              /\ [a EXCEPT !.rec = r].desc = a.desc
         /\ \A x : /\ AgentOK([a EXCEPT !.changed = x]) /\ AgentOK([a EXCEPT !.mon = x])
                   /\ AgentOK([a EXCEPT !.defined = x]) /\ AgentOK([a EXCEPT !.garbage = x])
                   /\ AgentOK([a EXCEPT !.on = x])
                   /\ [a EXCEPT !.changed = x].desc = a.desc
                   /\ [a EXCEPT !.changed = x].rec = a.rec
                   /\ [a EXCEPT !.mon = x].desc = a.desc
                   /\ [a EXCEPT !.mon = x].rec = a.rec
                   /\ [a EXCEPT !.defined = x].desc = a.desc
                   /\ [a EXCEPT !.defined = x].rec = a.rec
BY DEF AgentOK

LEMMA NoAgentOK == AgentOK(NoAgent) /\ NoAgent.desc = None /\ NoAgent.rec = None
BY DEF AgentOK, NoAgent

LEMMA SetActiveOK ==
  ASSUME NEW a, AgentOK(a), NEW ch, NEW c, NEW x
  PROVE  AgentOK(SetActive(a, ch, c, x))
<1>1. CASE ch.pv = "desc" /\ a.desc # None /\ a.desc.act = c
  <2>1. SetActive(a, ch, c, x) = [a EXCEPT !.desc = [a.desc EXCEPT !.isact = x]]
    BY <1>1 DEF SetActive
  <2>2. DescOK([a.desc EXCEPT !.isact = x]) BY <1>1, DescFields DEF AgentOK
  <2> QED BY <2>1, <2>2, AgentFields
<1>2. CASE ~(ch.pv = "desc" /\ a.desc # None /\ a.desc.act = c)
           /\ ch.pv = "rec" /\ a.rec # None /\ a.rec.act = c
  <2>1. SetActive(a, ch, c, x) = [a EXCEPT !.rec = [a.rec EXCEPT !.isact = x]]
    BY <1>2 DEF SetActive
  <2>2. RecOK([a.rec EXCEPT !.isact = x]) BY <1>2, RecFields DEF AgentOK
  <2> QED BY <2>1, <2>2, AgentFields
<1>3. CASE ~(ch.pv = "desc" /\ a.desc # None /\ a.desc.act = c)
           /\ ~(ch.pv = "rec" /\ a.rec # None /\ a.rec.act = c)
  BY <1>3 DEF SetActive
<1> QED BY <1>1, <1>2, <1>3

\* The configuration manager keeps the object of the agent.
LEMMA SharedOK ==
  ASSUME RecordsOK, NEW d, NEW r, r # None => RecOK(r), known' = Shared(d, r)
  PROVE  RecordsOK'
<1> DEFINE q == IF known[d] # None /\ r # None /\ known[d].ver = r.ver THEN r ELSE known[d]
<1>1. known' = [known EXCEPT ![d] = q] BY DEF Shared
<1>2. d \in Devices /\ q # None => RecOK(q) BY DEF RecordsOK
<1> HIDE DEF q
<1> QED BY <1>1, <1>2, RecordStep

LEMMA AfterScanOK ==
  ASSUME NEW d, AgentOK(agent[d])
  PROVE  AgentOK(AfterScan(d)) /\ AfterScan(d).rec = agent[d].rec
<1> DEFINE a == agent[d]
           S == {c \in In(chan[d], {"available"}) : chan[d][c].pv = "desc"}
           D == IF a.desc = None THEN None ELSE setMetadata(a.desc, chan[d], S)
           b == [a EXCEPT !.changed = FALSE]
<1>1. AfterScan(d) = [b EXCEPT !.desc = D]
  <2>1. AfterScan(d) = [a EXCEPT !.changed = FALSE, !.desc = D] BY DEF AfterScan
  <2> HIDE DEF D, a
  <2> QED BY <2>1
<1>2. D # None => DescOK(D)
  <2>1. CASE a.desc = None BY <2>1
  <2>2. CASE a.desc # None
    <3>1. DescOK(a.desc) BY <2>2 DEF AgentOK
    <3>2. D = [a.desc EXCEPT !.meta = With(a.desc.meta, [c \in S |-> chan[d][c].ca])]
      BY <2>2 DEF setMetadata
    <3> HIDE DEF D, a
    <3> QED BY <3>1, <3>2, DescFields
  <2> QED BY <2>1, <2>2
<1> HIDE DEF D, S
<1>3. AgentOK(b) /\ b.rec = a.rec BY AgentFields
<1> HIDE DEF b
<1> QED BY <1>1, <1>2, <1>3, AgentFields

-----------------------------------------------------------------------------
(* The steps of an agent.                                                   *)

LEMMA ConnectionUpInv ==
  ASSUME DevicesInv, NEW d \in Devices, NEW c, ConnectionUp(d, c)
  PROVE  DevicesInv'
<1>1. agent' = [agent EXCEPT ![d] = [agent[d] EXCEPT !.changed = TRUE]]
  BY DEF ConnectionUp
<1>2. AgentOK([agent[d] EXCEPT !.changed = TRUE])
  BY AgentFields DEF DevicesInv, AgentsOK
<1>3. AgentsOK' BY <1>1, <1>2, AgentStep DEF DevicesInv
<1>4. UNCHANGED <<known, todo, file>> BY DEF ConnectionUp
<1> QED BY <1>3, <1>4 DEF DevicesInv, RecordsOK, TodoOK, FileOK

LEMMA ConnectionDownInv ==
  ASSUME DevicesInv, NEW d \in Devices, NEW c, ConnectionDown(d, c)
  PROVE  DevicesInv'
<1> DEFINE a == SetActive(agent[d], chan[d][c], c, "unknown")
<1>1. agent' = [agent EXCEPT ![d] = a] /\ known' = Shared(d, a.rec)
  BY DEF ConnectionDown
<1>2. AgentOK(a) BY SetActiveOK DEF DevicesInv, AgentsOK
<1> HIDE DEF a
<1>3. AgentsOK' BY <1>1, <1>2, AgentStep DEF DevicesInv
<1>4. RecordsOK'
  <2>1. a.rec # None => RecOK(a.rec) BY <1>2 DEF AgentOK
  <2> QED BY <1>1, <2>1, SharedOK DEF DevicesInv
<1>5. UNCHANGED <<todo, file>> BY DEF ConnectionDown
<1> QED BY <1>3, <1>4, <1>5 DEF DevicesInv, TodoOK, FileOK

LEMMA TimeRecordInv ==
  ASSUME DevicesInv, NEW d \in Devices, NEW c, TimeRecord(d, c)
  PROVE  DevicesInv'
<1>1. PICK v \in Vals :
         LET val == updateState(v)
             on == v # 0
             ch == [chan[d] EXCEPT ![c].val = val]
             a0 == SetActive(agent[d], ch[c], c, IF on THEN "active" ELSE "inactive")
             D == PvOwner(a0, ch[c])
             isActivePv == D # None /\ D.act = c
             a == IF isActivePv /\ ch[c].dev # None /\ a0.rec # None
                  THEN [a0 EXCEPT !.rec.active = on] ELSE a0
         IN  agent' = [agent EXCEPT ![d] = a] /\ known' = Shared(d, a.rec)
  BY DEF TimeRecord
<1> DEFINE on == v # 0
           ch == [chan[d] EXCEPT ![c].val = updateState(v)]
           a0 == SetActive(agent[d], ch[c], c, IF on THEN "active" ELSE "inactive")
           D == PvOwner(a0, ch[c])
           isActivePv == D # None /\ D.act = c
           a == IF isActivePv /\ ch[c].dev # None /\ a0.rec # None
                THEN [a0 EXCEPT !.rec.active = on] ELSE a0
<1>2. agent' = [agent EXCEPT ![d] = a] /\ known' = Shared(d, a.rec) BY <1>1
<1>3. AgentOK(a0) BY SetActiveOK DEF DevicesInv, AgentsOK
<1> HIDE DEF a0, ch
<1>4. AgentOK(a)
  <2>1. CASE isActivePv /\ ch[c].dev # None /\ a0.rec # None
    <3>1. a = [a0 EXCEPT !.rec = [a0.rec EXCEPT !.active = on]] BY <2>1
    <3>2. RecOK([a0.rec EXCEPT !.active = on]) BY <1>3, <2>1, RecFields DEF AgentOK
    <3> HIDE DEF a, on
    <3> QED BY <1>3, <3>1, <3>2, AgentFields
  <2>2. CASE ~(isActivePv /\ ch[c].dev # None /\ a0.rec # None)
    BY <1>3, <2>2
  <2> QED BY <2>1, <2>2
<1> HIDE DEF a
<1>5. AgentsOK' BY <1>2, <1>4, AgentStep DEF DevicesInv
<1>6. RecordsOK'
  <2>1. a.rec # None => RecOK(a.rec) BY <1>4 DEF AgentOK
  <2> QED BY <1>2, <2>1, SharedOK DEF DevicesInv
<1>7. UNCHANGED <<todo, file>> BY DEF TimeRecord
<1> QED BY <1>5, <1>6, <1>7 DEF DevicesInv, TodoOK, FileOK

LEMMA CtrlRecordInv ==
  ASSUME DevicesInv, NEW d \in Devices, NEW c, CtrlRecord(d, c)
  PROVE  DevicesInv'
<1> DEFINE x == agent[d].changed \/ chan[d][c].st = "pending"
<1>1. agent' = [agent EXCEPT ![d] = [agent[d] EXCEPT !.changed = x]]
  BY DEF CtrlRecord
<1>2. AgentOK([agent[d] EXCEPT !.changed = x])
  BY AgentFields DEF DevicesInv, AgentsOK
<1> HIDE DEF x
<1>3. AgentsOK' BY <1>1, <1>2, AgentStep DEF DevicesInv
<1>4. UNCHANGED <<known, todo, file>> BY DEF CtrlRecord
<1> QED BY <1>3, <1>4 DEF DevicesInv, RecordsOK, TodoOK, FileOK

LEMMA MetadataChangedInv ==
  ASSUME DevicesInv, NEW d \in Devices, MetadataChanged(d)
  PROVE  DevicesInv'
<1>1. /\ agent[d].rec # None
      /\ \E ch, S : agent' = [agent EXCEPT ![d].defined = FALSE,
                          ![d].desc = setMetadata(Transient(agent[d].rec), ch, S)]
  BY DEF MetadataChanged
<1>2. PICK ch, S : agent' = [agent EXCEPT ![d].defined = FALSE,
                       ![d].desc = setMetadata(Transient(agent[d].rec), ch, S)]
  BY <1>1
<1> DEFINE T == Transient(agent[d].rec)
           D == setMetadata(T, ch, S)
           b == [agent[d] EXCEPT !.defined = FALSE]
<1>3. DescOK(T) BY <1>1, TransientOK DEF DevicesInv, AgentsOK, AgentOK
<1>4. DescOK(D)
  <2> HIDE DEF T
  <2>1. D = [T EXCEPT !.meta = With(T.meta, [c \in S |-> ch[c].ca])] BY DEF setMetadata
  <2> HIDE DEF D
  <2> QED BY <1>3, <2>1, DescFields
<1>5. AgentOK(b) BY AgentFields DEF DevicesInv, AgentsOK
<1> HIDE DEF T
<1>6. agent' = [agent EXCEPT ![d] = [b EXCEPT !.desc = D]]
  <2> HIDE DEF D
  <2> QED BY <1>2 DEF D, T
<1> HIDE DEF D, b
<1>7. AgentOK([b EXCEPT !.desc = D]) BY <1>4, <1>5, AgentFields
<1>8. AgentsOK' BY <1>6, <1>7, AgentStep DEF DevicesInv
<1>9. UNCHANGED <<known, todo, file>> BY DEF MetadataChanged
<1> QED BY <1>8, <1>9 DEF DevicesInv, RecordsOK, TodoOK, FileOK

LEMMA ScanOnlyInv ==
  ASSUME DevicesInv, NEW d \in Devices, ScanOnly(d)
  PROVE  DevicesInv'
<1>1. agent' = [agent EXCEPT ![d] = AfterScan(d)] BY DEF ScanOnly
<1>2. AgentOK(AfterScan(d)) BY AfterScanOK DEF DevicesInv, AgentsOK
<1>3. AgentsOK' BY <1>1, <1>2, AgentStep DEF DevicesInv
<1>4. UNCHANGED <<known, todo, file>> BY DEF ScanOnly
<1> QED BY <1>3, <1>4 DEF DevicesInv, RecordsOK, TodoOK, FileOK

LEMMA DefineInv ==
  ASSUME DevicesInv, NEW d \in Devices, Define(d)
  PROVE  DevicesInv'
<1> DEFINE a == AfterScan(d)
           q == defineDevice(d, a.desc).rec
           rec == [q EXCEPT !.active = Activated(q)]
           b == [a EXCEPT !.rec = rec]
           e == [b EXCEPT !.desc = None]
<1>1. /\ a.desc # None
      /\ agent' = [agent EXCEPT ![d] = [a EXCEPT !.rec = rec, !.desc = None, !.defined = TRUE]]
      /\ known' = [known EXCEPT ![d] = rec]
  BY DEF Define
<1>2. AgentOK(a) BY AfterScanOK DEF DevicesInv, AgentsOK
<1> HIDE DEF a
<1>3. RecOK(q)
  <2>1. DescOK(a.desc) BY <1>1, <1>2 DEF AgentOK
  <2>2. known[d] # None => RecOK(known[d]) BY DEF DevicesInv, RecordsOK
  <2> QED BY <2>1, <2>2, DefinedOK
<1> HIDE DEF q
<1>4. RecOK(rec) BY <1>3, RecFields
<1> HIDE DEF rec
<1>5. AgentOK(b) BY <1>2, <1>4, AgentFields
<1>6. agent' = [agent EXCEPT ![d] = [e EXCEPT !.defined = TRUE]] BY <1>1
<1> HIDE DEF b
<1>7. AgentOK(e) BY <1>5, AgentFields
<1> HIDE DEF e
<1>8. AgentOK([e EXCEPT !.defined = TRUE]) BY <1>7, AgentFields
<1>9. AgentsOK' BY <1>6, <1>8, AgentStep DEF DevicesInv
<1>10. RecordsOK' BY <1>1, <1>4, RecordStep DEF DevicesInv
<1>11. UNCHANGED <<todo, file>> BY DEF Define
<1> QED BY <1>9, <1>10, <1>11 DEF DevicesInv, TodoOK, FileOK

LEMMA MonitorInv ==
  ASSUME DevicesInv, NEW d \in Devices, MonitorReady(d) \/ MonitorDefined(d)
  PROVE  DevicesInv'
<1>1. PICK x : agent' = [agent EXCEPT ![d] = [agent[d] EXCEPT !.mon = x]]
  BY DEF MonitorReady, MonitorDefined
<1>2. AgentOK([agent[d] EXCEPT !.mon = x])
  BY AgentFields DEF DevicesInv, AgentsOK
<1>3. AgentsOK' BY <1>1, <1>2, AgentStep DEF DevicesInv
<1>4. UNCHANGED <<known, todo, file>> BY DEF MonitorReady, MonitorDefined
<1> QED BY <1>3, <1>4 DEF DevicesInv, RecordsOK, TodoOK, FileOK

LEMMA MonitorHungInv ==
  ASSUME DevicesInv, NEW d \in Devices, MonitorHung(d)
  PROVE  DevicesInv'
<1>0. UNCHANGED <<todo, file>> BY DEF MonitorHung
<1>1. CASE agent[d].desc = None
  <2>1. UNCHANGED <<agent, known>> BY <1>1 DEF MonitorHung
  <2> QED BY <1>0, <2>1 DEF DevicesInv, AgentsOK, RecordsOK, TodoOK, FileOK
<1>2. CASE agent[d].desc # None
  <2> DEFINE x == IF agent[d].desc.act = None \/ agent[d].desc.isact = "unknown"
                  THEN agent[d].desc.active ELSE agent[d].desc.isact = "active"
             D == [agent[d].desc EXCEPT !.active = x]
             b == [agent[d] EXCEPT !.mon = "fault"]
             e == [b EXCEPT !.rec = None]
             r == IF agent[d].rec = None THEN known[d] ELSE None
  <2>1. /\ agent' = [agent EXCEPT ![d] = [agent[d] EXCEPT !.mon = "fault", !.rec = None, !.desc = D]]
        /\ known' = [known EXCEPT ![d] = r]
    <3>1. agent' = [agent EXCEPT ![d].mon = "fault", ![d].rec = None,
                                 ![d].desc.active =
                                   IF agent[d].desc.act = None \/ agent[d].desc.isact = "unknown"
                                   THEN @ ELSE agent[d].desc.isact = "active"]
      BY <1>2, Zenon DEF MonitorHung
    <3>2. known' = [known EXCEPT ![d] = r] BY <1>2 DEF MonitorHung
    <3> QED BY <3>1, <3>2
  <2>2. AgentOK(agent[d]) BY DEF DevicesInv, AgentsOK
  <2> HIDE DEF x
  <2>3. DescOK(D) BY <1>2, <2>2, DescFields DEF AgentOK
  <2> HIDE DEF D
  <2>4. agent' = [agent EXCEPT ![d] = [e EXCEPT !.desc = D]] BY <2>1
  <2>5. AgentOK(b) BY <2>2, AgentFields
  <2> HIDE DEF b
  <2>6. AgentOK(e) BY <2>5, AgentFields
  <2> HIDE DEF e
  <2>7. AgentOK([e EXCEPT !.desc = D]) BY <2>3, <2>6, AgentFields
  <2>8. AgentsOK' BY <2>4, <2>7, AgentStep DEF DevicesInv
  <2>9. r # None => RecOK(r) BY DEF DevicesInv, RecordsOK
  <2> HIDE DEF r
  <2>10. RecordsOK' BY <2>1, <2>9, RecordStep DEF DevicesInv
  <2> QED BY <1>0, <2>8, <2>10 DEF DevicesInv, TodoOK, FileOK
<1> QED BY <1>1, <1>2

\* A record that is undefined when the agent has one.
LEMMA UndefinedOK ==
  ASSUME RecordsOK, NEW d,
         known' = [known EXCEPT ![d] = IF agent[d].rec = None THEN @ ELSE None]
  PROVE  RecordsOK'
<1> DEFINE r == IF agent[d].rec = None THEN known[d] ELSE None
<1>1. known' = [known EXCEPT ![d] = r] OBVIOUS
<1>2. d \in Devices /\ r # None => RecOK(r) BY DEF RecordsOK
<1> HIDE DEF r
<1> QED BY <1>1, <1>2, RecordStep

LEMMA gcThreadInv ==
  ASSUME DevicesInv, NEW d \in Devices, gcThread(d)
  PROVE  DevicesInv'
<1>1. agent' = [agent EXCEPT ![d] = NoAgent] BY DEF gcThread
<1>2. AgentsOK' BY <1>1, NoAgentOK, AgentStep DEF DevicesInv
<1>3. known' = [known EXCEPT ![d] = IF agent[d].rec = None THEN @ ELSE None] BY DEF gcThread
<1>4. RecordsOK' BY <1>3, UndefinedOK DEF DevicesInv
<1>5. UNCHANGED <<todo, file>> BY DEF gcThread
<1> QED BY <1>2, <1>4, <1>5 DEF DevicesInv, TodoOK, FileOK

-----------------------------------------------------------------------------
(* The steps of the thread that follows the file.                           *)

LEMMA SetToSeqLists ==
  ASSUME NEW S, IsFiniteSet(S)
  PROVE  /\ SetToSeq(S) \in Seq(S)
         /\ \A x \in S : \E k \in DOMAIN SetToSeq(S) : SetToSeq(S)[k] = x
         /\ \A j, k \in DOMAIN SetToSeq(S) :
                SetToSeq(S)[j] = SetToSeq(S)[k] => j = k
<1>1. PICK f \in Bijection(1 .. Cardinality(S), S) : TRUE
  BY FS_CardinalityType DEF ExistsBijection
<1> DEFINE q == SetToSeq(S)
<1>2. f \in [1 .. Cardinality(S) -> S] /\ IsInjective(f)
  BY DEF Bijection, Injection, IsInjective
<1>3. q \in [1 .. Cardinality(S) -> S] /\ IsInjective(q)
  BY <1>2 DEF SetToSeq
<1>4. Cardinality(S) \in Nat BY FS_CardinalityType
<1>5. q \in Injection(1 .. Cardinality(S), S)
  BY <1>3 DEF Injection
<1>6. Cardinality(1 .. Cardinality(S)) = Cardinality(S)
  BY <1>4, FS_Interval
<1>7. q \in Surjection(1 .. Cardinality(S), S)
  BY <1>5, <1>6, FS_Injection
<1>8. DOMAIN q = 1 .. Cardinality(S) BY <1>3
<1> HIDE DEF q
<1>9. q \in Seq(S) BY <1>3, <1>4
<1> QED BY <1>3, <1>7, <1>8, <1>9 DEF Surjection, IsInjective, q

LEMMA MapIs ==
  ASSUME NEW S, NEW n \in Nat, NEW f, f = [i \in 1 .. n |-> f[i]],
         \A i \in 1 .. n : f[i] \in S
  PROVE  f \in Seq(S)
<1>1. f \in [1 .. n -> S] BY Zenon
<1> QED BY <1>1

LEMMA SortedDomain ==
  ASSUME NEW f, DOMAIN f = 1 .. Len(f), Len(f) \in Nat, NEW S \in SUBSET (DOMAIN f)
  PROVE  \E n \in Nat : Sorted(S) \in [1 .. n -> S]
<1>1. IsFiniteSet(DOMAIN f) BY FS_Interval
<1>2. S \in SUBSET Nat /\ IsFiniteSet(S) BY <1>1, FS_Subset
<1> QED BY <1>2, SortedIs

Entries == [dev : Devices, on : BOOLEAN, pvs : Seq(Conns), act : Acts]

LEMMA FileIs ==
  ASSUME NEW f \in Files \cup {<<>>}
  PROVE  f \in Seq(Entries) /\ DOMAIN f = 1 .. Len(f) /\ Len(f) \in Nat
<1>1. f \in Seq(Entries)
  <2>1. CASE f \in Files BY <2>1, StreamerAssumption, Zenon DEF Entries, Acts
  <2>2. CASE f = <<>> BY <2>2
  <2> QED BY <2>1, <2>2
<1> QED BY <1>1, ListSet

LEMMA UsedIs ==
  ASSUME NEW f \in Files \cup {<<>>}
  PROVE  /\ \E n \in Nat : Used(f) \in [1 .. n -> DOMAIN f]
         /\ \E n \in Nat : Unused(f) \in [1 .. n -> DOMAIN f]
         /\ IsFiniteSet(Names(f))
<1>1. DOMAIN f = 1 .. Len(f) /\ Len(f) \in Nat BY FileIs
<1>2. \E n \in Nat : Used(f) \in [1 .. n -> DOMAIN f]
  <2> DEFINE S == {i \in DOMAIN f : f[i].on /\ f[i].pvs # <<>>}
  <2>1. S \in SUBSET (DOMAIN f) OBVIOUS
  <2>2. Used(f) = Sorted(S) BY DEF Used
  <2> HIDE DEF S
  <2>3. PICK n \in Nat : Sorted(S) \in [1 .. n -> S] BY <1>1, <2>1, SortedDomain
  <2> QED BY <2>1, <2>2, <2>3
<1>3. \E n \in Nat : Unused(f) \in [1 .. n -> DOMAIN f]
  <2> DEFINE S == {i \in DOMAIN f : ~f[i].on}
  <2>1. S \in SUBSET (DOMAIN f) OBVIOUS
  <2>2. Unused(f) = Sorted(S) BY DEF Unused
  <2> HIDE DEF S
  <2>3. PICK n \in Nat : Sorted(S) \in [1 .. n -> S] BY <1>1, <2>1, SortedDomain
  <2> QED BY <2>1, <2>2, <2>3
<1>4. IsFiniteSet(Names(f))
  <2>1. PICK n \in Nat : Used(f) \in [1 .. n -> DOMAIN f] BY <1>2
  <2> DEFINE g == [i \in 1 .. n |-> f[Used(f)[i]].dev]
  <2>2. Names(f) = {f[Used(f)[i]].dev : i \in 1 .. n} BY <2>1 DEF Names, ToSet
  <2>3. g \in Surjection(1 .. n, Names(f)) BY <2>2 DEF Surjection
  <2>4. IsFiniteSet(1 .. n) BY FS_Interval
  <2> HIDE DEF g
  <2> QED BY <2>3, <2>4, FS_Surjection
<1> QED BY <1>2, <1>3, <1>4

LEMMA DescriptorOK ==
  ASSUME NEW f \in Files \cup {<<>>}, NEW i \in DOMAIN f
  PROVE  DescOK(Descriptor(f, i))
<1>1. f[i] \in Entries BY FileIs
<1>2. f[i].pvs \in Seq(Conns) /\ f[i].act \in Acts BY <1>1 DEF Entries
<1>3. Besides(f[i].pvs, {f[i].act}) \in Seq(Conns) BY <1>2, BesidesIs
<1>4. DescShape(Descriptor(f, i)) BY DEF DescShape, Descriptor
<1>5. /\ Descriptor(f, i).pvs = Besides(f[i].pvs, {f[i].act})
      /\ Descriptor(f, i).act = f[i].act
  BY DEF Descriptor
<1> QED BY <1>2, <1>3, <1>4, <1>5 DEF DescOK

LEMMA OpIs ==
  ASSUME NEW k, NEW d, NEW D, NEW n, k \in {"update", "updating"} => DescOK(D)
  PROVE  OpOK(Op(k, d, D, n))
BY DEF OpOK, Op

LEMMA configFileMonitorInv ==
  ASSUME DevicesInv, configFileMonitor
  PROVE  DevicesInv'
<1>1. PICK f \in Files :
        /\ file' = f
        /\ LET gone == SetToSeq(Names(file) \ Names(f)) IN
             todo' = [i \in DOMAIN gone |-> Op("stop", gone[i], None, 0)]
                       \o [i \in DOMAIN Unused(f) |-> Op("undefine", None, None, Unused(f)[i])]
                       \o [i \in DOMAIN Used(f) |-> Op("update", f[Used(f)[i]].dev,
                                                       Descriptor(f, Used(f)[i]), 0)]
  BY DEF configFileMonitor
<1> DEFINE gone == SetToSeq(Names(file) \ Names(f))
           A == [i \in DOMAIN gone |-> Op("stop", gone[i], None, 0)]
           B == [i \in DOMAIN Unused(f) |-> Op("undefine", None, None, Unused(f)[i])]
           C == [i \in DOMAIN Used(f) |-> Op("update", f[Used(f)[i]].dev,
                                              Descriptor(f, Used(f)[i]), 0)]
           S == ToSet(A) \cup ToSet(B) \cup ToSet(C)
<1>2. todo' = A \o B \o C BY <1>1
<1>3. PICK m \in Nat : Unused(f) \in [1 .. m -> DOMAIN f] BY UsedIs
<1>4. PICK n \in Nat : Used(f) \in [1 .. n -> DOMAIN f] BY UsedIs
<1>5. \E l \in Nat : DOMAIN gone = 1 .. l
  <2> DEFINE G == Names(file) \ Names(f)
  <2>1. IsFiniteSet(Names(file)) BY UsedIs DEF DevicesInv, FileOK
  <2>2. IsFiniteSet(G) BY <2>1, FS_Difference
  <2> HIDE DEF G
  <2>3. SetToSeq(G) \in Seq(G) BY <2>2, SetToSeqLists
  <2>4. DOMAIN SetToSeq(G) = 1 .. Len(SetToSeq(G)) /\ Len(SetToSeq(G)) \in Nat BY <2>3, ListSet
  <2> QED BY <2>4 DEF G
<1>6. PICK l \in Nat : DOMAIN gone = 1 .. l BY <1>5
<1> HIDE DEF gone
<1>7. \A i \in 1 .. l : OpOK(A[i])
  <2> TAKE i \in 1 .. l
  <2>1. A[i] = Op("stop", gone[i], None, 0) BY <1>6
  <2> QED BY <2>1, OpIs
<1>8. \A i \in 1 .. m : OpOK(B[i])
  <2> TAKE i \in 1 .. m
  <2>1. B[i] = Op("undefine", None, None, Unused(f)[i]) BY <1>3
  <2> QED BY <2>1, OpIs
<1>9. \A i \in 1 .. n : OpOK(C[i])
  <2> TAKE i \in 1 .. n
  <2>1. C[i] = Op("update", f[Used(f)[i]].dev, Descriptor(f, Used(f)[i]), 0) BY <1>4
  <2>2. Used(f)[i] \in DOMAIN f BY <1>4
  <2>3. DescOK(Descriptor(f, Used(f)[i])) BY <2>2, DescriptorOK
  <2> QED BY <2>1, <2>3, OpIs
<1>10. DOMAIN A = 1 .. l /\ DOMAIN B = 1 .. m /\ DOMAIN C = 1 .. n BY <1>3, <1>4, <1>6
<1>11. /\ A = [i \in 1 .. l |-> A[i]] /\ B = [i \in 1 .. m |-> B[i]] /\ C = [i \in 1 .. n |-> C[i]]
  BY <1>10
<1> HIDE DEF A, B, C
<1>12. \A o \in S : OpOK(o) BY <1>7, <1>8, <1>9, <1>10 DEF ToSet
<1>13. /\ \A i \in 1 .. l : A[i] \in S
       /\ \A i \in 1 .. m : B[i] \in S
       /\ \A i \in 1 .. n : C[i] \in S
  BY <1>10 DEF ToSet
<1> HIDE DEF S
<1>14. A \in Seq(S) /\ B \in Seq(S) /\ C \in Seq(S) BY <1>11, <1>13, MapIs
<1>15. todo' \in Seq(S) BY <1>2, <1>14
<1>16. TodoOK' BY <1>12, <1>15, ListOK DEF TodoOK
<1>17. FileOK' BY <1>1 DEF FileOK
<1>18. UNCHANGED <<agent, known>> BY DEF configFileMonitor
<1> QED BY <1>16, <1>17, <1>18 DEF DevicesInv, AgentsOK, RecordsOK

LEMMA TodoHead ==
  ASSUME TodoOK, todo # <<>>
  PROVE  OpOK(Head(todo)) /\ Tail(todo) \in Seq(ToSet(todo))
<1>1. Head(todo) \in ToSet(todo) /\ Tail(todo) \in Seq(ToSet(todo)) BY DEF TodoOK
<1> QED BY <1>1 DEF TodoOK

LEMMA TodoTail == ASSUME TodoOK, todo # <<>>, todo' = Tail(todo) PROVE TodoOK'
BY TodoHead, ListOK DEF TodoOK

LEMMA TodoNext ==
  ASSUME TodoOK, todo # <<>>, NEW o, OpOK(o), todo' = <<o>> \o Tail(todo)
  PROVE  TodoOK'
<1> DEFINE S == ToSet(todo) \cup {o}
<1>1. Tail(todo) \in Seq(ToSet(todo)) BY TodoHead
<1>2. Tail(todo) \in Seq(S) BY <1>1
<1>3. \A p \in S : OpOK(p) BY DEF TodoOK
<1>4. o \in S OBVIOUS
<1> HIDE DEF S
<1>5. <<o>> \o Tail(todo) \in Seq(S) BY <1>2, <1>4
<1> QED BY <1>3, <1>5, ListOK DEF TodoOK

LEMMA StopInv ==
  ASSUME DevicesInv, StopUndefine \/ StopClear
  PROVE  DevicesInv'
<1> DEFINE h == Head(todo)
           d == h.dev
<1>0. todo # <<>> /\ OpOK(h) BY TodoHead DEF DevicesInv, StopUndefine, StopClear, Doing
<1>1. CASE StopUndefine
  <2> DEFINE o == [h EXCEPT !.op = "stopping"]
  <2>1. /\ agent' = [agent EXCEPT ![d] = [agent[d] EXCEPT !.rec = None]]
        /\ known' = [known EXCEPT ![d] = IF agent[d].rec = None THEN @ ELSE None]
        /\ todo' = <<o>> \o Tail(todo) /\ file' = file
    BY <1>1 DEF StopUndefine
  <2>2. OpOK(o) BY <1>0 DEF OpOK
  <2> HIDE DEF o, h
  <2>3. TodoOK' BY <1>0, <2>1, <2>2, TodoNext DEF DevicesInv
  <2>4. d \in Devices => AgentOK([agent[d] EXCEPT !.rec = None])
    BY AgentFields DEF DevicesInv, AgentsOK
  <2> HIDE DEF d
  <2>5. AgentsOK' BY <2>1, <2>4, AgentStep DEF DevicesInv
  <2>6. RecordsOK' BY <2>1, UndefinedOK DEF DevicesInv
  <2> QED BY <2>1, <2>3, <2>5, <2>6 DEF DevicesInv, FileOK
<1>2. CASE StopClear
  <2>1. /\ agent' = [agent EXCEPT ![d] = [agent[d] EXCEPT !.garbage = TRUE]]
        /\ todo' = Tail(todo) /\ UNCHANGED <<known, file>>
    BY <1>2 DEF StopClear
  <2>2. TodoOK' BY <1>0, <2>1, TodoTail DEF DevicesInv
  <2> HIDE DEF h
  <2>3. d \in Devices => AgentOK([agent[d] EXCEPT !.garbage = TRUE])
    BY AgentFields DEF DevicesInv, AgentsOK
  <2> HIDE DEF d
  <2>4. AgentsOK' BY <2>1, <2>3, AgentStep DEF DevicesInv
  <2> QED BY <2>1, <2>2, <2>4 DEF DevicesInv, RecordsOK, FileOK
<1> QED BY <1>1, <1>2

LEMMA undefineInv ==
  ASSUME DevicesInv, undefine
  PROVE  DevicesInv'
<1>1. PICK S : known' = [d \in Devices |-> IF d \in S THEN None ELSE known[d]]
  BY DEF undefine
<1>2. todo # <<>> /\ todo' = Tail(todo) /\ UNCHANGED <<agent, file>> BY DEF undefine, Doing
<1>3. RecordsOK'
  <2>1. \A d \in Devices : known'[d] # None => RecOK(known'[d]) BY <1>1 DEF DevicesInv, RecordsOK
  <2>2. known' = [d \in Devices |-> known'[d]] BY <1>1
  <2> QED BY <2>1, <2>2 DEF RecordsOK
<1>4. TodoOK' BY <1>2, TodoTail DEF DevicesInv
<1> QED BY <1>2, <1>3, <1>4 DEF DevicesInv, AgentsOK, FileOK

LEMMA UpdateStartInv ==
  ASSUME DevicesInv, UpdateStart
  PROVE  DevicesInv'
<1> DEFINE h == Head(todo)
           d == h.dev
           a == IF agent[d].on THEN agent[d] ELSE [NoAgent EXCEPT !.on = TRUE]
           old == Current(a)
           x == a.desc # None
           disc == IF old = None THEN <<>> ELSE ToDisconnect(old, h.desc)
           o == [h EXCEPT !.op = "updating", !.had = x, !.old = old, !.disc = disc]
<1>1. /\ todo # <<>> /\ h.op = "update"
      /\ agent' = [agent EXCEPT ![d] = [a EXCEPT !.defined = FALSE]]
      /\ todo' = <<o>> \o Tail(todo) /\ UNCHANGED <<known, file>>
  BY DEF UpdateStart, Doing
<1>2. OpOK(h) BY <1>1, TodoHead DEF DevicesInv
<1> HIDE DEF x, disc, old
<1>3. OpOK(o) BY <1>1, <1>2 DEF OpOK
<1> HIDE DEF o, h
<1>4. TodoOK' BY <1>1, <1>3, TodoNext DEF DevicesInv
<1> HIDE DEF d
<1>5. d \in Devices => AgentOK(a)
  <2>1. AgentOK([NoAgent EXCEPT !.on = TRUE]) BY NoAgentOK, AgentFields
  <2> QED BY <2>1 DEF DevicesInv, AgentsOK
<1> HIDE DEF a
<1>6. d \in Devices => AgentOK([a EXCEPT !.defined = FALSE]) BY <1>5, AgentFields
<1>7. AgentsOK' BY <1>1, <1>6, AgentStep DEF DevicesInv
<1> QED BY <1>1, <1>4, <1>7 DEF DevicesInv, RecordsOK, FileOK

LEMMA disconnectPVInv ==
  ASSUME DevicesInv, disconnectPV
  PROVE  DevicesInv'
<1> DEFINE h == Head(todo)
           o == [h EXCEPT !.disc = Tail(h.disc)]
<1>1. /\ todo # <<>> /\ todo' = <<o>> \o Tail(todo) /\ UNCHANGED <<agent, known, file>>
  BY DEF disconnectPV, Doing
<1>2. OpOK(h) BY <1>1, TodoHead DEF DevicesInv
<1>3. OpOK(o) BY <1>2 DEF OpOK
<1> HIDE DEF o, h
<1>4. TodoOK' BY <1>1, <1>3, TodoNext DEF DevicesInv
<1> QED BY <1>1, <1>4 DEF DevicesInv, AgentsOK, RecordsOK, FileOK

LEMMA UpdateFinishInv ==
  ASSUME DevicesInv, UpdateFinish
  PROVE  DevicesInv'
<1> DEFINE h == Head(todo)
           d == h.dev
           D == h.desc
           now == IF h.had THEN agent[d].desc ELSE agent[d].rec
           same == h.old # None /\ D.act # None /\ h.old.act = D.act
           E == IF same /\ now # None THEN [D EXCEPT !.isact = now.isact] ELSE D
           b == [agent[d] EXCEPT !.changed = TRUE]
<1>1. /\ todo # <<>> /\ h.op = "updating"
      /\ agent' = [agent EXCEPT ![d].changed = TRUE, ![d].desc = E]
      /\ todo' = Tail(todo) /\ UNCHANGED <<known, file>>
  BY DEF UpdateFinish, Doing
<1>2. OpOK(h) BY <1>1, TodoHead DEF DevicesInv
<1>3. DescOK(D) BY <1>1, <1>2 DEF OpOK
<1> HIDE DEF now, same, h
<1>4. DescOK(E) BY <1>3, DescFields
<1> HIDE DEF E, d
<1>5. agent' = [agent EXCEPT ![d] = [b EXCEPT !.desc = E]] BY <1>1
<1>6. d \in Devices => AgentOK([b EXCEPT !.desc = E])
  <2>1. d \in Devices => AgentOK(b) BY AgentFields DEF DevicesInv, AgentsOK
  <2> HIDE DEF b
  <2> QED BY <1>4, <2>1, AgentFields
<1> HIDE DEF b
<1>7. AgentsOK' BY <1>5, <1>6, AgentStep DEF DevicesInv
<1>8. TodoOK' BY <1>1, TodoTail DEF DevicesInv, h
<1> QED BY <1>1, <1>7, <1>8 DEF DevicesInv, RecordsOK, FileOK

-----------------------------------------------------------------------------
(* The invariant holds.                                                     *)

LEMMA UnchangedInv ==
  ASSUME DevicesInv, UNCHANGED <<agent, known, todo, file>>
  PROVE  DevicesInv'
BY DEF DevicesInv, AgentsOK, RecordsOK, TodoOK, FileOK

LEMMA OutputInv == ASSUME DevicesInv, OutputNext PROVE DevicesInv'
<1>1. UNCHANGED <<agent, todo, file>> BY DEF OutputNext
<1>2. UNCHANGED known
  BY DEF OutputNext, PutPacket, GiveUpPacket, TakePacket, SendPacket, Heartbeat, Accept,
         Disconnect
<1> QED BY <1>1, <1>2, UnchangedInv

LEMMA InitInv == ASSUME Init PROVE DevicesInv
<1>1. AgentsOK BY NoAgentOK DEF Init, AgentsOK
<1>2. RecordsOK BY DEF Init, OutputInit, RecordsOK
<1>3. TodoOK
  <2>1. todo = <<>> /\ ToSet(todo) = {} BY DEF Init, ToSet
  <2> QED BY <2>1 DEF TodoOK
<1>4. FileOK BY DEF Init, FileOK
<1> QED BY <1>1, <1>2, <1>3, <1>4 DEF DevicesInv

LEMMA NextInv == ASSUME DevicesInv, [Next]_vars PROVE DevicesInv'
<1>1. ASSUME NEW d \in Devices, AgentNext(d) PROVE DevicesInv'
  <2>1. CASE \E c \in Conns : ConnectionUp(d, c) BY <2>1, ConnectionUpInv
  <2>2. CASE \E c \in Conns : ConnectionDown(d, c) BY <2>2, ConnectionDownInv
  <2>3. CASE \E c \in Conns : TimeRecord(d, c) BY <2>3, TimeRecordInv
  <2>4. CASE \E c \in Conns : CtrlRecord(d, c) BY <2>4, CtrlRecordInv
  <2>5. CASE MetadataChanged(d) BY <2>5, MetadataChangedInv
  <2>6. CASE MetadataWithoutRecord(d)
    BY <2>6, UnchangedInv DEF MetadataWithoutRecord
  <2>7. CASE ScanOnly(d) BY <2>7, ScanOnlyInv
  <2>8. CASE Define(d) BY <2>8, DefineInv
  <2>9. CASE MonitorReady(d) \/ MonitorDefined(d) BY <2>9, MonitorInv
  <2>10. CASE MonitorHung(d) BY <2>10, MonitorHungInv
  <2>11. CASE gcThread(d) BY <2>11, gcThreadInv
  <2> QED BY <1>1, <2>1, <2>2, <2>3, <2>4, <2>5, <2>6, <2>7, <2>8, <2>9, <2>10, <2>11 DEF AgentNext
<1>2. CASE configFileMonitor BY <1>2, configFileMonitorInv
<1>3. CASE StopUndefine \/ StopClear BY <1>3, StopInv
<1>4. CASE undefine BY <1>4, undefineInv
<1>5. CASE UpdateStart BY <1>5, UpdateStartInv
<1>6. CASE disconnectPV BY <1>6, disconnectPVInv
<1>7. CASE UpdateFinish BY <1>7, UpdateFinishInv
<1>8. CASE OutputNext BY <1>8, OutputInv
<1>9. CASE UNCHANGED vars BY <1>9, UnchangedInv DEF vars, agentVars
<1> QED BY <1>1, <1>2, <1>3, <1>4, <1>5, <1>6, <1>7, <1>8, <1>9 DEF Next, FileNext

(* Every descriptor and every record the agents and the configuration       *)
(* manager hold is well formed, and every record has a number of its own    *)
(* for each of its variables (EPICS_DeviceAgent.cpp, ConfigManager.cpp).    *)
THEOREM DevicesInvariant == Spec => []DevicesInv
<1>1. Init => DevicesInv BY InitInv
<1>2. DevicesInv /\ [Next]_vars => DevicesInv' BY NextInv
<1> QED BY <1>1, <1>2, PTL DEF Spec

(* However often a device is redefined, with variables that come, go and    *)
(* come back and an active variable that is one of them or not, every       *)
(* variable in the stream has a number and no two have the same             *)
(* (ConfigManager::defineDevice()).                                         *)
THEOREM VarIdsAlwaysUnique == Spec => []VarIdsUnique
<1>1. DevicesInv => VarIdsUnique
  BY DEF DevicesInv, RecordsOK, RecOK, Numbered, VarIdsUnique
<1> QED BY <1>1, DevicesInvariant, PTL
=============================================================================
