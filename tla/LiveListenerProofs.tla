-------------------------- MODULE LiveListenerProofs --------------------------
(***************************************************************************)
(* A live listener is never left waiting for a signal that will not come,  *)
(* and what it is streamed is complete and container by container: for     *)
(* every number of containers, pause modes and files, every order in which *)
(* old modes and containers end, and every interleaving of the signals of  *)
(* the storage with the listener's socket.                                 *)
(*                                                                         *)
(* The storage's half of the invariant says which events the operation in  *)
(* progress may still deliver: a container ends after its last file was    *)
(* announced, and starts before its first.  The client's half says what    *)
(* the client is subscribed to, which containers it follows, waits for or  *)
(* is done with, and in which order the files it sent and has listed come. *)
(***************************************************************************)
EXTENDS LiveListener, SequenceTheorems, WellFoundedInduction, TLAPS


-----------------------------------------------------------------------------
(* The inductive invariant, as predicates of the files F, the stack S, the  *)
(* lists L, the index I, the operation in progress T and the client c.      *)

FileRec == [cont : Nat, paused : BOOLEAN, active : BOOLEAN, size : Nat, seen : Nat]
Mode == [file : Nat, paused : BOOLEAN, pending : Seq(Nat)]
Cont == [id : Nat, modes : Seq(Mode)]
IndexRec == [key : Nat, state : BOOLEAN, data : Nat, off : Nat]
TodoRec == [op : {"add"}, cont : Nat, file : Nat]
             \cup [op : {"write"}, notify : BOOLEAN, file : Nat]
             \cup [op : {"close"}, file : Nat]
             \cup [op : {"cont"}, cont : Nat, starting : BOOLEAN]
ListRec == [file : Nat, off : Nat]
ContRec == [cont : Nat, starting : BOOLEAN]
ChunkRec == [file : Nat, src : Nat, from : Nat, to : Nat]
ClientRec == [phase : {"none", "hello", "on", "gone"}, files : Seq(ListRec),
              conts : Seq(ContRec), sub : Nat, contSub : Nat, write : BOOLEAN, fd : Nat,
              flags : {"none", "SEND_PAUSE_DATA", "NO_PAUSE_DATA"}, sendPaused : BOOLEAN,
              joined : Nat, known : SUBSET Nat]

Ids(S) == {S[k].id : k \in 1 .. Len(S)}

\* f is a file of container c.
OfCont(F, c, f) == f \in 1 .. Len(F) /\ F[f].cont = c
AllOf(F, c, q) == \A i \in 1 .. Len(q) : OfCont(F, c, q[i])
ModeOK(F, c, m) == OfCont(F, c, m.file) /\ AllOf(F, c, m.pending)

FilesOK(F, L) ==
  /\ F \in Seq(FileRec)
  /\ \A f \in 1 .. Len(F) : /\ F[f].size >= 1 /\ F[f].seen <= F[f].size
                            /\ F[f].cont \in 1 .. Len(L)
StackOK(F, S, L) ==
  /\ S \in Seq(Cont) /\ S # <<>> /\ S[1].id = Len(L)
  /\ \A i, j \in 1 .. Len(S) : i < j => S[j].id < S[i].id
  /\ \A k \in 1 .. Len(S) : /\ S[k].id \in 1 .. Len(L) /\ S[k].modes # <<>>
                            /\ \A i \in 1 .. Len(S[k].modes) : ModeOK(F, S[k].id, S[k].modes[i])
ListOK(F, L) ==
  /\ L \in Seq(Seq(Nat))
  /\ \A c \in 1 .. Len(L) : AllOf(F, c, L[c])
IndexOK(F, L, I) ==
  /\ I \in Seq(IndexRec)
  /\ \A k \in 1 .. Len(I) : /\ I[k].data \in 1 .. Len(F)
                            /\ I[k].off = 0 => F[I[k].data].cont = Len(L)

AddsOf(T) == {T[p].cont : p \in {q \in 1 .. Len(T) : T[q].op = "add"}}
IsAdd(e, c) == e.op = "add" /\ e.cont = c
IsStart(e) == e.op = "cont" /\ e.starting
IsEnd(e) == e.op = "cont" /\ ~e.starting
EventOK(F, L, e) ==
  /\ e.op = "add" => OfCont(F, e.cont, e.file)
  /\ e.op \in {"write", "close"} => e.file \in 1 .. Len(F)
  /\ e.op = "cont" => e.cont \in 1 .. Len(L)
\* A container that ends is no more in the stack and has no more files to be
\* announced; one that starts is the newest and has none announced yet.
TodoOK(F, S, L, T) ==
  /\ T \in Seq(TodoRec)
  /\ \A p \in 1 .. Len(T) : EventOK(F, L, T[p])
  /\ \A p \in 1 .. Len(T) : IsEnd(T[p]) =>
        /\ T[p].cont \notin Ids(S)
        /\ \A q \in 1 .. Len(T) : p < q => ~IsAdd(T[q], T[p].cont)
  /\ \A p \in 1 .. Len(T) : IsStart(T[p]) =>
        /\ T[p].cont = Len(L) /\ L[Len(L)] = <<>>
        /\ \A q \in 1 .. Len(T) : /\ q < p => ~IsAdd(T[q], Len(L))
                                  /\ q # p => ~IsStart(T[q])

\* Nothing more will be announced of container c.
Done(S, T, c) == c \notin Ids(S) /\ c \notin AddsOf(T)

\* What the client is subscribed to is what it sends first, while that is open.
IsActive(F, f) == f # StateFile /\ F[f].active
SubOK(F, c) ==
  c.sub = IF c.files = <<>> THEN NoFile
          ELSE IF IsActive(F, c.files[1].file) THEN c.files[1].file ELSE NoFile
Woken(F, c) ==
  ~c.write => \/ c.files = <<>>
              \/ /\ IsActive(F, c.files[1].file)
                 /\ c.files[1].off >= F[c.files[1].file].seen

IsFile(F, f) == f \in 1 .. Len(F) \/ f = StateFile
NotAfter(F, f, g) == (f # StateFile /\ g # StateFile) => F[f].cont <= F[g].cont
\* What was sent (g) and what is listed (q) come container by container.
Ordered(F, g, q) ==
  /\ \A i \in 1 .. Len(g) : IsFile(F, g[i].file)
  /\ \A i \in 1 .. Len(q) : IsFile(F, q[i].file)
  /\ \A i, j \in 1 .. Len(g) : i < j => NotAfter(F, g[i].file, g[j].file)
  /\ \A i, j \in 1 .. Len(q) : i < j => NotAfter(F, q[i].file, q[j].file)
  /\ \A i \in 1 .. Len(g), j \in 1 .. Len(q) : NotAfter(F, g[i].file, q[j].file)
Upto(F, g, q, b) ==
  /\ \A i \in 1 .. Len(g) : g[i].file # StateFile => F[g[i].file].cont <= b
  /\ \A i \in 1 .. Len(q) : q[i].file # StateFile => F[q[i].file].cont <= b

\* f was sent, at least in part, or will be from its beginning.
Counted(g, q, f) == \/ \E i \in 1 .. Len(g) : g[i].file = f
                    \/ \E i \in 1 .. Len(q) : q[i].file = f /\ q[i].off = 0
Waits(c, x) == \E n \in 1 .. Len(c.conts) : n # 1 /\ c.conts[n].cont = x
Heard(F, L, c, g) ==
  \A x \in 1 .. Len(L) : \A i \in 1 .. Len(L[x]) :
     \/ x < c.joined \/ L[x][i] \in c.known \/ F[L[x][i]].paused
     \/ Waits(c, x) \/ Counted(g, c.files, L[x][i])

\* The containers a client knows of.
ContsOK(S, L, T, c) ==
  /\ \A n \in 1 .. Len(c.conts) : c.conts[n].cont \in 1 .. Len(L)
  /\ \A n, m \in 1 .. Len(c.conts) : n < m => c.conts[n].cont < c.conts[m].cont
  /\ c.contSub = IF c.conts = <<>> THEN NoCont ELSE c.conts[1].cont
  /\ c.conts # <<>> => c.conts[1].starting
  /\ \A n \in 1 .. Len(c.conts) : ~c.conts[n].starting => Done(S, T, c.conts[n].cont)
  /\ \A p \in 1 .. Len(T) : IsStart(T[p]) =>
        \A n \in 1 .. Len(c.conts) : c.conts[n].cont < T[p].cont
\* Every container since the client came is followed, waits, starts or is done.
Covered(S, L, T, c) ==
  \A x \in 1 .. Len(L) :
     \/ x < c.joined \/ x = c.contSub \/ Waits(c, x) \/ Done(S, T, x)
     \/ \E p \in 1 .. Len(T) : IsStart(T[p]) /\ T[p].cont = x

Reach(L, c) == IF c.conts = <<>> THEN Len(L) ELSE c.conts[1].cont

ClientOK(F, S, L, T, c, g) ==
  /\ SubOK(F, c) /\ Woken(F, c) /\ Upto(F, g, c.files, Reach(L, c)) /\ Heard(F, L, c, g)
  /\ ContsOK(S, L, T, c) /\ Covered(S, L, T, c)

LiveInv ==
  /\ Len(file) <= MaxFiles /\ index # <<>>
  /\ FilesOK(file, list) /\ StackOK(file, stack, list) /\ ListOK(file, list)
  /\ IndexOK(file, list, index) /\ TodoOK(file, stack, list, todo)
  /\ pulseTime \in Nat /\ sendPaused \in BOOLEAN
  /\ client \in ClientRec /\ got \in Seq(ChunkRec)
  /\ client.phase \in {"none", "hello"} => got = <<>>
  /\ client.phase # "on" => client.files = <<>> /\ client.sub = NoFile
  /\ Ordered(file, got, client.files)
  /\ On => ClientOK(file, stack, list, todo, client, got)


-----------------------------------------------------------------------------
(* Sequences.                                                               *)

\* r is s followed by t; r is s from its place k + 1 on, or up to place k.
JoinOf(r, s, t) ==
  /\ Len(r) = Len(s) + Len(t)
  /\ \A i \in 1 .. Len(s) : i \in 1 .. Len(r) /\ r[i] = s[i]
  /\ \A i \in 1 .. Len(t) : Len(s) + i \in 1 .. Len(r) /\ r[Len(s) + i] = t[i]
  /\ \A n \in 1 .. Len(r) : n \in 1 .. Len(s) \/ \E i \in 1 .. Len(t) : n = Len(s) + i
CutOf(r, s, k) ==
  /\ Len(r) = Len(s) - k
  /\ \A i \in 1 .. Len(r) : k + i \in 1 .. Len(s) /\ r[i] = s[k + i]
  /\ \A n \in 1 .. Len(s) : k < n => n - k \in 1 .. Len(r) /\ r[n - k] = s[n]
FirstOf(r, s, k) ==
  /\ Len(r) = k
  /\ \A i \in 1 .. k : i \in 1 .. Len(s) /\ r[i] = s[i]

LEMMA SeqFacts ==
  ASSUME NEW S, NEW s \in Seq(S)
  PROVE  /\ Len(s) \in Nat /\ DOMAIN s = 1 .. Len(s)
         /\ \A i \in 1 .. Len(s) : s[i] \in S
         /\ s = <<>> <=> Len(s) = 0
         /\ s # <<>> => 1 \in 1 .. Len(s) /\ Len(s) \in 1 .. Len(s)
<1>1. Len(s) \in Nat /\ DOMAIN s = 1 .. Len(s) BY LenProperties
<1>2. \A i \in 1 .. Len(s) : s[i] \in S BY ElementOfSeq
<1>3. s = <<>> => Len(s) = 0 BY EmptySeq
<1>4. s # <<>> => Len(s) \in Nat \ {0} BY EmptySeq
<1>5. Len(s) # 0 => 1 \in 1 .. Len(s) /\ Len(s) \in 1 .. Len(s) BY <1>1
<1> QED BY <1>1, <1>2, <1>3, <1>4, <1>5

LEMMA JoinIs ==
  ASSUME NEW S, NEW s \in Seq(S), NEW t \in Seq(S)
  PROVE  s \o t \in Seq(S) /\ JoinOf(s \o t, s, t)
<1> DEFINE r == s \o t
<1>1. /\ r \in Seq(S) /\ Len(r) = Len(s) + Len(t)
      /\ \A i \in 1 .. Len(s) + Len(t) : r[i] = IF i <= Len(s) THEN s[i] ELSE t[i - Len(s)]
  BY ConcatProperties
<1>2. Len(s) \in Nat /\ Len(t) \in Nat BY LenProperties
<1> HIDE DEF r
<1>3. \A i \in 1 .. Len(s) : i \in 1 .. Len(r) /\ r[i] = s[i] BY <1>1, <1>2
<1>4. \A i \in 1 .. Len(t) : Len(s) + i \in 1 .. Len(r) /\ r[Len(s) + i] = t[i]
  <2> SUFFICES ASSUME NEW i \in 1 .. Len(t)
               PROVE  Len(s) + i \in 1 .. Len(r) /\ r[Len(s) + i] = t[i]
    OBVIOUS
  <2> DEFINE j == Len(s) + i
  <2>1. j \in 1 .. Len(s) + Len(t) /\ ~(j <= Len(s)) /\ j - Len(s) = i BY <1>2
  <2> HIDE DEF j
  <2>2. r[j] = t[j - Len(s)] BY <1>1, <2>1
  <2>3. j \in 1 .. Len(r) /\ r[j] = t[i] BY <1>1, <2>1, <2>2
  <2> QED BY <2>3 DEF j
<1>5. \A n \in 1 .. Len(r) : n \in 1 .. Len(s) \/ \E i \in 1 .. Len(t) : n = Len(s) + i
  <2> SUFFICES ASSUME NEW n \in 1 .. Len(r), n \notin 1 .. Len(s)
               PROVE  \E i \in 1 .. Len(t) : n = Len(s) + i
    OBVIOUS
  <2>1. n - Len(s) \in 1 .. Len(t) /\ n = Len(s) + (n - Len(s)) BY <1>1, <1>2
  <2> QED BY <2>1
<1>6. JoinOf(r, s, t) BY <1>1, <1>3, <1>4, <1>5 DEF JoinOf
<1> QED BY <1>1, <1>6 DEF r

LEMMA OneIs == ASSUME NEW S, NEW x \in S
               PROVE  <<x>> \in Seq(S) /\ Len(<<x>>) = 1 /\ <<x>>[1] = x
OBVIOUS

LEMMA AddIs ==
  ASSUME NEW S, NEW s \in Seq(S), NEW x \in S
  PROVE  /\ Append(s, x) \in Seq(S) /\ Len(Append(s, x)) = Len(s) + 1
         /\ \A i \in 1 .. Len(s) : i \in 1 .. Len(s) + 1 /\ Append(s, x)[i] = s[i]
         /\ Append(s, x)[Len(s) + 1] = x
         /\ Len(s) + 1 \in 1 .. Len(s) + 1
         /\ \A i \in 1 .. Len(s) + 1 : i \in 1 .. Len(s) \/ i = Len(s) + 1
<1>1. Len(s) \in Nat BY LenProperties
<1>2. /\ Append(s, x) \in Seq(S) /\ Len(Append(s, x)) = Len(s) + 1
      /\ \A i \in 1 .. Len(s) : Append(s, x)[i] = s[i]
      /\ Append(s, x)[Len(s) + 1] = x
  BY <1>1
<1> QED BY <1>1, <1>2

LEMMA CutIs ==
  ASSUME NEW S, NEW s \in Seq(S), NEW k \in 0 .. Len(s)
  PROVE  SubSeq(s, k + 1, Len(s)) \in Seq(S) /\ CutOf(SubSeq(s, k + 1, Len(s)), s, k)
<1> DEFINE n == Len(s)
           r == SubSeq(s, k + 1, n)
<1>1. n \in Nat /\ k \in Nat /\ k <= n /\ \A i \in 1 .. n : s[i] \in S BY SeqFacts
<1>2. k + 1 \in Int /\ n \in Int /\ \A i \in k + 1 .. n : s[i] \in S BY <1>1
<1>3. /\ r \in Seq(S) /\ Len(r) = IF k + 1 <= n THEN n - (k + 1) + 1 ELSE 0
      /\ \A i \in 1 .. n - (k + 1) + 1 : r[i] = s[(k + 1) + i - 1]
  BY <1>2, SubSeqProperties
<1> HIDE DEF n, r
<1>4. Len(r) = n - k
  <2>1. CASE k + 1 <= n BY <1>1, <1>3, <2>1
  <2>2. CASE ~(k + 1 <= n) BY <1>1, <1>3, <2>2
  <2> QED BY <2>1, <2>2
<1>5. ASSUME NEW i \in 1 .. Len(r) PROVE k + i \in 1 .. n /\ r[i] = s[k + i]
  <2>1. k + i \in 1 .. n /\ i \in 1 .. n - (k + 1) + 1 /\ (k + 1) + i - 1 = k + i
    BY <1>1, <1>4
  <2>2. r[i] = s[(k + 1) + i - 1] BY <1>3, <2>1
  <2> QED BY <2>1, <2>2
<1>6. ASSUME NEW m \in 1 .. n, k < m PROVE m - k \in 1 .. Len(r) /\ r[m - k] = s[m]
  <2> DEFINE i == m - k
  <2>1. i \in 1 .. Len(r) /\ k + i = m BY <1>1, <1>4, <1>6
  <2> HIDE DEF i
  <2>2. r[i] = s[m] BY <1>5, <2>1
  <2> QED BY <2>1, <2>2 DEF i
<1>7. CutOf(r, s, k) BY <1>4, <1>5, <1>6 DEF CutOf, n
<1> QED BY <1>3, <1>7 DEF r, n

LEMMA FirstIs ==
  ASSUME NEW S, NEW s \in Seq(S), NEW k \in 0 .. Len(s)
  PROVE  SubSeq(s, 1, k) \in Seq(S) /\ FirstOf(SubSeq(s, 1, k), s, k)
<1> DEFINE r == SubSeq(s, 1, k)
<1>1. Len(s) \in Nat /\ k \in Nat /\ k <= Len(s) /\ \A i \in 1 .. Len(s) : s[i] \in S
  BY SeqFacts
<1>2. 1 \in Int /\ k \in Int /\ \A i \in 1 .. k : s[i] \in S BY <1>1
<1>3. /\ r \in Seq(S) /\ Len(r) = IF 1 <= k THEN k - 1 + 1 ELSE 0
      /\ \A i \in 1 .. k - 1 + 1 : r[i] = s[1 + i - 1]
  BY <1>2, SubSeqProperties
<1> HIDE DEF r
<1>4. Len(r) = k
  <2>1. CASE 1 <= k BY <1>1, <1>3, <2>1
  <2>2. CASE ~(1 <= k) BY <1>1, <1>3, <2>2
  <2> QED BY <2>1, <2>2
<1>5. ASSUME NEW i \in 1 .. k PROVE i \in 1 .. Len(s) /\ r[i] = s[i]
  <2>1. i \in 1 .. Len(s) /\ i \in 1 .. k - 1 + 1 /\ 1 + i - 1 = i BY <1>1
  <2>2. r[i] = s[1 + i - 1] BY <1>3, <2>1
  <2> QED BY <2>1, <2>2
<1>6. FirstOf(r, s, k) BY <1>4, <1>5 DEF FirstOf
<1> QED BY <1>3, <1>6 DEF r

LEMMA TailIs ==
  ASSUME NEW S, NEW s \in Seq(S), s # <<>>
  PROVE  Head(s) = s[1] /\ Tail(s) \in Seq(S) /\ CutOf(Tail(s), s, 1)
<1>1. Head(s) = s[1] OBVIOUS
<1>2. Tail(s) = SubSeq(s, 1 + 1, Len(s)) BY TailIsSubSeq
<1>3. 1 \in 0 .. Len(s) BY SeqFacts
<1> QED BY <1>1, <1>2, <1>3, CutIs

LEMMA MapIs ==
  ASSUME NEW S, NEW n \in Nat, NEW f, f = [i \in 1 .. n |-> f[i]],
         \A i \in 1 .. n : f[i] \in S
  PROVE  f \in Seq(S) /\ Len(f) = n
<1>1. f \in [1 .. n -> S] BY Zenon
<1>2. f \in Seq(S) BY <1>1
<1>3. DOMAIN f = 1 .. Len(f) /\ DOMAIN f = 1 .. n /\ Len(f) \in Nat BY <1>1, <1>2, LenProperties
<1> QED BY <1>2, <1>3

-----------------------------------------------------------------------------
(* Flattening.                                                              *)

LEMMA SetInduction ==
  ASSUME NEW B, 0 \in B, \A n \in Nat : n \in B => n + 1 \in B
  PROVE  \A n \in Nat : n \in B
<1> DEFINE T == Nat \ B
<1> SUFFICES ASSUME T # {} PROVE FALSE OBVIOUS
<1>1. \E x \in T : \A y \in T : ~(<<y, x>> \in OpToRel(<, Nat))
  BY NatLessThanWellFounded, WFMin
<1>2. \A x, y \in Nat : y < x => <<y, x>> \in OpToRel(<, Nat)
  <2>1. \A x, y \in Nat : y < x => <<y, x>> \in {r \in Nat \X Nat : r[1] < r[2]}
    OBVIOUS
  <2> QED BY <2>1, Zenon DEF OpToRel
<1>3. PICK x \in T : \A y \in T : ~(y < x)
  BY <1>1, <1>2, Zenon
<1>4. x \in Nat /\ x # 0 BY <1>3
<1>5. x - 1 \in Nat /\ x - 1 < x /\ (x - 1) + 1 = x BY <1>4
<1>6. x - 1 \in B BY <1>3, <1>5
<1>7. x \in B BY <1>5, <1>6
<1> QED BY <1>3, <1>7

IsFlat(f, n, ss) ==
    f = [i \in 1 .. n |-> IF i = 1 THEN ss[i] ELSE f[i - 1] \o ss[i]]

LEMMA FlatExists == ASSUME NEW ss PROVE \A n \in Nat : \E f : IsFlat(f, n, ss)
<1> DEFINE B == {n \in Nat : \E f : IsFlat(f, n, ss)}
<1>1. 0 \in B
  <2>1. IsFlat([i \in {} |-> 0], 0, ss)
    <3>1. 1 .. 0 = {} OBVIOUS
    <3> QED BY <3>1 DEF IsFlat
  <2> QED BY <2>1
<1>2. ASSUME NEW n \in Nat, n \in B PROVE n + 1 \in B
  <2>1. PICK f : IsFlat(f, n, ss) BY <1>2
  <2> DEFINE g == [i \in 1 .. n + 1 |-> IF i \in 1 .. n THEN f[i]
                                        ELSE IF i = 1 THEN ss[i] ELSE f[i - 1] \o ss[i]]
  <2>2. ASSUME NEW i \in 1 .. n + 1
        PROVE  g[i] = IF i = 1 THEN ss[i] ELSE g[i - 1] \o ss[i]
    <3>1. CASE i = 1
      <4>1. CASE 1 \in 1 .. n
        <5>1. f[1] = ss[1] BY <2>1, <4>1 DEF IsFlat
        <5> QED BY <3>1, <4>1, <5>1
      <4>2. CASE 1 \notin 1 .. n BY <3>1, <4>2
      <4> QED BY <4>1, <4>2
    <3>2. CASE i # 1
      <4>1. i - 1 \in 1 .. n /\ i - 1 \in 1 .. n + 1 BY <3>2
      <4>2. g[i - 1] = f[i - 1] BY <4>1
      <4>3. CASE i \in 1 .. n
        <5>1. f[i] = f[i - 1] \o ss[i] BY <2>1, <3>2, <4>3 DEF IsFlat
        <5> QED BY <3>2, <4>2, <4>3, <5>1
      <4>4. CASE i \notin 1 .. n BY <3>2, <4>2, <4>4
      <4> QED BY <4>3, <4>4
    <3> QED BY <3>1, <3>2
  <2>3. g = [i \in 1 .. n + 1 |-> g[i]] OBVIOUS
  <2> HIDE DEF g
  <2>4. IsFlat(g, n + 1, ss) BY <2>2, <2>3 DEF IsFlat
  <2> QED BY <2>4
<1> HIDE DEF B
<1>3. \A n \in Nat : n \in B BY <1>1, <1>2, SetInduction
<1> QED BY <1>3 DEF B

LEMMA FlatUnique ==
  ASSUME NEW ss, NEW tt, NEW n \in Nat, NEW m \in Nat, n <= m,
         NEW f, NEW g, IsFlat(f, n, ss), IsFlat(g, m, tt),
         \A i \in 1 .. n : ss[i] = tt[i]
  PROVE  \A i \in 1 .. n : f[i] = g[i]
<1> DEFINE B == {i \in Nat : i \in 1 .. n => f[i] = g[i]}
<1>1. 0 \in B OBVIOUS
<1>2. ASSUME NEW i \in Nat, i \in B PROVE i + 1 \in B
  <2> SUFFICES ASSUME i + 1 \in 1 .. n PROVE f[i + 1] = g[i + 1] OBVIOUS
  <2>1. i + 1 \in 1 .. m /\ (i + 1) - 1 = i OBVIOUS
  <2>2. CASE i = 0
    <3>1. f[1] = ss[1] /\ g[1] = tt[1] BY <2>1, <2>2 DEF IsFlat
    <3> QED BY <2>2, <3>1
  <2>3. CASE i # 0
    <3>1. i + 1 # 1 /\ i \in 1 .. n BY <2>3
    <3> DEFINE j == i + 1
    <3>5. j \in 1 .. n /\ j \in 1 .. m /\ j # 1 /\ j - 1 = i BY <2>1, <3>1
    <3> HIDE DEF j
    <3>6. f[j] = f[j - 1] \o ss[j] BY ONLY <3>5, IsFlat(f, n, ss) DEF IsFlat
    <3>7. g[j] = g[j - 1] \o tt[j] BY ONLY <3>5, IsFlat(g, m, tt) DEF IsFlat
    <3>2. f[i + 1] = f[i] \o ss[i + 1] BY ONLY <3>5, <3>6 DEF j
    <3>3. g[i + 1] = g[i] \o tt[i + 1] BY ONLY <3>5, <3>7 DEF j
    <3>4. f[i] = g[i] BY <1>2, <3>1
    <3> QED BY <3>2, <3>3, <3>4
  <2> QED BY <2>2, <2>3
<1> HIDE DEF B
<1>3. \A i \in Nat : i \in B BY <1>1, <1>2, SetInduction
<1> QED BY <1>3 DEF B

LEMMA FlatIs ==
  ASSUME NEW s, Len(s) # 0, Len(s) \in Nat, NEW f, IsFlat(f, Len(s), s)
  PROVE  FlattenSeq(s) = f[Len(s)]
<1> DEFINE g == CHOOSE h : IsFlat(h, Len(s), s)
<1>1. FlattenSeq(s) = g[Len(s)] BY Zenon DEF FlattenSeq, IsFlat
<1>2. IsFlat(g, Len(s), s)
  <2>1. \E h : IsFlat(h, Len(s), s) OBVIOUS
  <2> QED BY <2>1, Zenon
<1> HIDE DEF g
<1>3. \A i \in 1 .. Len(s) : f[i] = g[i]
  <2>1. Len(s) <= Len(s) OBVIOUS
  <2>2. \A i \in 1 .. Len(s) : s[i] = s[i] OBVIOUS
  <2> QED BY <1>2, <2>1, <2>2, FlatUnique
<1> QED BY <1>1, <1>3

LEMMA FlattenOne ==
  ASSUME NEW S, NEW N \in Nat, NEW ss, \A k \in 1 .. N : ss[k] \in Seq(S)
  PROVE  /\ FlattenSeq([k \in 1 .. 0 |-> ss[k]]) = <<>>
         /\ \A n \in 0 .. N - 1 :
               FlattenSeq([k \in 1 .. n + 1 |-> ss[k]])
               = FlattenSeq([k \in 1 .. n |-> ss[k]]) \o ss[n + 1]
<1> DEFINE s(n) == [k \in 1 .. n |-> ss[k]]
<1>1. ASSUME NEW n \in 0 .. N
      PROVE  Len(s(n)) = n /\ \A k \in 1 .. n : s(n)[k] = ss[k]
  <2>1. \A k \in 1 .. n : ss[k] \in Seq(S) OBVIOUS
  <2>2. s(n) \in [1 .. n -> Seq(S)] BY <2>1
  <2>3. s(n) \in Seq(Seq(S)) /\ n \in Nat BY <2>2
  <2>4. Len(s(n)) = n BY <2>2, <2>3, LenProperties
  <2> QED BY <2>4
<1>2. FlattenSeq(s(0)) = <<>>
  <2>1. s(0) = <<>> BY SMT
  <2>2. Len(s(0)) = 0 BY <1>1
  <2> HIDE DEF s
  <2> QED BY <2>1, <2>2 DEF FlattenSeq
<1>3. ASSUME NEW n \in 0 .. N - 1
      PROVE  FlattenSeq(s(n + 1)) = FlattenSeq(s(n)) \o ss[n + 1]
  <2>1. n \in Nat /\ n + 1 \in Nat /\ n \in 0 .. N /\ n + 1 \in 0 .. N /\ n + 1 # 0
        /\ n + 1 \in 1 .. N /\ n <= n + 1 /\ (n + 1) - 1 = n /\ n + 1 \in 1 .. n + 1
    OBVIOUS
  <2>2. /\ Len(s(n)) = n /\ \A k \in 1 .. n : s(n)[k] = ss[k]
        /\ Len(s(n + 1)) = n + 1 /\ \A k \in 1 .. n + 1 : s(n + 1)[k] = ss[k]
    BY <1>1, <2>1
  <2> HIDE DEF s
  <2>3. PICK f : IsFlat(f, n, s(n)) BY <2>1, FlatExists
  <2>4. PICK g : IsFlat(g, n + 1, s(n + 1)) BY <2>1, FlatExists
  <2>5. FlattenSeq(s(n + 1)) = g[n + 1] BY <2>1, <2>2, <2>4, FlatIs
  <2>6. CASE n = 0
    <3>1. g[n + 1] = ss[n + 1] BY <2>1, <2>2, <2>4, <2>6 DEF IsFlat
    <3>2. ss[n + 1] \in Seq(S) BY <2>1
    <3>3. <<>> \o ss[n + 1] = ss[n + 1] BY <3>2, ConcatEmptySeq
    <3> QED BY <1>2, <2>5, <2>6, <3>1, <3>3
  <2>7. CASE n # 0
    <3>1. FlattenSeq(s(n)) = f[n] BY <2>1, <2>2, <2>3, <2>7, FlatIs
    <3>2. g[n + 1] = g[n] \o ss[n + 1]
      <4>1. n + 1 # 1 BY <2>7
      <4>2. g[n + 1] = g[(n + 1) - 1] \o s(n + 1)[n + 1]
        BY <2>1, <2>4, <4>1 DEF IsFlat
      <4> QED BY <2>1, <2>2, <4>2
    <3>3. f[n] = g[n]
      <4>1. \A i \in 1 .. n : s(n)[i] = s(n + 1)[i]
        <5>1. \A i \in 1 .. n : i \in 1 .. n + 1 BY <2>1
        <5> QED BY <2>2, <5>1
      <4>2. \A i \in 1 .. n : f[i] = g[i]
        BY <2>1, <2>3, <2>4, <4>1, FlatUnique
      <4>3. n \in 1 .. n BY <2>1, <2>7
      <4> QED BY <4>2, <4>3
    <3> QED BY <2>5, <3>1, <3>2, <3>3
  <2> QED BY <2>6, <2>7
<1> QED BY <1>2, <1>3

(* No signal but the last ones of the run says that it is over.             *)
\* What holds of the empty sequence and stays true when one more is appended.
LEMMA FlattenIn ==
  ASSUME NEW S, NEW N \in Nat, NEW ss, \A k \in 1 .. N : ss[k] \in Seq(S),
         ss = [k \in 1 .. N |-> ss[k]],
         NEW B, <<>> \in B, \A u \in B : \A k \in 1 .. N : u \o ss[k] \in B
  PROVE  FlattenSeq(ss) \in B
<1> DEFINE fl(n) == FlattenSeq([k \in 1 .. n |-> ss[k]])
           C == {n \in Nat : n \in 0 .. N => fl(n) \in B}
<1>1. fl(0) = <<>> /\ \A n \in 0 .. N - 1 : fl(n + 1) = fl(n) \o ss[n + 1]
  BY ONLY N \in Nat, \A k \in 1 .. N : ss[k] \in Seq(S), FlattenOne
<1>7. fl(N) = FlattenSeq(ss) OBVIOUS
<1> HIDE DEF fl
<1>2. 0 \in C BY <1>1
<1>3. ASSUME NEW n \in Nat, n \in C PROVE n + 1 \in C
  <2> SUFFICES ASSUME n + 1 \in 0 .. N PROVE fl(n + 1) \in B OBVIOUS
  <2>1. n \in 0 .. N /\ n \in 0 .. N - 1 /\ n + 1 \in 1 .. N OBVIOUS
  <2>2. fl(n) \in B BY <1>3, <2>1
  <2>3. fl(n) \o ss[n + 1] \in B BY <2>1, <2>2
  <2> QED BY <1>1, <2>1, <2>3
<1> HIDE DEF C
<1>4. \A n \in Nat : n \in C BY <1>2, <1>3, SetInduction
<1>5. N \in C /\ N \in 0 .. N BY <1>4
<1>6. fl(N) \in B BY <1>5 DEF C
<1> QED BY <1>6, <1>7

-----------------------------------------------------------------------------
(* The operation in progress.                                               *)

\* Files are added; those that are there stay in their container.
Grown(F, G) ==
  /\ Len(F) \in Nat /\ Len(G) \in Nat /\ Len(F) <= Len(G)
  /\ \A f \in 1 .. Len(F) : G[f].cont = F[f].cont /\ G[f].paused = F[f].paused

\* Signals of files and, of containers in A, announcements.
Plain(F, L, T, A) ==
  /\ T \in Seq(TodoRec)
  /\ \A p \in 1 .. Len(T) : /\ EventOK(F, L, T[p]) /\ T[p].op # "cont"
                            /\ T[p].op = "add" => T[p].cont \in A

LEMMA ContNat ==
  ASSUME NEW F, NEW L, FilesOK(F, L)
  PROVE  \A f \in 1 .. Len(F) : F[f].cont \in Nat
<1>1. F \in Seq(FileRec) BY DEF FilesOK
<1>2. ASSUME NEW f \in 1 .. Len(F) PROVE F[f].cont \in Nat
  <2>1. F[f] \in FileRec BY <1>1, SeqFacts
  <2> QED BY <2>1 DEF FileRec
<1> QED BY <1>2

LEMMA GrownKept ==
  ASSUME NEW F, NEW G, Grown(F, G)
  PROVE  /\ \A c, f : OfCont(F, c, f) => OfCont(G, c, f)
         /\ \A c, q : AllOf(F, c, q) => AllOf(G, c, q)
         /\ \A c, m : ModeOK(F, c, m) => ModeOK(G, c, m)
         /\ \A L, e : EventOK(F, L, e) => EventOK(G, L, e)
         /\ 1 .. Len(F) \subseteq 1 .. Len(G)
<1>1. 1 .. Len(F) \subseteq 1 .. Len(G) BY DEF Grown
<1>2. \A c, f : OfCont(F, c, f) => OfCont(G, c, f) BY <1>1 DEF OfCont, Grown
<1>3. \A c, q : AllOf(F, c, q) => AllOf(G, c, q) BY <1>2, Zenon DEF AllOf
<1>4. \A c, m : ModeOK(F, c, m) => ModeOK(G, c, m) BY <1>2, <1>3, Zenon DEF ModeOK
<1>5. \A L, e : EventOK(F, L, e) => EventOK(G, L, e) BY <1>1, <1>2, Zenon DEF EventOK
<1> QED BY <1>1, <1>2, <1>3, <1>4, <1>5

LEMMA PlainKept ==
  ASSUME NEW F, NEW G, Grown(F, G), NEW L, NEW A, NEW B, A \subseteq B, NEW T, Plain(F, L, T, A)
  PROVE  Plain(G, L, T, B)
BY GrownKept, Zenon DEF Plain

LEMMA PlainJoin ==
  ASSUME NEW F, NEW L, NEW A, NEW T, NEW U, Plain(F, L, T, A), Plain(F, L, U, A)
  PROVE  Plain(F, L, T \o U, A)
<1> DEFINE V == T \o U
<1>1. V \in Seq(TodoRec) /\ JoinOf(V, T, U) BY JoinIs DEF Plain
<1> HIDE DEF V
<1>2. ASSUME NEW p \in 1 .. Len(V)
      PROVE  /\ EventOK(F, L, V[p]) /\ V[p].op # "cont"
             /\ V[p].op = "add" => V[p].cont \in A
  <2>1. CASE p \in 1 .. Len(T)
    <3>1. V[p] = T[p] BY <1>1, <2>1 DEF JoinOf
    <3> QED BY <2>1, <3>1, Zenon DEF Plain
  <2>2. CASE \E i \in 1 .. Len(U) : p = Len(T) + i
    <3>1. PICK i \in 1 .. Len(U) : p = Len(T) + i BY <2>2
    <3>2. V[p] = U[i] BY <1>1, <3>1 DEF JoinOf
    <3> QED BY <3>1, <3>2, Zenon DEF Plain
  <2> QED BY <1>1, <2>1, <2>2 DEF JoinOf
<1>3. Plain(F, L, V, A) BY <1>1, <1>2, Zenon DEF Plain
<1> QED BY <1>3 DEF V

LEMMA AddsPlain ==
  ASSUME NEW F, NEW L, NEW c \in Nat, NEW q \in Seq(Nat), AllOf(F, c, q)
  PROVE  Plain(F, L, Adds(c, q), {c})
<1> DEFINE T == Adds(c, q)
           n == Len(q)
<1>1. T = [k \in 1 .. n |-> [op |-> "add", cont |-> c, file |-> q[k]]] BY DEF Adds
<1>2. n \in Nat /\ \A k \in 1 .. n : q[k] \in Nat BY SeqFacts
<1> HIDE DEF T
<1>3. \A k \in 1 .. n : T[k] = [op |-> "add", cont |-> c, file |-> q[k]] BY <1>1
<1>11. \A k \in 1 .. n : OfCont(F, c, q[k]) BY DEF AllOf
<1>12. ASSUME NEW k \in 1 .. n
       PROVE  /\ T[k] \in TodoRec /\ T[k].op = "add" /\ T[k].cont = c
              /\ EventOK(F, L, T[k])
  <2> DEFINE f == q[k]
             e == [op |-> "add", cont |-> c, file |-> f]
  <2>1. f \in Nat /\ OfCont(F, c, f) BY <1>2, <1>11
  <2>2. T[k] = e BY <1>3
  <2> HIDE DEF f
  <2>3. e \in TodoRec /\ e.op = "add" /\ e.cont = c /\ e.file = f BY <2>1 DEF TodoRec
  <2> HIDE DEF e
  <2>4. EventOK(F, L, e) BY <2>1, <2>3 DEF EventOK
  <2> QED BY <2>2, <2>3, <2>4
<1>4. \A k \in 1 .. n : T[k] \in TodoRec BY <1>12
<1>5. T = [k \in 1 .. n |-> T[k]] BY <1>1
<1>6. T \in Seq(TodoRec) /\ Len(T) = n BY <1>2, <1>4, <1>5, MapIs
<1>7. \A p \in 1 .. n : EventOK(F, L, T[p]) BY <1>12
<1>8. \A p \in 1 .. n : T[p].op # "cont" /\ T[p].cont \in {c} BY <1>12
<1> HIDE DEF n
<1>9. Plain(F, L, T, {c}) BY <1>6, <1>7, <1>8, Zenon DEF Plain
<1> QED BY <1>9 DEF T

LEMMA NonePlain == \A F, L, A : Plain(F, L, <<>>, A)
<1>1. <<>> \in Seq(TodoRec) /\ Len(<<>>) = 0 BY EmptySeq
<1>2. 1 .. 0 = {} OBVIOUS
<1> QED BY <1>1, <1>2 DEF Plain

LEMMA OnePlain ==
  ASSUME NEW F, NEW L, NEW A, NEW e \in TodoRec, EventOK(F, L, e), e.op # "cont",
         e.op = "add" => e.cont \in A
  PROVE  Plain(F, L, <<e>>, A)
<1> DEFINE T == <<e>>
<1>1. T \in Seq(TodoRec) /\ Len(T) = 1 /\ T[1] = e BY OneIs
<1> HIDE DEF T
<1>2. \A p \in 1 .. Len(T) : T[p] = e BY <1>1
<1>3. Plain(F, L, T, A) BY <1>1, <1>2, Zenon DEF Plain
<1> QED BY <1>3 DEF T

LEMMA ClosePlain ==
  ASSUME NEW F, NEW L, NEW A, NEW f \in Nat, f = NoFile \/ f \in 1 .. Len(F)
  PROVE  Plain(F, L, Close(f), A)
<1>1. CASE f = NoFile BY <1>1, NonePlain DEF Close
<1>2. CASE f # NoFile
  <2> DEFINE e == [op |-> "close", file |-> f]
  <2>1. e \in TodoRec /\ e.op = "close" /\ e.file \in 1 .. Len(F) BY <1>2 DEF TodoRec
  <2>2. Close(f) = <<e>> BY <1>2 DEF Close
  <2> HIDE DEF e
  <2>3. EventOK(F, L, e) BY <2>1 DEF EventOK
  <2>4. Plain(F, L, <<e>>, A) BY <2>1, <2>3, OnePlain
  <2> QED BY <2>2, <2>4
<1> QED BY <1>1, <1>2

LEMMA ModePlain ==
  ASSUME NEW F, NEW L, NEW c \in Nat, NEW m \in Mode, ModeOK(F, c, m)
  PROVE  Plain(F, L, ShutMode(c, m), {c})
<1>1. m.file \in Nat /\ m.pending \in Seq(Nat) BY DEF Mode
<1>2. Plain(F, L, Adds(c, m.pending), {c}) BY <1>1, AddsPlain DEF ModeOK
<1>3. m.file \in 1 .. Len(F) BY DEF ModeOK, OfCont
<1>4. Plain(F, L, Close(m.file), {c}) BY <1>1, <1>3, ClosePlain
<1> QED BY <1>2, <1>4, PlainJoin DEF ShutMode

LEMMA ModesPlain ==
  ASSUME NEW F, NEW L, NEW c \in Nat, NEW ms \in Seq(Mode),
         \A i \in 1 .. Len(ms) : ModeOK(F, c, ms[i])
  PROVE  Plain(F, L, ShutModes(c, ms), {c})
<1> DEFINE N == Len(ms)
           ss == [n \in 1 .. N |-> ShutMode(c, ms[N - n + 1])]
           B == {T \in Seq(TodoRec) : Plain(F, L, T, {c})}
<1>1. N \in Nat /\ \A i \in 1 .. N : ms[i] \in Mode BY SeqFacts
<1>2. \A n \in 1 .. N : N - n + 1 \in 1 .. N BY <1>1
<1>3. ASSUME NEW n \in 1 .. N PROVE Plain(F, L, ss[n], {c})
  <2>1. ss[n] = ShutMode(c, ms[N - n + 1]) OBVIOUS
  <2> DEFINE m == ms[N - n + 1]
  <2>2. m \in Mode /\ ModeOK(F, c, m) BY <1>1, <1>2
  <2> HIDE DEF m
  <2>3. Plain(F, L, ShutMode(c, m), {c}) BY <2>2, ModePlain
  <2> QED BY <2>1, <2>3 DEF m
<1>4. ShutModes(c, ms) = FlattenSeq(ss) /\ ss = [n \in 1 .. N |-> ss[n]] BY DEF ShutModes
<1> HIDE DEF ss, N
<1>5. \A n \in 1 .. N : ss[n] \in Seq(TodoRec) BY <1>3 DEF Plain
<1>6. <<>> \in B BY NonePlain, EmptySeq
<1>7. ASSUME NEW u \in B, NEW n \in 1 .. N PROVE u \o ss[n] \in B
  <2>1. Plain(F, L, u, {c}) OBVIOUS
  <2>2. Plain(F, L, u \o ss[n], {c}) BY <1>3, <2>1, PlainJoin
  <2> QED BY <2>2 DEF Plain
<1> HIDE DEF B
<1>8. FlattenSeq(ss) \in B
  <2>1. \A u \in B : \A n \in 1 .. N : u \o ss[n] \in B BY <1>7
  <2> QED BY <1>1, <1>4, <1>5, <1>6, <2>1, FlattenIn
<1> QED BY <1>4, <1>8 DEF B

LEMMA TodoPlain ==
  ASSUME NEW F, NEW S, NEW L, NEW T, TodoOK(F, S, L, T), NEW U, Plain(F, L, U, Ids(S))
  PROVE  TodoOK(F, S, L, T \o U)
<1> DEFINE V == T \o U
<1>1. T \in Seq(TodoRec) /\ U \in Seq(TodoRec) BY DEF TodoOK, Plain
<1>2. V \in Seq(TodoRec) /\ JoinOf(V, T, U) BY <1>1, JoinIs
<1>0. Len(T) \in Nat /\ Len(U) \in Nat BY <1>1, SeqFacts
<1> HIDE DEF V
<1>3. ASSUME NEW p \in 1 .. Len(V)
      PROVE  \/ p \in 1 .. Len(T) /\ V[p] = T[p]
             \/ /\ Len(T) < p /\ p \notin 1 .. Len(T) /\ EventOK(F, L, V[p])
                /\ ~IsStart(V[p]) /\ ~IsEnd(V[p])
                /\ V[p].op = "add" => V[p].cont \in Ids(S)
  <2>1. CASE p \in 1 .. Len(T) BY <1>2, <2>1 DEF JoinOf
  <2>2. CASE \E i \in 1 .. Len(U) : p = Len(T) + i
    <3>1. PICK i \in 1 .. Len(U) : p = Len(T) + i BY <2>2
    <3>2. V[p] = U[i] BY <1>2, <3>1 DEF JoinOf
    <3>3. Len(T) < p BY <1>0, <3>1
    <3>4. /\ EventOK(F, L, V[p]) /\ V[p].op # "cont"
          /\ V[p].op = "add" => V[p].cont \in Ids(S)
      BY <3>1, <3>2, Zenon DEF Plain
    <3>5. p \notin 1 .. Len(T) BY <1>0, <3>3
    <3> QED BY <3>3, <3>4, <3>5 DEF IsStart, IsEnd
  <2> QED BY <1>2, <2>1, <2>2 DEF JoinOf
<1>4. \A p \in 1 .. Len(V) : EventOK(F, L, V[p]) BY <1>3 DEF TodoOK
<1>5. ASSUME NEW p \in 1 .. Len(V), IsEnd(V[p])
      PROVE  /\ V[p].cont \notin Ids(S)
             /\ \A q \in 1 .. Len(V) : p < q => ~IsAdd(V[q], V[p].cont)
  <2>1. p \in 1 .. Len(T) /\ V[p] = T[p] BY <1>3, <1>5
  <2>2. V[p].cont \notin Ids(S) BY <1>5, <2>1 DEF TodoOK
  <2>3. ASSUME NEW q \in 1 .. Len(V), p < q, IsAdd(V[q], V[p].cont) PROVE FALSE
    <3>1. CASE q \in 1 .. Len(T) /\ V[q] = T[q] BY <1>5, <2>1, <2>3, <3>1 DEF TodoOK
    <3>2. CASE V[q].op = "add" => V[q].cont \in Ids(S) BY <2>2, <2>3, <3>2 DEF IsAdd
    <3> QED BY <1>3, <3>1, <3>2
  <2> QED BY <2>2, <2>3
<1>6. ASSUME NEW p \in 1 .. Len(V), IsStart(V[p])
      PROVE  /\ V[p].cont = Len(L) /\ L[Len(L)] = <<>>
             /\ \A q \in 1 .. Len(V) : /\ q < p => ~IsAdd(V[q], Len(L))
                                       /\ q # p => ~IsStart(V[q])
  <2>1. p \in 1 .. Len(T) /\ V[p] = T[p] BY <1>3, <1>6
  <2>2. V[p].cont = Len(L) /\ L[Len(L)] = <<>> BY <1>6, <2>1 DEF TodoOK
  <2>3. ASSUME NEW q \in 1 .. Len(V)
        PROVE  (q < p => ~IsAdd(V[q], Len(L))) /\ (q # p => ~IsStart(V[q]))
    <3>1. CASE q \in 1 .. Len(T) /\ V[q] = T[q] BY <1>6, <2>1, <3>1 DEF TodoOK
    <3>2. CASE Len(T) < q /\ ~IsStart(V[q])
      <4>1. ~(q < p) BY <1>0, <2>1, <3>2
      <4> QED BY <3>2, <4>1
    <3> QED BY <1>3, <3>1, <3>2
  <2> QED BY <2>2, <2>3
<1>7. TodoOK(F, S, L, V) BY <1>2, <1>4, <1>5, <1>6 DEF TodoOK
<1> QED BY <1>7 DEF V

LEMMA ContEvent ==
  ASSUME NEW F, NEW L, NEW c \in 1 .. Len(L), c \in Nat, NEW b \in BOOLEAN
  PROVE  \E e \in TodoRec :
           /\ ContChange(c, b) = <<e>> /\ e.cont = c /\ EventOK(F, L, e)
           /\ \A x : ~IsAdd(e, x)
           /\ IF b THEN IsStart(e) /\ ~IsEnd(e) ELSE ~IsStart(e) /\ IsEnd(e)
<1> DEFINE e == [op |-> "cont", cont |-> c, starting |-> b]
<1>1. ContChange(c, b) = <<e>> BY DEF ContChange
<1>2. e \in TodoRec /\ e.op = "cont" /\ e.cont = c /\ e.starting = b BY DEF TodoRec
<1> HIDE DEF e
<1>3. EventOK(F, L, e) BY <1>2 DEF EventOK
<1>4. (\A x : ~IsAdd(e, x)) /\ (IsStart(e) <=> b) /\ (IsEnd(e) <=> ~b)
  BY <1>2 DEF IsAdd, IsStart, IsEnd
<1> QED BY <1>1, <1>2, <1>3, <1>4

\* A container is closed.
LEMMA TodoEnd ==
  ASSUME NEW F, NEW S, NEW L, NEW U, NEW A, Plain(F, L, U, A),
         NEW c \in 1 .. Len(L), c \in Nat, c \notin Ids(S)
  PROVE  TodoOK(F, S, L, U \o ContChange(c, FALSE))
<1>0. FALSE \in BOOLEAN OBVIOUS
<1>1. PICK e \in TodoRec :
         /\ ContChange(c, FALSE) = <<e>> /\ e.cont = c /\ EventOK(F, L, e)
         /\ (\A x : ~IsAdd(e, x)) /\ ~IsStart(e) /\ IsEnd(e)
  BY <1>0, ContEvent
<1> DEFINE V == U \o <<e>>
<1>2. U \in Seq(TodoRec) /\ <<e>> \in Seq(TodoRec) /\ Len(<<e>>) = 1 /\ <<e>>[1] = e
  BY OneIs DEF Plain
<1>3. V \in Seq(TodoRec) /\ JoinOf(V, U, <<e>>) BY <1>2, JoinIs
<1>4. Len(U) \in Nat BY <1>2, SeqFacts
<1> HIDE DEF V
<1>5. Len(V) = Len(U) + 1 BY <1>2, <1>3 DEF JoinOf
<1>6. ASSUME NEW p \in 1 .. Len(V)
      PROVE  \/ p < Len(V) /\ EventOK(F, L, V[p]) /\ ~IsStart(V[p]) /\ ~IsEnd(V[p])
             \/ p = Len(V) /\ V[p] = e
  <2>1. CASE p \in 1 .. Len(U)
    <3>1. V[p] = U[p] /\ p < Len(V) BY <1>3, <1>4, <1>5, <2>1 DEF JoinOf
    <3>2. EventOK(F, L, V[p]) /\ V[p].op # "cont" BY <2>1, <3>1, Zenon DEF Plain
    <3> QED BY <3>1, <3>2 DEF IsStart, IsEnd
  <2>2. CASE p \notin 1 .. Len(U)
    <3>1. p = Len(V) /\ p = Len(U) + 1 /\ 1 \in 1 .. 1 BY <1>4, <1>5, <2>2
    <3>2. V[Len(U) + 1] = <<e>>[1] BY <1>2, <1>3, <3>1 DEF JoinOf
    <3> QED BY <1>2, <3>1, <3>2
  <2> QED BY <2>1, <2>2
<1>7. \A p \in 1 .. Len(V) : EventOK(F, L, V[p]) BY <1>1, <1>6
<1>8. \A p \in 1 .. Len(V) : ~IsStart(V[p]) BY <1>1, <1>6
<1>9. ASSUME NEW p \in 1 .. Len(V), IsEnd(V[p])
      PROVE  /\ V[p].cont \notin Ids(S)
             /\ \A q \in 1 .. Len(V) : p < q => ~IsAdd(V[q], V[p].cont)
  <2>1. p = Len(V) /\ V[p] = e BY <1>6, <1>9
  <2>2. \A q \in 1 .. Len(V) : ~(p < q) BY <1>4, <1>5, <2>1
  <2> QED BY <1>1, <2>1, <2>2
<1>10. TodoOK(F, S, L, V) BY <1>3, <1>7, <1>8, <1>9 DEF TodoOK
<1> QED BY <1>1, <1>10 DEF V

\* A container starts.
LEMMA TodoStart ==
  ASSUME NEW F, NEW S, NEW L, NEW T, TodoOK(F, S, L, T), Len(L) \in 1 .. Len(L), Len(L) \in Nat,
         L[Len(L)] = <<>>, \A p \in 1 .. Len(T) : ~IsStart(T[p]) /\ ~IsAdd(T[p], Len(L))
  PROVE  TodoOK(F, S, L, T \o ContChange(Len(L), TRUE))
<1> DEFINE c == Len(L)
<1>0. TRUE \in BOOLEAN /\ c \in 1 .. c /\ c \in Nat OBVIOUS
<1> HIDE DEF c
<1>1. PICK e \in TodoRec :
         /\ ContChange(c, TRUE) = <<e>> /\ e.cont = c /\ EventOK(F, L, e)
         /\ (\A x : ~IsAdd(e, x)) /\ IsStart(e) /\ ~IsEnd(e)
  <2>1. c \in 1 .. Len(L) BY <1>0 DEF c
  <2> QED BY <1>0, <2>1, ContEvent
<1> DEFINE V == T \o <<e>>
<1>2. T \in Seq(TodoRec) /\ <<e>> \in Seq(TodoRec) /\ Len(<<e>>) = 1 /\ <<e>>[1] = e
  BY OneIs DEF TodoOK
<1>3. V \in Seq(TodoRec) /\ JoinOf(V, T, <<e>>) BY <1>2, JoinIs
<1>4. Len(T) \in Nat BY <1>2, SeqFacts
<1> HIDE DEF V
<1>5. Len(V) = Len(T) + 1 BY <1>2, <1>3 DEF JoinOf
<1>6. ASSUME NEW p \in 1 .. Len(V)
      PROVE  \/ p \in 1 .. Len(T) /\ V[p] = T[p] /\ p # Len(V)
             \/ p = Len(V) /\ V[p] = e
  <2>1. CASE p \in 1 .. Len(T) BY <1>3, <1>4, <1>5, <2>1 DEF JoinOf
  <2>2. CASE p \notin 1 .. Len(T)
    <3>1. p = Len(V) /\ p = Len(T) + 1 /\ 1 \in 1 .. 1 BY <1>4, <1>5, <2>2
    <3>2. V[Len(T) + 1] = <<e>>[1] BY <1>2, <1>3, <3>1 DEF JoinOf
    <3> QED BY <1>2, <3>1, <3>2
  <2> QED BY <2>1, <2>2
<1>7. \A p \in 1 .. Len(V) : EventOK(F, L, V[p]) BY <1>1, <1>6 DEF TodoOK
<1>8. \A p \in 1 .. Len(V) : p # Len(V) => ~IsStart(V[p]) BY <1>6
<1>9. ASSUME NEW p \in 1 .. Len(V), IsEnd(V[p])
      PROVE  /\ V[p].cont \notin Ids(S)
             /\ \A q \in 1 .. Len(V) : p < q => ~IsAdd(V[q], V[p].cont)
  <2>1. p \in 1 .. Len(T) /\ V[p] = T[p] BY <1>1, <1>6, <1>9
  <2>2. V[p].cont \notin Ids(S) /\ \A q \in 1 .. Len(T) : p < q => ~IsAdd(T[q], T[p].cont)
    BY <1>9, <2>1 DEF TodoOK
  <2>3. ASSUME NEW q \in 1 .. Len(V), p < q PROVE ~IsAdd(V[q], V[p].cont)
    BY <1>1, <1>6, <2>1, <2>2, <2>3
  <2> QED BY <2>2, <2>3
<1>10. ASSUME NEW p \in 1 .. Len(V), IsStart(V[p])
       PROVE  /\ V[p].cont = Len(L) /\ L[Len(L)] = <<>>
              /\ \A q \in 1 .. Len(V) : /\ q < p => ~IsAdd(V[q], Len(L))
                                        /\ q # p => ~IsStart(V[q])
  <2>1. p = Len(V) /\ V[p] = e BY <1>8, <1>6, <1>10
  <2>2. \A q \in 1 .. Len(V) : ~IsAdd(V[q], Len(L)) BY <1>1, <1>6
  <2> QED BY <1>1, <1>8, <2>1, <2>2 DEF c
<1>11. TodoOK(F, S, L, V) BY <1>3, <1>7, <1>9, <1>10 DEF TodoOK
<1> QED BY <1>1, <1>11 DEF V, c

\* The operation in progress is the same for files that grew and a smaller stack.
LEMMA TodoKept ==
  ASSUME NEW F, NEW G, Grown(F, G), NEW S, NEW R, Ids(R) \subseteq Ids(S), NEW L, NEW T,
         TodoOK(F, S, L, T)
  PROVE  TodoOK(G, R, L, T)
<1>1. \A p \in 1 .. Len(T) : EventOK(G, L, T[p]) BY GrownKept DEF TodoOK
<1>2. T \in Seq(TodoRec) BY DEF TodoOK
<1>3. \A p \in 1 .. Len(T) : IsEnd(T[p]) =>
        /\ T[p].cont \notin Ids(R)
        /\ \A q \in 1 .. Len(T) : p < q => ~IsAdd(T[q], T[p].cont)
  BY Zenon DEF TodoOK
<1>4. \A p \in 1 .. Len(T) : IsStart(T[p]) =>
        /\ T[p].cont = Len(L) /\ L[Len(L)] = <<>>
        /\ \A q \in 1 .. Len(T) : /\ q < p => ~IsAdd(T[q], Len(L))
                                  /\ q # p => ~IsStart(T[q])
  BY Zenon DEF TodoOK
<1> QED BY <1>1, <1>2, <1>3, <1>4, Zenon DEF TodoOK

LEMMA NoTodo == \A F, S, L : TodoOK(F, S, L, <<>>)
<1>1. <<>> \in Seq(TodoRec) /\ Len(<<>>) = 0 BY EmptySeq
<1>2. 1 .. 0 = {} OBVIOUS
<1> QED BY <1>1, <1>2 DEF TodoOK

-----------------------------------------------------------------------------
(* The operations of the storage.                                           *)

Extended(F, G) ==
  /\ Len(F) \in Nat /\ Len(G) \in Nat /\ Len(F) <= Len(G)
  /\ \A f \in 1 .. Len(F) : G[f] = F[f]

LEMMA ExtendedGrown == \A F, G : Extended(F, G) => Grown(F, G)
BY DEF Extended, Grown

LEMMA ExtendedTwice ==
  ASSUME NEW F, NEW G, NEW H, Extended(F, G), Extended(G, H)
  PROVE  Extended(F, H)
BY DEF Extended

\* The stack, but for the file of mode i of container k.
StackBut(F, S, L, k, i) ==
  /\ S \in Seq(Cont) /\ S # <<>> /\ S[1].id = Len(L)
  /\ \A n, m \in 1 .. Len(S) : n < m => S[m].id < S[n].id
  /\ \A n \in 1 .. Len(S) : S[n].id \in 1 .. Len(L) /\ S[n].modes # <<>>
  /\ \A n \in 1 .. Len(S) : \A m \in 1 .. Len(S[n].modes) :
        /\ AllOf(F, S[n].id, S[n].modes[m].pending)
        /\ n # k \/ m # i => OfCont(F, S[n].id, S[n].modes[m].file)

LEMMA StackStackBut ==
  ASSUME NEW F, NEW S, NEW L, NEW k, NEW i, StackOK(F, S, L) PROVE StackBut(F, S, L, k, i)
<1>1. /\ S \in Seq(Cont) /\ S # <<>> /\ S[1].id = Len(L)
      /\ \A n, m \in 1 .. Len(S) : n < m => S[m].id < S[n].id
      /\ \A n \in 1 .. Len(S) : S[n].id \in 1 .. Len(L) /\ S[n].modes # <<>>
  BY Zenon DEF StackOK
<1>2. ASSUME NEW n \in 1 .. Len(S), NEW m \in 1 .. Len(S[n].modes)
      PROVE  /\ AllOf(F, S[n].id, S[n].modes[m].pending)
             /\ OfCont(F, S[n].id, S[n].modes[m].file)
  BY Zenon DEF StackOK, ModeOK
<1> QED BY <1>1, <1>2, Zenon DEF StackBut

LEMMA StackTypes ==
  ASSUME NEW S \in Seq(Cont)
  PROVE  /\ Len(S) \in Nat
         /\ \A k \in 1 .. Len(S) :
              /\ S[k] \in Cont /\ S[k].id \in Nat /\ S[k].modes \in Seq(Mode)
              /\ Len(S[k].modes) \in Nat
              /\ \A i \in 1 .. Len(S[k].modes) :
                   /\ S[k].modes[i] \in Mode /\ S[k].modes[i].file \in Nat
                   /\ S[k].modes[i].paused \in BOOLEAN
                   /\ S[k].modes[i].pending \in Seq(Nat)
<1>1. Len(S) \in Nat /\ \A k \in 1 .. Len(S) : S[k] \in Cont BY SeqFacts
<1>2. ASSUME NEW k \in 1 .. Len(S)
      PROVE  /\ S[k].id \in Nat /\ S[k].modes \in Seq(Mode) /\ Len(S[k].modes) \in Nat
             /\ \A i \in 1 .. Len(S[k].modes) : S[k].modes[i] \in Mode
  <2>1. S[k].id \in Nat /\ S[k].modes \in Seq(Mode) BY <1>1 DEF Cont
  <2> QED BY <2>1, SeqFacts
<1>3. \A m \in Mode : m.file \in Nat /\ m.paused \in BOOLEAN /\ m.pending \in Seq(Nat)
  BY DEF Mode
<1> QED BY <1>1, <1>2, <1>3

\* The stack R is S with mode i of container k replaced by m.
Swapped(S, k, i, m, R) ==
  /\ R \in Seq(Cont) /\ Len(R) = Len(S)
  /\ \A n \in 1 .. Len(S) : /\ R[n].id = S[n].id /\ Len(R[n].modes) = Len(S[n].modes)
                            /\ (S[n].modes # <<>> => R[n].modes # <<>>)
                            /\ n # k => R[n] = S[n]
  /\ \A j \in 1 .. Len(S[k].modes) : R[k].modes[j] = IF j = i THEN m ELSE S[k].modes[j]

LEMMA SwappedIs ==
  ASSUME NEW S \in Seq(Cont), NEW k \in 1 .. Len(S), NEW i \in 1 .. Len(S[k].modes),
         NEW m \in Mode
  PROVE  Swapped(S, k, i, m, [S EXCEPT ![k].modes[i] = m])
<1> DEFINE q == S[k].modes
           r == [q EXCEPT ![i] = m]
           c == [S[k] EXCEPT !.modes = r]
           R == [S EXCEPT ![k] = c]
<1>1. S[k] \in Cont /\ S[k].id \in Nat /\ q \in Seq(Mode) BY StackTypes
<1>2. i \in 1 .. Len(q) OBVIOUS
<1>3. [S EXCEPT ![k].modes[i] = m] = R OBVIOUS
<1> HIDE DEF q
<1>4. /\ r \in Seq(Mode) /\ Len(r) = Len(q)
      /\ \A j \in 1 .. Len(q) : r[j] = IF j = i THEN m ELSE q[j]
  BY <1>1, <1>2, ExceptSeq
<1> HIDE DEF r
<1>5. c \in Cont /\ c.id = S[k].id /\ c.modes = r BY <1>1, <1>4 DEF Cont
<1> HIDE DEF c
<1>6. /\ R \in Seq(Cont) /\ Len(R) = Len(S)
      /\ \A n \in 1 .. Len(S) : R[n] = IF n = k THEN c ELSE S[n]
  BY <1>5, ExceptSeq
<1> HIDE DEF R
<1>7. q # <<>> => r # <<>> BY <1>1, <1>4, SeqFacts
<1>8. R[k].modes = r BY <1>5, <1>6
<1>9. \A n \in 1 .. Len(S) : /\ R[n].id = S[n].id /\ Len(R[n].modes) = Len(S[n].modes)
                             /\ (S[n].modes # <<>> => R[n].modes # <<>>)
                             /\ n # k => R[n] = S[n]
  BY <1>4, <1>5, <1>6, <1>7 DEF q
<1>10. \A j \in 1 .. Len(S[k].modes) : R[k].modes[j] = IF j = i THEN m ELSE S[k].modes[j]
  BY <1>4, <1>8 DEF q
<1>11. Swapped(S, k, i, m, R) BY <1>6, <1>9, <1>10, Zenon DEF Swapped
<1> QED BY <1>3, <1>11

LEMMA SwappedOK ==
  ASSUME NEW F, NEW G, Grown(F, G), NEW S, NEW L, NEW k \in 1 .. Len(S),
         NEW i \in 1 .. Len(S[k].modes), StackBut(F, S, L, k, i), NEW m,
         ModeOK(G, S[k].id, m), NEW R, Swapped(S, k, i, m, R)
  PROVE  StackOK(G, R, L) /\ Ids(R) = Ids(S) /\ R # <<>>
<1>1. /\ R \in Seq(Cont) /\ Len(R) = Len(S)
      /\ \A n \in 1 .. Len(S) : /\ R[n].id = S[n].id /\ Len(R[n].modes) = Len(S[n].modes)
                                /\ (S[n].modes # <<>> => R[n].modes # <<>>)
                                /\ n # k => R[n] = S[n]
      /\ \A j \in 1 .. Len(S[k].modes) : R[k].modes[j] = IF j = i THEN m ELSE S[k].modes[j]
  BY Zenon DEF Swapped
<1>2. S \in Seq(Cont) /\ S # <<>> /\ S[1].id = Len(L) /\ 1 \in 1 .. Len(S)
  BY SeqFacts DEF StackBut
<1>3. R # <<>> BY <1>1, <1>2, SeqFacts
<1>4. \A n, j \in 1 .. Len(R) : n < j => R[j].id < R[n].id BY <1>1 DEF StackBut
<1>5. \A n \in 1 .. Len(R) : R[n].id \in 1 .. Len(L) /\ R[n].modes # <<>>
  BY <1>1, Zenon DEF StackBut
<1>6. ASSUME NEW n \in 1 .. Len(R), NEW j \in 1 .. Len(R[n].modes)
      PROVE  ModeOK(G, R[n].id, R[n].modes[j])
  <2>1. n \in 1 .. Len(S) /\ j \in 1 .. Len(S[n].modes) /\ R[n].id = S[n].id BY <1>1
  <2>2. CASE n = k /\ j = i BY <1>1, <2>1, <2>2
  <2>3. CASE n # k \/ j # i
    <3>1. ModeOK(F, S[n].id, S[n].modes[j]) BY <2>1, <2>3, Zenon DEF StackBut, ModeOK
    <3>2. ModeOK(G, S[n].id, S[n].modes[j]) BY <3>1, GrownKept
    <3>3. R[n].modes[j] = S[n].modes[j] BY <1>1, <2>1, <2>3
    <3> QED BY <2>1, <3>2, <3>3
  <2> QED BY <2>2, <2>3
<1>7. R[1].id = Len(L) BY <1>1, <1>2
<1>8. Ids(R) = Ids(S) BY <1>1 DEF Ids
<1> QED BY <1>1, <1>3, <1>4, <1>5, <1>6, <1>7, <1>8, Zenon DEF StackOK

LEMMA FileAdded ==
  ASSUME NEW F, NEW L, FilesOK(F, L), NEW x \in FileRec, x.size >= 1, x.seen <= x.size,
         x.cont \in 1 .. Len(L), NEW G, G = Append(F, x), NEW n, n = Len(F) + 1
  PROVE  FilesOK(G, L) /\ Extended(F, G) /\ Len(G) = n /\ G[n] = x
<1>1. F \in Seq(FileRec) /\ Len(F) \in Nat BY SeqFacts DEF FilesOK
<1>2. /\ G \in Seq(FileRec) /\ Len(G) = Len(F) + 1
      /\ \A f \in 1 .. Len(F) : G[f] = F[f]
      /\ G[Len(F) + 1] = x /\ \A f \in 1 .. Len(F) + 1 : f \in 1 .. Len(F) \/ f = Len(F) + 1
  BY <1>1, AddIs
<1>3. Extended(F, G) BY <1>1, <1>2 DEF Extended
<1>4. ASSUME NEW f \in 1 .. Len(G)
      PROVE  G[f].size >= 1 /\ G[f].seen <= G[f].size /\ G[f].cont \in 1 .. Len(L)
  <2>1. f \in 1 .. Len(F) \/ f = Len(F) + 1 BY <1>2
  <2>2. CASE f \in 1 .. Len(F) BY <1>2, <2>2 DEF FilesOK
  <2>3. CASE f = Len(F) + 1 BY <1>2, <2>3
  <2> QED BY <2>1, <2>2, <2>3
<1>5. FilesOK(G, L) BY <1>2, <1>4 DEF FilesOK
<1> QED BY <1>2, <1>3, <1>5

LEMMA AllAdd ==
  ASSUME NEW F, NEW c, NEW q \in Seq(Nat), AllOf(F, c, q), NEW f \in Nat, OfCont(F, c, f)
  PROVE  Append(q, f) \in Seq(Nat) /\ AllOf(F, c, Append(q, f))
<1> DEFINE p == Append(q, f)
           n == Len(q)
<1>1. /\ p \in Seq(Nat) /\ Len(p) = n + 1 /\ p[n + 1] = f
      /\ \A j \in 1 .. n : p[j] = q[j]
      /\ \A j \in 1 .. n + 1 : j \in 1 .. n \/ j = n + 1
  BY AddIs
<1> HIDE DEF p
<1>2. ASSUME NEW j \in 1 .. Len(p) PROVE OfCont(F, c, p[j])
  <2>1. j \in 1 .. n \/ j = n + 1 BY <1>1
  <2>2. CASE j \in 1 .. n BY <1>1, <2>2 DEF AllOf
  <2>3. CASE j = n + 1 BY <1>1, <2>3
  <2> QED BY <2>1, <2>2, <2>3
<1>3. AllOf(F, c, p) BY <1>2 DEF AllOf
<1> QED BY <1>1, <1>3 DEF p

LEMMA IndexKept ==
  ASSUME NEW F, NEW G, Grown(F, G), NEW L, NEW I, IndexOK(F, L, I)
  PROVE  IndexOK(G, L, I)
<1>1. \A k \in 1 .. Len(I) : I[k].data \in 1 .. Len(G) /\ (I[k].off = 0 => G[I[k].data].cont = Len(L))
  BY GrownKept DEF IndexOK, Grown
<1> QED BY <1>1 DEF IndexOK

LEMMA IndexNew ==
  ASSUME NEW F, NEW L, NEW I, IndexOK(F, L, I), NEW x \in IndexRec, x.data \in 1 .. Len(F),
         x.off = 0 => F[x.data].cont = Len(L)
  PROVE  IndexOK(F, L, <<x>> \o I) /\ <<x>> \o I # <<>>
<1> DEFINE q == <<x>>
           J == q \o I
<1>1. q \in Seq(IndexRec) /\ Len(q) = 1 /\ q[1] = x BY OneIs
<1> HIDE DEF q
<1>2. I \in Seq(IndexRec) /\ Len(I) \in Nat BY SeqFacts DEF IndexOK
<1>3. J \in Seq(IndexRec) /\ JoinOf(J, q, I) BY <1>1, <1>2, JoinIs
<1> HIDE DEF J
<1>4. Len(J) # 0 BY <1>1, <1>2, <1>3 DEF JoinOf
<1>5. J # <<>> BY <1>3, <1>4, SeqFacts
<1>6. ASSUME NEW k \in 1 .. Len(J)
      PROVE  J[k].data \in 1 .. Len(F) /\ (J[k].off = 0 => F[J[k].data].cont = Len(L))
  <2>1. CASE k \in 1 .. Len(q)
    <3>1. k = 1 /\ J[k] = x BY <1>1, <1>3, <2>1 DEF JoinOf
    <3> QED BY <3>1
  <2>2. CASE \E n \in 1 .. Len(I) : k = Len(q) + n
    <3>1. PICK n \in 1 .. Len(I) : k = Len(q) + n BY <2>2
    <3>2. J[k] = I[n] BY <1>3, <3>1 DEF JoinOf
    <3> QED BY <3>1, <3>2 DEF IndexOK
  <2> QED BY <1>3, <2>1, <2>2 DEF JoinOf
<1>7. IndexOK(F, L, J) BY <1>3, <1>6, Zenon DEF IndexOK
<1> QED BY <1>5, <1>7 DEF J, q

\* The value r of an operation that has put files into the containers of s.
Shape(s) == s = [file |-> s.file, stack |-> s.stack, index |-> s.index, next |-> s.next,
                 todo |-> s.todo]
Good(s, L) == /\ Shape(s) /\ FilesOK(s.file, L) /\ StackOK(s.file, s.stack, L)
              /\ IndexOK(s.file, L, s.index) /\ TodoOK(s.file, s.stack, L, s.todo)
More(s, r, L) ==
  /\ Extended(s.file, r.file) /\ Ids(r.stack) = Ids(s.stack)
  /\ \E U \in Seq(TodoRec) : r.todo = s.todo \o U /\ Plain(r.file, L, U, Ids(s.stack))

\* The stack has the same containers and modes.
Alike(S, R) ==
  /\ Len(R) = Len(S)
  /\ \A n \in 1 .. Len(S) : R[n].id = S[n].id /\ Len(R[n].modes) = Len(S[n].modes)

LEMMA MoreTwice ==
  ASSUME NEW s, NEW r, NEW v, NEW L, More(s, r, L), More(r, v, L), s.todo \in Seq(TodoRec)
  PROVE  More(s, v, L)
<1>1. PICK U \in Seq(TodoRec) : r.todo = s.todo \o U /\ Plain(r.file, L, U, Ids(s.stack))
  BY DEF More
<1>2. PICK V \in Seq(TodoRec) : v.todo = r.todo \o V /\ Plain(v.file, L, V, Ids(r.stack))
  BY DEF More
<1>3. Extended(s.file, r.file) /\ Extended(r.file, v.file) /\ Ids(r.stack) = Ids(s.stack)
      /\ Ids(v.stack) = Ids(s.stack)
  BY Zenon DEF More
<1>4. Grown(r.file, v.file) /\ Ids(s.stack) \subseteq Ids(s.stack) BY <1>3, ExtendedGrown
<1>5. Plain(v.file, L, U, Ids(s.stack)) BY <1>1, <1>4, PlainKept
<1>6. Plain(v.file, L, U \o V, Ids(s.stack)) BY <1>2, <1>3, <1>5, PlainJoin
<1>7. v.todo = s.todo \o (U \o V)
  <2> DEFINE q == s.todo
  <2>1. q \in Seq(TodoRec) /\ v.todo = (q \o U) \o V BY <1>1, <1>2
  <2> HIDE DEF q
  <2>2. (q \o U) \o V = q \o (U \o V) BY ONLY <2>1, U \in Seq(TodoRec), V \in Seq(TodoRec), ConcatAssociative
  <2> QED BY <2>1, <2>2 DEF q
<1>8. Extended(s.file, v.file) BY <1>3, ExtendedTwice
<1>9. U \o V \in Seq(TodoRec) BY JoinIs
<1> QED BY <1>3, <1>6, <1>7, <1>8, <1>9, Zenon DEF More

\* A new file of mode i of container k, whose last file need not be good.
LEMMA NewFileGood ==
  ASSUME NEW s, Shape(s), NEW L, FilesOK(s.file, L), NEW k \in 1 .. Len(s.stack),
         NEW i \in 1 .. Len(s.stack[k].modes), StackBut(s.file, s.stack, L, k, i),
         IndexOK(s.file, L, s.index), s.index # <<>> \/ (k = 1 /\ i = 1),
         TodoOK(s.file, s.stack, L, s.todo), NEW paused \in BOOLEAN, pulseTime \in Nat,
         NEW r, r = newFile(s, k, i, paused)
  PROVE  Good(r, L) /\ More(s, r, L) /\ r.index # <<>> /\ Alike(s.stack, r.stack)
<1> DEFINE F == s.file
           S == s.stack
           c == S[k].id
           m == S[k].modes[i]
           f == Len(F) + 1
           p == Append(m.pending, f)
           oldest == i = Len(S[k].modes)
           x == [cont |-> c, paused |-> paused, active |-> TRUE, size |-> 1, seen |-> 0]
           nm == [file |-> f, paused |-> paused, pending |-> IF oldest THEN <<>> ELSE p]
           G == Append(F, x)
           R == [S EXCEPT ![k].modes[i] = nm]
           U == IF oldest THEN Adds(c, p) ELSE <<>>
           T0 == s.todo
           T == IF oldest THEN T0 \o Adds(c, p) ELSE T0
           made == [file |-> G, stack |-> R, index |-> s.index, next |-> s.next, todo |-> T]
           ie == [key |-> pulseTime, state |-> FALSE, data |-> f, off |-> 0]
           first == k = 1 /\ i = 1
<1>1. r = IF first THEN [made EXCEPT !.index = <<ie>> \o @, !.next = pulseTime + IndexPeriod]
          ELSE made
  <2> DEFINE I0 == s.index
             N0 == s.next
             e == [s EXCEPT !.file = Append(@, x), !.stack[k].modes[i] = nm,
                            !.todo = IF oldest THEN @ \o Adds(c, p) ELSE @]
  <2>1. s = [file |-> F, stack |-> S, index |-> I0, next |-> N0, todo |-> T0] BY DEF Shape
  <2>2. r = IF first THEN indexState(e, pulseTime, FALSE, f, 0) ELSE e BY DEF newFile
  <2>3. e = [file |-> G, stack |-> R, index |-> I0, next |-> N0, todo |-> T]
    <3> HIDE DEF nm, x, p, c
    <3>1. e = [s EXCEPT !.file = G, !.stack = R, !.todo = T] OBVIOUS
    <3> HIDE DEF G, R, T, F, S, I0, N0, T0, e
    <3> QED BY <2>1, <3>1
  <2> HIDE DEF e, G, R, T, f
  <2> QED BY <2>2, <2>3 DEF indexState
<1>2. /\ F \in Seq(FileRec) /\ Len(F) \in Nat /\ S \in Seq(Cont) /\ c \in 1 .. Len(L) /\ c \in Nat
      /\ m \in Mode /\ m.pending \in Seq(Nat) /\ AllOf(F, c, m.pending)
      /\ s.todo \in Seq(TodoRec)
  <2>1. F \in Seq(FileRec) /\ S \in Seq(Cont) /\ s.todo \in Seq(TodoRec)
    BY DEF FilesOK, StackBut, TodoOK
  <2>2. Len(F) \in Nat BY <2>1, SeqFacts
  <2>3. c \in 1 .. Len(L) /\ AllOf(F, c, m.pending) BY Zenon DEF StackBut
  <2>4. m \in Mode /\ m.pending \in Seq(Nat) /\ c \in Nat BY <2>1, StackTypes
  <2> QED BY <2>1, <2>2, <2>3, <2>4
<1> HIDE DEF F, S, c, m
<1>3. x \in FileRec /\ x.size = 1 /\ x.seen = 0 /\ x.cont = c BY <1>2 DEF FileRec
<1> HIDE DEF x
<1>4. FilesOK(G, L) /\ Extended(F, G) /\ Len(G) = f /\ G[f] = x
  <2>1. FilesOK(F, L) BY DEF F
  <2>2. f = Len(F) + 1 /\ G = Append(F, x) OBVIOUS
  <2> HIDE DEF G, f
  <2>3. x.size >= 1 /\ x.seen <= x.size /\ x.cont \in 1 .. Len(L) BY <1>2, <1>3
  <2>4. x \in FileRec BY <1>3
  <2> QED BY ONLY <2>1, <2>2, <2>3, <2>4, FileAdded
<1> HIDE DEF G
<1>5. Grown(F, G) BY <1>4, ExtendedGrown
<1>6. f \in Nat /\ f \in 1 .. Len(G) /\ OfCont(G, c, f) BY <1>2, <1>3, <1>4 DEF OfCont
<1> HIDE DEF f
<1>7. p \in Seq(Nat) /\ AllOf(G, c, p)
  <2>1. AllOf(G, c, m.pending) BY <1>2, <1>5, GrownKept
  <2> DEFINE q == m.pending
  <2>2. q \in Seq(Nat) /\ AllOf(G, c, q) /\ p = Append(q, f) BY <1>2, <2>1
  <2> HIDE DEF q, p
  <2> QED BY <1>6, <2>2, AllAdd
<1> HIDE DEF p
<1>8. nm \in Mode /\ ModeOK(G, c, nm)
  <2> DEFINE np == IF oldest THEN <<>> ELSE p
  <2>1. np \in Seq(Nat) /\ AllOf(G, c, np)
    <3>1. CASE oldest
      <4>1. np = <<>> BY <3>1
      <4>2. <<>> \in Seq(Nat) /\ Len(<<>>) = 0 BY EmptySeq
      <4>3. 1 .. 0 = {} OBVIOUS
      <4> HIDE DEF np
      <4> QED BY <4>1, <4>2, <4>3 DEF AllOf
    <3>2. CASE ~oldest BY <1>7, <3>2
    <3> QED BY <3>1, <3>2
  <2>2. nm = [file |-> f, paused |-> paused, pending |-> np] OBVIOUS
  <2> HIDE DEF np, nm
  <2>3. nm \in Mode /\ nm.file = f /\ nm.pending = np BY <1>6, <2>1, <2>2 DEF Mode
  <2> QED BY <1>6, <2>1, <2>3 DEF ModeOK
<1> HIDE DEF nm
<1>9. StackOK(G, R, L) /\ Ids(R) = Ids(S) /\ Alike(S, R)
  <2>1. k \in 1 .. Len(S) /\ i \in 1 .. Len(S[k].modes) /\ StackBut(F, S, L, k, i) BY DEF S, F
  <2>2. Swapped(S, k, i, nm, R) BY <1>2, <1>8, <2>1, SwappedIs
  <2>3. ModeOK(G, S[k].id, nm) BY <1>8 DEF c
  <2> HIDE DEF R
  <2>4. Alike(S, R) BY <2>2 DEF Swapped, Alike
  <2> QED BY <1>5, <2>1, <2>2, <2>3, <2>4, SwappedOK
<1> HIDE DEF R
<1>10. Plain(G, L, U, Ids(S)) /\ U \in Seq(TodoRec) /\ T = T0 \o U
  <2>1. CASE oldest
    <3>1. Plain(G, L, Adds(c, p), {c}) BY <1>2, <1>7, AddsPlain
    <3>2. {c} \subseteq Ids(S) BY DEF Ids, c, S
    <3>3. Grown(G, G) BY <1>5 DEF Grown
    <3>4. Plain(G, L, Adds(c, p), Ids(S)) BY <3>1, <3>2, <3>3, PlainKept
    <3>5. U = Adds(c, p) /\ T = T0 \o U BY <2>1
    <3>6. Adds(c, p) \in Seq(TodoRec) BY <3>4, Zenon DEF Plain
    <3> QED BY <3>4, <3>5, <3>6, Zenon
  <2>2. CASE ~oldest
    <3>1. U = <<>> /\ T = T0 BY <2>2
    <3>2. T0 \o <<>> = T0 BY <1>2, ConcatEmptySeq
    <3> QED BY <3>1, <3>2, NonePlain, EmptySeq
  <2> QED BY <2>1, <2>2
<1> HIDE DEF U, T
<1>11. TodoOK(G, R, L, T)
  <2>1. TodoOK(F, S, L, s.todo) BY DEF F, S
  <2>2. Ids(R) \subseteq Ids(S) BY <1>9
  <2>3. TodoOK(G, R, L, s.todo) BY <1>5, <2>1, <2>2, TodoKept
  <2>4. Plain(G, L, U, Ids(R)) BY <1>9, <1>10
  <2> QED BY <1>10, <2>3, <2>4, TodoPlain
<1>12. IndexOK(G, L, s.index)
  <2>1. IndexOK(F, L, s.index) BY DEF F
  <2> QED BY <1>5, <2>1, IndexKept
<1>13. ASSUME NEW I, NEW N, IndexOK(G, L, I), I # <<>>,
              r = [file |-> G, stack |-> R, index |-> I, next |-> N, todo |-> T]
       PROVE  Good(r, L) /\ More(s, r, L) /\ r.index # <<>> /\ Alike(s.stack, r.stack)
  <2>1. r.file = G /\ r.stack = R /\ r.index = I /\ r.next = N /\ r.todo = T BY <1>13
  <2>2. Shape(r) BY <1>13, <2>1 DEF Shape
  <2>3. Good(r, L) BY <1>4, <1>9, <1>11, <1>13, <2>1, <2>2 DEF Good
  <2>4. More(s, r, L)
    <3>1. Extended(s.file, r.file) /\ Ids(r.stack) = Ids(s.stack) /\ r.todo = s.todo \o U
          /\ Plain(r.file, L, U, Ids(s.stack))
      BY <1>4, <1>9, <1>10, <2>1 DEF F, S
    <3> QED BY <1>10, <3>1, Zenon DEF More
  <2>5. Alike(s.stack, r.stack) BY <1>9, <2>1 DEF S
  <2> QED BY <1>13, <2>1, <2>3, <2>4, <2>5
<1>14. CASE first
  <2>1. r = [file |-> G, stack |-> R, index |-> <<ie>> \o s.index,
             next |-> pulseTime + IndexPeriod, todo |-> T]
    BY <1>1, <1>14
  <2>2. ie \in IndexRec /\ ie.data = f /\ ie.off = 0 BY <1>6 DEF IndexRec
  <2>3. c = Len(L) BY <1>14 DEF StackBut, c, S
  <2>4. G[f].cont = Len(L) BY <1>3, <1>4, <2>3
  <2> HIDE DEF ie
  <2> DEFINE I == <<ie>> \o s.index
  <2>5. IndexOK(G, L, I) /\ I # <<>> BY <1>6, <1>12, <2>2, <2>4, IndexNew
  <2>6. r = [file |-> G, stack |-> R, index |-> I, next |-> pulseTime + IndexPeriod, todo |-> T]
    BY <2>1
  <2> HIDE DEF I
  <2> QED BY <1>13, <2>5, <2>6
<1>15. CASE ~first
  <2>1. r = [file |-> G, stack |-> R, index |-> s.index, next |-> s.next, todo |-> T]
    BY <1>1, <1>15
  <2>2. s.index # <<>> BY <1>15
  <2> QED BY <1>12, <1>13, <2>1, <2>2
<1> QED BY <1>14, <1>15


-----------------------------------------------------------------------------
(* The client, when an operation of the storage starts.                     *)

\* From the stack S and lists L to the stack R, the lists M and the signals T.
Starting(S, L, R, M, T) ==
  /\ Len(L) \in Nat /\ Len(M) \in Nat /\ Len(L) <= Len(M)
  /\ \A x \in 1 .. Len(L) : M[x] = L[x]
  /\ \A x \in 1 .. Len(M) : x \notin 1 .. Len(L) =>
        M[x] = <<>> /\ \E p \in 1 .. Len(T) : IsStart(T[p]) /\ T[p].cont = x
  /\ \A x \in 1 .. Len(L) : x \in Ids(R) \/ x \in AddsOf(T) => x \in Ids(S)
  /\ \A p \in 1 .. Len(T) : IsStart(T[p]) => T[p].cont \in Nat /\ T[p].cont > Len(L)

LEMMA OrderKept ==
  ASSUME NEW F, NEW G, Grown(F, G), NEW g, NEW q, Ordered(F, g, q)
  PROVE  Ordered(G, g, q)
<1>1. \A f : IsFile(F, f) => IsFile(G, f) BY GrownKept DEF IsFile
<1>2. \A f, h : IsFile(F, f) /\ IsFile(F, h) /\ NotAfter(F, f, h) => NotAfter(G, f, h)
  BY DEF IsFile, NotAfter, Grown
<1>3. (\A i \in 1 .. Len(g) : IsFile(F, g[i].file)) /\ (\A i \in 1 .. Len(q) : IsFile(F, q[i].file))
  BY DEF Ordered
<1>4. (\A i \in 1 .. Len(g) : IsFile(G, g[i].file)) /\ (\A i \in 1 .. Len(q) : IsFile(G, q[i].file))
  BY <1>1, <1>3
<1>5. \A i, j \in 1 .. Len(g) : i < j => NotAfter(G, g[i].file, g[j].file)
  BY <1>2, <1>3, Zenon DEF Ordered
<1>6. \A i, j \in 1 .. Len(q) : i < j => NotAfter(G, q[i].file, q[j].file)
  BY <1>2, <1>3, Zenon DEF Ordered
<1>7. \A i \in 1 .. Len(g), j \in 1 .. Len(q) : NotAfter(G, g[i].file, q[j].file)
  BY <1>2, <1>3, Zenon DEF Ordered
<1> QED BY <1>4, <1>5, <1>6, <1>7, Zenon DEF Ordered

LEMMA UptoKept ==
  ASSUME NEW F, NEW G, Grown(F, G), NEW g, NEW q, Ordered(F, g, q), NEW b \in Int, NEW d \in Int,
         b <= d, Upto(F, g, q, b), \A f \in 1 .. Len(F) : F[f].cont \in Nat
  PROVE  Upto(G, g, q, d)
<1>1. \A f : IsFile(F, f) /\ f # StateFile /\ F[f].cont <= b => G[f].cont <= d
  BY DEF IsFile, Grown
<1>2. (\A i \in 1 .. Len(g) : IsFile(F, g[i].file)) /\ (\A i \in 1 .. Len(q) : IsFile(F, q[i].file))
  BY DEF Ordered
<1>3. \A i \in 1 .. Len(g) : g[i].file # StateFile => G[g[i].file].cont <= d
  BY <1>1, <1>2 DEF Upto
<1>4. \A i \in 1 .. Len(q) : q[i].file # StateFile => G[q[i].file].cont <= d
  BY <1>1, <1>2 DEF Upto
<1> QED BY <1>3, <1>4 DEF Upto

LEMMA HeardKept ==
  ASSUME NEW F, NEW G, Grown(F, G), NEW L, ListOK(F, L), NEW M, Len(L) \in Nat,
         \A x \in 1 .. Len(L) : M[x] = L[x],
         \A x \in 1 .. Len(M) : x \notin 1 .. Len(L) => M[x] = <<>>,
         NEW c, NEW g, Heard(F, L, c, g)
  PROVE  Heard(G, M, c, g) /\ ListOK(G, L)
<1>1. ASSUME NEW x \in 1 .. Len(M), NEW i \in 1 .. Len(M[x])
      PROVE  \/ x < c.joined \/ M[x][i] \in c.known \/ G[M[x][i]].paused
             \/ Waits(c, x) \/ Counted(g, c.files, M[x][i])
  <2>1. x \in 1 .. Len(L)
    <3> SUFFICES ASSUME x \notin 1 .. Len(L) PROVE FALSE OBVIOUS
    <3>1. M[x] = <<>> OBVIOUS
    <3>2. Len(<<>>) = 0 /\ 1 .. 0 = {} BY EmptySeq
    <3> QED BY <3>1, <3>2
  <2>2. M[x] = L[x] /\ i \in 1 .. Len(L[x]) BY <2>1
  <2>3. \/ x < c.joined \/ L[x][i] \in c.known \/ F[L[x][i]].paused
        \/ Waits(c, x) \/ Counted(g, c.files, L[x][i])
    BY <2>1, <2>2, Zenon DEF Heard
  <2>4. L[x][i] \in 1 .. Len(F) BY <2>1, <2>2 DEF ListOK, AllOf, OfCont
  <2>5. G[L[x][i]].paused = F[L[x][i]].paused BY <2>4 DEF Grown
  <2> QED BY <2>2, <2>3, <2>5
<1>2. Heard(G, M, c, g) BY <1>1, Zenon DEF Heard
<1>3. ListOK(G, L) BY GrownKept, Zenon DEF ListOK
<1> QED BY <1>2, <1>3

\* What the client waits for is as it was.
LEMMA FrontKept ==
  ASSUME NEW F, NEW G, NEW c, SubOK(F, c), Woken(F, c),
         c.files # <<>> => c.files[1].file = StateFile
                             \/ (/\ G[c.files[1].file].active = F[c.files[1].file].active
                                 /\ G[c.files[1].file].seen = F[c.files[1].file].seen)
  PROVE  SubOK(G, c) /\ Woken(G, c)
<1>1. CASE c.files = <<>> BY <1>1 DEF SubOK, Woken
<1>2. CASE c.files # <<>>
  <2>1. IsActive(G, c.files[1].file) = IsActive(F, c.files[1].file) BY <1>2 DEF IsActive
  <2>2. IsActive(F, c.files[1].file) => G[c.files[1].file].seen = F[c.files[1].file].seen
    BY <1>2 DEF IsActive
  <2> QED BY <1>2, <2>1, <2>2 DEF SubOK, Woken
<1> QED BY <1>1, <1>2

LEMMA DoneKept ==
  ASSUME NEW S, NEW L, NEW R, NEW M, NEW T, Starting(S, L, R, M, T),
         NEW x \in 1 .. Len(L), Done(S, <<>>, x)
  PROVE  Done(R, T, x)
BY DEF Done, Starting

LEMMA StartKept ==
  ASSUME NEW F, NEW G, Extended(F, G), NEW S, NEW L, NEW R, NEW M, NEW T, NEW c, NEW g,
         FilesOK(F, L), ListOK(F, L), Ordered(F, g, c.files), c \in ClientRec,
         Starting(S, L, R, M, T), ClientOK(F, S, L, <<>>, c, g)
  PROVE  ClientOK(G, R, M, T, c, g)
<1>1. /\ SubOK(F, c) /\ Woken(F, c) /\ Upto(F, g, c.files, Reach(L, c)) /\ Heard(F, L, c, g)
      /\ ContsOK(S, L, <<>>, c) /\ Covered(S, L, <<>>, c)
  BY DEF ClientOK
<1>2. /\ Grown(F, G) /\ Len(L) \in Nat /\ Len(M) \in Nat /\ Len(L) <= Len(M)
      /\ 1 .. Len(L) \subseteq 1 .. Len(M)
  BY ExtendedGrown DEF Starting
<1>3. c.files \in Seq(ListRec) /\ c.conts \in Seq(ContRec) BY DEF ClientRec
<1>4. SubOK(G, c) /\ Woken(G, c)
  <2>1. ASSUME c.files # <<>>, c.files[1].file # StateFile
        PROVE  G[c.files[1].file] = F[c.files[1].file]
    <3>1. 1 \in 1 .. Len(c.files) BY <1>3, <2>1, SeqFacts
    <3>2. c.files[1].file \in 1 .. Len(F) BY <2>1, <3>1 DEF Ordered, IsFile
    <3> QED BY <3>2 DEF Extended
  <2>2. c.files # <<>> => c.files[1].file = StateFile
                             \/ (/\ G[c.files[1].file].active = F[c.files[1].file].active
                                 /\ G[c.files[1].file].seen = F[c.files[1].file].seen)
    BY <2>1
  <2> QED BY <1>1, <2>2, FrontKept
<1>5. Upto(G, g, c.files, Reach(M, c))
  <2>1. \A f \in 1 .. Len(F) : F[f].cont \in Nat BY ContNat
  <2>2. CASE c.conts = <<>>
    <3>1. Reach(L, c) = Len(L) /\ Reach(M, c) = Len(M) BY <2>2 DEF Reach
    <3> QED BY <1>1, <1>2, <2>1, <3>1, UptoKept
  <2>3. CASE c.conts # <<>>
    <3> DEFINE b == c.conts[1].cont
    <3>1. Reach(L, c) = b /\ Reach(M, c) = b BY <2>3 DEF Reach
    <3>2. b \in Int
      <4>1. 1 \in 1 .. Len(c.conts) BY <1>3, <2>3, SeqFacts
      <4>2. b \in 1 .. Len(L) BY <1>1, <4>1 DEF ContsOK
      <4> QED BY <1>2, <4>2
    <3> HIDE DEF b
    <3>3. b <= b BY <3>2
    <3> QED BY <1>1, <1>2, <2>1, <3>1, <3>2, <3>3, UptoKept
  <2> QED BY <2>2, <2>3
<1>6. Heard(G, M, c, g)
  <2>1. /\ \A x \in 1 .. Len(L) : M[x] = L[x]
        /\ \A x \in 1 .. Len(M) : x \notin 1 .. Len(L) => M[x] = <<>>
    BY DEF Starting
  <2> QED BY <1>1, <1>2, <2>1, HeardKept
<1>7. ContsOK(R, M, T, c)
  <2>1. \A n \in 1 .. Len(c.conts) : c.conts[n].cont \in 1 .. Len(L) BY <1>1 DEF ContsOK
  <2>2. \A n \in 1 .. Len(c.conts) : c.conts[n].cont \in 1 .. Len(M) BY <1>2, <2>1
  <2>3. \A n \in 1 .. Len(c.conts) : ~c.conts[n].starting => Done(R, T, c.conts[n].cont)
    BY <1>1, <2>1, DoneKept DEF ContsOK
  <2>4. \A p \in 1 .. Len(T) : IsStart(T[p]) =>
          \A n \in 1 .. Len(c.conts) : c.conts[n].cont < T[p].cont
    BY <1>2, <2>1 DEF Starting
  <2> QED BY <1>1, <2>2, <2>3, <2>4, Zenon DEF ContsOK
<1>8. Covered(R, M, T, c)
  <2>1. ASSUME NEW x \in 1 .. Len(M)
        PROVE  \/ x < c.joined \/ x = c.contSub \/ Waits(c, x) \/ Done(R, T, x)
               \/ \E p \in 1 .. Len(T) : IsStart(T[p]) /\ T[p].cont = x
    <3>1. CASE x \in 1 .. Len(L)
      <4>1. 1 .. Len(<<>>) = {} BY EmptySeq
      <4>2. x < c.joined \/ x = c.contSub \/ Waits(c, x) \/ Done(S, <<>>, x)
        BY <1>1, <3>1, <4>1 DEF Covered
      <4> QED BY <3>1, <4>2, DoneKept
    <3>2. CASE x \notin 1 .. Len(L) BY <3>2 DEF Starting
    <3> QED BY <3>1, <3>2
  <2> QED BY <2>1, Zenon DEF Covered
<1> QED BY <1>4, <1>5, <1>6, <1>7, <1>8 DEF ClientOK

LEMMA StorageStep ==
  ASSUME LiveInv, NEW s, Perform(s), Good(s, list'), s.index # <<>>, Extended(file, s.file),
         Starting(stack, list, s.stack, list', s.todo), ListOK(s.file, list'),
         pulseTime' \in Nat, UNCHANGED <<server, client, got>>
  PROVE  LiveInv'
<1>1. /\ todo = <<>> /\ Len(s.file) <= MaxFiles /\ file' = s.file /\ stack' = s.stack
      /\ index' = s.index /\ todo' = s.todo
  BY DEF Perform, Idle
<1>2. sendPaused' = sendPaused /\ client' = client /\ got' = got BY DEF server
<1>3. /\ FilesOK(s.file, list') /\ StackOK(s.file, s.stack, list')
      /\ IndexOK(s.file, list', s.index) /\ TodoOK(s.file, s.stack, list', s.todo)
  BY Zenon DEF Good
<1>4. /\ FilesOK(file, list) /\ ListOK(file, list) /\ Ordered(file, got, client.files)
      /\ client \in ClientRec
  BY DEF LiveInv
<1>5. Ordered(s.file, got, client.files) BY <1>4, OrderKept, ExtendedGrown
<1>6. On => ClientOK(s.file, s.stack, list', s.todo, client, got)
  <2> SUFFICES ASSUME On PROVE ClientOK(s.file, s.stack, list', s.todo, client, got) OBVIOUS
  <2>1. ClientOK(file, stack, list, <<>>, client, got) BY <1>1 DEF LiveInv
  <2> QED BY <1>4, <2>1, StartKept
<1>7. /\ Len(file') <= MaxFiles /\ index' # <<>>
      /\ FilesOK(file', list') /\ StackOK(file', stack', list') /\ ListOK(file', list')
      /\ IndexOK(file', list', index') /\ TodoOK(file', stack', list', todo')
  BY <1>1, <1>3
<1>8. /\ sendPaused' \in BOOLEAN /\ client' \in ClientRec /\ got' \in Seq(ChunkRec)
      /\ client'.phase \in {"none", "hello"} => got' = <<>>
      /\ client'.phase # "on" => client'.files = <<>> /\ client'.sub = NoFile
  BY <1>2 DEF LiveInv
<1>9. Ordered(file', got', client'.files) BY <1>1, <1>2, <1>5
<1>10. On' => ClientOK(file', stack', list', todo', client', got')
  BY <1>1, <1>2, <1>6 DEF On
<1> QED BY <1>7, <1>8, <1>9, <1>10 DEF LiveInv

-----------------------------------------------------------------------------
(* The operations of the storage, one by one.                               *)

ModesOf(S, k) == {S[k].modes[i] : i \in 1 .. Len(S[k].modes)}

\* The value from which an operation starts.
LEMMA NowGood ==
  ASSUME LiveInv, Idle
  PROVE  /\ Good(Now, list) /\ Now.index # <<>>
         /\ Now = [file |-> file, stack |-> stack, index |-> index, next |-> nextIndex,
                   todo |-> <<>>]
<1>1. Now = [file |-> file, stack |-> stack, index |-> index, next |-> nextIndex, todo |-> <<>>]
  BY DEF Now, Idle
<1> DEFINE s == Now
<1>2. s.file = file /\ s.stack = stack /\ s.index = index /\ s.next = nextIndex
      /\ s.todo = <<>>
  BY <1>1
<1> HIDE DEF s
<1>3. Shape(s) BY <1>1, <1>2 DEF Shape, s
<1>4. Good(s, list) BY <1>2, <1>3, NoTodo DEF Good, LiveInv
<1>5. s.index # <<>> BY <1>2 DEF LiveInv
<1> QED BY <1>1, <1>4, <1>5 DEF s

\* An operation that starts no container and only signals files.
LEMMA PlainStarting ==
  ASSUME NEW F, NEW L, NEW S, NEW R, Ids(R) \subseteq Ids(S), NEW T, Plain(F, L, T, Ids(S)),
         Len(L) \in Nat
  PROVE  Starting(S, L, R, L, T)
<1>1. AddsOf(T) \subseteq Ids(S)
  <2>1. \A q \in 1 .. Len(T) : T[q].op = "add" => T[q].cont \in Ids(S) BY Zenon DEF Plain
  <2> QED BY <2>1 DEF AddsOf
<1>2. \A p \in 1 .. Len(T) : ~IsStart(T[p]) BY Zenon DEF Plain, IsStart
<1> QED BY <1>1, <1>2 DEF Starting

\* The current file is rolled when it is full: the old one is closed first.
LEMMA RolledGood ==
  ASSUME NEW s, NEW L, Good(s, L), NEW k \in 1 .. Len(s.stack),
         NEW i \in 1 .. Len(s.stack[k].modes), s.index # <<>>, pulseTime \in Nat,
         NEW r, r = Rolled(s, k, i)
  PROVE  Good(r, L) /\ More(s, r, L) /\ r.index # <<>> /\ Alike(s.stack, r.stack)
<1> DEFINE F == s.file
           S == s.stack
           f == S[k].modes[i].file
           T0 == s.todo
           T == T0 \o Close(f)
           d == [s EXCEPT !.todo = T]
           b == S[k].modes[i].paused
<1>1. /\ Shape(s) /\ FilesOK(F, L) /\ StackOK(F, S, L) /\ IndexOK(F, L, s.index)
      /\ TodoOK(F, S, L, T0)
  BY Zenon DEF Good
<1>2. r = IF f # NoFile /\ F[f].size <= MaxPackets THEN s ELSE newFile(d, k, i, b)
  <2> DEFINE e == [s EXCEPT !.todo = @ \o Close(f)]
  <2>1. e = d OBVIOUS
  <2>2. r = IF f # NoFile /\ F[f].size <= MaxPackets THEN s ELSE newFile(e, k, i, b)
    BY DEF Rolled
  <2> HIDE DEF e, d
  <2> QED BY <2>1, <2>2
<1>3. F \in Seq(FileRec) /\ S \in Seq(Cont) /\ T0 \in Seq(TodoRec) /\ Len(F) \in Nat
  <2>1. F \in Seq(FileRec) /\ S \in Seq(Cont) /\ T0 \in Seq(TodoRec)
    BY <1>1, Zenon DEF FilesOK, StackOK, TodoOK
  <2> QED BY <2>1, SeqFacts
<1>4. k \in 1 .. Len(S) /\ i \in 1 .. Len(S[k].modes) OBVIOUS
<1>5. f \in Nat /\ b \in BOOLEAN /\ f \in 1 .. Len(F)
  <2>1. f \in Nat /\ b \in BOOLEAN BY <1>3, <1>4, StackTypes
  <2>2. ModeOK(F, S[k].id, S[k].modes[i]) BY <1>1, <1>4, Zenon DEF StackOK
  <2> HIDE DEF F, b
  <2>3. f \in 1 .. Len(F) BY <2>2 DEF ModeOK, OfCont
  <2> QED BY <2>1, <2>3
<1>6. d = [file |-> F, stack |-> S, index |-> s.index, next |-> s.next, todo |-> T]
  <2> DEFINE I == s.index
             N == s.next
  <2>1. s = [file |-> F, stack |-> S, index |-> I, next |-> N, todo |-> T0] BY <1>1 DEF Shape
  <2>2. d = [s EXCEPT !.todo = T] OBVIOUS
  <2> HIDE DEF F, S, I, N, T0, T, d
  <2>3. d = [file |-> F, stack |-> S, index |-> I, next |-> N, todo |-> T] BY <2>1, <2>2
  <2> QED BY <2>3 DEF I, N
<1> HIDE DEF d
<1>7. d.file = F /\ d.stack = S /\ d.index = s.index /\ d.todo = T /\ d.next = s.next
  <2> DEFINE I == s.index
             N == s.next
  <2> HIDE DEF F, S, I, N, T
  <2>1. d = [file |-> F, stack |-> S, index |-> I, next |-> N, todo |-> T] BY <1>6 DEF I, N
  <2> QED BY <2>1 DEF I, N
<1> HIDE DEF F, S, T0, b
<1>8. Plain(F, L, Close(f), Ids(S)) BY <1>5, ClosePlain
<1> HIDE DEF f
<1>9. TodoOK(F, S, L, T) BY <1>1, <1>8, TodoPlain
<1>10. Grown(F, F) /\ Extended(F, F) BY <1>3 DEF Grown, Extended
<1>11. CASE f # NoFile /\ F[f].size <= MaxPackets
  <2>1. r = s BY <1>2, <1>11
  <2>2. T0 \o <<>> = T0 BY <1>3, ConcatEmptySeq
  <2>3. More(s, s, L)
    <3>1. Plain(F, L, <<>>, Ids(S)) /\ <<>> \in Seq(TodoRec) BY NonePlain, EmptySeq
    <3> QED BY <1>10, <2>2, <3>1 DEF More, F, S, T0
  <2>4. Alike(s.stack, s.stack) BY DEF Alike
  <2> QED BY <2>1, <2>3, <2>4
<1>12. CASE ~(f # NoFile /\ F[f].size <= MaxPackets)
  <2>1. r = newFile(d, k, i, b) BY <1>2, <1>12
  <2>2. Shape(d) BY <1>6, <1>7 DEF Shape
  <2>3. StackBut(d.file, d.stack, L, k, i) BY <1>1, <1>7, StackStackBut
  <2>4. FilesOK(d.file, L) /\ IndexOK(d.file, L, d.index) /\ TodoOK(d.file, d.stack, L, d.todo)
        /\ d.index # <<>> /\ k \in 1 .. Len(d.stack) /\ i \in 1 .. Len(d.stack[k].modes)
    BY <1>1, <1>4, <1>7, <1>9
  <2>5. Good(r, L) /\ More(d, r, L) /\ r.index # <<>> /\ Alike(d.stack, r.stack)
    BY <1>5, <2>1, <2>2, <2>3, <2>4, NewFileGood
  <2>6. More(s, d, L)
    <3>1. Close(f) \in Seq(TodoRec) BY <1>8 DEF Plain
    <3> QED BY <1>7, <1>8, <1>10, <3>1 DEF More, F, S, T0, T
  <2>7. More(s, r, L) BY <1>3, <2>5, <2>6, MoreTwice DEF T0
  <2>8. Alike(s.stack, r.stack) BY <1>7, <2>5 DEF S
  <2> QED BY <2>5, <2>7, <2>8
<1> QED BY <1>11, <1>12

LEMMA MoreStep ==
  ASSUME LiveInv, Idle, NEW s, Perform(s), Good(s, list), s.index # <<>>, More(Now, s, list),
         list' = list, pulseTime' \in Nat, UNCHANGED <<server, client, got>>
  PROVE  LiveInv'
<1>1. Good(Now, list) /\ Now.file = file /\ Now.stack = stack /\ Now.todo = <<>>
  BY NowGood
<1> DEFINE n == Now
<1>2. n.file = file /\ n.stack = stack /\ n.todo = <<>> /\ More(n, s, list) BY <1>1
<1> HIDE DEF n
<1>3. Extended(file, s.file) /\ Ids(s.stack) = Ids(stack) BY <1>2 DEF More
<1>4. PICK U \in Seq(TodoRec) : s.todo = <<>> \o U /\ Plain(s.file, list, U, Ids(stack))
  BY <1>2 DEF More
<1>5. s.todo = U BY <1>4, ConcatEmptySeq
<1>6. Len(list) \in Nat BY SeqFacts DEF LiveInv, ListOK
<1>7. Ids(s.stack) \subseteq Ids(stack) BY <1>3
<1>8. Starting(stack, list, s.stack, list, s.todo) BY <1>4, <1>5, <1>6, <1>7, PlainStarting
<1>9. ListOK(s.file, list)
  <2>1. Grown(file, s.file) /\ ListOK(file, list) BY <1>3, ExtendedGrown DEF LiveInv
  <2> QED BY <2>1, GrownKept, Zenon DEF ListOK
<1> QED BY <1>3, <1>8, <1>9, StorageStep

\* More signals, and perhaps a new entry in the index.
LEMMA SignalMore ==
  ASSUME NEW s, NEW L, Good(s, L), NEW U, Plain(s.file, L, U, Ids(s.stack)), NEW I,
         IndexOK(s.file, L, I), I # <<>>, NEW N,
         NEW r, r = [file |-> s.file, stack |-> s.stack, index |-> I, next |-> N,
                     todo |-> s.todo \o U]
  PROVE  Good(r, L) /\ More(s, r, L) /\ r.index # <<>>
<1> DEFINE F == s.file
           S == s.stack
           T0 == s.todo
           T == T0 \o U
<1>1. FilesOK(F, L) /\ StackOK(F, S, L) /\ TodoOK(F, S, L, T0) BY Zenon DEF Good
<1>2. Plain(F, L, U, Ids(S)) /\ IndexOK(F, L, I) /\ r = [file |-> F, stack |-> S, index |-> I,
                                                       next |-> N, todo |-> T]
  OBVIOUS
<1> HIDE DEF F, S, T0
<1>3. TodoOK(F, S, L, T) BY <1>1, <1>2, TodoPlain
<1> HIDE DEF T
<1>4. r.file = F /\ r.stack = S /\ r.index = I /\ r.next = N /\ r.todo = T BY <1>2
<1>5. Good(r, L) BY <1>1, <1>2, <1>3, <1>4 DEF Good, Shape
<1>6. Extended(F, F)
  <2>1. Len(F) \in Nat BY <1>1, SeqFacts DEF FilesOK
  <2> QED BY <2>1 DEF Extended
<1>7. U \in Seq(TodoRec) BY <1>2 DEF Plain
<1>8. More(s, r, L) BY <1>2, <1>4, <1>6, <1>7 DEF More, F, S, T, T0
<1> QED BY <1>4, <1>5, <1>8

LEMMA PacketKept ==
  ASSUME LiveInv, NEW k \in Nat, NEW i \in Nat, NEW t \in Nat, NEW b \in BOOLEAN,
         addPacket(k, i, t, b)
  PROVE  LiveInv'
<1> DEFINE n == Now
           r == Rolled(n, k, i)
           f == r.stack[k].modes[i].file
           e == [op |-> "write", notify |-> b, file |-> f]
           w == [r EXCEPT !.todo = @ \o <<e>>]
           cur == stack[k].modes[1].file
           g == w.stack[k].modes[1].file
           size == file[cur].size
           due == t >= w.next /\ cur # NoFile
           v == IF due THEN indexState(w, t, TRUE, g, size) ELSE w
<1>1. /\ k \in DOMAIN stack /\ i \in DOMAIN stack[k].modes /\ pulseTime' = t /\ Perform(v)
      /\ list' = list /\ UNCHANGED <<server, client, got>>
  BY DEF addPacket
<1>2. Idle BY <1>1 DEF Perform
<1>3. FilesOK(file, list) /\ StackOK(file, stack, list) /\ IndexOK(file, list, index)
      /\ stack \in Seq(Cont) /\ pulseTime \in Nat
  BY DEF LiveInv, StackOK
<1>4. k \in 1 .. Len(stack) /\ i \in 1 .. Len(stack[k].modes) /\ 1 \in 1 .. Len(stack[k].modes)
  <2>1. k \in 1 .. Len(stack) BY <1>1, <1>3, SeqFacts
  <2>2. stack[k].modes \in Seq(Mode) BY <1>3, <2>1, StackTypes
  <2>3. i \in 1 .. Len(stack[k].modes) BY <1>1, <2>2, SeqFacts
  <2>4. Len(stack[k].modes) \in Nat BY <2>2, SeqFacts
  <2> QED BY <2>1, <2>3, <2>4
<1>5. size \in Nat /\ size # 0
  <2>1. ModeOK(file, stack[k].id, stack[k].modes[1]) BY <1>3, <1>4, Zenon DEF StackOK
  <2>2. cur \in 1 .. Len(file) BY <2>1 DEF ModeOK, OfCont
  <2>3. file[cur].size >= 1 /\ file[cur] \in FileRec BY <1>3, <2>2 DEF FilesOK
  <2> QED BY <2>3 DEF FileRec
<1>6. Good(n, list) /\ n.index # <<>> /\ n.stack = stack /\ n.todo = <<>> BY <1>2, NowGood
<1> HIDE DEF n, size, cur
<1>7. Good(r, list) /\ More(n, r, list) /\ r.index # <<>> /\ Alike(stack, r.stack)
  <2>1. k \in 1 .. Len(n.stack) /\ i \in 1 .. Len(n.stack[k].modes) BY <1>4, <1>6
  <2>2. r = Rolled(n, k, i) OBVIOUS
  <2> HIDE DEF r
  <2>3. Good(r, list) /\ More(n, r, list) /\ r.index # <<>> /\ Alike(n.stack, r.stack)
    BY <1>3, <1>6, <2>1, <2>2, RolledGood
  <2> QED BY <1>6, <2>3
<1> HIDE DEF r
<1>8. /\ StackOK(r.file, r.stack, list) /\ IndexOK(r.file, list, r.index)
      /\ r.todo \in Seq(TodoRec) /\ r.stack \in Seq(Cont) /\ Shape(r)
  BY <1>7 DEF Good, StackOK, TodoOK
<1>9. ASSUME NEW j \in 1 .. Len(stack[k].modes)
      PROVE  r.stack[k].modes[j].file \in 1 .. Len(r.file) /\ r.stack[k].modes[j].file \in Nat
  <2>1. k \in 1 .. Len(r.stack) /\ j \in 1 .. Len(r.stack[k].modes)
    BY <1>4, <1>7 DEF Alike
  <2>2. ModeOK(r.file, r.stack[k].id, r.stack[k].modes[j]) BY <1>8, <2>1, Zenon DEF StackOK
  <2>3. r.stack[k].modes[j].file \in Nat BY <1>8, <2>1, StackTypes
  <2> QED BY <2>2, <2>3 DEF ModeOK, OfCont
<1>10. f \in 1 .. Len(r.file) /\ f \in Nat BY <1>4, <1>9
<1> DEFINE F == r.file
           S == r.stack
           I == r.index
           N == r.next
           T == r.todo \o <<e>>
<1>11. w = [file |-> F, stack |-> S, index |-> I, next |-> N, todo |-> T] /\ F = r.file
  <2> DEFINE T0 == r.todo
             x == <<e>>
  <2>1. r = [file |-> F, stack |-> S, index |-> I, next |-> N, todo |-> T0] BY <1>8 DEF Shape
  <2>2. w = [r EXCEPT !.todo = T0 \o x] OBVIOUS
  <2> HIDE DEF F, S, I, N, T0, x, w
  <2>3. w = [file |-> F, stack |-> S, index |-> I, next |-> N, todo |-> T0 \o x] BY <2>1, <2>2
  <2> QED BY <2>3 DEF T0, x, F
<1>12. g \in 1 .. Len(F) /\ g \in Nat
  <2>1. w.stack = S BY <1>11
  <2> QED BY <1>4, <1>9, <2>1
<1> HIDE DEF w, g
<1>13. Plain(F, list, <<e>>, Ids(S))
  <2>1. e \in TodoRec /\ e.op = "write" /\ e.file = f BY <1>10 DEF TodoRec
  <2> HIDE DEF e
  <2>2. EventOK(F, list, e) BY <1>10, <2>1 DEF EventOK
  <2> QED BY <2>1, <2>2, OnePlain
<1> HIDE DEF f, e, F, S, I, N
<1>14. \E J, M : /\ IndexOK(F, list, J) /\ J # <<>>
                 /\ v = [file |-> F, stack |-> S, index |-> J, next |-> M, todo |-> T]
  <2>1. CASE due
    <3> DEFINE ie == [key |-> t, state |-> TRUE, data |-> g, off |-> size]
               J == <<ie>> \o I
    <3>1. v = [file |-> F, stack |-> S, index |-> J, next |-> t + IndexPeriod, todo |-> T]
      BY <1>11, <2>1 DEF indexState
    <3>2. ie \in IndexRec /\ ie.data = g /\ ie.off # 0 BY <1>5, <1>12 DEF IndexRec
    <3> HIDE DEF ie
    <3>3. IndexOK(F, list, J) /\ J # <<>> BY <1>8, <1>12, <3>2, IndexNew DEF F, I
    <3> QED BY <3>1, <3>3
  <2>2. CASE ~due
    <3>1. v = w BY <2>2
    <3> QED BY <1>7, <1>8, <1>11, <3>1 DEF F, I
  <2> QED BY <2>1, <2>2
<1>15. Good(v, list) /\ More(r, v, list) /\ v.index # <<>>
  <2>1. PICK J, M : /\ IndexOK(F, list, J) /\ J # <<>>
                   /\ v = [file |-> F, stack |-> S, index |-> J, next |-> M, todo |-> T]
    BY <1>14
  <2> HIDE DEF v
  <2> QED BY <1>7, <1>13, <2>1, SignalMore DEF F, S
<1> HIDE DEF v
<1>16. More(n, v, list)
  <2>1. n.todo \in Seq(TodoRec) BY <1>6, EmptySeq
  <2> QED BY <1>7, <1>15, <2>1, MoreTwice
<1>17. pulseTime' \in Nat BY <1>1
<1> QED BY <1>1, <1>2, <1>15, <1>16, <1>17, MoreStep DEF n

\* Container k of the stack gets the modes ms; i need have no good file.
Remoded(S, k, ms, R) == R = [S EXCEPT ![k].modes = ms]
ModesBut(F, c, ms, i) ==
  \A m \in 1 .. Len(ms) : /\ AllOf(F, c, ms[m].pending)
                          /\ m # i => OfCont(F, c, ms[m].file)

LEMMA RemodedBut ==
  ASSUME NEW F, NEW S, NEW L, StackOK(F, S, L), NEW k \in 1 .. Len(S), NEW ms \in Seq(Mode),
         ms # <<>>, NEW i, ModesBut(F, S[k].id, ms, i), NEW R, Remoded(S, k, ms, R)
  PROVE  /\ StackBut(F, R, L, k, i) /\ Ids(R) = Ids(S) /\ Len(R) = Len(S)
         /\ R[k].modes = ms /\ R[k].id = S[k].id
<1> DEFINE c == [S[k] EXCEPT !.modes = ms]
<1>1. S \in Seq(Cont) /\ S[1].id = Len(L) /\ 1 \in 1 .. Len(S) /\ S[k] \in Cont /\ S # <<>>
  <2>1. S \in Seq(Cont) /\ S[1].id = Len(L) /\ S # <<>> BY DEF StackOK
  <2> QED BY <2>1, SeqFacts
<1>2. c \in Cont /\ c.id = S[k].id /\ c.modes = ms BY <1>1 DEF Cont
<1>3. R = [S EXCEPT ![k] = c] BY DEF Remoded
<1> HIDE DEF c
<1> DEFINE Q == [S EXCEPT ![k] = c]
<1>14. /\ Q \in Seq(Cont) /\ Len(Q) = Len(S)
       /\ \A n \in 1 .. Len(S) : Q[n] = IF n = k THEN c ELSE S[n]
  BY <1>1, <1>2, ExceptSeq
<1>4. R \in Seq(Cont) /\ Len(R) = Len(S) /\ \A n \in 1 .. Len(S) : R[n] = IF n = k THEN c ELSE S[n]
  <2> HIDE DEF Q
  <2> QED BY <1>3, <1>14 DEF Q
<1>5. \A n \in 1 .. Len(S) : R[n].id = S[n].id /\ (n # k => R[n] = S[n]) BY <1>2, <1>4
<1>6. R[k].modes = ms /\ R[k].id = S[k].id BY <1>2, <1>4
<1>7. R # <<>> BY <1>1, <1>4, SeqFacts
<1>8. \A n, m \in 1 .. Len(R) : n < m => R[m].id < R[n].id BY <1>4, <1>5 DEF StackOK
<1>9. \A n \in 1 .. Len(R) : R[n].id \in 1 .. Len(L) /\ R[n].modes # <<>>
  BY <1>4, <1>5, <1>6, Zenon DEF StackOK
<1>10. ASSUME NEW n \in 1 .. Len(R), NEW m \in 1 .. Len(R[n].modes)
       PROVE  /\ AllOf(F, R[n].id, R[n].modes[m].pending)
              /\ n # k \/ m # i => OfCont(F, R[n].id, R[n].modes[m].file)
  <2>1. CASE n = k BY <1>6, <2>1 DEF ModesBut
  <2>2. CASE n # k
    <3>1. R[n] = S[n] /\ n \in 1 .. Len(S) /\ m \in 1 .. Len(S[n].modes) BY <1>4, <1>5, <2>2
    <3>2. ModeOK(F, S[n].id, S[n].modes[m]) BY <3>1, Zenon DEF StackOK
    <3> QED BY <3>1, <3>2 DEF ModeOK
  <2> QED BY <2>1, <2>2
<1>11. R[1].id = Len(L) BY <1>1, <1>5
<1>12. StackBut(F, R, L, k, i) BY <1>4, <1>7, <1>8, <1>9, <1>10, <1>11, Zenon DEF StackBut
<1>13. Ids(R) = Ids(S) BY <1>4, <1>5 DEF Ids
<1> QED BY <1>4, <1>6, <1>12, <1>13

LEMMA ButStack ==
  ASSUME NEW F, NEW S, NEW L, NEW k, NEW i, StackBut(F, S, L, k, i),
         i \in 1 .. Len(S[k].modes) => OfCont(F, S[k].id, S[k].modes[i].file)
  PROVE  StackOK(F, S, L)
<1>1. ASSUME NEW n \in 1 .. Len(S), NEW m \in 1 .. Len(S[n].modes)
      PROVE  ModeOK(F, S[n].id, S[n].modes[m])
  BY Zenon DEF StackBut, ModeOK
<1>2. /\ S \in Seq(Cont) /\ S # <<>> /\ S[1].id = Len(L)
      /\ \A n, m \in 1 .. Len(S) : n < m => S[m].id < S[n].id
      /\ \A n \in 1 .. Len(S) : S[n].id \in 1 .. Len(L) /\ S[n].modes # <<>>
  BY Zenon DEF StackBut
<1> QED BY <1>1, <1>2, Zenon DEF StackOK

LEMMA PushKept == ASSUME LiveInv, PushMode PROVE LiveInv'
<1> DEFINE n == Now
           nm == NewMode(~stack[1].modes[1].paused)
           ms0 == stack[1].modes
           ms == <<nm>> \o ms0
           R == [stack EXCEPT ![1].modes = ms]
           s == [n EXCEPT !.stack[1].modes = <<NewMode(~@[1].paused)>> \o @]
           b == s.stack[1].modes[1].paused
           r == newFile(s, 1, 1, b)
<1>1. Perform(r) /\ list' = list /\ pulseTime' = pulseTime /\ UNCHANGED <<server, client, got>>
  BY DEF PushMode
<1>2. Idle BY <1>1 DEF Perform
<1>3. /\ FilesOK(file, list) /\ StackOK(file, stack, list) /\ IndexOK(file, list, index)
      /\ stack \in Seq(Cont) /\ pulseTime \in Nat /\ stack # <<>> /\ index # <<>>
      /\ TodoOK(file, stack, list, todo) /\ file \in Seq(FileRec)
  BY DEF LiveInv, StackOK, FilesOK
<1>4. /\ Good(n, list)
      /\ n = [file |-> file, stack |-> stack, index |-> index, next |-> nextIndex, todo |-> <<>>]
  BY <1>2, NowGood
<1>5. 1 \in 1 .. Len(stack) BY <1>3, SeqFacts
<1>6. ms0 \in Seq(Mode) /\ ms0 # <<>> /\ Len(ms0) \in Nat BY <1>3, <1>5, StackTypes DEF StackOK
<1>7. ms0[1] \in Mode /\ ms0[1].paused \in BOOLEAN
  <2>1. 1 \in 1 .. Len(ms0) BY <1>6, SeqFacts
  <2> QED BY <1>3, <1>5, <2>1, StackTypes
<1>8. nm \in Mode /\ nm.pending = <<>> /\ nm.paused \in BOOLEAN
  <2>1. <<>> \in Seq(Nat) BY EmptySeq
  <2> QED BY <1>7, <2>1 DEF NewMode, Mode, NoFile
<1>9. s = [file |-> file, stack |-> R, index |-> index, next |-> nextIndex, todo |-> <<>>]
  <2>1. s = [n EXCEPT !.stack = [n.stack EXCEPT ![1].modes = <<NewMode(~@[1].paused)>> \o @]]
    OBVIOUS
  <2>2. n.stack = stack BY <1>4
  <2>3. [stack EXCEPT ![1].modes = <<NewMode(~@[1].paused)>> \o @] = R OBVIOUS
  <2> HIDE DEF n, R, s
  <2>4. s = [n EXCEPT !.stack = R] BY <2>1, <2>2, <2>3
  <2> QED BY <1>4, <2>4
<1> HIDE DEF s, nm
<1>10. ms \in Seq(Mode) /\ JoinOf(ms, <<nm>>, ms0) /\ Len(<<nm>>) = 1 /\ <<nm>>[1] = nm
  <2>1. <<nm>> \in Seq(Mode) /\ Len(<<nm>>) = 1 /\ <<nm>>[1] = nm BY <1>8, OneIs
  <2> QED BY <1>6, <2>1, JoinIs
<1> HIDE DEF ms
<1>11. ms # <<>> /\ ms[1] = nm
  <2>1. 1 \in 1 .. 1 OBVIOUS
  <2>2. ms[1] = nm /\ 1 \in 1 .. Len(ms) BY <1>10, <2>1 DEF JoinOf
  <2>3. Len(<<>>) = 0 /\ 1 .. 0 = {} BY EmptySeq
  <2> QED BY <2>2, <2>3
<1>12. ASSUME NEW m \in 1 .. Len(ms)
       PROVE  /\ AllOf(file, stack[1].id, ms[m].pending)
              /\ m # 1 => OfCont(file, stack[1].id, ms[m].file)
  <2>1. CASE m \in 1 .. Len(<<nm>>)
    <3>1. m = 1 BY <1>10, <2>1
    <3>2. Len(<<>>) = 0 /\ 1 .. 0 = {} BY EmptySeq
    <3> QED BY <1>8, <1>11, <3>1, <3>2 DEF AllOf
  <2>2. CASE \E i \in 1 .. Len(ms0) : m = Len(<<nm>>) + i
    <3>1. PICK i \in 1 .. Len(ms0) : m = Len(<<nm>>) + i BY <2>2
    <3>2. ms[m] = ms0[i] BY <1>10, <3>1 DEF JoinOf
    <3>3. ModeOK(file, stack[1].id, ms0[i]) BY <1>3, <1>5, <3>1, Zenon DEF StackOK
    <3> QED BY <3>2, <3>3 DEF ModeOK
  <2> QED BY <1>10, <2>1, <2>2 DEF JoinOf
<1>13. /\ StackBut(file, R, list, 1, 1) /\ Ids(R) = Ids(stack) /\ Len(R) = Len(stack)
       /\ R[1].modes = ms
  <2> DEFINE q == R
  <2>1. Remoded(stack, 1, ms, q) BY DEF Remoded
  <2> HIDE DEF q
  <2>3. ModesBut(file, stack[1].id, ms, 1) BY <1>12 DEF ModesBut
  <2>4. StackOK(file, stack, list) /\ ms \in Seq(Mode) /\ ms # <<>> BY <1>3, <1>10, <1>11
  <2>2. /\ StackBut(file, q, list, 1, 1) /\ Ids(q) = Ids(stack) /\ Len(q) = Len(stack)
        /\ q[1].modes = ms
    BY ONLY <1>5, <2>1, <2>3, <2>4, RemodedBut
  <2> QED BY <2>2 DEF q
<1> HIDE DEF R
<1>14. s.file = file /\ s.stack = R /\ s.index = index /\ s.next = nextIndex /\ s.todo = <<>>
  BY <1>9
<1>15. b \in BOOLEAN BY <1>8, <1>11, <1>13, <1>14
<1> HIDE DEF b
<1>16. 1 \in 1 .. Len(s.stack) /\ 1 \in 1 .. Len(s.stack[1].modes)
  BY <1>5, <1>10, <1>11, <1>13, <1>14, SeqFacts
<1>17. Shape(s) BY <1>9, <1>14 DEF Shape
<1>18. TodoOK(file, R, list, <<>>) /\ s.index # <<>> BY <1>3, <1>14, NoTodo
<1> DEFINE v == r
<1>19. v = newFile(s, 1, 1, b) OBVIOUS
<1> HIDE DEF v
<1>20. Good(v, list) /\ More(s, v, list) /\ v.index # <<>>
  BY <1>3, <1>13, <1>14, <1>15, <1>16, <1>17, <1>18, <1>19, NewFileGood
<1>21. More(n, s, list) /\ n.todo \in Seq(TodoRec)
  <2>1. n.todo = <<>> /\ n.file = file /\ n.stack = stack BY <1>4
  <2>2. <<>> \in Seq(TodoRec) /\ <<>> \o <<>> = <<>> BY EmptySeq, ConcatEmptySeq
  <2>3. Extended(file, file)
    <3>1. Len(file) \in Nat BY <1>3, SeqFacts
    <3> QED BY <3>1 DEF Extended
  <2> QED BY <1>13, <1>14, <2>1, <2>2, <2>3, NonePlain DEF More
<1>22. More(n, v, list) BY <1>20, <1>21, MoreTwice
<1>23. pulseTime' \in Nat BY <1>1, <1>3
<1> QED BY <1>1, <1>2, <1>19, <1>20, <1>22, <1>23, MoreStep

\* What is left when one element is removed.
LEMMA RemoveIs ==
  ASSUME NEW C, NEW S \in Seq(C), NEW k \in 1 .. Len(S), NEW R, R = RemoveAt(S, k)
  PROVE  /\ R \in Seq(C) /\ Len(R) = Len(S) - 1
         /\ \A n \in 1 .. Len(R) :
               \E m \in 1 .. Len(S) : m = (IF n < k THEN n ELSE n + 1) /\ R[n] = S[m]
<1> DEFINE p == SubSeq(S, 1, k - 1)
           q == SubSeq(S, k + 1, Len(S))
           N == Len(S)
<1>0. R = p \o q BY DEF RemoveAt
<1>1. N \in Nat /\ k \in Nat /\ k - 1 \in 0 .. N /\ k \in 0 .. N /\ k <= N /\ 1 <= k
  <2>1. N \in Nat BY SeqFacts
  <2> QED BY <2>1
<1> DEFINE j == k - 1
<1> HIDE DEF j
<1>2. p \in Seq(C) /\ FirstOf(p, S, j)
  <2>1. p = SubSeq(S, 1, j) /\ j \in 0 .. Len(S) BY <1>1 DEF j
  <2> QED BY <2>1, FirstIs
<1>3. q \in Seq(C) /\ CutOf(q, S, k) BY <1>1, CutIs
<1> HIDE DEF p, q
<1>4. R \in Seq(C) /\ JoinOf(R, p, q) BY <1>0, <1>2, <1>3, JoinIs
<1>5. Len(p) = j /\ Len(q) = N - k /\ Len(R) = Len(p) + Len(q)
  BY <1>2, <1>3, <1>4 DEF FirstOf, CutOf, JoinOf
<1>6. Len(R) = N - 1 /\ j = k - 1 BY <1>1, <1>5 DEF j
<1>7. ASSUME NEW n \in 1 .. Len(R)
      PROVE  \E m \in 1 .. Len(S) : m = (IF n < k THEN n ELSE n + 1) /\ R[n] = S[m]
  <2>1. CASE n \in 1 .. Len(p)
    <3>1. R[n] = p[n] BY <1>4, <2>1 DEF JoinOf
    <3>2. n \in 1 .. N /\ p[n] = S[n] BY <1>2, <1>5, <2>1 DEF FirstOf
    <3>3. n < k BY <1>1, <1>5, <1>6, <2>1
    <3> QED BY <3>1, <3>2, <3>3
  <2>2. CASE \E i \in 1 .. Len(q) : n = Len(p) + i
    <3>1. PICK i \in 1 .. Len(q) : n = Len(p) + i BY <2>2
    <3>2. R[n] = q[i] BY <1>4, <3>1 DEF JoinOf
    <3> DEFINE m == k + i
    <3>3. m \in 1 .. N /\ q[i] = S[m] BY <1>3, <3>1 DEF CutOf
    <3>4. m = (IF n < k THEN n ELSE n + 1) BY <1>1, <1>5, <1>6, <3>1
    <3> QED BY <3>2, <3>3, <3>4
  <2> QED BY <1>4, <2>1, <2>2 DEF JoinOf
<1> QED BY <1>4, <1>6, <1>7

LEMMA ExpireModeKept ==
  ASSUME LiveInv, NEW k \in Nat, NEW x \in Nat, ExpireMode(k, x)
  PROVE  LiveInv'
<1> DEFINE v == Now
           ms == stack[k].modes
           n == Len(ms)
           c == stack[k].id
           q == RemoveAt(ms, x)
           m == Len(q)
           r == [q EXCEPT ![m].pending = <<>>]
           R == [stack EXCEPT ![k].modes = r]
           U1 == ShutMode(c, ms[x])
           U2 == Adds(c, q[m].pending)
           U == U1 \o U2
           s == [v EXCEPT !.stack[k].modes = r, !.todo = @ \o U1 \o U2]
<1>1. /\ k \in DOMAIN stack /\ x \in DOMAIN ms \ {1} /\ Perform(s) /\ list' = list /\ pulseTime' = pulseTime
      /\ UNCHANGED <<server, client, got>>
  BY Zenon DEF ExpireMode
<1>2. Idle BY <1>1 DEF Perform
<1>3. /\ FilesOK(file, list) /\ StackOK(file, stack, list) /\ IndexOK(file, list, index)
      /\ stack \in Seq(Cont) /\ pulseTime \in Nat /\ stack # <<>> /\ index # <<>>
      /\ TodoOK(file, stack, list, todo) /\ file \in Seq(FileRec)
  BY DEF LiveInv, StackOK, FilesOK
<1>4. /\ Good(v, list)
      /\ v = [file |-> file, stack |-> stack, index |-> index, next |-> nextIndex, todo |-> <<>>]
  BY <1>2, NowGood
<1>5. k \in 1 .. Len(stack) BY <1>1, <1>3, SeqFacts
<1>6. ms \in Seq(Mode) /\ n \in Nat /\ c \in Nat /\ c \in Ids(stack)
      /\ \A i \in 1 .. n : ms[i] \in Mode /\ ms[i].pending \in Seq(Nat)
  BY <1>3, <1>5, StackTypes DEF Ids
<1>7. \A i \in 1 .. n : ModeOK(file, c, ms[i]) BY <1>3, <1>5, Zenon DEF StackOK
<1>8. s = [file |-> file, stack |-> R, index |-> index, next |-> nextIndex,
           todo |-> <<>> \o U1 \o U2]
  <2>1. s = [v EXCEPT !.stack = [v.stack EXCEPT ![k].modes = r], !.todo = v.todo \o U1 \o U2]
    OBVIOUS
  <2>2. v.stack = stack /\ v.todo = <<>> BY <1>4
  <2> HIDE DEF v, s, U1, U2, r, R
  <2>3. s = [v EXCEPT !.stack = R, !.todo = <<>> \o U1 \o U2] BY <2>1, <2>2 DEF R
  <2> QED BY <1>4, <2>3
<1> HIDE DEF s, v
<1>9. x \in 1 .. n /\ n > 1 BY <1>1, <1>6, SeqFacts
<1>13. /\ q \in Seq(Mode) /\ Len(q) = n - 1
       /\ \A i \in 1 .. Len(q) :
             \E j \in 1 .. n : j = (IF i < x THEN i ELSE i + 1) /\ q[i] = ms[j]
  BY <1>6, <1>9, RemoveIs
<1> HIDE DEF q
<1>14. m \in 1 .. Len(q) /\ m \in Nat BY <1>6, <1>9, <1>13
<1> HIDE DEF m
<1>28. \A i \in 1 .. Len(q) : /\ q[i] \in Mode /\ q[i].pending \in Seq(Nat)
                              /\ ModeOK(file, c, q[i])
  BY <1>6, <1>7, <1>13
<1>10. Plain(file, list, U1, {c}) BY <1>6, <1>7, <1>9, ModePlain
<1>11. Plain(file, list, U2, {c})
  <2> DEFINE p == q[m].pending
  <2>1. p \in Seq(Nat) /\ AllOf(file, c, p) BY <1>14, <1>28 DEF ModeOK
  <2> HIDE DEF p
  <2>2. Plain(file, list, Adds(c, p), {c}) BY <1>6, <2>1, AddsPlain
  <2> QED BY <2>2 DEF p
<1>12. Plain(file, list, U, Ids(stack)) /\ U \in Seq(TodoRec) /\ <<>> \o U1 \o U2 = U
  <2> HIDE DEF U1, U2
  <2>1. Plain(file, list, U, {c}) BY <1>10, <1>11, PlainJoin
  <2>2. {c} \subseteq Ids(stack) BY <1>6
  <2>3. Grown(file, file)
    <3>1. Len(file) \in Nat BY <1>3, SeqFacts
    <3> QED BY <3>1 DEF Grown
  <2>4. U1 \in Seq(TodoRec) /\ U2 \in Seq(TodoRec) BY <1>10, <1>11 DEF Plain
  <2>5. <<>> \o U1 = U1 BY <2>4, ConcatEmptySeq
  <2> HIDE DEF U
  <2>6. Plain(file, list, U, Ids(stack)) BY <2>1, <2>2, <2>3, PlainKept
  <2>7. U \in Seq(TodoRec) BY <2>6 DEF Plain
  <2> QED BY <2>5, <2>6, <2>7 DEF U
<1> HIDE DEF U1, U2, U
<1> DEFINE old == q[m]
           new == [old EXCEPT !.pending = <<>>]
<1>15. old \in Mode /\ ModeOK(file, c, old) BY <1>14, <1>28
<1>16. new \in Mode /\ new.file = old.file /\ new.pending = <<>>
  <2> HIDE DEF old
  <2>1. <<>> \in Seq(Nat) BY EmptySeq
  <2> QED BY <1>15, <2>1 DEF Mode
<1>17. r = [q EXCEPT ![m] = new] OBVIOUS
<1> DEFINE w == [q EXCEPT ![m] = new]
<1>18. w \in Seq(Mode) /\ Len(w) = Len(q) /\ \A i \in 1 .. Len(q) : w[i] = IF i = m THEN new ELSE q[i]
  <2> HIDE DEF new
  <2> QED BY <1>13, <1>14, <1>16, ExceptSeq
<1>19. r = w BY <1>17
<1> HIDE DEF r, w, new
<1>20. r \in Seq(Mode) /\ r # <<>>
  <2>1. r \in Seq(Mode) /\ Len(r) # 0 /\ Len(r) \in Nat BY <1>14, <1>18, <1>19, SeqFacts
  <2> QED BY <2>1, SeqFacts
<1>21. ASSUME NEW i \in 1 .. Len(r) PROVE ModeOK(file, c, r[i])
  <2>1. i \in 1 .. Len(q) /\ r[i] = IF i = m THEN new ELSE q[i] BY <1>18, <1>19, <1>21
  <2>2. ModeOK(file, c, q[i]) BY <1>28, <2>1
  <2>3. ModeOK(file, c, new)
    <3>3. Len(<<>>) = 0 /\ 1 .. 0 = {} BY EmptySeq
    <3> QED BY <1>15, <1>16, <3>3 DEF ModeOK, AllOf
  <2> QED BY <2>1, <2>2, <2>3
<1>22. StackOK(file, R, list) /\ Ids(R) = Ids(stack)
  <2> DEFINE Q == R
  <2>1. Remoded(stack, k, r, Q) BY DEF Remoded
  <2>2. ModesBut(file, stack[k].id, r, 0) BY <1>21 DEF ModesBut, ModeOK
  <2> HIDE DEF Q
  <2>3. StackBut(file, Q, list, k, 0) /\ Ids(Q) = Ids(stack)
    BY <1>3, <1>5, <1>20, <2>1, <2>2, RemodedBut
  <2>4. 0 \notin 1 .. Len(Q[k].modes) OBVIOUS
  <2>5. StackOK(file, Q, list) BY <2>3, <2>4, ButStack
  <2> QED BY <2>3, <2>5 DEF Q
<1> HIDE DEF R, ms, c
<1>23. s = [file |-> file, stack |-> R, index |-> index, next |-> nextIndex, todo |-> U]
  BY <1>8, <1>12
<1>24. s.file = file /\ s.stack = R /\ s.index = index /\ s.next = nextIndex /\ s.todo = U
  BY <1>23
<1>25. TodoOK(file, R, list, U)
  <2>1. TodoOK(file, R, list, <<>>) /\ Plain(file, list, U, Ids(R)) BY <1>12, <1>22, NoTodo
  <2>2. TodoOK(file, R, list, <<>> \o U) BY <2>1, TodoPlain
  <2> QED BY <1>12, <2>2, ConcatEmptySeq
<1>26. Good(s, list) BY <1>3, <1>22, <1>23, <1>24, <1>25 DEF Good, Shape
<1>27. More(v, s, list)
  <2>1. v.file = file /\ v.stack = stack /\ v.todo = <<>> BY <1>4
  <2>2. Extended(file, file)
    <3>1. Len(file) \in Nat BY <1>3, SeqFacts
    <3> QED BY <3>1 DEF Extended
  <2>3. <<>> \o U = U BY <1>12, ConcatEmptySeq
  <2> QED BY <1>12, <1>22, <1>24, <2>1, <2>2, <2>3 DEF More
<1>29. s.index # <<>> /\ pulseTime' \in Nat BY <1>1, <1>3, <1>24
<1> QED BY <1>1, <1>2, <1>26, <1>27, <1>29, MoreStep DEF v

\* A stack whose containers R[n] are containers S[m] of S, in the same order.
Picked(S, R, k) ==
  /\ R \in Seq(Cont)
  /\ \A n \in 1 .. Len(R) : \E m \in 1 .. Len(S) : m = (IF n < k THEN n ELSE n + 1) /\ R[n] = S[m]

LEMMA TailPicked ==
  ASSUME NEW S \in Seq(Cont), S # <<>>
  PROVE  Picked(S, Tail(S), 1)
<1> DEFINE R == Tail(S)
<1>1. R \in Seq(Cont) /\ CutOf(R, S, 1) BY TailIs
<1>2. Len(S) \in Nat /\ Len(R) \in Nat BY <1>1, SeqFacts
<1> HIDE DEF R
<1>3. ASSUME NEW n \in 1 .. Len(R)
      PROVE  \E m \in 1 .. Len(S) : m = (IF n < 1 THEN n ELSE n + 1) /\ R[n] = S[m]
  <2> DEFINE m == 1 + n
  <2>1. m \in 1 .. Len(S) /\ R[n] = S[m] BY <1>1, Zenon DEF CutOf
  <2>2. m = (IF n < 1 THEN n ELSE n + 1) BY <1>2
  <2> QED BY <2>1, <2>2
<1>4. Picked(S, R, 1) BY <1>1, <1>3 DEF Picked
<1> QED BY <1>4 DEF R

LEMMA RemovePicked ==
  ASSUME NEW S \in Seq(Cont), NEW k \in 1 .. Len(S), NEW R, R = RemoveAt(S, k)
  PROVE  Picked(S, R, k) /\ Len(R) = Len(S) - 1
BY RemoveIs DEF Picked

\* The containers that are left are good and in order; the one left out is gone.
LEMMA PickedOK ==
  ASSUME NEW F, NEW S, NEW L, StackOK(F, S, L), NEW k \in 1 .. Len(S), NEW R, Picked(S, R, k)
  PROVE  /\ \A n, m \in 1 .. Len(R) : n < m => R[m].id < R[n].id
         /\ \A n \in 1 .. Len(R) : /\ R[n].id \in 1 .. Len(L) /\ R[n].modes # <<>>
                                   /\ \A i \in 1 .. Len(R[n].modes) :
                                         ModeOK(F, R[n].id, R[n].modes[i])
         /\ Ids(R) \subseteq Ids(S) /\ S[k].id \notin Ids(R)
<1>1. S \in Seq(Cont) /\ Len(S) \in Nat /\ \A n \in 1 .. Len(S) : S[n].id \in Nat
  <2>1. S \in Seq(Cont) BY DEF StackOK
  <2> QED BY <2>1, StackTypes
<1>2. \A n \in 1 .. Len(R) : \E m \in 1 .. Len(S) :
         m = (IF n < k THEN n ELSE n + 1) /\ R[n] = S[m]
  BY DEF Picked
<1>3. \A i, j \in 1 .. Len(S) : i < j => S[j].id < S[i].id BY DEF StackOK
<1>4. ASSUME NEW n \in 1 .. Len(R), NEW m \in 1 .. Len(R), n < m PROVE R[m].id < R[n].id
  <2>1. PICK i \in 1 .. Len(S) : i = (IF n < k THEN n ELSE n + 1) /\ R[n] = S[i] BY <1>2
  <2>2. PICK j \in 1 .. Len(S) : j = (IF m < k THEN m ELSE m + 1) /\ R[m] = S[j] BY <1>2
  <2>3. i < j BY <1>1, <1>4, <2>1, <2>2
  <2> QED BY <1>3, <2>1, <2>2, <2>3
<1>5. ASSUME NEW n \in 1 .. Len(R)
      PROVE  /\ R[n].id \in 1 .. Len(L) /\ R[n].modes # <<>>
             /\ \A i \in 1 .. Len(R[n].modes) : ModeOK(F, R[n].id, R[n].modes[i])
             /\ R[n].id \in Ids(S) /\ R[n].id # S[k].id
  <2>1. PICK i \in 1 .. Len(S) : i = (IF n < k THEN n ELSE n + 1) /\ R[n] = S[i] BY <1>2
  <2>2. i # k
    <3>1. CASE n < k BY <2>1, <3>1
    <3>2. CASE ~(n < k) BY <1>1, <2>1, <3>2
    <3> QED BY <3>1, <3>2
  <2>3. R[n].id # S[k].id
    <3>1. i < k \/ k < i BY <1>1, <2>2
    <3>2. S[k].id < S[i].id \/ S[i].id < S[k].id BY <1>3, <3>1
    <3> QED BY <1>1, <2>1, <3>2
  <2>4. /\ S[i].id \in 1 .. Len(L) /\ S[i].modes # <<>>
        /\ \A j \in 1 .. Len(S[i].modes) : ModeOK(F, S[i].id, S[i].modes[j])
    BY Zenon DEF StackOK
  <2> QED BY <2>1, <2>3, <2>4 DEF Ids
<1> QED BY <1>4, <1>5 DEF Ids

\* The signals of a container that ends.
Ending(T, c) ==
  /\ T \in Seq(TodoRec)
  /\ \A p \in 1 .. Len(T) : ~IsStart(T[p]) /\ (T[p].op = "add" => T[p].cont = c)

LEMMA EndSignals ==
  ASSUME NEW F, NEW L, NEW c \in 1 .. Len(L), c \in Nat, NEW U, Plain(F, L, U, {c})
  PROVE  Ending(U \o ContChange(c, FALSE), c)
<1> DEFINE T == U \o ContChange(c, FALSE)
<1>0. U \in Seq(TodoRec) BY DEF Plain
<1>1. PICK e \in TodoRec : /\ ContChange(c, FALSE) = <<e>> /\ ~IsStart(e)
                           /\ \A x : ~IsAdd(e, x)
  <2>1. FALSE \in BOOLEAN OBVIOUS
  <2> QED BY <2>1, ContEvent
<1>2. T \in Seq(TodoRec) /\ JoinOf(T, U, <<e>>) /\ Len(<<e>>) = 1 /\ <<e>>[1] = e
  <2>1. <<e>> \in Seq(TodoRec) /\ Len(<<e>>) = 1 /\ <<e>>[1] = e BY OneIs
  <2> QED BY <1>0, <1>1, <2>1, JoinIs
<1> HIDE DEF T
<1>3. ASSUME NEW p \in 1 .. Len(T)
      PROVE  ~IsStart(T[p]) /\ (T[p].op = "add" => T[p].cont = c)
  <2>1. CASE p \in 1 .. Len(U)
    <3>1. T[p] = U[p] BY <1>2, <2>1 DEF JoinOf
    <3>2. T[p].op # "cont" /\ (T[p].op = "add" => T[p].cont \in {c})
      BY <2>1, <3>1, Zenon DEF Plain
    <3> QED BY <3>2 DEF IsStart
  <2>2. CASE \E i \in 1 .. Len(<<e>>) : p = Len(U) + i
    <3>1. PICK i \in 1 .. Len(<<e>>) : p = Len(U) + i BY <2>2
    <3>2. T[p] = e
      <4>1. i = 1 BY <1>2, <3>1
      <4>2. T[p] = <<e>>[i] BY <1>2, <3>1 DEF JoinOf
      <4> QED BY <1>2, <4>1, <4>2
    <3>3. ~IsStart(e) /\ ~IsAdd(e, e.cont) BY <1>1
    <3> QED BY <3>2, <3>3 DEF IsAdd
  <2> QED BY <1>2, <2>1, <2>2 DEF JoinOf
<1>4. Ending(T, c) BY <1>2, <1>3 DEF Ending
<1> QED BY <1>4 DEF T

LEMMA ExpireContKept == ASSUME LiveInv, NEW k \in Nat, ExpireContainer(k) PROVE LiveInv'
<1> DEFINE v == Now
           c == stack[k].id
           ms == stack[k].modes
           R == RemoveAt(stack, k)
           U == ShutModes(c, ms)
           T == U \o ContChange(c, FALSE)
           s == [v EXCEPT !.stack = RemoveAt(@, k), !.todo = @ \o U \o ContChange(c, FALSE)]
<1>1. /\ k \in DOMAIN stack \ {1} /\ Perform(s) /\ list' = list /\ pulseTime' = pulseTime
      /\ UNCHANGED <<server, client, got>>
  BY DEF ExpireContainer
<1>2. Idle BY <1>1 DEF Perform
<1>3. /\ FilesOK(file, list) /\ StackOK(file, stack, list) /\ IndexOK(file, list, index)
      /\ stack \in Seq(Cont) /\ pulseTime \in Nat /\ stack # <<>> /\ index # <<>>
      /\ ListOK(file, list) /\ file \in Seq(FileRec) /\ list \in Seq(Seq(Nat))
  BY DEF LiveInv, StackOK, FilesOK, ListOK
<1>4. v = [file |-> file, stack |-> stack, index |-> index, next |-> nextIndex, todo |-> <<>>]
  BY <1>2, NowGood
<1>5. k \in 1 .. Len(stack) /\ k # 1 BY <1>1, <1>3, SeqFacts
<1>6. ms \in Seq(Mode) /\ c \in Nat /\ c \in Ids(stack) BY <1>3, <1>5, StackTypes DEF Ids
<1>7. c \in 1 .. Len(list) /\ \A i \in 1 .. Len(ms) : ModeOK(file, c, ms[i])
  BY <1>3, <1>5, Zenon DEF StackOK
<1>8. Len(file) \in Nat /\ Len(list) \in Nat /\ Len(stack) \in Nat BY <1>3, SeqFacts
<1>9. Plain(file, list, U, {c}) BY <1>6, <1>7, ModesPlain
<1>10. U \in Seq(TodoRec) BY <1>9 DEF Plain
<1>11. s = [file |-> file, stack |-> R, index |-> index, next |-> nextIndex, todo |-> T]
  <2> DEFINE e == ContChange(c, FALSE)
  <2>1. s = [v EXCEPT !.stack = RemoveAt(v.stack, k), !.todo = v.todo \o U \o e] OBVIOUS
  <2>2. v.stack = stack /\ v.todo = <<>> BY <1>4
  <2> HIDE DEF v, s, U, e
  <2>3. <<>> \o U = U BY <1>10, ConcatEmptySeq
  <2>4. s = [v EXCEPT !.stack = R, !.todo = U \o e] BY <2>1, <2>2, <2>3
  <2> HIDE DEF R
  <2>5. s = [file |-> file, stack |-> R, index |-> index, next |-> nextIndex, todo |-> U \o e]
    BY <1>4, <2>4
  <2> QED BY <2>5 DEF e
<1> HIDE DEF s, v
<1>12. Picked(stack, R, k) /\ Len(R) = Len(stack) - 1
  <2> DEFINE Q == R
  <2>1. Q = RemoveAt(stack, k) OBVIOUS
  <2> HIDE DEF Q
  <2>2. Picked(stack, Q, k) /\ Len(Q) = Len(stack) - 1 BY <1>3, <1>5, <2>1, RemovePicked
  <2> QED BY <2>2 DEF Q
<1> HIDE DEF R, U, ms
<1>13. /\ \A n, m \in 1 .. Len(R) : n < m => R[m].id < R[n].id
       /\ \A n \in 1 .. Len(R) : /\ R[n].id \in 1 .. Len(list) /\ R[n].modes # <<>>
                                 /\ \A i \in 1 .. Len(R[n].modes) :
                                       ModeOK(file, R[n].id, R[n].modes[i])
       /\ Ids(R) \subseteq Ids(stack) /\ c \notin Ids(R)
  BY <1>3, <1>5, <1>12, PickedOK
<1>14. StackOK(file, R, list)
  <2>1. 1 \in 1 .. Len(R) /\ 1 < k BY <1>5, <1>8, <1>12
  <2>2. R[1] = stack[1] BY <1>12, <2>1 DEF Picked
  <2>3. R \in Seq(Cont) BY <1>12 DEF Picked
  <2>4. R # <<>>
    <3>1. Len(<<>>) = 0 /\ 1 .. 0 = {} BY EmptySeq
    <3> QED BY <2>1, <3>1
  <2>5. R[1].id = Len(list) BY <1>3, <2>2 DEF StackOK
  <2> QED BY <1>13, <2>3, <2>4, <2>5, Zenon DEF StackOK
<1>15. TodoOK(file, R, list, T) BY <1>6, <1>7, <1>9, <1>13, TodoEnd
<1>16. s.file = file /\ s.stack = R /\ s.index = index /\ s.next = nextIndex /\ s.todo = T
  BY <1>11
<1>17. Good(s, list) BY <1>3, <1>11, <1>14, <1>15, <1>16 DEF Good, Shape
<1>18. Starting(stack, list, R, list, T)
  <2>1. Ending(T, c) BY <1>6, <1>7, <1>9, EndSignals
  <2> HIDE DEF T
  <2>2. \A p \in 1 .. Len(T) : ~IsStart(T[p]) /\ (T[p].op = "add" => T[p].cont \in Ids(stack))
    BY <1>6, <2>1 DEF Ending
  <2>3. AddsOf(T) \subseteq Ids(stack) BY <2>2 DEF AddsOf
  <2> QED BY <1>8, <1>13, <2>2, <2>3 DEF Starting
<1>19. Extended(file, s.file) /\ s.index # <<>> /\ pulseTime' \in Nat
  BY <1>1, <1>3, <1>8, <1>16 DEF Extended
<1>20. /\ Good(s, list') /\ Starting(stack, list, s.stack, list', s.todo)
       /\ ListOK(s.file, list')
  BY <1>1, <1>3, <1>16, <1>17, <1>18
<1> QED BY <1>1, <1>19, <1>20, StorageStep

\* The signals of the container id that starts, after those of one that ends.
Beginning(T, S, id) ==
  /\ T \in Seq(TodoRec)
  /\ \A p \in 1 .. Len(T) : /\ IsStart(T[p]) => T[p].cont = id
                            /\ T[p].op = "add" => T[p].cont \in Ids(S)
  /\ \E p \in 1 .. Len(T) : IsStart(T[p]) /\ T[p].cont = id

LEMMA BeginSignals ==
  ASSUME NEW F, NEW S, NEW R, NEW M, NEW X, TodoOK(F, R, M, X), Len(M) \in Nat,
         Len(M) \in 1 .. Len(M), M[Len(M)] = <<>>, NEW c \in Ids(S), c # Len(M), Ending(X, c),
         NEW T, T = X \o ContChange(Len(M), TRUE)
  PROVE  TodoOK(F, R, M, T) /\ Beginning(T, S, Len(M))
<1> DEFINE id == Len(M)
<1>1. \A p \in 1 .. Len(X) : /\ ~IsStart(X[p]) /\ ~IsAdd(X[p], id)
                             /\ X[p].op = "add" => X[p].cont \in Ids(S)
  BY DEF Ending, IsAdd
<1>2. TodoOK(F, R, M, T) BY <1>1, TodoStart
<1>3. PICK e \in TodoRec : /\ ContChange(id, TRUE) = <<e>> /\ e.cont = id /\ IsStart(e)
                           /\ \A x : ~IsAdd(e, x)
  <2>1. TRUE \in BOOLEAN OBVIOUS
  <2> QED BY <2>1, ContEvent
<1>4. X \in Seq(TodoRec) BY DEF Ending
<1>5. T \in Seq(TodoRec) /\ JoinOf(T, X, <<e>>) /\ Len(<<e>>) = 1 /\ <<e>>[1] = e
  <2>1. <<e>> \in Seq(TodoRec) /\ Len(<<e>>) = 1 /\ <<e>>[1] = e BY OneIs
  <2> QED BY <1>3, <1>4, <2>1, JoinIs
<1> HIDE DEF id
<1>6. ASSUME NEW p \in 1 .. Len(T)
      PROVE  /\ IsStart(T[p]) => T[p].cont = id
             /\ T[p].op = "add" => T[p].cont \in Ids(S)
  <2>1. CASE p \in 1 .. Len(X)
    <3>1. T[p] = X[p] BY <1>5, <2>1 DEF JoinOf
    <3> QED BY <1>1, <2>1, <3>1
  <2>2. CASE \E i \in 1 .. Len(<<e>>) : p = Len(X) + i
    <3>1. PICK i \in 1 .. Len(<<e>>) : p = Len(X) + i BY <2>2
    <3>2. T[p] = e
      <4>1. i = 1 BY <1>5, <3>1
      <4>2. T[p] = <<e>>[i] BY <1>5, <3>1 DEF JoinOf
      <4> QED BY <1>5, <4>1, <4>2
    <3>3. ~IsAdd(e, e.cont) BY <1>3
    <3> QED BY <1>3, <3>2, <3>3 DEF IsAdd
  <2> QED BY <1>5, <2>1, <2>2 DEF JoinOf
<1>7. \E p \in 1 .. Len(T) : IsStart(T[p]) /\ T[p].cont = id
  <2>1. 1 \in 1 .. Len(<<e>>) BY <1>5
  <2> DEFINE p == Len(X) + 1
  <2>2. p \in 1 .. Len(T) /\ T[p] = <<e>>[1] BY <1>5, <2>1, Zenon DEF JoinOf
  <2> QED BY <1>3, <1>5, <2>2
<1>8. Beginning(T, S, id) BY <1>5, <1>6, <1>7 DEF Beginning
<1> QED BY <1>2, <1>8 DEF id

LEMMA BeginStarting ==
  ASSUME NEW S, NEW L, Len(L) \in Nat, NEW M, NEW id, id = Len(L) + 1, Len(M) = id,
         \A x \in 1 .. Len(L) : M[x] = L[x], M[id] = <<>>, NEW T, Beginning(T, S, id),
         NEW G, NEW R, \A x \in Ids(R) : x \in Ids(S) \/ x = id, NEW U, Plain(G, M, U, Ids(R))
  PROVE  Starting(S, L, R, M, T \o U)
<1> DEFINE V == T \o U
<1>1. T \in Seq(TodoRec) /\ U \in Seq(TodoRec) BY DEF Beginning, Plain
<1>2. V \in Seq(TodoRec) /\ JoinOf(V, T, U) BY <1>1, JoinIs
<1> HIDE DEF V
<1>3. ASSUME NEW p \in 1 .. Len(V)
      PROVE  /\ IsStart(V[p]) => V[p].cont = id
             /\ V[p].op = "add" => V[p].cont \in Ids(S) \/ V[p].cont = id
  <2>1. CASE p \in 1 .. Len(T)
    <3>1. V[p] = T[p] BY <1>2, <2>1 DEF JoinOf
    <3> QED BY <2>1, <3>1, Zenon DEF Beginning
  <2>2. CASE \E i \in 1 .. Len(U) : p = Len(T) + i
    <3>1. PICK i \in 1 .. Len(U) : p = Len(T) + i BY <2>2
    <3>2. V[p] = U[i] BY <1>2, <3>1 DEF JoinOf
    <3>3. V[p].op # "cont" /\ (V[p].op = "add" => V[p].cont \in Ids(R))
      BY <3>1, <3>2, Zenon DEF Plain
    <3> QED BY <3>3 DEF IsStart
  <2> QED BY <1>2, <2>1, <2>2 DEF JoinOf
<1>4. \E p \in 1 .. Len(V) : IsStart(V[p]) /\ V[p].cont = id
  <2>1. PICK p \in 1 .. Len(T) : IsStart(T[p]) /\ T[p].cont = id BY DEF Beginning
  <2>2. p \in 1 .. Len(V) /\ V[p] = T[p] BY <1>2, <2>1, Zenon DEF JoinOf
  <2> QED BY <2>1, <2>2
<1>5. \A x \in AddsOf(V) : x \in Ids(S) \/ x = id BY <1>3 DEF AddsOf
<1>6. \A x \in 1 .. Len(M) : x \notin 1 .. Len(L) => x = id OBVIOUS
<1>7. \A x \in 1 .. Len(L) : x # id OBVIOUS
<1>8. Len(M) \in Nat /\ Len(L) <= Len(M) /\ id \in Nat /\ id > Len(L) OBVIOUS
<1>9. \A x \in 1 .. Len(L) : x \in Ids(R) \/ x \in AddsOf(V) => x \in Ids(S) BY <1>5, <1>7
<1>10. \A x \in 1 .. Len(M) : x \notin 1 .. Len(L) =>
         M[x] = <<>> /\ \E p \in 1 .. Len(V) : IsStart(V[p]) /\ V[p].cont = x
  BY <1>4, <1>6
<1>11. \A p \in 1 .. Len(V) : IsStart(V[p]) => V[p].cont \in Nat /\ V[p].cont > Len(L)
  BY <1>3, <1>8
<1>12. Starting(S, L, R, M, V) BY <1>8, <1>9, <1>10, <1>11 DEF Starting
<1> QED BY <1>12 DEF V

OneMore(L, M) == M = Append(L, <<>>)

LEMMA ListAdd ==
  ASSUME NEW F, NEW L, ListOK(F, L), FilesOK(F, L), NEW M, OneMore(L, M)
  PROVE  /\ ListOK(F, M) /\ FilesOK(F, M) /\ Len(L) \in Nat /\ Len(M) = Len(L) + 1
         /\ \A x \in 1 .. Len(L) : M[x] = L[x]
         /\ M[Len(M)] = <<>> /\ IndexOK(F, M, <<>>)
<1>1. L \in Seq(Seq(Nat)) /\ Len(L) \in Nat BY SeqFacts DEF ListOK
<1> DEFINE e == <<>>
           Q == Seq(Nat)
<1>2. e \in Q /\ M = Append(L, e) /\ L \in Seq(Q) BY <1>1, EmptySeq DEF OneMore
<1>3. Len(e) = 0 /\ 1 .. 0 = {} BY EmptySeq
<1> HIDE DEF e, Q
<1>4. /\ M \in Seq(Q) /\ Len(M) = Len(L) + 1 /\ M[Len(L) + 1] = e
      /\ \A i \in 1 .. Len(L) : M[i] = L[i]
      /\ \A i \in 1 .. Len(L) + 1 : i \in 1 .. Len(L) \/ i = Len(L) + 1
  BY <1>2, AddIs
<1>5. ASSUME NEW x \in 1 .. Len(M) PROVE AllOf(F, x, M[x])
  <2>1. CASE x \in 1 .. Len(L) BY <1>4, <2>1 DEF ListOK
  <2>2. CASE x = Len(L) + 1 BY <1>3, <1>4, <2>2 DEF AllOf
  <2> QED BY <1>4, <2>1, <2>2
<1>6. ListOK(F, M) BY <1>4, <1>5 DEF ListOK, Q
<1>7. FilesOK(F, M) BY <1>1, <1>4 DEF FilesOK
<1>8. IndexOK(F, M, <<>>)
  <2>1. <<>> \in Seq(IndexRec) /\ Len(<<>>) = 0 BY EmptySeq
  <2> QED BY <1>3, <2>1 DEF IndexOK
<1> QED BY <1>1, <1>4, <1>6, <1>7, <1>8 DEF e

\* The stack with a new container in front, and the old one dropped or kept.
Fresh(M, c) == c \in Cont /\ c.id = Len(M) /\ c.modes = <<NewMode(FALSE)>>
Onto(S, keep, c, R) == R = <<c>> \o (IF keep THEN S ELSE Tail(S))

LEMMA NextStack ==
  ASSUME NEW F, NEW S, NEW L, StackOK(F, S, L), NEW M, Len(L) \in Nat, Len(M) = Len(L) + 1,
         NEW keep \in BOOLEAN, NEW c, Fresh(M, c), NEW R, Onto(S, keep, c, R)
  PROVE  /\ StackBut(F, R, M, 1, 1) /\ 1 \in 1 .. Len(R) /\ 1 \in 1 .. Len(R[1].modes)
         /\ \A x \in Ids(R) : x \in Ids(S) \/ x = Len(M)
         /\ ~keep => S[1].id \notin Ids(R)
         /\ S[1].id \in Ids(S) /\ S[1].id \in 1 .. Len(L) /\ S[1].id \in Nat
<1> DEFINE B == IF keep THEN S ELSE Tail(S)
<1>1. S \in Seq(Cont) /\ S # <<>> /\ Len(S) \in Nat /\ 1 \in 1 .. Len(S)
  <2>1. S \in Seq(Cont) /\ S # <<>> BY DEF StackOK
  <2> QED BY <2>1, SeqFacts
<1>2. /\ B \in Seq(Cont)
      /\ \A n, m \in 1 .. Len(B) : n < m => B[m].id < B[n].id
      /\ \A n \in 1 .. Len(B) : /\ B[n].id \in 1 .. Len(L) /\ B[n].modes # <<>>
                                /\ \A i \in 1 .. Len(B[n].modes) :
                                      ModeOK(F, B[n].id, B[n].modes[i])
      /\ Ids(B) \subseteq Ids(S) /\ (~keep => S[1].id \notin Ids(B))
  <2>1. CASE keep
    <3>1. B = S BY <2>1
    <3> QED BY <1>1, <2>1, <3>1, Zenon DEF StackOK
  <2>2. CASE ~keep
    <3>1. B = Tail(S) BY <2>2
    <3>2. Picked(S, B, 1) BY <1>1, <3>1, TailPicked
    <3>3. B \in Seq(Cont) BY <3>2 DEF Picked
    <3> HIDE DEF B
    <3>4. /\ \A n, m \in 1 .. Len(B) : n < m => B[m].id < B[n].id
          /\ \A n \in 1 .. Len(B) : /\ B[n].id \in 1 .. Len(L) /\ B[n].modes # <<>>
                                    /\ \A i \in 1 .. Len(B[n].modes) :
                                          ModeOK(F, B[n].id, B[n].modes[i])
          /\ Ids(B) \subseteq Ids(S) /\ S[1].id \notin Ids(B)
      BY <1>1, <3>2, PickedOK
    <3> QED BY <3>3, <3>4
  <2> QED BY <2>1, <2>2
<1> DEFINE q == <<c>>
<1>20. c \in Cont /\ c.id = Len(M) BY DEF Fresh
<1>3. q \in Seq(Cont) /\ Len(q) = 1 /\ q[1] = c BY <1>20, OneIs
<1>4. R = q \o B BY DEF Onto
<1> HIDE DEF q, B
<1>5. R \in Seq(Cont) /\ JoinOf(R, q, B) BY <1>2, <1>3, <1>4, JoinIs
<1>6. ASSUME NEW n \in 1 .. Len(R)
      PROVE  \/ n = 1 /\ R[n] = c
             \/ \E i \in 1 .. Len(B) : n = 1 + i /\ R[n] = B[i]
  <2>1. CASE n \in 1 .. Len(q)
    <3>1. n = 1 /\ R[n] = q[n] BY <1>3, <1>5, <2>1 DEF JoinOf
    <3> QED BY <1>3, <3>1
  <2>2. CASE \E i \in 1 .. Len(B) : n = Len(q) + i
    <3>1. PICK i \in 1 .. Len(B) : n = Len(q) + i BY <2>2
    <3>2. R[n] = B[i] BY <1>5, <3>1 DEF JoinOf
    <3> QED BY <1>3, <3>1, <3>2
  <2> QED BY <1>5, <2>1, <2>2 DEF JoinOf
<1>7. 1 \in 1 .. Len(R) /\ R[1] = c
  <2>1. 1 \in 1 .. Len(q) BY <1>3
  <2> QED BY <1>3, <1>5, <2>1 DEF JoinOf
<1>8. Len(c.modes) = 1 /\ c.modes[1].pending = <<>> /\ c.modes # <<>>
  <2> DEFINE md == NewMode(FALSE)
  <2>1. md.pending = <<>> BY DEF NewMode
  <2> HIDE DEF md
  <2>2. Len(<<md>>) = 1 /\ <<md>>[1] = md OBVIOUS
  <2>3. <<md>> # <<>>
    <3>1. Len(<<>>) = 0 BY EmptySeq
    <3> QED BY <2>2, <3>1
  <2>4. c.modes = <<md>> BY DEF Fresh, md
  <2> DEFINE ms == c.modes
  <2> HIDE DEF ms
  <2>5. ms = <<md>> BY <2>4 DEF ms
  <2>6. Len(ms) = 1 /\ ms[1] = md /\ ms # <<>> BY <2>2, <2>3, <2>5
  <2> QED BY <2>1, <2>6 DEF ms
<1>9. Len(M) \in Nat /\ Len(M) \in 1 .. Len(M) /\ \A x \in 1 .. Len(L) : x \in 1 .. Len(M) /\ x < Len(M)
  OBVIOUS
<1>10. \A n \in 1 .. Len(R) : R[n].id \in 1 .. Len(M) /\ R[n].modes # <<>>
  <2> SUFFICES ASSUME NEW n \in 1 .. Len(R) PROVE R[n].id \in 1 .. Len(M) /\ R[n].modes # <<>>
    OBVIOUS
  <2>1. CASE R[n] = c BY <1>8, <1>9, <1>20, <2>1
  <2>2. CASE \E i \in 1 .. Len(B) : n = 1 + i /\ R[n] = B[i] BY <1>2, <1>9, <2>2
  <2> QED BY <1>6, <2>1, <2>2
<1>11. ASSUME NEW n \in 1 .. Len(R), NEW m \in 1 .. Len(R), n < m PROVE R[m].id < R[n].id
  <2>1. PICK i \in 1 .. Len(B) : m = 1 + i /\ R[m] = B[i]
    <3>1. m # 1 BY <1>11
    <3> QED BY <1>6, <3>1
  <2>2. CASE n = 1 BY <1>2, <1>7, <1>9, <1>20, <2>1, <2>2
  <2>3. CASE n # 1
    <3>1. PICK j \in 1 .. Len(B) : n = 1 + j /\ R[n] = B[j] BY <1>6, <2>3
    <3>2. j < i BY <1>11, <2>1, <3>1
    <3> QED BY <1>2, <2>1, <3>1, <3>2
  <2> QED BY <2>2, <2>3
<1>12. ASSUME NEW n \in 1 .. Len(R), NEW m \in 1 .. Len(R[n].modes)
       PROVE  /\ AllOf(F, R[n].id, R[n].modes[m].pending)
              /\ n # 1 \/ m # 1 => OfCont(F, R[n].id, R[n].modes[m].file)
  <2>1. CASE n = 1
    <3>3. R[n] = c BY <1>7, <2>1
    <3>4. m \in 1 .. Len(c.modes) BY <3>3
    <3>5. m = 1 BY <1>8, <3>4
    <3>1. m = 1 /\ R[n].modes[m].pending = <<>> BY <1>8, <3>3, <3>5, Zenon
    <3>2. Len(<<>>) = 0 /\ 1 .. 0 = {} BY EmptySeq
    <3> QED BY <2>1, <3>1, <3>2 DEF AllOf
  <2>2. CASE n # 1
    <3>1. PICK j \in 1 .. Len(B) : n = 1 + j /\ R[n] = B[j] BY <1>6, <2>2
    <3>2. ModeOK(F, R[n].id, R[n].modes[m]) BY <1>2, <3>1
    <3> QED BY <3>2 DEF ModeOK
  <2> QED BY <2>1, <2>2
<1>13. R # <<>>
  <2>1. Len(<<>>) = 0 /\ 1 .. 0 = {} BY EmptySeq
  <2> QED BY <1>7, <2>1
<1>14. R[1].id = Len(M) BY <1>7, <1>20
<1>15. StackBut(F, R, M, 1, 1)
  BY <1>5, <1>10, <1>11, <1>12, <1>13, <1>14, Zenon DEF StackBut
<1>16. \A x \in Ids(R) : x \in Ids(B) \/ x = Len(M) BY <1>6, <1>20 DEF Ids
<1>17. S[1].id \in Ids(S) /\ S[1].id \in 1 .. Len(L) /\ S[1].id \in Nat
  BY <1>1 DEF Ids, StackOK
<1>18. S[1].id # Len(M) BY <1>9, <1>17
<1>19. 1 \in 1 .. Len(R[1].modes) BY <1>7, <1>8
<1> QED BY <1>2, <1>7, <1>15, <1>16, <1>17, <1>18, <1>19

LEMMA NextKept == ASSUME LiveInv, NEW keep \in BOOLEAN, NextContainer(keep) PROVE LiveInv'
<1> DEFINE v == Now
           old == stack[1]
           M == Append(list, <<>>)
           id == Len(list) + 1
           c == [id |-> id, modes |-> <<NewMode(FALSE)>>]
           B == IF keep THEN stack ELSE Tail(stack)
           R == <<c>> \o B
           X == IF keep THEN <<>> ELSE ShutModes(old.id, old.modes) \o ContChange(old.id, FALSE)
           T == X \o ContChange(id, TRUE)
           s == [v EXCEPT
                  !.stack = <<c>> \o (IF keep THEN @ ELSE Tail(@)),
                  !.index = <<>>,
                  !.todo = @ \o X \o ContChange(id, TRUE)]
           r == newFile(s, 1, 1, FALSE)
<1>1. /\ Perform(r) /\ list' = M /\ pulseTime' = pulseTime /\ UNCHANGED <<server, client, got>>
  BY DEF NextContainer
<1>2. Idle BY <1>1 DEF Perform
<1>3. /\ FilesOK(file, list) /\ StackOK(file, stack, list) /\ IndexOK(file, list, index)
      /\ stack \in Seq(Cont) /\ pulseTime \in Nat /\ stack # <<>>
      /\ ListOK(file, list) /\ file \in Seq(FileRec)
  BY DEF LiveInv, StackOK, FilesOK, ListOK
<1>4. v = [file |-> file, stack |-> stack, index |-> index, next |-> nextIndex, todo |-> <<>>]
  BY <1>2, NowGood
<1> HIDE DEF v
<1>5. /\ ListOK(file, M) /\ FilesOK(file, M) /\ Len(list) \in Nat /\ Len(M) = id
      /\ \A x \in 1 .. Len(list) : M[x] = list[x]
      /\ M[id] = <<>> /\ IndexOK(file, M, <<>>)
  <2> DEFINE N == M
  <2>1. OneMore(list, N) BY DEF OneMore
  <2> HIDE DEF N
  <2>2. /\ ListOK(file, N) /\ FilesOK(file, N) /\ Len(list) \in Nat /\ Len(N) = Len(list) + 1
        /\ \A x \in 1 .. Len(list) : N[x] = list[x]
        /\ N[Len(N)] = <<>> /\ IndexOK(file, N, <<>>)
    BY <1>3, <2>1, ListAdd
  <2> QED BY <2>2 DEF N
<1> HIDE DEF M
<1>6. id \in Nat /\ id \in 1 .. id /\ Len(M) = Len(list) + 1 /\ 1 .. Len(list) \subseteq 1 .. id
      /\ id \notin 1 .. Len(list)
  BY <1>5
<1>7. Fresh(M, c)
  <2> DEFINE md == NewMode(FALSE)
             ms == <<md>>
  <2>1. md \in Mode
    <3>1. <<>> \in Seq(Nat) BY EmptySeq
    <3> QED BY <3>1 DEF NewMode, Mode, NoFile
  <2> HIDE DEF md
  <2>2. ms \in Seq(Mode) BY <2>1
  <2>3. c = [id |-> id, modes |-> ms] BY DEF md
  <2> HIDE DEF ms, id, c
  <2>4. c \in Cont /\ c.id = id /\ c.modes = ms BY <1>6, <2>2, <2>3 DEF Cont
  <2> QED BY <1>5, <2>4 DEF ms, md, Fresh
<1> DEFINE o == old.id
           C == ContChange(id, TRUE)
<1>8. s = [v EXCEPT !.stack = R, !.index = <<>>, !.todo = (<<>> \o X) \o C]
  <2>1. v.stack = stack /\ v.todo = <<>> BY <1>4
  <2>2. s = [v EXCEPT !.stack = <<c>> \o (IF keep THEN v.stack ELSE Tail(v.stack)),
                      !.index = <<>>, !.todo = (v.todo \o X) \o C]
    OBVIOUS
  <2> HIDE DEF s, X, c, id, C
  <2> QED BY <2>1, <2>2
<1> HIDE DEF s, c, id, C
<1>9. /\ StackBut(file, R, M, 1, 1) /\ 1 \in 1 .. Len(R) /\ 1 \in 1 .. Len(R[1].modes)
      /\ \A x \in Ids(R) : x \in Ids(stack) \/ x = id
      /\ ~keep => o \notin Ids(R)
      /\ o \in Ids(stack) /\ o \in 1 .. Len(list) /\ o \in Nat
  <2> DEFINE Q == R
  <2>1. Onto(stack, keep, c, Q) BY DEF Onto
  <2> HIDE DEF Q
  <2>2. /\ StackBut(file, Q, M, 1, 1) /\ 1 \in 1 .. Len(Q) /\ 1 \in 1 .. Len(Q[1].modes)
        /\ \A x \in Ids(Q) : x \in Ids(stack) \/ x = Len(M)
        /\ ~keep => stack[1].id \notin Ids(Q)
        /\ stack[1].id \in Ids(stack) /\ stack[1].id \in 1 .. Len(list) /\ stack[1].id \in Nat
    BY <1>3, <1>5, <1>6, <1>7, <2>1, NextStack
  <2> QED BY <1>5, <2>2 DEF Q
<1> HIDE DEF R
<1>10. o \in 1 .. Len(M) /\ o # id BY <1>5, <1>6, <1>9
<1>11. TodoOK(file, R, M, X) /\ Ending(X, o) /\ X \in Seq(TodoRec)
  <2>1. CASE keep
    <3>1. X = <<>> BY <2>1
    <3>2. <<>> \in Seq(TodoRec) /\ Len(<<>>) = 0 /\ 1 .. 0 = {} BY EmptySeq
    <3> QED BY <3>1, <3>2, NoTodo DEF Ending
  <2>2. CASE ~keep
    <3> DEFINE U == ShutModes(o, old.modes)
    <3>1. X = U \o ContChange(o, FALSE) BY <2>2
    <3>2. Plain(file, M, U, {o})
      <4>1. 1 \in 1 .. Len(stack) BY <1>3, SeqFacts
      <4>2. old.modes \in Seq(Mode) BY <1>3, <4>1, StackTypes
      <4>3. \A i \in 1 .. Len(old.modes) : ModeOK(file, o, old.modes[i])
        BY <1>3, <4>1, Zenon DEF StackOK
      <4> QED BY <1>9, <4>2, <4>3, ModesPlain
    <3> HIDE DEF U
    <3>3. TodoOK(file, R, M, X) BY <1>9, <1>10, <2>2, <3>1, <3>2, TodoEnd
    <3>4. Ending(X, o) BY <1>9, <1>10, <3>1, <3>2, EndSignals
    <3> QED BY <3>3, <3>4 DEF Ending
  <2> QED BY <2>1, <2>2
<1> HIDE DEF X, o
<1>12. TodoOK(file, R, M, T) /\ Beginning(T, stack, id)
  <2> DEFINE V == T
  <2>1. V = X \o ContChange(Len(M), TRUE) BY <1>5
  <2>2. Len(M) \in 1 .. Len(M) /\ Len(M) \in Nat /\ M[Len(M)] = <<>> /\ o # Len(M)
    BY <1>5, <1>6, <1>10
  <2> HIDE DEF V
  <2>3. TodoOK(file, R, M, V) /\ Beginning(V, stack, Len(M))
    BY <1>9, <1>11, <2>1, <2>2, BeginSignals
  <2> QED BY <1>5, <2>3 DEF V
<1>13. s = [file |-> file, stack |-> R, index |-> <<>>, next |-> nextIndex, todo |-> T]
  <2>1. (<<>> \o X) \o C = T BY <1>11, ConcatEmptySeq DEF C
  <2> HIDE DEF T
  <2> QED BY <1>4, <1>8, <2>1
<1> HIDE DEF T
<1>14. s.file = file /\ s.stack = R /\ s.index = <<>> /\ s.todo = T BY <1>13
<1>15. Shape(s) BY <1>13, <1>14 DEF Shape
<1> DEFINE w == r
<1>16. w = newFile(s, 1, 1, FALSE) /\ FALSE \in BOOLEAN OBVIOUS
<1> HIDE DEF w
<1>17. Good(w, M) /\ More(s, w, M) /\ w.index # <<>>
  BY <1>3, <1>5, <1>9, <1>12, <1>14, <1>15, <1>16, NewFileGood
<1>18. PICK U \in Seq(TodoRec) : w.todo = T \o U /\ Plain(w.file, M, U, Ids(R))
  BY <1>14, <1>17 DEF More
<1>19. Extended(file, w.file) /\ Ids(w.stack) = Ids(R) BY <1>14, <1>17 DEF More
<1>20. Starting(stack, list, w.stack, M, w.todo)
  <2>1. \A x \in Ids(w.stack) : x \in Ids(stack) \/ x = id BY <1>9, <1>19
  <2>2. Plain(w.file, M, U, Ids(w.stack)) BY <1>18, <1>19
  <2>3. id = Len(list) + 1 BY DEF id
  <2>4. Starting(stack, list, w.stack, M, T \o U)
    BY <1>5, <1>12, <2>1, <2>2, <2>3, BeginStarting
  <2> QED BY <1>18, <2>4
<1>21. ListOK(w.file, M)
  <2>1. Grown(file, w.file) BY <1>19, ExtendedGrown
  <2> QED BY <1>5, <2>1, GrownKept, Zenon DEF ListOK
<1>22. Good(w, list') /\ Starting(stack, list, w.stack, list', w.todo) /\ ListOK(w.file, list')
       /\ pulseTime' \in Nat /\ Perform(w)
  BY <1>1, <1>3, <1>17, <1>20, <1>21 DEF w
<1> QED BY <1>1, <1>17, <1>19, <1>22, StorageStep

-----------------------------------------------------------------------------
(* What is sent.                                                            *)

\* h is g, in which the last chunk may have grown, with or without one of f.
Adding(g, h, f) ==
  /\ h \in Seq(ChunkRec)
  /\ \A i \in 1 .. Len(g) : i \in 1 .. Len(h) /\ h[i].file = g[i].file
  /\ \A i \in 1 .. Len(h) : i \notin 1 .. Len(g) => i = Len(g) + 1 /\ h[i].file = f

LEMMA AddChunkIs ==
  ASSUME NEW g \in Seq(ChunkRec), NEW ch \in ChunkRec, NEW h, h = AddChunk(g, ch)
  PROVE  /\ Adding(g, h, ch.file)
         /\ (ch.from = 0 /\ ch.to # 0) => \E i \in 1 .. Len(h) : h[i].file = ch.file
<1>0. /\ Len(g) \in Nat /\ \A i \in 1 .. Len(g) : g[i] \in ChunkRec
      /\ ch.from \in Nat /\ ch.to \in Nat /\ (g # <<>> => Len(g) \in 1 .. Len(g))
  BY SeqFacts DEF ChunkRec
<1> DEFINE grows == g # <<>> /\ Last(g).file = ch.file /\ Last(g).src = ch.src
                      /\ Last(g).to = ch.from /\ ch.from > 0
           N == Len(g)
           x == [g[N] EXCEPT !.to = ch.to]
           G == [g EXCEPT ![N] = x]
           A == Append(g, ch)
<1>1. h = IF grows THEN [g EXCEPT ![Len(g)].to = ch.to]
          ELSE IF ch.from = ch.to THEN g ELSE A
  BY DEF AddChunk
<1>2. [g EXCEPT ![Len(g)].to = ch.to] = G OBVIOUS
<1>3. grows => ch.from # 0 BY <1>0
<1>4. CASE grows
  <2>1. N \in 1 .. Len(g) /\ g[N] \in ChunkRec BY <1>0, <1>4
  <2>2. x \in ChunkRec /\ x.file = g[N].file
    <3> DEFINE y == g[N]
    <3>1. y \in ChunkRec BY <2>1
    <3> HIDE DEF y
    <3>2. [y EXCEPT !.to = ch.to] \in ChunkRec /\ [y EXCEPT !.to = ch.to].file = y.file
      BY <1>0, <3>1 DEF ChunkRec
    <3> QED BY <3>2 DEF y
  <2>3. h = G BY <1>1, <1>2, <1>4
  <2> HIDE DEF x
  <2>4. G \in Seq(ChunkRec) /\ Len(G) = Len(g)
        /\ \A i \in 1 .. Len(g) : G[i] = IF i = N THEN x ELSE g[i]
    BY <2>1, <2>2, ExceptSeq
  <2> HIDE DEF G, grows, A
  <2>5. \A i \in 1 .. Len(g) : G[i].file = g[i].file BY <2>2, <2>4
  <2>6. Adding(g, h, ch.file) BY <2>3, <2>4, <2>5 DEF Adding
  <2> QED BY <1>3, <1>4, <2>6
<1>5. CASE ~grows /\ ch.from = ch.to
  <2>1. h = g BY <1>1, <1>5
  <2> HIDE DEF grows, A, G
  <2>2. Adding(g, h, ch.file) BY <2>1 DEF Adding
  <2> QED BY <1>0, <1>5, <2>2
<1>6. CASE ~grows /\ ch.from # ch.to
  <2>1. h = A BY <1>1, <1>6
  <2>2. /\ A \in Seq(ChunkRec) /\ Len(A) = Len(g) + 1 /\ A[Len(g) + 1] = ch
        /\ Len(g) + 1 \in 1 .. Len(g) + 1
        /\ \A i \in 1 .. Len(g) : i \in 1 .. Len(g) + 1 /\ A[i] = g[i]
        /\ \A i \in 1 .. Len(g) + 1 : i \in 1 .. Len(g) \/ i = Len(g) + 1
    BY AddIs
  <2> HIDE DEF grows, A, G
  <2>3. Adding(g, h, ch.file) BY <2>1, <2>2 DEF Adding
  <2>4. Len(g) + 1 \in 1 .. Len(h) /\ h[Len(g) + 1] = ch BY <2>1, <2>2
  <2> QED BY <2>3, <2>4
<1> QED BY <1>4, <1>5, <1>6

\* h is what was sent after the first j entries of q.
Progress(F, g, q, j, h) ==
  /\ h \in Seq(ChunkRec)
  /\ \A i \in 1 .. Len(h) : \/ \E n \in 1 .. Len(g) : h[i].file = g[n].file
                            \/ \E n \in 1 .. Len(q) : h[i].file = q[n].file
  /\ \A i, n \in 1 .. Len(h) : i < n => NotAfter(F, h[i].file, h[n].file)
  /\ \A i \in 1 .. Len(h), n \in 1 .. Len(q) : j <= n => NotAfter(F, h[i].file, q[n].file)
  /\ \A n \in 1 .. Len(g) : \E i \in 1 .. Len(h) : h[i].file = g[n].file
  /\ \A n \in 1 .. Len(q) : n <= j /\ q[n].off = 0 /\ ~(q[n].file # StateFile /\ F[q[n].file].paused)
        => \E i \in 1 .. Len(h) : h[i].file = q[n].file

LEMMA ProgressStart ==
  ASSUME NEW F, NEW g \in Seq(ChunkRec), NEW q, Ordered(F, g, q)
  PROVE  Progress(F, g, q, 0, g)
<1>1. \A n \in 1 .. Len(q) : ~(n <= 0) OBVIOUS
<1> QED BY <1>1, Zenon DEF Progress, Ordered

LEMMA ProgressSkip ==
  ASSUME NEW F, NEW g, NEW q, NEW j \in Nat, NEW h, Progress(F, g, q, j, h),
         q[j + 1].file # StateFile, F[q[j + 1].file].paused
  PROVE  Progress(F, g, q, j + 1, h)
<1>1. \A n \in 1 .. Len(q) : (j + 1 <= n => j <= n) /\ (n <= j + 1 => n <= j \/ n = j + 1)
  OBVIOUS
<1> DEFINE J == j + 1
<1>2. \A n \in 1 .. Len(q) : (J <= n => j <= n) /\ (n <= J => n <= j \/ n = J) BY <1>1
<1>3. q[J].file # StateFile /\ F[q[J].file].paused OBVIOUS
<1> HIDE DEF J
<1>4. Progress(F, g, q, J, h) BY <1>2, <1>3, Zenon DEF Progress
<1> QED BY <1>4 DEF J

LEMMA ProgressAdd ==
  ASSUME NEW F, NEW g, NEW q, Ordered(F, g, q), NEW j \in Nat, NEW h, Progress(F, g, q, j, h),
         \A f \in 1 .. Len(F) : F[f].cont \in Nat,
         j + 1 \in 1 .. Len(q), NEW r, Adding(h, r, q[j + 1].file),
         q[j + 1].off = 0 => \E i \in 1 .. Len(r) : r[i].file = q[j + 1].file
  PROVE  Progress(F, g, q, j + 1, r)
<1> DEFINE J == j + 1
           f == q[J].file
<1>1. J \in 1 .. Len(q) /\ Adding(h, r, f) /\ (q[J].off = 0 => \E i \in 1 .. Len(r) : r[i].file = f)
  OBVIOUS
<1>2. \A n \in 1 .. Len(q) : (J <= n => j <= n) /\ (n <= J => n <= j \/ n = J)
                             /\ (J <= n => n = J \/ J < n)
  BY <1>1
<1>3. j <= J OBVIOUS
<1> HIDE DEF J
<1>4. /\ r \in Seq(ChunkRec) /\ h \in Seq(ChunkRec)
      /\ \A i \in 1 .. Len(h) : i \in 1 .. Len(r) /\ r[i].file = h[i].file
      /\ \A i \in 1 .. Len(r) : i \in 1 .. Len(h) \/ (i = Len(h) + 1 /\ r[i].file = f)
  BY <1>1 DEF Adding, Progress
<1>5. Len(h) \in Nat /\ Len(r) \in Nat BY <1>4, SeqFacts
<1>6. \A n \in 1 .. Len(q) : J <= n => NotAfter(F, f, q[n].file)
  <2> SUFFICES ASSUME NEW n \in 1 .. Len(q), J <= n PROVE NotAfter(F, f, q[n].file) OBVIOUS
  <2>1. CASE n = J
    <3>1. IsFile(F, f) BY <1>1, Zenon DEF Ordered
    <3> HIDE DEF f
    <3>2. NotAfter(F, f, f) BY <3>1 DEF NotAfter, IsFile
    <3> QED BY <2>1, <3>2 DEF f
  <2>2. CASE J < n BY <1>1, <2>2, Zenon DEF Ordered
  <2> QED BY <1>2, <2>1, <2>2
<1>7. \A i \in 1 .. Len(h), n \in 1 .. Len(q) : j <= n => NotAfter(F, h[i].file, q[n].file)
  BY Zenon DEF Progress
<1>8. \A i \in 1 .. Len(h) : NotAfter(F, h[i].file, f) BY <1>1, <1>3, <1>7
<1>9. ASSUME NEW i \in 1 .. Len(r)
      PROVE  \/ \E n \in 1 .. Len(g) : r[i].file = g[n].file
             \/ \E n \in 1 .. Len(q) : r[i].file = q[n].file
  <2>1. CASE i \in 1 .. Len(h)
    <3>1. r[i].file = h[i].file BY <1>4, <2>1
    <3>2. \/ \E n \in 1 .. Len(g) : h[i].file = g[n].file
          \/ \E n \in 1 .. Len(q) : h[i].file = q[n].file
      BY <2>1, Zenon DEF Progress
    <3> QED BY <3>1, <3>2
  <2>2. CASE r[i].file = f BY <1>1, <2>2
  <2> QED BY <1>4, <2>1, <2>2
<1>10. ASSUME NEW i \in 1 .. Len(r), NEW n \in 1 .. Len(r), i < n
       PROVE  NotAfter(F, r[i].file, r[n].file)
  <2>1. i \in 1 .. Len(h) BY <1>4, <1>5, <1>10
  <2>2. CASE n \in 1 .. Len(h)
    <3>1. NotAfter(F, h[i].file, h[n].file) BY <1>10, <2>1, <2>2, Zenon DEF Progress
    <3> QED BY <1>4, <2>1, <2>2, <3>1
  <2>3. CASE r[n].file = f BY <1>4, <1>8, <2>1, <2>3
  <2> QED BY <1>4, <2>2, <2>3
<1>11. ASSUME NEW i \in 1 .. Len(r), NEW n \in 1 .. Len(q), J <= n
       PROVE  NotAfter(F, r[i].file, q[n].file)
  <2>1. CASE i \in 1 .. Len(h)
    <3>1. NotAfter(F, h[i].file, q[n].file) BY <1>2, <1>7, <1>11, <2>1
    <3> QED BY <1>4, <2>1, <3>1
  <2>2. CASE r[i].file = f BY <1>6, <1>11, <2>2
  <2> QED BY <1>4, <2>1, <2>2
<1>12. ASSUME NEW n \in 1 .. Len(g) PROVE \E i \in 1 .. Len(r) : r[i].file = g[n].file
  <2>1. PICK i \in 1 .. Len(h) : h[i].file = g[n].file BY Zenon DEF Progress
  <2> QED BY <1>4, <2>1
<1>13. ASSUME NEW n \in 1 .. Len(q), n <= J, q[n].off = 0,
              ~(q[n].file # StateFile /\ F[q[n].file].paused)
       PROVE  \E i \in 1 .. Len(r) : r[i].file = q[n].file
  <2>1. CASE n <= j
    <3>1. PICK i \in 1 .. Len(h) : h[i].file = q[n].file BY <1>13, <2>1, Zenon DEF Progress
    <3> QED BY <1>4, <3>1
  <2>2. CASE n = J BY <1>1, <1>13, <2>2
  <2> QED BY <1>2, <1>13, <2>1, <2>2
<1>14. Progress(F, g, q, J, r)
  BY <1>4, <1>9, <1>10, <1>11, <1>12, <1>13, Zenon DEF Progress
<1> QED BY <1>14 DEF J

LEMMA ChunkIs ==
  ASSUME NEW c \in ClientRec, NEW j \in 1 .. Len(c.files), NEW n \in Nat
  PROVE  \E ch \in ChunkRec : /\ ch = Chunk(c, j, n) /\ ch.file = c.files[j].file
                              /\ ch.from = c.files[j].off /\ ch.to = n
<1> DEFINE e == c.files[j]
           held == c.fd # NoFile /\ \A i \in 1 .. j - 1 : Skipped(c, i)
           s == IF held THEN c.fd ELSE e.file
           ch == [file |-> e.file, src |-> s, from |-> e.off, to |-> n]
<1>1. Chunk(c, j, n) = ch BY DEF Chunk
<1>2. c.files \in Seq(ListRec) /\ c.fd \in Nat BY DEF ClientRec
<1>3. e \in ListRec BY <1>2, SeqFacts
<1>4. e.file \in Nat /\ e.off \in Nat BY <1>3 DEF ListRec
<1> HIDE DEF held, e
<1>5. s \in Nat BY <1>2, <1>4
<1> HIDE DEF s
<1>6. ch \in ChunkRec /\ ch.file = e.file /\ ch.from = e.off /\ ch.to = n
  BY <1>4, <1>5 DEF ChunkRec
<1> HIDE DEF ch
<1> QED BY <1>1, <1>6 DEF e

LEMMA SizeIs ==
  ASSUME NEW F, file' = F, NEW L, FilesOK(F, L), NEW f, IsFile(F, f)
  PROVE  /\ SizeOf(f) \in Nat /\ SizeOf(f) # 0
         /\ f # StateFile => SizeOf(f) = F[f].size /\ F[f].seen <= F[f].size /\ F[f].seen \in Nat
<1>1. CASE f = StateFile BY <1>1 DEF SizeOf
<1>2. CASE f # StateFile
  <2>1. f \in 1 .. Len(F) BY <1>2 DEF IsFile
  <2>2. F[f] \in FileRec /\ F[f].size >= 1 /\ F[f].seen <= F[f].size BY <2>1 DEF FilesOK
  <2>3. SizeOf(f) = F[f].size BY <1>2 DEF SizeOf
  <2> QED BY <2>2, <2>3 DEF FileRec
<1> QED BY <1>1, <1>2

LEMMA SkippedIs ==
  ASSUME NEW F, file' = F, NEW c, NEW j, Skipped(c, j)
  PROVE  c.files[j].file # StateFile /\ F[c.files[j].file].paused
BY DEF Skipped, PausedFile

SentIs(f, c, g, k) ==
  f = [j \in 0 .. k |-> IF j = 0 THEN g
                        ELSE IF Skipped(c, j) THEN f[j - 1]
                        ELSE AddChunk(f[j - 1], Chunk(c, j, SizeOf(c.files[j].file)))]

LEMMA SentExists == ASSUME NEW c, NEW g PROVE \A k \in Nat : \E f : SentIs(f, c, g, k)
<1> DEFINE B == {k \in Nat : \E f : SentIs(f, c, g, k)}
<1>1. 0 \in B
  <2> DEFINE f == [j \in 0 .. 0 |-> g]
  <2>1. \A j \in 0 .. 0 : j = 0 OBVIOUS
  <2>2. SentIs(f, c, g, 0) BY <2>1 DEF SentIs
  <2> QED BY <2>2
<1>2. ASSUME NEW k \in Nat, k \in B PROVE k + 1 \in B
  <2>1. PICK f : SentIs(f, c, g, k) BY <1>2
  <2> DEFINE Next1(h, j) == IF Skipped(c, j) THEN h
                            ELSE AddChunk(h, Chunk(c, j, SizeOf(c.files[j].file)))
             K == k + 1
             r == [j \in 0 .. K |-> IF j = K THEN Next1(f[k], K) ELSE f[j]]
  <2>2. f = [j \in 0 .. k |-> IF j = 0 THEN g ELSE Next1(f[j - 1], j)]
    BY <2>1 DEF SentIs
  <2> HIDE DEF Next1
  <2>3. ASSUME NEW j \in 0 .. K
        PROVE  r[j] = IF j = 0 THEN g ELSE Next1(r[j - 1], j)
    <3>1. CASE j = K
      <4>1. j # 0 /\ j - 1 = k /\ k \in 0 .. K /\ k # K BY <3>1
      <4>2. r[j - 1] = f[k] BY <4>1
      <4>3. r[j] = Next1(f[k], K) BY <3>1
      <4> QED BY <3>1, <4>1, <4>2, <4>3
    <3>2. CASE j # K
      <4>1. j \in 0 .. k BY <3>2
      <4>2. r[j] = f[j] BY <3>2
      <4>3. f[j] = IF j = 0 THEN g ELSE Next1(f[j - 1], j) BY <2>2, <4>1
      <4>4. CASE j = 0 BY <4>2, <4>3, <4>4
      <4>5. CASE j # 0
        <5>1. j - 1 \in 0 .. K /\ j - 1 # K BY <4>1, <4>5
        <5>2. r[j - 1] = f[j - 1] BY <5>1
        <5> QED BY <4>2, <4>3, <4>5, <5>2
      <4> QED BY <4>4, <4>5
    <3> QED BY <3>1, <3>2
  <2>4. r = [j \in 0 .. K |-> r[j]] OBVIOUS
  <2>6. K \in Nat OBVIOUS
  <2> HIDE DEF r, K
  <2>5. SentIs(r, c, g, K) BY <2>3, <2>4 DEF SentIs, Next1
  <2> QED BY <2>5, <2>6 DEF K
<1> HIDE DEF B
<1>3. \A k \in Nat : k \in B BY <1>1, <1>2, SetInduction
<1> QED BY <1>3 DEF B

Unrolled(f, c, g, k) ==
  /\ Sent(c, g, k) = f[k] /\ f[0] = g
  /\ \A j \in 0 .. k - 1 :
       f[j + 1] = IF Skipped(c, j + 1) THEN f[j]
                  ELSE AddChunk(f[j], Chunk(c, j + 1, SizeOf(c.files[j + 1].file)))

LEMMA SentUnrolled ==
  ASSUME NEW c, NEW g, NEW k \in Nat PROVE \E f : Unrolled(f, c, g, k)
<1> DEFINE f == CHOOSE f : SentIs(f, c, g, k)
<1>1. Sent(c, g, k) = f[k] BY Zenon DEF Sent, SentIs
<1>2. SentIs(f, c, g, k)
  <2>1. \E h : SentIs(h, c, g, k) BY SentExists
  <2> QED BY <2>1, Zenon
<1> HIDE DEF f
<1>3. f[0] = g
  <2>1. 0 \in 0 .. k OBVIOUS
  <2> QED BY <1>2, <2>1 DEF SentIs
<1>4. ASSUME NEW j \in 0 .. k - 1
      PROVE  f[j + 1] = IF Skipped(c, j + 1) THEN f[j]
                        ELSE AddChunk(f[j], Chunk(c, j + 1, SizeOf(c.files[j + 1].file)))
  <2> DEFINE J == j + 1
  <2>1. J \in 0 .. k /\ J # 0 /\ J - 1 = j OBVIOUS
  <2> HIDE DEF J
  <2>2. f[J] = IF Skipped(c, J) THEN f[J - 1]
               ELSE AddChunk(f[J - 1], Chunk(c, J, SizeOf(c.files[J].file)))
    BY <1>2, <2>1 DEF SentIs
  <2>3. f[J] = IF Skipped(c, J) THEN f[j]
               ELSE AddChunk(f[j], Chunk(c, J, SizeOf(c.files[J].file)))
    BY <2>1, <2>2
  <2> QED BY <2>3 DEF J
<1>5. Unrolled(f, c, g, k) BY <1>1, <1>3, <1>4 DEF Unrolled
<1> QED BY <1>5

LEMMA SentProgress ==
  ASSUME NEW F, file' = F, NEW L, FilesOK(F, L), NEW c \in ClientRec, NEW g \in Seq(ChunkRec),
         Ordered(F, g, c.files), NEW k \in 0 .. Len(c.files)
  PROVE  Progress(F, g, c.files, k, Sent(c, g, k))
<1> DEFINE q == c.files
<1>1. q \in Seq(ListRec) /\ Len(q) \in Nat /\ k \in Nat
  <2>1. q \in Seq(ListRec) BY DEF ClientRec
  <2> QED BY <2>1, SeqFacts
<1>8. PICK f : Unrolled(f, c, g, k) BY <1>1, SentUnrolled
<1>2. /\ Sent(c, g, k) = f[k] /\ f[0] = g
      /\ \A j \in 0 .. k - 1 :
           f[j + 1] = IF Skipped(c, j + 1) THEN f[j]
                      ELSE AddChunk(f[j], Chunk(c, j + 1, SizeOf(c.files[j + 1].file)))
  BY <1>8 DEF Unrolled
<1> DEFINE B == {j \in Nat : j <= k => Progress(F, g, q, j, f[j])}
<1>3. 0 \in B BY <1>2, ProgressStart
<1>4. ASSUME NEW j \in Nat, j \in B PROVE j + 1 \in B
  <2> SUFFICES ASSUME j + 1 <= k PROVE Progress(F, g, q, j + 1, f[j + 1]) OBVIOUS
  <2>1. j <= k /\ j \in 0 .. k - 1 /\ j + 1 \in 1 .. Len(q) BY <1>1
  <2>2. Progress(F, g, q, j, f[j]) BY <1>4, <2>1
  <2>3. CASE Skipped(c, j + 1)
    <3>1. f[j + 1] = f[j] BY <1>2, <2>1, <2>3
    <3>2. q[j + 1].file # StateFile /\ F[q[j + 1].file].paused BY <2>3, SkippedIs
    <3> QED BY <2>2, <3>1, <3>2, ProgressSkip
  <2>4. CASE ~Skipped(c, j + 1)
    <3> DEFINE n == SizeOf(c.files[j + 1].file)
    <3>1. f[j + 1] = AddChunk(f[j], Chunk(c, j + 1, n)) BY <1>2, <2>1, <2>4
    <3>2. IsFile(F, q[j + 1].file) BY <2>1 DEF Ordered
    <3>3. n \in Nat /\ n # 0 BY <3>2, SizeIs
    <3> HIDE DEF n
    <3>4. PICK ch \in ChunkRec : /\ ch = Chunk(c, j + 1, n) /\ ch.file = q[j + 1].file
                                 /\ ch.from = q[j + 1].off /\ ch.to = n
      BY <2>1, <3>3, ChunkIs
    <3> DEFINE h == f[j]
               r == f[j + 1]
    <3>5. h \in Seq(ChunkRec) BY <2>2 DEF Progress
    <3>6. r = AddChunk(h, ch) BY <3>1, <3>4
    <3> HIDE DEF h, r
    <3>7. /\ Adding(h, r, ch.file)
          /\ (ch.from = 0 /\ ch.to # 0) => \E i \in 1 .. Len(r) : r[i].file = ch.file
      BY <3>5, <3>6, AddChunkIs
    <3>8. /\ Adding(h, r, q[j + 1].file)
          /\ q[j + 1].off = 0 => \E i \in 1 .. Len(r) : r[i].file = q[j + 1].file
      BY <3>3, <3>4, <3>7
    <3>9. \A m \in 1 .. Len(F) : F[m].cont \in Nat BY ContNat
    <3>10. Progress(F, g, q, j, h) BY <2>2 DEF h
    <3> HIDE DEF q
    <3>11. Ordered(F, g, q) BY DEF q
    <3>12. Progress(F, g, q, j + 1, r)
      BY <2>1, <3>8, <3>9, <3>10, <3>11, ProgressAdd
    <3> QED BY <3>12 DEF r
  <2> QED BY <2>3, <2>4
<1> HIDE DEF B, q
<1>5. \A j \in Nat : j \in B BY <1>3, <1>4, SetInduction
<1>6. k \in B /\ k <= k BY <1>1, <1>5
<1>7. Progress(F, g, q, k, f[k]) BY <1>6 DEF B
<1> QED BY <1>2, <1>7 DEF q

\* The entries r are left of q after k were dropped; only the first of them may
\* have been sent in part.
RestOf(q, k, j, r) ==
  /\ \A i \in 1 .. Len(r) : k + i \in 1 .. Len(q) /\ r[i].file = q[k + i].file
  /\ \A n \in 1 .. Len(q) : j < n => n - k \in 1 .. Len(r) /\ r[n - k].file = q[n].file
                                     /\ r[n - k].off = q[n].off

CountedKept(F, g, q, h, r) ==
  \A f : (f = StateFile \/ ~F[f].paused) /\ Counted(g, q, f) => Counted(h, r, f)
UptoMore(F, g, q, h, r) == \A b : Upto(F, g, q, b) => Upto(F, h, r, b)

LEMMA ProgressRest ==
  ASSUME NEW F, NEW g, NEW q \in Seq(ListRec), Ordered(F, g, q), NEW j \in Nat, NEW k \in Nat,
         j <= k + 1, NEW h, Progress(F, g, q, j, h), NEW r \in Seq(ListRec), RestOf(q, k, j, r)
  PROVE  Ordered(F, h, r) /\ UptoMore(F, g, q, h, r) /\ CountedKept(F, g, q, h, r)
<1> DEFINE Q(i) == k + i
<1>1. /\ \A i \in 1 .. Len(r) : Q(i) \in 1 .. Len(q) /\ r[i].file = q[Q(i)].file /\ j <= Q(i)
      /\ \A i, n \in 1 .. Len(r) : i < n => Q(i) < Q(n)
  BY DEF RestOf
<1> HIDE DEF Q
<1>2. \A i \in 1 .. Len(h) : \/ \E n \in 1 .. Len(g) : h[i].file = g[n].file
                             \/ \E n \in 1 .. Len(q) : h[i].file = q[n].file
  BY Zenon DEF Progress
<1>3. Ordered(F, h, r)
  <2>1. \A i \in 1 .. Len(h) : IsFile(F, h[i].file) BY <1>2, Zenon DEF Ordered
  <2>2. \A i \in 1 .. Len(r) : IsFile(F, r[i].file) BY <1>1, Zenon DEF Ordered
  <2>3. \A i, n \in 1 .. Len(h) : i < n => NotAfter(F, h[i].file, h[n].file)
    BY Zenon DEF Progress
  <2>4. \A i, n \in 1 .. Len(r) : i < n => NotAfter(F, r[i].file, r[n].file)
    <3> SUFFICES ASSUME NEW i \in 1 .. Len(r), NEW n \in 1 .. Len(r), i < n
                 PROVE  NotAfter(F, r[i].file, r[n].file)
      OBVIOUS
    <3>1. Q(i) < Q(n) /\ Q(i) \in 1 .. Len(q) /\ Q(n) \in 1 .. Len(q)
          /\ r[i].file = q[Q(i)].file /\ r[n].file = q[Q(n)].file
      BY <1>1
    <3>2. NotAfter(F, q[Q(i)].file, q[Q(n)].file) BY <3>1, Zenon DEF Ordered
    <3> QED BY <3>1, <3>2
  <2>5. \A i \in 1 .. Len(h), n \in 1 .. Len(r) : NotAfter(F, h[i].file, r[n].file)
    BY <1>1, Zenon DEF Progress
  <2> QED BY <2>1, <2>2, <2>3, <2>4, <2>5, Zenon DEF Ordered
<1>4. ASSUME NEW b, Upto(F, g, q, b) PROVE Upto(F, h, r, b)
  <2>1. \A i \in 1 .. Len(h) : h[i].file # StateFile => F[h[i].file].cont <= b
    BY <1>2, <1>4 DEF Upto
  <2>2. \A i \in 1 .. Len(r) : r[i].file # StateFile => F[r[i].file].cont <= b
    BY <1>1, <1>4 DEF Upto
  <2> QED BY <2>1, <2>2 DEF Upto
<1>5. ASSUME NEW f, f = StateFile \/ ~F[f].paused, Counted(g, q, f) PROVE Counted(h, r, f)
  <2>1. CASE \E n \in 1 .. Len(g) : g[n].file = f
    <3>1. \E i \in 1 .. Len(h) : h[i].file = f BY <2>1, Zenon DEF Progress
    <3> QED BY <3>1 DEF Counted
  <2>2. CASE \E n \in 1 .. Len(q) : q[n].file = f /\ q[n].off = 0
    <3>1. PICK n \in 1 .. Len(q) : q[n].file = f /\ q[n].off = 0 BY <2>2
    <3>2. CASE n <= j
      <4>1. \E i \in 1 .. Len(h) : h[i].file = q[n].file
        BY <1>5, <3>1, <3>2, Zenon DEF Progress
      <4> QED BY <3>1, <4>1 DEF Counted
    <3>3. CASE ~(n <= j)
      <4>1. j < n BY <3>3
      <4> DEFINE m == n - k
      <4>2. m \in 1 .. Len(r) /\ r[m].file = q[n].file /\ r[m].off = q[n].off
        BY <4>1, Zenon DEF RestOf
      <4> HIDE DEF m
      <4>3. r[m].file = f /\ r[m].off = 0 BY <3>1, <4>2
      <4> QED BY <4>2, <4>3, Zenon DEF Counted
    <3> QED BY <3>2, <3>3
  <2> QED BY <1>5, <2>1, <2>2 DEF Counted
<1>6. UptoMore(F, g, q, h, r) BY <1>4 DEF UptoMore
<1>7. CountedKept(F, g, q, h, r) BY <1>5, Zenon DEF CountedKept
<1> QED BY <1>3, <1>6, <1>7

\* The same client, but for what it sends.
SameClient(c, d) ==
  /\ d \in ClientRec /\ d.phase = c.phase /\ d.conts = c.conts /\ d.contSub = c.contSub
  /\ d.joined = c.joined /\ d.known = c.known

Erased(c, q, s, d) == d = [c EXCEPT !.files = q, !.sub = s]
Written(c, w, x, d) == d = [c EXCEPT !.write = w, !.fd = x]
Refiled(c, q, w, x, d) == d = [c EXCEPT !.files = q, !.write = w, !.fd = x]

LEMMA ErasedSame ==
  ASSUME NEW c \in ClientRec, NEW q \in Seq(ListRec), NEW s \in Nat, NEW d, Erased(c, q, s, d)
  PROVE  SameClient(c, d) /\ d.files = q /\ d.sub = s
BY DEF ClientRec, SameClient, Erased

LEMMA WriteSame ==
  ASSUME NEW c \in ClientRec, NEW w \in BOOLEAN, NEW x \in Nat,
         NEW d, Written(c, w, x, d)
  PROVE  SameClient(c, d) /\ d.files = c.files /\ d.sub = c.sub /\ d.write = w
BY DEF ClientRec, SameClient, Written

LEMMA FilesSame ==
  ASSUME NEW c \in ClientRec, NEW q \in Seq(ListRec), NEW w \in BOOLEAN, NEW x \in Nat,
         NEW d, Refiled(c, q, w, x, d)
  PROVE  SameClient(c, d) /\ d.files = q /\ d.sub = c.sub /\ d.write = w
BY DEF ClientRec, SameClient, Refiled

LEMMA SameTwice ==
  ASSUME NEW c, NEW d, NEW e, SameClient(c, d), SameClient(d, e) PROVE SameClient(c, e)
BY DEF SameClient

LEMMA EraseIs ==
  ASSUME NEW F, file' = F, NEW L, FilesOK(F, L), NEW c \in ClientRec, SubOK(F, c),
         NEW k \in 0 .. Len(c.files)
  PROVE  \E d \in ClientRec : /\ d = Erase(c, k) /\ SameClient(c, d) /\ SubOK(F, d)
                              /\ CutOf(d.files, c.files, k)
<1> DEFINE p == c.files
           N == Len(p)
           q == SubSeq(p, k + 1, N)
           s == IF k < N THEN Subscribe(p[k + 1].file) ELSE NoFile
           d == [c EXCEPT !.files = q, !.sub = s]
<1>1. p \in Seq(ListRec) /\ N \in Nat /\ k \in Nat /\ k <= N
  <2>1. p \in Seq(ListRec) BY DEF ClientRec
  <2> QED BY <2>1, SeqFacts
<1>2. CASE k = 0
  <2>1. c = Erase(c, k) BY <1>2 DEF Erase
  <2>2. SameClient(c, c) BY DEF SameClient
  <2> HIDE DEF p
  <2>3. CutOf(p, p, 0) BY <1>1 DEF CutOf
  <2> QED BY <1>2, <2>1, <2>2, <2>3 DEF p
<1>3. CASE k # 0
  <2>1. Erase(c, k) = d
    <3> DEFINE z == [c EXCEPT !.files = SubSeq(@, k + 1, Len(@)), !.sub = s]
    <3>1. z = d OBVIOUS
    <3> HIDE DEF d
    <3>2. Erase(c, k) = z BY <1>3 DEF Erase
    <3> QED BY <3>1, <3>2
  <2>2. q \in Seq(ListRec) /\ CutOf(q, p, k)
    <3> HIDE DEF p
    <3>1. k \in 0 .. Len(p) BY <1>1
    <3> QED BY <1>1, <3>1, CutIs
  <2> HIDE DEF q
  <2>3. Len(q) = N - k /\ Len(q) \in Nat /\ (q = <<>> <=> Len(q) = 0)
    BY <2>2, SeqFacts DEF CutOf
  <2>4. CASE k < N
    <3>1. q # <<>> /\ 1 \in 1 .. Len(q) BY <1>1, <2>3, <2>4
    <3>2. q[1] = p[k + 1] /\ q[1] \in ListRec BY <2>2, <3>1, SeqFacts DEF CutOf
    <3>3. q[1].file \in Nat BY <3>2 DEF ListRec
    <3>4. s = IF IsActive(F, q[1].file) THEN q[1].file ELSE NoFile
      BY <2>4, <3>2 DEF Subscribe, ActiveFile, IsActive
    <3>5. s \in Nat BY <3>3, <3>4 DEF NoFile
    <3> HIDE DEF s, p
    <3>9. Erased(c, q, s, d) BY DEF Erased
    <3> HIDE DEF d
    <3>6. SameClient(c, d) /\ d.files = q /\ d.sub = s BY <2>2, <3>5, <3>9, ErasedSame
    <3>7. SubOK(F, d) BY <3>1, <3>4, <3>6 DEF SubOK
    <3>8. d \in ClientRec BY <3>6 DEF SameClient
    <3> QED BY <2>1, <2>2, <3>6, <3>7, <3>8 DEF p
  <2>5. CASE ~(k < N)
    <3>1. q = <<>> BY <1>1, <2>3, <2>5
    <3>2. s = NoFile /\ s \in Nat BY <2>5 DEF NoFile
    <3> HIDE DEF s, p
    <3>9. Erased(c, q, s, d) BY DEF Erased
    <3> HIDE DEF d
    <3>6. SameClient(c, d) /\ d.files = q /\ d.sub = s BY <2>2, <3>2, <3>9, ErasedSame
    <3>7. SubOK(F, d) BY <3>1, <3>2, <3>6 DEF SubOK
    <3>8. d \in ClientRec BY <3>6 DEF SameClient
    <3> QED BY <2>1, <2>2, <3>6, <3>7, <3>8 DEF p
  <2> QED BY <2>4, <2>5
<1> QED BY <1>2, <1>3

\* What a call of writable() may leave behind.
Gone(g, d, h) == d = [NoClient EXCEPT !.phase = "gone"] /\ h = g
Sending(F, c, g, d, h) ==
  /\ SameClient(c, d) /\ h \in Seq(ChunkRec) /\ SubOK(F, d) /\ Woken(F, d)
  /\ Ordered(F, h, d.files) /\ UptoMore(F, g, c.files, h, d.files)
  /\ CountedKept(F, g, c.files, h, d.files)

LEMMA ExhaustedIs ==
  ASSUME NEW F, file' = F, NEW L, FilesOK(F, L), NEW c \in ClientRec, NEW g \in Seq(ChunkRec),
         SubOK(F, c), Ordered(F, g, c.files), NEW r \in Exhausted(c, g)
  PROVE  Sending(F, c, g, r.c, r.got)
<1> DEFINE n == Len(c.files)
           x == FdAfter(c, n)
           h == Sent(c, g, n)
<1>1. c.files \in Seq(ListRec) /\ n \in Nat /\ c.fd \in Nat
  <2>1. c.files \in Seq(ListRec) /\ c.fd \in Nat BY DEF ClientRec
  <2> QED BY <2>1, SeqFacts
<1>2. x \in Nat BY <1>1 DEF FdAfter, NoFile
<1>3. n \in 0 .. n BY <1>1
<1>4. PICK d \in ClientRec : /\ d = Erase(c, n) /\ SameClient(c, d) /\ SubOK(F, d)
                             /\ CutOf(d.files, c.files, n)
  BY <1>3, EraseIs
<1> DEFINE e == [d EXCEPT !.write = FALSE, !.fd = x]
<1>5. r = [c |-> e, got |-> h]
  <2>1. r = [c |-> [Erase(c, n) EXCEPT !.write = FALSE, !.fd = FdAfter(c, n)],
             got |-> Sent(c, g, n)]
    BY DEF Exhausted
  <2> QED BY <1>4, <2>1
<1>6. Progress(F, g, c.files, n, h) BY <1>3, SentProgress
<1> HIDE DEF h, x
<1>16. Written(d, FALSE, x, e) /\ FALSE \in BOOLEAN BY DEF Written
<1> HIDE DEF e
<1>7. SameClient(d, e) /\ e.files = d.files /\ e.sub = d.sub /\ e.write = FALSE
  BY <1>2, <1>16, WriteSame
<1>8. r.c = e /\ r.got = h BY <1>5
<1>9. d.files \in Seq(ListRec) /\ Len(d.files) = 0 /\ d.files = <<>>
  <2>1. d.files \in Seq(ListRec) BY DEF ClientRec
  <2>2. Len(d.files) = 0 BY <1>1, <1>4 DEF CutOf
  <2> QED BY <2>1, <2>2, SeqFacts
<1>10. RestOf(c.files, n, n, d.files)
  <2>1. 1 .. Len(d.files) = {} BY <1>9
  <2>2. \A m \in 1 .. n : ~(n < m) BY <1>1
  <2> QED BY <2>1, <2>2 DEF RestOf
<1>11. n <= n + 1 BY <1>1
<1>12. Ordered(F, h, d.files) /\ UptoMore(F, g, c.files, h, d.files)
       /\ CountedKept(F, g, c.files, h, d.files)
  BY <1>1, <1>6, <1>9, <1>10, <1>11, ProgressRest
<1>13. SubOK(F, e) /\ Woken(F, e) BY <1>4, <1>7, <1>9 DEF SubOK, Woken
<1>14. SameClient(c, e) BY <1>4, <1>7, SameTwice
<1>15. h \in Seq(ChunkRec) BY <1>6 DEF Progress
<1> QED BY <1>7, <1>8, <1>12, <1>13, <1>14, <1>15 DEF Sending

\* The first entry is sent up to n.
SentTo(p, n, q) == q = [p EXCEPT ![1].off = n]

Resent(p, n, q) ==
  /\ q \in Seq(ListRec) /\ Len(q) = Len(p) /\ q # <<>>
  /\ q[1].file = p[1].file /\ q[1].off = n
  /\ \A i \in 1 .. Len(p) : q[i].file = p[i].file /\ (i # 1 => q[i].off = p[i].off)

LEMMA SentToIs ==
  ASSUME NEW p \in Seq(ListRec), p # <<>>, NEW n \in Nat, NEW q, SentTo(p, n, q)
  PROVE  Resent(p, n, q)
<1>1. Len(p) \in Nat /\ 1 \in 1 .. Len(p) /\ Len(p) # 0 BY SeqFacts
<1>2. p[1] \in ListRec BY <1>1, SeqFacts
<1> DEFINE e == [p[1] EXCEPT !.off = n]
<1>3. e \in ListRec /\ e.file = p[1].file /\ e.off = n BY <1>2 DEF ListRec
<1>4. q = [p EXCEPT ![1] = e] BY DEF SentTo
<1> HIDE DEF e
<1>5. q \in Seq(ListRec) /\ Len(q) = Len(p) /\ q[1] = e
      /\ \A i \in 1 .. Len(p) : i # 1 => q[i] = p[i]
  BY <1>1, <1>3, <1>4
<1>6. q # <<>> BY <1>1, <1>5
<1> QED BY <1>3, <1>5, <1>6 DEF Resent

LEMMA StoppedIs ==
  ASSUME NEW F, file' = F, NEW L, FilesOK(F, L), NEW c \in ClientRec, NEW g \in Seq(ChunkRec),
         SubOK(F, c), Ordered(F, g, c.files), NEW k \in 0 .. Len(c.files), k # Len(c.files),
         NEW r \in Stopped(c, g, k)
  PROVE  Sending(F, c, g, r.c, r.got)
<1> DEFINE N == Len(c.files)
           f == c.files[k + 1].file
           off == c.files[k + 1].off
           x == IF FdAfter(c, k) = NoFile THEN f ELSE FdAfter(c, k)
           h == Sent(c, g, k)
<1>1. c.files \in Seq(ListRec) /\ N \in Nat /\ c.fd \in Nat
  <2>1. c.files \in Seq(ListRec) /\ c.fd \in Nat BY DEF ClientRec
  <2> QED BY <2>1, SeqFacts
<1>2. k \in Nat /\ k < N /\ k + 1 \in 1 .. N BY <1>1
<1>3. f \in Nat /\ off \in Nat
  <2>1. c.files[k + 1] \in ListRec BY <1>1, <1>2, SeqFacts
  <2> QED BY <2>1 DEF ListRec
<1>4. IsFile(F, f) BY <1>2 DEF Ordered
<1>5. /\ SizeOf(f) \in Nat /\ SizeOf(f) # 0
      /\ f # StateFile => SizeOf(f) = F[f].size /\ F[f].seen <= F[f].size /\ F[f].seen \in Nat
  BY <1>4, SizeIs
<1>6. x \in Nat BY <1>1, <1>3 DEF FdAfter, NoFile
<1>7. PICK d \in ClientRec : /\ d = Erase(c, k) /\ SameClient(c, d) /\ SubOK(F, d)
                             /\ CutOf(d.files, c.files, k)
  BY EraseIs
<1>8. PICK n \in off .. SizeOf(f) :
        /\ n = SizeOf(f) => ActiveFile(f)
        /\ r = [c |-> [Erase(c, k) EXCEPT !.files[1].off = n, !.write = n < SizeOf(f),
                         !.fd = IF FdAfter(c, k) = NoFile THEN f ELSE FdAfter(c, k)],
                got |-> AddChunk(Sent(c, g, k), Chunk(c, k + 1, n))]
  BY Zenon DEF Stopped
<1>9. n \in Nat /\ off <= n /\ n <= SizeOf(f) BY <1>3, <1>5, <1>8
<1> DEFINE p == d.files
           q == [p EXCEPT ![1].off = n]
           w == n < SizeOf(f)
           e == [d EXCEPT !.files = q, !.write = w, !.fd = x]
           ch == Chunk(c, k + 1, n)
           u == AddChunk(h, ch)
<1>10. r.c = e /\ r.got = u
  <2>1. e = [d EXCEPT !.files[1].off = n, !.write = w, !.fd = x] OBVIOUS
  <2>2. r.c = [d EXCEPT !.files[1].off = n, !.write = w, !.fd = x] /\ r.got = u BY <1>7, <1>8
  <2> HIDE DEF e, u, q, w, x
  <2> QED BY <2>1, <2>2
<1>11. p \in Seq(ListRec) /\ Len(p) \in Nat /\ Len(p) = N - k /\ p # <<>>
       /\ p[1] = c.files[k + 1]
  <2>1. p \in Seq(ListRec) BY DEF ClientRec
  <2>2. Len(p) = N - k /\ Len(p) \in Nat BY <1>1, <1>2, <1>7 DEF CutOf
  <2>3. Len(p) # 0 /\ 1 \in 1 .. Len(p) BY <1>2, <2>2, <1>1
  <2>4. p[1] = c.files[k + 1] BY <1>7, <2>3 DEF CutOf
  <2> QED BY <2>1, <2>2, <2>3, <2>4
<1>12. SentTo(p, n, q) BY DEF SentTo
<1>13. w \in BOOLEAN OBVIOUS
<1>14. Refiled(d, q, w, x, e) BY DEF Refiled
<1>15. Progress(F, g, c.files, k, h) BY SentProgress
<1>16. PICK cc \in ChunkRec : cc = ch /\ cc.file = f /\ cc.from = off /\ cc.to = n
  BY <1>2, <1>9, ChunkIs
<1>17. h \in Seq(ChunkRec) BY <1>15 DEF Progress
<1> HIDE DEF p, q, e, ch, h, x
<1>18. /\ q \in Seq(ListRec) /\ Len(q) = Len(p) /\ q # <<>>
       /\ q[1].file = p[1].file /\ q[1].off = n
       /\ \A i \in 1 .. Len(p) : q[i].file = p[i].file /\ (i # 1 => q[i].off = p[i].off)
  <2>1. Resent(p, n, q) BY <1>9, <1>11, <1>12, SentToIs
  <2> QED BY <2>1 DEF Resent
<1> HIDE DEF w
<1>19. SameClient(d, e) /\ e.files = q /\ e.sub = d.sub /\ e.write = w
  BY <1>6, <1>13, <1>14, <1>18, FilesSame
<1>20. Woken(F, e)
  <2>1. CASE w BY <1>19, <2>1 DEF Woken
  <2>2. CASE ~w
    <3>1. n = SizeOf(f) BY <1>5, <1>9, <2>2 DEF w
    <3>2. f # StateFile /\ IsActive(F, f) BY <1>8, <3>1 DEF ActiveFile, IsActive
    <3>3. n >= F[f].seen BY <1>5, <3>1, <3>2
    <3>4. e.files[1].file = f /\ e.files[1].off = n BY <1>11, <1>18, <1>19
    <3> QED BY <3>2, <3>3, <3>4 DEF Woken
  <2> QED BY <2>1, <2>2
<1>21. SubOK(F, e)
  <2>1. d.files # <<>> /\ e.files # <<>> BY <1>11, <1>18, <1>19 DEF p
  <2>2. e.files[1].file = d.files[1].file /\ e.sub = d.sub BY <1>18, <1>19 DEF p
  <2> QED BY <1>7, <2>1, <2>2 DEF SubOK
<1>22. CutOf(p, c.files, k) BY <1>7 DEF p
<1>23. \A i \in 1 .. Len(q) : k + i \in 1 .. N /\ q[i].file = c.files[k + i].file
  BY <1>18, <1>22 DEF CutOf
<1>24. \A m \in 1 .. N : k < m => m - k \in 1 .. Len(q) /\ q[m - k].file = c.files[m].file
                              /\ (m - k # 1 => q[m - k].off = c.files[m].off)
  <2> SUFFICES ASSUME NEW m \in 1 .. N, k < m
               PROVE  m - k \in 1 .. Len(q) /\ q[m - k].file = c.files[m].file
                      /\ (m - k # 1 => q[m - k].off = c.files[m].off)
    OBVIOUS
  <2> DEFINE i == m - k
  <2>1. i \in 1 .. Len(p) /\ p[i] = c.files[m] BY <1>22 DEF CutOf
  <2> HIDE DEF i
  <2>2. i \in 1 .. Len(q) /\ q[i].file = c.files[m].file /\ (i # 1 => q[i].off = c.files[m].off)
    BY <1>18, <2>1
  <2> QED BY <2>2 DEF i
<1>25. /\ Ordered(F, u, q) /\ UptoMore(F, g, c.files, u, q) /\ CountedKept(F, g, c.files, u, q)
       /\ u \in Seq(ChunkRec)
  <2>1. CASE n = 0
    <3>1. off = 0 BY <1>3, <1>9, <2>1
    <3>2. u = h
      <4>1. ch.from = 0 /\ ch.to = 0 BY <1>16, <2>1, <3>1
      <4> QED BY <4>1 DEF AddChunk
    <3>3. \A m \in 1 .. N : k < m => m - k \in 1 .. Len(q) /\ q[m - k].file = c.files[m].file
                              /\ q[m - k].off = c.files[m].off
      <4> SUFFICES ASSUME NEW m \in 1 .. N, k < m PROVE q[m - k].off = c.files[m].off
        BY <1>24
      <4>1. CASE m - k = 1
        <5>1. m = k + 1 BY <1>1, <1>2, <4>1
        <5>2. q[m - k].off = 0 BY <1>18, <2>1, <4>1
        <5> QED BY <3>1, <5>1, <5>2
      <4> QED BY <1>24, <4>1
    <3>4. RestOf(c.files, k, k, q) BY <1>23, <3>3 DEF RestOf
    <3>5. k <= k + 1 BY <1>2
    <3> HIDE DEF u
    <3>6. Ordered(F, h, q) /\ UptoMore(F, g, c.files, h, q) /\ CountedKept(F, g, c.files, h, q)
      BY <1>1, <1>2, <1>15, <1>18, <3>4, <3>5, ProgressRest
    <3> QED BY <1>17, <3>2, <3>6
  <2>2. CASE n # 0
    <3>1. Adding(h, u, f) /\ (off = 0 => \E i \in 1 .. Len(u) : u[i].file = f)
      <4>1. ch \in ChunkRec /\ ch.file = f /\ ch.from = off /\ ch.to = n BY <1>16
      <4> QED BY <1>17, <2>2, <4>1, AddChunkIs
    <3> HIDE DEF u
    <3>2. \A y \in 1 .. Len(F) : F[y].cont \in Nat BY ContNat
    <3>3. Progress(F, g, c.files, k + 1, u) BY <1>2, <1>15, <3>1, <3>2, ProgressAdd
    <3>4. \A m \in 1 .. N : k + 1 < m => m - k \in 1 .. Len(q)
             /\ q[m - k].file = c.files[m].file /\ q[m - k].off = c.files[m].off
      <4> SUFFICES ASSUME NEW m \in 1 .. N, k + 1 < m
                   PROVE  m - k \in 1 .. Len(q) /\ q[m - k].file = c.files[m].file
                          /\ q[m - k].off = c.files[m].off
        OBVIOUS
      <4>1. k < m /\ m - k # 1 BY <1>2
      <4> QED BY <1>24, <4>1
    <3>5. RestOf(c.files, k, k + 1, q) BY <1>23, <3>4 DEF RestOf
    <3>6. k + 1 \in Nat /\ k + 1 <= k + 1 BY <1>2
    <3>7. Ordered(F, u, q) /\ UptoMore(F, g, c.files, u, q) /\ CountedKept(F, g, c.files, u, q)
      BY <1>1, <1>2, <3>3, <1>18, <3>5, <3>6, ProgressRest
    <3>8. u \in Seq(ChunkRec) BY <3>1 DEF Adding
    <3> QED BY <3>7, <3>8
  <2> QED BY <2>1, <2>2
<1>26. SameClient(c, e) BY <1>7, <1>19, SameTwice
<1> HIDE DEF u
<1> QED BY <1>10, <1>19, <1>20, <1>21, <1>25, <1>26 DEF Sending

Outcome(F, c, g, d, h) == Gone(g, d, h) \/ Sending(F, c, g, d, h)

LEMMA SendLoopIs ==
  ASSUME NEW F, file' = F, NEW L, FilesOK(F, L), NEW c \in ClientRec, NEW g \in Seq(ChunkRec),
         SubOK(F, c), Ordered(F, g, c.files), NEW r \in SendLoop(c, g)
  PROVE  Outcome(F, c, g, r.c, r.got)
<1>1. \/ r \in Exhausted(c, g)
      \/ \E k \in 0 .. Len(c.files) : k # Len(c.files) /\ r \in Stopped(c, g, k)
      \/ r \in Deleted(g)
  BY DEF SendLoop
<1>2. CASE r \in Exhausted(c, g)
  <2>1. Sending(F, c, g, r.c, r.got) BY <1>2, ExhaustedIs
  <2> QED BY <2>1 DEF Outcome
<1>3. CASE \E k \in 0 .. Len(c.files) : k # Len(c.files) /\ r \in Stopped(c, g, k)
  <2>1. PICK k \in 0 .. Len(c.files) : k # Len(c.files) /\ r \in Stopped(c, g, k) BY <1>3
  <2>2. Sending(F, c, g, r.c, r.got) BY <2>1, StoppedIs
  <2> QED BY <2>2 DEF Outcome
<1>4. CASE r \in Deleted(g)
  <2>1. Gone(g, r.c, r.got) BY <1>4 DEF Deleted, Gone
  <2> QED BY <2>1 DEF Outcome
<1> QED BY <1>1, <1>2, <1>3, <1>4

LEMMA SameOutcome ==
  ASSUME NEW F, NEW c, NEW d, NEW g, NEW e, NEW h, SameClient(c, d), d.files = c.files,
         Outcome(F, d, g, e, h)
  PROVE  Outcome(F, c, g, e, h)
<1>1. CASE Gone(g, e, h) BY <1>1 DEF Outcome
<1>2. CASE Sending(F, d, g, e, h)
  <2>1. SameClient(d, e) BY <1>2 DEF Sending
  <2>2. SameClient(c, e) BY <2>1, SameTwice
  <2>3. Sending(F, c, g, e, h) BY <1>2, <2>2, Zenon DEF Sending
  <2> QED BY <2>3 DEF Outcome
<1> QED BY <1>1, <1>2 DEF Outcome

Copied(c, b, d) == d = [c EXCEPT !.sendPaused = b]

LEMMA CopiedSame ==
  ASSUME NEW c \in ClientRec, NEW b \in BOOLEAN, NEW d, Copied(c, b, d)
  PROVE  SameClient(c, d) /\ d.files = c.files /\ d.sub = c.sub
BY DEF ClientRec, SameClient, Copied

LEMMA WritableIs ==
  ASSUME sendPaused \in BOOLEAN,
         NEW F, file' = F, NEW L, FilesOK(F, L), NEW c \in ClientRec, NEW g \in Seq(ChunkRec),
         SubOK(F, c), Ordered(F, g, c.files), NEW r \in Writable(c, g)
  PROVE  Outcome(F, c, g, r.c, r.got)
<1> DEFINE d == [c EXCEPT !.sendPaused = sendPaused]
<1>1. r \in SendLoop(c, g) \/ r \in SendLoop(d, g) BY DEF Writable
<1>2. Copied(c, sendPaused, d) BY DEF Copied
<1> HIDE DEF d
<1>3. SameClient(c, d) /\ d.files = c.files /\ d.sub = c.sub BY <1>2, CopiedSame
<1>4. CASE r \in SendLoop(c, g) BY <1>4, SendLoopIs
<1>5. CASE r \in SendLoop(d, g)
  <2>1. d \in ClientRec BY <1>3 DEF SameClient
  <2>2. SubOK(F, d) BY <1>3 DEF SubOK
  <2>3. Ordered(F, g, d.files) BY <1>3
  <2>4. Outcome(F, d, g, r.c, r.got) BY <1>5, <2>1, <2>2, <2>3, SendLoopIs
  <2> QED BY <1>3, <2>4, SameOutcome
<1> QED BY <1>1, <1>4, <1>5

LEMMA TryIs ==
  ASSUME sendPaused \in BOOLEAN,
         NEW F, file' = F, NEW L, FilesOK(F, L), NEW c \in ClientRec, NEW g \in Seq(ChunkRec),
         SubOK(F, c), Ordered(F, g, c.files), NEW r \in TryToSend(c, g)
  PROVE  Outcome(F, c, g, r.c, r.got)
<1>1. CASE c.write
  <2>1. r.c = c /\ r.got = g BY <1>1 DEF TryToSend
  <2>2. SameClient(c, c) BY DEF SameClient
  <2>3. Woken(F, c) BY <1>1 DEF Woken
  <2>4. UptoMore(F, g, c.files, g, c.files) /\ CountedKept(F, g, c.files, g, c.files)
    BY DEF UptoMore, CountedKept
  <2> QED BY <2>1, <2>2, <2>3, <2>4 DEF Outcome, Sending
<1>2. CASE ~c.write
  <2>1. r \in Writable(c, g) BY <1>2 DEF TryToSend
  <2> QED BY <2>1, WritableIs
<1> QED BY <1>1, <1>2

\* The client's half of the invariant, and what makes it of a client that sends.
ClientPart(F, S, L, T, c, g) ==
  /\ c \in ClientRec /\ g \in Seq(ChunkRec)
  /\ c.phase \in {"none", "hello"} => g = <<>>
  /\ c.phase # "on" => c.files = <<>> /\ c.sub = NoFile
  /\ Ordered(F, g, c.files)
  /\ c.phase = "on" => ClientOK(F, S, L, T, c, g)
Ready(F, S, L, T, c, g) ==
  /\ c \in ClientRec /\ c.phase = "on" /\ g \in Seq(ChunkRec) /\ Ordered(F, g, c.files)
  /\ SubOK(F, c) /\ Upto(F, g, c.files, Reach(L, c)) /\ Heard(F, L, c, g)
  /\ ContsOK(S, L, T, c) /\ Covered(S, L, T, c)

LEMMA GoneKept ==
  ASSUME NEW F, NEW S, NEW L, NEW T, NEW q, NEW g \in Seq(ChunkRec), Ordered(F, g, q),
         NEW d, d = [NoClient EXCEPT !.phase = "gone"]
  PROVE  ClientPart(F, S, L, T, d, g)
<1>1. /\ d.phase = "gone" /\ d.files = <<>> /\ d.sub = NoFile
      /\ d \in ClientRec
  <2>1. /\ <<>> \in Seq(ListRec) /\ <<>> \in Seq(ContRec) /\ NoFile \in Nat /\ NoCont \in Nat
        /\ FALSE \in BOOLEAN /\ {} \in SUBSET Nat
    BY DEF NoFile, NoCont
  <2> QED BY <2>1 DEF NoClient, ClientRec
<1>2. Ordered(F, g, <<>>)
  <2>1. 1 .. Len(<<>>) = {} OBVIOUS
  <2> QED BY <2>1, Zenon DEF Ordered
<1> QED BY <1>1, <1>2 DEF ClientPart

LEMMA OutcomeKept ==
  ASSUME NEW F, NEW S, NEW L, NEW T, NEW c, NEW g, Ready(F, S, L, T, c, g), NEW d, NEW h,
         Outcome(F, c, g, d, h)
  PROVE  ClientPart(F, S, L, T, d, h)
<1>1. CASE Gone(g, d, h)
  <2>1. Ordered(F, g, c.files) /\ g \in Seq(ChunkRec) BY DEF Ready
  <2>2. d = [NoClient EXCEPT !.phase = "gone"] /\ h = g BY <1>1 DEF Gone
  <2> QED BY <2>1, <2>2, GoneKept
<1>2. CASE Sending(F, c, g, d, h)
  <2>1. /\ d \in ClientRec /\ d.phase = "on" /\ d.conts = c.conts /\ d.contSub = c.contSub
        /\ d.joined = c.joined /\ d.known = c.known /\ h \in Seq(ChunkRec)
        /\ Ordered(F, h, d.files) /\ SubOK(F, d) /\ Woken(F, d)
    BY <1>2 DEF Sending, SameClient, Ready
  <2>2. Upto(F, h, d.files, Reach(L, d))
    <3>1. Upto(F, g, c.files, Reach(L, c)) BY DEF Ready
    <3>2. Reach(L, d) = Reach(L, c) BY <2>1 DEF Reach
    <3> QED BY <1>2, <3>1, <3>2, Zenon DEF Sending, UptoMore
  <2>3. Heard(F, L, d, h)
    <3>1. \A x : Waits(c, x) => Waits(d, x) BY <2>1 DEF Waits
    <3>2. \A f : ~F[f].paused /\ Counted(g, c.files, f) => Counted(h, d.files, f)
      BY <1>2, Zenon DEF Sending, CountedKept
    <3>3. Heard(F, L, c, g) BY DEF Ready
    <3> QED BY <2>1, <3>1, <3>2, <3>3, Zenon DEF Heard
  <2>4. ContsOK(S, L, T, d) BY <2>1 DEF Ready, ContsOK
  <2>5. Covered(S, L, T, d)
    <3>1. \A x : Waits(c, x) => Waits(d, x) BY <2>1 DEF Waits
    <3> QED BY <2>1, <3>1 DEF Ready, Covered
  <2>6. ClientOK(F, S, L, T, d, h) BY <2>1, <2>2, <2>3, <2>4, <2>5 DEF ClientOK
  <2> QED BY <2>1, <2>6 DEF ClientPart
<1> QED BY <1>1, <1>2 DEF Outcome

PushedTo(c, es, s, d) == d = [c EXCEPT !.files = @ \o es, !.sub = s]

LEMMA PushFields ==
  ASSUME NEW c \in ClientRec, NEW es \in Seq(ListRec), NEW s \in Nat, NEW d, PushedTo(c, es, s, d)
  PROVE  SameClient(c, d) /\ d.files = c.files \o es /\ d.sub = s
<1> DEFINE q == c.files \o es
<1>1. c.files \in Seq(ListRec) BY DEF ClientRec
<1>2. q \in Seq(ListRec) BY <1>1
<1>3. d = [c EXCEPT !.files = q, !.sub = s] BY DEF PushedTo
<1> HIDE DEF q
<1>4. Erased(c, q, s, d) BY <1>3 DEF Erased
<1>5. SameClient(c, d) /\ d.files = q /\ d.sub = s BY <1>2, <1>4, ErasedSame
<1> QED BY <1>5 DEF q

Pushed(F, c, es, d) ==
  SameClient(c, d) /\ SubOK(F, d) /\ d.files = c.files \o es /\ JoinOf(d.files, c.files, es)

LEMMA PushIs ==
  ASSUME NEW F, file' = F, NEW c \in ClientRec, SubOK(F, c), NEW es \in Seq(ListRec),
         NEW d, d = PushFiles(c, es)
  PROVE  Pushed(F, c, es, d)
<1> DEFINE p == c.files
           s == IF p = <<>> /\ c.sub = NoFile /\ es # <<>> THEN Subscribe(es[1].file) ELSE c.sub
<1>1. p \in Seq(ListRec) /\ c.sub \in Nat BY DEF ClientRec
<1>2. d = [c EXCEPT !.files = @ \o es, !.sub = s]
  <2> DEFINE z == [c EXCEPT !.files = @ \o es,
                            !.sub = IF c.files = <<>> /\ @ = NoFile /\ es # <<>>
                                    THEN Subscribe(es[1].file) ELSE @]
  <2>1. z = [c EXCEPT !.files = @ \o es, !.sub = s] OBVIOUS
  <2> HIDE DEF s
  <2>2. d = z BY DEF PushFiles
  <2> QED BY <2>1, <2>2
<1>3. es # <<>> => es[1].file \in Nat
  <2>1. es # <<>> => es[1] \in ListRec BY SeqFacts
  <2> QED BY <2>1 DEF ListRec
<1>4. s \in Nat BY <1>1, <1>3 DEF Subscribe, NoFile
<1>5. JoinOf(p \o es, p, es) BY <1>1, JoinIs
<1>8. PushedTo(c, es, s, d) BY <1>2 DEF PushedTo
<1> HIDE DEF s
<1>6. SameClient(c, d) /\ d.files = p \o es /\ d.sub = s BY <1>4, <1>8, PushFields
<1>7. SubOK(F, d)
  <2>1. CASE p = <<>>
    <3>1. c.sub = NoFile BY <2>1 DEF SubOK
    <3>2. d.files = es BY <1>6, <2>1
    <3>3. s = IF es # <<>> THEN Subscribe(es[1].file) ELSE NoFile BY <2>1, <3>1 DEF s
    <3>4. \A f : Subscribe(f) = IF IsActive(F, f) THEN f ELSE NoFile
      BY DEF Subscribe, ActiveFile, IsActive
    <3> QED BY <1>6, <3>2, <3>3, <3>4 DEF SubOK
  <2>2. CASE p # <<>>
    <3>1. s = c.sub BY <2>2 DEF s
    <3>2. d.files # <<>> /\ d.files[1] = p[1]
      <4>1. Len(p) \in Nat /\ Len(es) \in Nat /\ Len(p) # 0 /\ 1 \in 1 .. Len(p)
        BY <1>1, <2>2, SeqFacts
      <4>2. Len(d.files) = Len(p) + Len(es) /\ d.files[1] = p[1] BY <1>5, <1>6, <4>1 DEF JoinOf
      <4>3. Len(d.files) # 0 BY <4>1, <4>2
      <4> QED BY <4>2, <4>3
    <3> QED BY <1>6, <2>2, <3>1, <3>2 DEF SubOK
  <2> QED BY <2>1, <2>2
<1> QED BY <1>5, <1>6, <1>7 DEF Pushed

\* Files of containers from the b-th on, container by container, from their beginning.
Following(F, b, es) ==
  /\ es \in Seq(ListRec)
  /\ \A i \in 1 .. Len(es) : /\ es[i].file \in 1 .. Len(F) /\ es[i].off = 0
                             /\ b <= F[es[i].file].cont
  /\ \A i, j \in 1 .. Len(es) : i < j => F[es[i].file].cont <= F[es[j].file].cont
Followed(F, es, b) == \A i \in 1 .. Len(es) : F[es[i].file].cont <= b

LEMMA PushOrdered ==
  ASSUME NEW F, \A f \in 1 .. Len(F) : F[f].cont \in Nat, NEW g, NEW p, Ordered(F, g, p),
         Len(p) \in Nat,
         NEW b \in Nat, Upto(F, g, p, b), NEW es, Following(F, b, es), NEW q, JoinOf(q, p, es)
  PROVE  Ordered(F, g, q) /\ \A d \in Nat : b <= d /\ Followed(F, es, d) => Upto(F, g, q, d)
<1>1. \A i \in 1 .. Len(es) : es[i].file \in 1 .. Len(F) /\ b <= F[es[i].file].cont
  BY Zenon DEF Following
<1>2. \A n \in 1 .. Len(q) : \/ n \in 1 .. Len(p) /\ q[n] = p[n]
                             \/ \E i \in 1 .. Len(es) : n = Len(p) + i /\ q[n] = es[i]
  BY Zenon DEF JoinOf
<1>3. \A f : IsFile(F, f) /\ f # StateFile => F[f].cont \in Nat BY DEF IsFile
<1>4. /\ \A i \in 1 .. Len(g) : IsFile(F, g[i].file)
      /\ \A i \in 1 .. Len(p) : IsFile(F, p[i].file)
  BY Zenon DEF Ordered
<1>5. \A i \in 1 .. Len(q) : IsFile(F, q[i].file) BY <1>1, <1>2, <1>4 DEF IsFile
<1>6. \A f : IsFile(F, f) /\ (f # StateFile => F[f].cont <= b) =>
        \A i \in 1 .. Len(es) : NotAfter(F, f, es[i].file)
  <2> SUFFICES ASSUME NEW f, IsFile(F, f), f # StateFile => F[f].cont <= b,
                      NEW i \in 1 .. Len(es)
               PROVE  NotAfter(F, f, es[i].file)
    OBVIOUS
  <2> DEFINE e == es[i].file
  <2>1. e \in 1 .. Len(F) /\ b <= F[e].cont BY <1>1
  <2> HIDE DEF e
  <2>2. F[e].cont \in Nat BY <2>1
  <2>3. f # StateFile => F[f].cont \in Nat BY <1>3
  <2>4. NotAfter(F, f, e) BY <2>1, <2>2, <2>3 DEF NotAfter
  <2> QED BY <2>4 DEF e
<1>7. \A i \in 1 .. Len(g), n \in 1 .. Len(q) : NotAfter(F, g[i].file, q[n].file)
  <2> SUFFICES ASSUME NEW i \in 1 .. Len(g), NEW n \in 1 .. Len(q)
               PROVE  NotAfter(F, g[i].file, q[n].file)
    OBVIOUS
  <2>1. CASE n \in 1 .. Len(p) /\ q[n] = p[n] BY <2>1, Zenon DEF Ordered
  <2>2. CASE \E m \in 1 .. Len(es) : q[n] = es[m]
    <3>1. g[i].file # StateFile => F[g[i].file].cont <= b BY Zenon DEF Upto
    <3> QED BY <1>4, <1>6, <2>2, <3>1
  <2> QED BY <1>2, <2>1, <2>2
<1>8. \A n, m \in 1 .. Len(q) : n < m => NotAfter(F, q[n].file, q[m].file)
  <2> SUFFICES ASSUME NEW n \in 1 .. Len(q), NEW m \in 1 .. Len(q), n < m
               PROVE  NotAfter(F, q[n].file, q[m].file)
    OBVIOUS
  <2>1. CASE n \in 1 .. Len(p) /\ q[n] = p[n]
    <3>1. CASE m \in 1 .. Len(p) /\ q[m] = p[m] BY <2>1, <3>1, Zenon DEF Ordered
    <3>2. CASE \E i \in 1 .. Len(es) : q[m] = es[i]
      <4>1. p[n].file # StateFile => F[p[n].file].cont <= b BY <2>1, Zenon DEF Upto
      <4> QED BY <1>4, <1>6, <2>1, <3>2, <4>1
    <3> QED BY <1>2, <3>1, <3>2
  <2>2. CASE \E i \in 1 .. Len(es) : n = Len(p) + i /\ q[n] = es[i]
    <3>1. PICK i \in 1 .. Len(es) : n = Len(p) + i /\ q[n] = es[i] BY <2>2
    <3>2. ~(m \in 1 .. Len(p)) BY <3>1
    <3>3. PICK j \in 1 .. Len(es) : m = Len(p) + j /\ q[m] = es[j] BY <1>2, <3>2
    <3>4. i < j BY <3>1, <3>3
    <3>5. F[es[i].file].cont <= F[es[j].file].cont BY <3>4, Zenon DEF Following
    <3> QED BY <3>1, <3>3, <3>5 DEF NotAfter
  <2> QED BY <1>2, <2>1, <2>2
<1>9. ASSUME NEW d \in Nat, b <= d, Followed(F, es, d) PROVE Upto(F, g, q, d)
  <2>1. \A f : IsFile(F, f) /\ f # StateFile /\ F[f].cont <= b => F[f].cont <= d
    BY <1>3, <1>9
  <2>2. \A i \in 1 .. Len(g) : g[i].file # StateFile => F[g[i].file].cont <= d
    BY <1>4, <2>1, Zenon DEF Upto
  <2>3. \A i \in 1 .. Len(p) : p[i].file # StateFile => F[p[i].file].cont <= d
    BY <1>4, <2>1, Zenon DEF Upto
  <2>4. \A i \in 1 .. Len(q) : q[i].file # StateFile => F[q[i].file].cont <= d
    BY <1>2, <1>9, <2>3 DEF Followed
  <2> QED BY <2>2, <2>4 DEF Upto
<1> QED BY <1>4, <1>5, <1>7, <1>8, <1>9, Zenon DEF Ordered

LEMMA PushCounted ==
  ASSUME NEW F, NEW g, NEW p, NEW b, NEW es, Following(F, b, es), NEW q, JoinOf(q, p, es)
  PROVE  /\ \A f : Counted(g, p, f) => Counted(g, q, f)
         /\ \A i \in 1 .. Len(es) : Counted(g, q, es[i].file)
<1>1. \A i \in 1 .. Len(p) : i \in 1 .. Len(q) /\ q[i] = p[i] BY Zenon DEF JoinOf
<1>2. \A i \in 1 .. Len(es) : \E n \in 1 .. Len(q) : q[n] = es[i] /\ es[i].off = 0
  BY Zenon DEF JoinOf, Following
<1> QED BY <1>1, <1>2 DEF Counted

LEMMA TailEvents ==
  ASSUME NEW T \in Seq(TodoRec), T # <<>>, NEW U, U = Tail(T)
  PROVE  /\ U \in Seq(TodoRec) /\ 1 \in 1 .. Len(T)
         /\ \A p \in 1 .. Len(U) : p + 1 \in 1 .. Len(T) /\ U[p] = T[p + 1]
         /\ \A p \in 1 .. Len(T) : p # 1 => p - 1 \in 1 .. Len(U) /\ U[p - 1] = T[p]
<1>1. U \in Seq(TodoRec) /\ CutOf(U, T, 1) BY TailIs
<1>2. Len(T) \in Nat /\ 1 \in 1 .. Len(T) BY SeqFacts
<1>3. \A p \in 1 .. Len(T) : p # 1 => 1 < p BY <1>2
<1>4. \A p \in 1 .. Len(U) : p + 1 = 1 + p BY <1>1, SeqFacts
<1> QED BY <1>1, <1>2, <1>3, <1>4 DEF CutOf

LEMMA TailDone ==
  ASSUME NEW T \in Seq(TodoRec), T # <<>>, NEW U, U = Tail(T)
  PROVE  /\ AddsOf(U) \subseteq AddsOf(T)
         /\ \A S, x : Done(S, T, x) => Done(S, U, x)
<1>1. \A p \in 1 .. Len(U) : p + 1 \in 1 .. Len(T) /\ U[p] = T[p + 1] BY TailEvents
<1>2. AddsOf(U) \subseteq AddsOf(T)
  <2> SUFFICES ASSUME NEW p \in 1 .. Len(U), U[p].op = "add" PROVE U[p].cont \in AddsOf(T)
    BY DEF AddsOf
  <2> DEFINE q == p + 1
  <2>1. q \in 1 .. Len(T) /\ U[p] = T[q] BY <1>1
  <2> HIDE DEF q
  <2> QED BY <2>1 DEF AddsOf
<1> QED BY <1>2 DEF Done

\* The lists after the first of the pending signals, which may add to one of them.
Later(L, T, M) ==
  /\ Len(L) \in Nat /\ Len(M) = Len(L)
  /\ (L[Len(L)] = <<>> /\ ~IsAdd(T[1], Len(L))) => M[Len(M)] = <<>>

LEMMA TodoTail ==
  ASSUME NEW F, NEW G, Grown(F, G), NEW S, NEW L, NEW T, TodoOK(F, S, L, T), T # <<>>,
         NEW M, Later(L, T, M), NEW U, U = Tail(T)
  PROVE  TodoOK(G, S, M, U)
<1>1. T \in Seq(TodoRec) BY DEF TodoOK
<1>2. /\ U \in Seq(TodoRec) /\ 1 \in 1 .. Len(T)
      /\ \A p \in 1 .. Len(U) : p + 1 \in 1 .. Len(T) /\ U[p] = T[p + 1]
      /\ Len(T) \in Nat /\ Len(U) \in Nat
  BY <1>1, TailEvents, SeqFacts
<1>3. Len(M) = Len(L) BY DEF Later
<1>4. \A e : EventOK(F, L, e) => EventOK(G, M, e)
  <2>1. \A e : EventOK(F, L, e) => EventOK(G, L, e) BY GrownKept
  <2> QED BY <1>3, <2>1 DEF EventOK
<1>5. ASSUME NEW p \in 1 .. Len(U)
      PROVE  /\ EventOK(G, M, U[p])
             /\ IsEnd(U[p]) => /\ U[p].cont \notin Ids(S)
                               /\ \A q \in 1 .. Len(U) : p < q => ~IsAdd(U[q], U[p].cont)
             /\ IsStart(U[p]) =>
                  /\ U[p].cont = Len(M) /\ M[Len(M)] = <<>>
                  /\ \A q \in 1 .. Len(U) : /\ q < p => ~IsAdd(U[q], Len(M))
                                            /\ q # p => ~IsStart(U[q])
  <2> DEFINE n == p + 1
  <2>1. n \in 1 .. Len(T) /\ U[p] = T[n] /\ 1 < n BY <1>2
  <2>2. \A q \in 1 .. Len(U) : /\ q + 1 \in 1 .. Len(T) /\ U[q] = T[q + 1]
                               /\ (p < q => n < q + 1) /\ (q < p => q + 1 < n)
                               /\ (q # p => q + 1 # n)
    BY <1>2
  <2> HIDE DEF n
  <2>3. EventOK(F, L, T[n]) BY <2>1, Zenon DEF TodoOK
  <2>4. ASSUME IsEnd(T[n])
        PROVE  T[n].cont \notin Ids(S) /\ \A q \in 1 .. Len(T) : n < q => ~IsAdd(T[q], T[n].cont)
    BY <2>1, <2>4, Zenon DEF TodoOK
  <2>5. ASSUME IsStart(T[n])
        PROVE  /\ T[n].cont = Len(L) /\ L[Len(L)] = <<>>
               /\ \A q \in 1 .. Len(T) : /\ q < n => ~IsAdd(T[q], Len(L))
                                         /\ q # n => ~IsStart(T[q])
    BY <2>1, <2>5, Zenon DEF TodoOK
  <2>6. ASSUME IsStart(T[n]) PROVE M[Len(M)] = <<>>
    <3>1. ~IsAdd(T[1], Len(L)) BY <1>2, <2>1, <2>5, <2>6
    <3> QED BY <2>5, <2>6, <3>1 DEF Later
  <2>7. EventOK(G, M, U[p]) BY <1>4, <2>1, <2>3
  <2>8. IsEnd(U[p]) => /\ U[p].cont \notin Ids(S)
                       /\ \A q \in 1 .. Len(U) : p < q => ~IsAdd(U[q], U[p].cont)
    BY <2>1, <2>2, <2>4
  <2>9. IsStart(U[p]) =>
          /\ U[p].cont = Len(M) /\ M[Len(M)] = <<>>
          /\ \A q \in 1 .. Len(U) : /\ q < p => ~IsAdd(U[q], Len(M))
                                    /\ q # p => ~IsStart(U[q])
    BY <1>3, <2>1, <2>2, <2>5, <2>6
  <2> QED BY <2>7, <2>8, <2>9
<1> QED BY <1>2, <1>5, Zenon DEF TodoOK

LEMMA StackKept ==
  ASSUME NEW F, NEW G, Grown(F, G), NEW S, NEW L, StackOK(F, S, L), NEW M, Len(M) = Len(L)
  PROVE  StackOK(G, S, M)
<1>1. \A c, m : ModeOK(F, c, m) => ModeOK(G, c, m) BY GrownKept
<1> QED BY <1>1, Zenon DEF StackOK

\* A signal is delivered, or something else happens to the client or the server.
LEMMA DeliverStep ==
  ASSUME LiveInv, todo # <<>>, todo' = Tail(todo), Grown(file, file'), Len(file') = Len(file),
         FilesOK(file', list'), ListOK(file', list'), Later(list, todo, list'),
         UNCHANGED <<stack, index, pulseTime, nextIndex, server>>,
         ClientPart(file', stack, list', todo', client', got')
  PROVE  LiveInv'
<1>1. TodoOK(file', stack, list', todo') BY TodoTail DEF LiveInv
<1>2. Len(list') = Len(list) BY DEF Later
<1>3. StackOK(file', stack, list') BY <1>2, StackKept DEF LiveInv
<1>4. IndexOK(file', list', index)
  <2>1. IndexOK(file', list, index) BY IndexKept DEF LiveInv
  <2> QED BY <1>2, <2>1 DEF IndexOK
<1>5. /\ Len(file') <= MaxFiles /\ index' # <<>> /\ StackOK(file', stack', list')
      /\ IndexOK(file', list', index') /\ TodoOK(file', stack', list', todo')
      /\ pulseTime' \in Nat /\ sendPaused' \in BOOLEAN /\ stack' = stack
  BY <1>1, <1>3, <1>4 DEF LiveInv, server
<1>6. ClientPart(file', stack', list', todo', client', got') BY <1>5
<1> QED BY <1>5, <1>6 DEF LiveInv, ClientPart, On

LEMMA ClientStep ==
  ASSUME LiveInv, UNCHANGED <<storage, todo>>, sendPaused' \in BOOLEAN,
         ClientPart(file, stack, list, todo, client', got')
  PROVE  LiveInv'
<1>1. /\ file' = file /\ stack' = stack /\ list' = list /\ index' = index
      /\ pulseTime' = pulseTime /\ todo' = todo
  BY DEF storage
<1> QED BY <1>1 DEF LiveInv, ClientPart, On

LEMMA ClientTail ==
  ASSUME NEW S, NEW L, NEW T \in Seq(TodoRec), T # <<>>, NEW c, ContsOK(S, L, T, c),
         Covered(S, L, T, c), ~IsStart(T[1]), NEW U, U = Tail(T), NEW M, Len(M) = Len(L)
  PROVE  ContsOK(S, M, U, c) /\ Covered(S, M, U, c)
<1>1. /\ \A p \in 1 .. Len(U) : p + 1 \in 1 .. Len(T) /\ U[p] = T[p + 1]
      /\ \A p \in 1 .. Len(T) : p # 1 => p - 1 \in 1 .. Len(U) /\ U[p - 1] = T[p]
  BY TailEvents
<1>2. \A x : Done(S, T, x) => Done(S, U, x) BY TailDone
<1>3. \A p \in 1 .. Len(U) : \E q \in 1 .. Len(T) : U[p] = T[q] BY <1>1, Zenon
<1>4. \A p \in 1 .. Len(T) : IsStart(T[p]) => \E q \in 1 .. Len(U) : U[q] = T[p]
  <2> SUFFICES ASSUME NEW p \in 1 .. Len(T), IsStart(T[p]) PROVE \E q \in 1 .. Len(U) : U[q] = T[p]
    OBVIOUS
  <2>1. p # 1 OBVIOUS
  <2> QED BY <1>1, <2>1, Zenon
<1>5. ContsOK(S, M, U, c)
  <2>1. \A p \in 1 .. Len(U) : IsStart(U[p]) =>
          \A n \in 1 .. Len(c.conts) : c.conts[n].cont < U[p].cont
    BY <1>3 DEF ContsOK
  <2> QED BY <1>2, <2>1 DEF ContsOK
<1>6. Covered(S, M, U, c)
  <2>1. \A p \in 1 .. Len(T) : IsStart(T[p]) =>
          \E q \in 1 .. Len(U) : IsStart(U[q]) /\ U[q].cont = T[p].cont
    BY <1>4
  <2> SUFFICES ASSUME NEW x \in 1 .. Len(L)
               PROVE  \/ x < c.joined \/ x = c.contSub \/ Waits(c, x) \/ Done(S, U, x)
                      \/ \E p \in 1 .. Len(U) : IsStart(U[p]) /\ U[p].cont = x
    BY Zenon DEF Covered
  <2>2. \/ x < c.joined \/ x = c.contSub \/ Waits(c, x) \/ Done(S, T, x)
        \/ \E p \in 1 .. Len(T) : IsStart(T[p]) /\ T[p].cont = x
    BY Zenon DEF Covered
  <2>3. Done(S, T, x) => Done(S, U, x) BY <1>2
  <2> QED BY <2>1, <2>2, <2>3, Zenon
<1> QED BY <1>5, <1>6

\* f is announced at the end of the list of x.
Announced(F, L, x, f, M) ==
  /\ ListOK(F, M) /\ FilesOK(F, M) /\ Len(M) = Len(L)
  /\ \A y \in 1 .. Len(L) : y # x => M[y] = L[y]
  /\ \A y \in 1 .. Len(L) : \A i \in 1 .. Len(M[y]) :
        \/ i \in 1 .. Len(L[y]) /\ M[y][i] = L[y][i]
        \/ y = x /\ M[y][i] = f

LEMMA AnnouncedIs ==
  ASSUME NEW F, NEW L, ListOK(F, L), FilesOK(F, L), NEW x, NEW f, OfCont(F, x, f),
         NEW M, M = [L EXCEPT ![x] = Append(@, f)]
  PROVE  Announced(F, L, x, f, M) /\ x \in 1 .. Len(L) /\ x \in Nat /\ f \in Nat
<1>1. L \in Seq(Seq(Nat)) /\ Len(L) \in Nat
  <2>1. L \in Seq(Seq(Nat)) BY DEF ListOK
  <2> QED BY <2>1, SeqFacts
<1>2. f \in 1 .. Len(F) /\ F[f].cont = x BY DEF OfCont
<1>3. x \in 1 .. Len(L) BY <1>2 DEF FilesOK
<1>4. f \in Nat /\ x \in Nat BY <1>1, <1>2, <1>3
<1>5. L[x] \in Seq(Nat) BY <1>1, <1>3, SeqFacts
<1> DEFINE q == Append(L[x], f)
<1>6. /\ q \in Seq(Nat) /\ Len(q) = Len(L[x]) + 1
      /\ \A i \in 1 .. Len(L[x]) : i \in 1 .. Len(L[x]) + 1 /\ q[i] = L[x][i]
      /\ q[Len(L[x]) + 1] = f
      /\ \A i \in 1 .. Len(L[x]) + 1 : i \in 1 .. Len(L[x]) \/ i = Len(L[x]) + 1
  BY <1>4, <1>5, AddIs
<1>7. AllOf(F, x, L[x]) BY <1>3 DEF ListOK
<1>8. AllOf(F, x, q) BY <1>4, <1>5, <1>7, AllAdd
<1>9. M = [L EXCEPT ![x] = q] OBVIOUS
<1> HIDE DEF q
<1>10. M \in Seq(Seq(Nat)) /\ Len(M) = Len(L) /\ M[x] = q
       /\ \A y \in 1 .. Len(L) : y # x => M[y] = L[y]
  BY <1>1, <1>3, <1>6, <1>9
<1>11. ListOK(F, M)
  <2>1. \A y \in 1 .. Len(L) : AllOf(F, y, M[y])
    <3> SUFFICES ASSUME NEW y \in 1 .. Len(L) PROVE AllOf(F, y, M[y])
      OBVIOUS
    <3>1. CASE y = x BY <1>8, <1>10, <3>1
    <3>2. CASE y # x
      <4>1. AllOf(F, y, L[y]) BY DEF ListOK
      <4> QED BY <1>10, <3>2, <4>1
    <3> QED BY <3>1, <3>2
  <2> QED BY <1>10, <2>1 DEF ListOK
<1>12. FilesOK(F, M) BY <1>10 DEF FilesOK
<1>13. \A y \in 1 .. Len(L) : \A i \in 1 .. Len(M[y]) :
        \/ i \in 1 .. Len(L[y]) /\ M[y][i] = L[y][i]
        \/ y = x /\ M[y][i] = f
  <2> SUFFICES ASSUME NEW y \in 1 .. Len(L), NEW i \in 1 .. Len(M[y])
               PROVE  \/ i \in 1 .. Len(L[y]) /\ M[y][i] = L[y][i]
                      \/ y = x /\ M[y][i] = f
    OBVIOUS
  <2>1. CASE y = x BY <1>6, <1>10, <2>1
  <2>2. CASE y # x BY <1>10, <2>2
  <2> QED BY <2>1, <2>2
<1>14. Announced(F, L, x, f, M) BY <1>10, <1>11, <1>12, <1>13, Zenon DEF Announced
<1> QED BY <1>3, <1>4, <1>14

LEMMA HeardMore ==
  ASSUME NEW F, NEW L, NEW x, NEW f, NEW M, Announced(F, L, x, f, M), NEW c, NEW g,
         Heard(F, L, c, g), NEW d, NEW h, d.joined = c.joined, d.known = c.known,
         d.conts = c.conts, \A y : Counted(g, c.files, y) => Counted(h, d.files, y),
         x < c.joined \/ Waits(c, x) \/ Counted(h, d.files, f)
  PROVE  Heard(F, M, d, h)
<1>1. \A y : Waits(c, y) => Waits(d, y) BY DEF Waits
<1>2. Len(M) = Len(L) BY DEF Announced
<1> SUFFICES ASSUME NEW y \in 1 .. Len(L), NEW i \in 1 .. Len(M[y])
             PROVE  \/ y < d.joined \/ M[y][i] \in d.known \/ F[M[y][i]].paused
                    \/ Waits(d, y) \/ Counted(h, d.files, M[y][i])
  BY <1>2 DEF Heard
<1>3. CASE i \in 1 .. Len(L[y]) /\ M[y][i] = L[y][i]
  <2>1. \/ y < c.joined \/ L[y][i] \in c.known \/ F[L[y][i]].paused
        \/ Waits(c, y) \/ Counted(g, c.files, L[y][i])
    BY <1>3, Zenon DEF Heard
  <2> QED BY <1>1, <1>3, <2>1
<1>4. CASE y = x /\ M[y][i] = f BY <1>1, <1>4
<1> QED BY <1>3, <1>4, Zenon DEF Announced

LEMMA NowReady == LiveInv /\ On => Ready(file, stack, list, todo, client, got)
BY DEF LiveInv, On, Ready, ClientOK

LEMMA SameOrdered ==
  ASSUME LiveInv
  PROVE  /\ client \in ClientRec /\ got \in Seq(ChunkRec) /\ Ordered(file, got, client.files)
         /\ client.phase \in {"none", "hello"} => got = <<>>
         /\ client.phase # "on" => client.files = <<>> /\ client.sub = NoFile
BY DEF LiveInv

LEMMA AddPart ==
  ASSUME LiveInv, todo # <<>>, NEW x, NEW f, IsAdd(todo[1], x), OfCont(file, x, f),
         NEW M, Announced(file, list, x, f, M), list' = M, x \in 1 .. Len(list), x \in Nat,
         f \in Nat, UNCHANGED file, NEW U, U = Tail(todo),
         IF On /\ client.contSub = x THEN Callback(fileAdded(client, f))
         ELSE UNCHANGED <<client, got>>
  PROVE  ClientPart(file, stack, M, U, client', got')
<1>1. todo \in Seq(TodoRec) /\ ~IsStart(todo[1]) /\ Len(M) = Len(list) /\ FilesOK(file, M)
      /\ file[f].cont = x /\ f \in 1 .. Len(file)
  BY DEF LiveInv, TodoOK, IsAdd, IsStart, Announced, OfCont
<1>2. ASSUME On PROVE ContsOK(stack, M, U, client) /\ Covered(stack, M, U, client)
  <2>1. ContsOK(stack, list, todo, client) /\ Covered(stack, list, todo, client)
    BY <1>2, NowReady DEF Ready
  <2> QED BY <1>1, <2>1, ClientTail
<1>3. CASE ~On
  <2>1. client' = client /\ got' = got BY <1>3
  <2> QED BY <1>3, <2>1, SameOrdered DEF ClientPart, On
<1>4. CASE On /\ client.contSub # x
  <2>1. client' = client /\ got' = got BY <1>4
  <2>2. x < client.joined \/ Waits(client, x)
    <3>1. Covered(stack, list, todo, client) BY <1>4, NowReady DEF Ready
    <3>2. 1 \in 1 .. Len(todo) BY <1>1, SeqFacts
    <3>3. ~Done(stack, todo, x) BY <3>2 DEF Done, AddsOf, IsAdd
    <3>4. ASSUME NEW p \in 1 .. Len(todo), IsStart(todo[p]), todo[p].cont = x PROVE FALSE
      <4>1. TodoOK(file, stack, list, todo) BY DEF LiveInv
      <4>2. x = Len(list) /\ \A q \in 1 .. Len(todo) : q < p => ~IsAdd(todo[q], Len(list))
        BY <3>4, <4>1, Zenon DEF TodoOK
      <4>3. p # 1 BY <1>1, <3>4
      <4>4. 1 < p BY <4>3
      <4> QED BY <3>2, <4>2, <4>4
    <3> QED BY <1>4, <3>1, <3>3, <3>4 DEF Covered
  <2>3. Heard(file, M, client, got)
    <3>1. Heard(file, list, client, got) BY <1>4, NowReady DEF Ready
    <3> QED BY <2>2, <3>1, HeardMore
  <2>4. Upto(file, got, client.files, Reach(M, client))
    <3>1. Upto(file, got, client.files, Reach(list, client)) BY <1>4, NowReady DEF Ready
    <3>2. Reach(M, client) = Reach(list, client) BY <1>1 DEF Reach
    <3> QED BY <3>1, <3>2
  <2>5. SubOK(file, client) /\ Woken(file, client) BY <1>4 DEF LiveInv, ClientOK
  <2>6. ClientOK(file, stack, M, U, client, got) BY <1>2, <1>4, <2>3, <2>4, <2>5 DEF ClientOK
  <2> QED BY <2>1, <2>6, SameOrdered DEF ClientPart
<1>5. CASE On /\ client.contSub = x
  <2> DEFINE es == <<Entry(f, 0)>>
             c == PushFiles(client, es)
  <2>0. Ready(file, stack, list, todo, client, got) BY <1>5, NowReady
  <2>1. client.conts # <<>> /\ client.conts[1].cont = x
    <3>1. ContsOK(stack, list, todo, client) BY <2>0 DEF Ready
    <3>2. x # NoCont BY DEF NoCont
    <3> QED BY <1>5, <3>1, <3>2 DEF ContsOK
  <2>2. Reach(list, client) = x /\ Reach(M, client) = x BY <2>1 DEF Reach
  <2>3. es \in Seq(ListRec) /\ Len(es) = 1 /\ es[1] = Entry(f, 0)
    <3>1. Entry(f, 0) \in ListRec BY DEF Entry, ListRec
    <3> QED BY <3>1, OneIs
  <2>4. es[1].file = f /\ es[1].off = 0 BY <2>3 DEF Entry
  <2> HIDE DEF es
  <2>5. Following(file, x, es) /\ Followed(file, es, x)
    <3>1. \A i \in 1 .. Len(es) : i = 1 BY <2>3
    <3>2. \A i, j \in 1 .. Len(es) : ~(i < j) BY <2>3
    <3> QED BY <1>1, <2>3, <2>4, <3>1, <3>2 DEF Following, Followed
  <2>6. SubOK(file, client) /\ client \in ClientRec BY <2>0 DEF Ready
  <2>7. Pushed(file, client, es, c) BY <2>3, <2>6, PushIs
  <2> HIDE DEF c
  <2>8. SameClient(client, c) /\ SubOK(file, c) /\ JoinOf(c.files, client.files, es)
    BY <2>7 DEF Pushed
  <2>9. Ordered(file, got, c.files) /\ Upto(file, got, c.files, x)
    <3>1. Upto(file, got, client.files, x) BY <2>0, <2>2 DEF Ready
    <3>2. \A n \in 1 .. Len(file) : file[n].cont \in Nat BY <1>1, ContNat
    <3>3. Len(client.files) \in Nat
      <4>1. client.files \in Seq(ListRec) BY <2>6 DEF ClientRec
      <4> QED BY <4>1, SeqFacts
    <3>4. Ordered(file, got, client.files) /\ x <= x BY <2>0 DEF Ready
    <3> QED BY <2>5, <2>8, <3>1, <3>2, <3>3, <3>4, PushOrdered
  <2>10. Heard(file, M, c, got)
    <3>1. Heard(file, list, client, got) BY <2>0 DEF Ready
    <3>2. /\ \A y : Counted(got, client.files, y) => Counted(got, c.files, y)
          /\ \A i \in 1 .. Len(es) : Counted(got, c.files, es[i].file)
      BY <2>5, <2>8, PushCounted
    <3>3. Counted(got, c.files, f) BY <2>3, <2>4, <3>2
    <3>4. c.joined = client.joined /\ c.known = client.known /\ c.conts = client.conts
      BY <2>8 DEF SameClient
    <3> QED BY <3>1, <3>2, <3>3, <3>4, HeardMore
  <2>11. ContsOK(stack, M, U, c) /\ Covered(stack, M, U, c)
    <3>1. c.joined = client.joined /\ c.contSub = client.contSub /\ c.conts = client.conts
      BY <2>8 DEF SameClient
    <3> QED BY <1>2, <1>5, <3>1 DEF ContsOK, Covered, Waits
  <2>12. Ready(file, stack, M, U, c, got)
    <3>1. c \in ClientRec /\ c.phase = "on" /\ Reach(M, c) = x
      BY <1>5, <2>2, <2>8 DEF SameClient, On, Reach
    <3> QED BY <2>8, <2>9, <2>10, <2>11, <3>1, SameOrdered DEF Ready
  <2>13. PICK r \in TryToSend(c, got) : client' = r.c /\ got' = r.got
    BY <1>5, Zenon DEF Callback, fileAdded, c, es
  <2>14. Outcome(file, c, got, r.c, r.got)
    <3>1. file' = file /\ sendPaused \in BOOLEAN BY DEF LiveInv
    <3>2. c \in ClientRec /\ got \in Seq(ChunkRec) BY <2>12 DEF Ready
    <3> QED BY <1>1, <2>8, <2>9, <2>13, <3>1, <3>2, TryIs
  <2>15. ClientPart(file, stack, M, U, r.c, r.got) BY <2>12, <2>14, OutcomeKept
  <2> QED BY <2>13, <2>15
<1> QED BY <1>3, <1>4, <1>5

LEMMA AddKept ==
  ASSUME LiveInv, todo # <<>>, todo' = Tail(todo), NEW e, e = Head(todo), e.op = "add",
         DeliverAdd(e), UNCHANGED <<stack, index, pulseTime, nextIndex, server>>
  PROVE  LiveInv'
<1>1. todo \in Seq(TodoRec) BY DEF LiveInv, TodoOK
<1>2. e = todo[1] /\ 1 \in 1 .. Len(todo) BY <1>1, TailIs, SeqFacts
<1>3. OfCont(file, e.cont, e.file) /\ IsAdd(todo[1], e.cont)
  <2>1. EventOK(file, list, todo[1]) BY <1>2 DEF LiveInv, TodoOK
  <2> QED BY <1>2, <2>1 DEF EventOK, IsAdd
<1> DEFINE M == [list EXCEPT ![e.cont] = Append(@, e.file)]
<1>4. list' = M /\ file' = file
      /\ IF On /\ client.contSub = e.cont THEN Callback(fileAdded(client, e.file))
         ELSE UNCHANGED <<client, got>>
  BY DEF DeliverAdd
<1>5. Announced(file, list, e.cont, e.file, M) /\ e.cont \in 1 .. Len(list) /\ e.cont \in Nat
      /\ e.file \in Nat
  <2>1. ListOK(file, list) /\ FilesOK(file, list) BY DEF LiveInv
  <2> QED BY <1>3, <2>1, AnnouncedIs
<1> HIDE DEF M
<1>6. ClientPart(file, stack, M, Tail(todo), client', got') BY <1>3, <1>4, <1>5, AddPart
<1>7. Later(list, todo, M)
  <2>1. Len(list) \in Nat /\ Len(M) = Len(list)
    <3>1. list \in Seq(Seq(Nat)) BY DEF LiveInv, ListOK
    <3> QED BY <1>5, <3>1, SeqFacts DEF Announced
  <2>2. Len(list) \in 1 .. Len(list) BY <1>5, <2>1
  <2>3. ~IsAdd(todo[1], Len(list)) => M[Len(list)] = list[Len(list)]
    <3>1. ~IsAdd(todo[1], Len(list)) => Len(list) # e.cont BY <1>3
    <3> QED BY <1>5, <2>2, <3>1 DEF Announced
  <2> QED BY <2>1, <2>3 DEF Later
<1>8. Grown(file, file) /\ FilesOK(file, M) /\ ListOK(file, M)
  <2>1. Len(file) \in Nat
    <3>1. file \in Seq(FileRec) BY DEF LiveInv, FilesOK
    <3> QED BY <3>1, SeqFacts
  <2> QED BY <1>5, <2>1 DEF Grown, Announced
<1> QED BY <1>4, <1>6, <1>7, <1>8, DeliverStep

\* A signalled file has grown or is closed.
Signalled(F, f, x, G) ==
  /\ Grown(F, G) /\ Len(G) = Len(F) /\ G[f] = x
  /\ \A y \in 1 .. Len(F) : y # f => G[y] = F[y]
OfFile(y, x) == /\ x \in FileRec /\ x.cont = y.cont /\ x.paused = y.paused
                /\ x.size >= 1 /\ x.seen <= x.size

LEMMA SignalledIs ==
  ASSUME NEW F, NEW L, FilesOK(F, L), NEW f \in 1 .. Len(F), NEW x, OfFile(F[f], x),
         NEW G, G = [F EXCEPT ![f] = x]
  PROVE  Signalled(F, f, x, G) /\ FilesOK(G, L)
<1>1. F \in Seq(FileRec) /\ Len(F) \in Nat
  <2>1. F \in Seq(FileRec) BY DEF FilesOK
  <2> QED BY <2>1, SeqFacts
<1>2. x \in FileRec BY DEF OfFile
<1>3. G \in Seq(FileRec) /\ Len(G) = Len(F) /\ G[f] = x
      /\ \A y \in 1 .. Len(F) : y # f => G[y] = F[y]
  BY <1>1, <1>2
<1>4. \A y \in 1 .. Len(F) : G[y].cont = F[y].cont /\ G[y].paused = F[y].paused
  <2> SUFFICES ASSUME NEW y \in 1 .. Len(F)
               PROVE  G[y].cont = F[y].cont /\ G[y].paused = F[y].paused
    OBVIOUS
  <2>1. CASE y = f BY <1>3, <2>1 DEF OfFile
  <2>2. CASE y # f BY <1>3, <2>2
  <2> QED BY <2>1, <2>2
<1>5. \A y \in 1 .. Len(G) : /\ G[y].size >= 1 /\ G[y].seen <= G[y].size
                             /\ G[y].cont \in 1 .. Len(L)
  <2> SUFFICES ASSUME NEW y \in 1 .. Len(F)
               PROVE  /\ G[y].size >= 1 /\ G[y].seen <= G[y].size /\ G[y].cont \in 1 .. Len(L)
    BY <1>3
  <2>0. F[y].size >= 1 /\ F[y].seen <= F[y].size /\ F[y].cont \in 1 .. Len(L)
    BY Zenon DEF FilesOK
  <2>1. CASE y = f BY <1>3, <1>4, <2>0, <2>1 DEF OfFile
  <2>2. CASE y # f BY <1>3, <2>0, <2>2
  <2> QED BY <2>1, <2>2
<1>6. Grown(F, G) BY <1>1, <1>3, <1>4 DEF Grown
<1>7. FilesOK(G, L) BY <1>3, <1>5 DEF FilesOK
<1> QED BY <1>3, <1>6, <1>7 DEF Signalled

\* What makes a client ready to send, but for what it is subscribed to.
Rest(F, S, L, T, c, g) ==
  /\ c \in ClientRec /\ c.phase = "on" /\ g \in Seq(ChunkRec) /\ Ordered(F, g, c.files)
  /\ Upto(F, g, c.files, Reach(L, c)) /\ Heard(F, L, c, g)
  /\ ContsOK(S, L, T, c) /\ Covered(S, L, T, c)

LEMMA ReadyRest ==
  ASSUME NEW F, NEW S, NEW L, NEW T, NEW c, NEW g, Rest(F, S, L, T, c, g), SubOK(F, c)
  PROVE  Ready(F, S, L, T, c, g)
BY DEF Rest, Ready

LEMMA RestSame ==
  ASSUME NEW F, NEW S, NEW L, NEW T, NEW c, NEW g, Rest(F, S, L, T, c, g),
         NEW d, SameClient(c, d), d.files = c.files
  PROVE  Rest(F, S, L, T, d, g)
<1>1. \A x : Waits(c, x) => Waits(d, x) BY DEF Waits, SameClient
<1>2. Reach(L, d) = Reach(L, c) BY DEF Reach, SameClient
<1>3. Heard(F, L, d, g) BY <1>1 DEF Rest, Heard, SameClient
<1>4. ContsOK(S, L, T, d) BY DEF Rest, ContsOK, SameClient
<1>5. Covered(S, L, T, d) BY <1>1 DEF Rest, Covered, SameClient
<1> QED BY <1>2, <1>3, <1>4, <1>5 DEF Rest, SameClient

LEMMA ReachIs ==
  ASSUME NEW S, NEW L, Len(L) \in Nat, NEW T, NEW c \in ClientRec, ContsOK(S, L, T, c)
  PROVE  Reach(L, c) \in Nat /\ Reach(L, c) <= Len(L)
<1>1. CASE c.conts = <<>> BY <1>1 DEF Reach
<1>2. CASE c.conts # <<>>
  <2>1. c.conts \in Seq(ContRec) BY DEF ClientRec
  <2>2. 1 \in 1 .. Len(c.conts) BY <1>2, <2>1, SeqFacts
  <2>3. c.conts[1].cont \in 1 .. Len(L) BY <2>2, Zenon DEF ContsOK
  <2> QED BY <1>2, <2>3 DEF Reach
<1> QED BY <1>1, <1>2

LEMMA SignalRest ==
  ASSUME LiveInv, On, todo # <<>>, ~IsStart(todo[1]), NEW G, Grown(file, G),
         NEW U, U = Tail(todo)
  PROVE  Rest(G, stack, list, U, client, got)
<1>1. /\ client \in ClientRec /\ client.phase = "on" /\ got \in Seq(ChunkRec)
      /\ Ordered(file, got, client.files) /\ Upto(file, got, client.files, Reach(list, client))
      /\ Heard(file, list, client, got) /\ ContsOK(stack, list, todo, client)
      /\ Covered(stack, list, todo, client)
  BY NowReady DEF Ready
<1>2. /\ todo \in Seq(TodoRec) /\ FilesOK(file, list) /\ ListOK(file, list)
      /\ list \in Seq(Seq(Nat))
  BY DEF LiveInv, TodoOK, ListOK
<1>3. ContsOK(stack, list, U, client) /\ Covered(stack, list, U, client)
  BY <1>1, <1>2, ClientTail
<1>4. Len(list) \in Nat BY <1>2, SeqFacts
<1>5. Ordered(G, got, client.files) BY <1>1, OrderKept
<1>6. Upto(G, got, client.files, Reach(list, client))
  <2> DEFINE b == Reach(list, client)
  <2>1. b \in Int /\ b <= b BY <1>1, <1>4, ReachIs
  <2>2. \A f \in 1 .. Len(file) : file[f].cont \in Nat BY <1>2, ContNat
  <2>3. Upto(file, got, client.files, b) BY <1>1
  <2> HIDE DEF b
  <2>4. Upto(G, got, client.files, b) BY <1>1, <2>1, <2>2, <2>3, UptoKept
  <2> QED BY <2>4 DEF b
<1>7. Heard(G, list, client, got)
  <2>1. \A x \in 1 .. Len(list) : x \notin 1 .. Len(list) => list[x] = <<>> OBVIOUS
  <2>2. \A x \in 1 .. Len(list) : list[x] = list[x] OBVIOUS
  <2> QED BY <1>1, <1>2, <1>4, <2>1, <2>2, HeardKept
<1> QED BY <1>1, <1>3, <1>5, <1>6, <1>7 DEF Rest

\* Only what is signalled of a file, or the end of it, can concern its client.
Telling(y, x, b) ==
  /\ ~b => x.seen = y.seen
  /\ x.active = y.active \/ (b /\ ~x.active)

LEMMA SignalPart ==
  ASSUME LiveInv, todo # <<>>, ~IsStart(todo[1]), NEW f \in 1 .. Len(file), NEW x, NEW G,
         Signalled(file, f, x, G), FilesOK(G, list), file' = G, NEW b, Telling(file[f], x, b),
         NEW U, U = Tail(todo), NEW a, a = (b /\ client.sub = f),
         IF On /\ a THEN Callback(fileUpdated(client, f)) ELSE UNCHANGED <<client, got>>
  PROVE  ClientPart(G, stack, list, U, client', got')
<1>1. /\ Grown(file, G) /\ Len(G) = Len(file) /\ G[f] = x
      /\ \A y \in 1 .. Len(file) : y # f => G[y] = file[y]
  BY DEF Signalled
<1>2. f # StateFile /\ f # NoFile
  <2>1. Len(file) <= MaxFiles /\ file \in Seq(FileRec) BY DEF LiveInv, FilesOK
  <2>2. Len(file) \in Nat BY <2>1, SeqFacts
  <2>3. MaxFiles \in Nat BY LiveAssumption
  <2> QED BY <2>1, <2>2, <2>3 DEF StateFile, NoFile
<1>3. Ordered(G, got, client.files) BY <1>1, SameOrdered, OrderKept
<1>4. CASE ~On
  <2>1. client' = client /\ got' = got BY <1>4
  <2> QED BY <1>3, <1>4, <2>1, SameOrdered DEF ClientPart, On
<1>5. ASSUME On
      PROVE  /\ Rest(G, stack, list, U, client, got) /\ SubOK(file, client)
             /\ Woken(file, client) /\ Ordered(file, got, client.files)
             /\ client \in ClientRec /\ client.phase = "on"
             /\ client.files # <<>> => IsFile(file, client.files[1].file)
  <2>1. Rest(G, stack, list, U, client, got) BY <1>1, <1>5, SignalRest
  <2>2. SubOK(file, client) /\ Woken(file, client) BY <1>5 DEF LiveInv, ClientOK
  <2>3. client.files # <<>> => IsFile(file, client.files[1].file)
    <3>1. client.files \in Seq(ListRec) BY SameOrdered DEF ClientRec
    <3>2. client.files # <<>> => 1 \in 1 .. Len(client.files) BY <3>1, SeqFacts
    <3> QED BY <3>2, SameOrdered, Zenon DEF Ordered
  <2> QED BY <1>5, <2>1, <2>2, <2>3, SameOrdered DEF On
<1> DEFINE y == client.files[1].file
<1>6. ASSUME IsFile(file, y), y # f PROVE y # StateFile => G[y] = file[y]
  BY <1>1, <1>6 DEF IsFile
<1>7. CASE On /\ ~a
  <2>1. client' = client /\ got' = got BY <1>7
  <2>2. SubOK(file, client) /\ Woken(file, client)
        /\ (client.files # <<>> => IsFile(file, y))
    BY <1>5, <1>7
  <2> HIDE DEF y
  <2>3. client.files # <<>> => client.sub = IF IsActive(file, y) THEN y ELSE NoFile
    BY <2>2 DEF SubOK, y
  <2>4. client.files # <<>> => (IsActive(G, y) <=> IsActive(file, y))
    <3>1. CASE client.files # <<>> /\ y = f
      <4>1. CASE x.active = file[f].active BY <1>1, <3>1, <4>1 DEF IsActive
      <4>2. CASE b /\ ~x.active
        <5>1. client.sub # f BY <1>7, <4>2
        <5>2. ~IsActive(file, y) BY <2>3, <3>1, <5>1
        <5>3. ~IsActive(G, y) BY <1>1, <3>1, <4>2 DEF IsActive
        <5> QED BY <5>2, <5>3
      <4> QED BY <4>1, <4>2 DEF Telling
    <3>2. CASE client.files # <<>> /\ y # f BY <1>6, <2>2, <3>2 DEF IsActive
    <3> QED BY <3>1, <3>2
  <2>5. SubOK(G, client) BY <2>2, <2>4 DEF SubOK, y
  <2>6. Woken(G, client)
    <3> SUFFICES ASSUME ~client.write, client.files # <<>>
                 PROVE  IsActive(G, y) /\ client.files[1].off >= G[y].seen
      BY DEF Woken, y
    <3>1. IsActive(file, y) /\ client.files[1].off >= file[y].seen BY <2>2 DEF Woken, y
    <3>2. client.sub = y BY <2>3, <3>1
    <3>3. G[y].seen = file[y].seen
      <4>1. CASE y = f
        <5>1. ~b BY <1>7, <3>2, <4>1
        <5> QED BY <1>1, <4>1, <5>1 DEF Telling
      <4>2. CASE y # f BY <1>6, <2>2, <3>1, <4>2 DEF IsActive
      <4> QED BY <4>1, <4>2
    <3> QED BY <2>4, <3>1, <3>3
  <2>7. ClientOK(G, stack, list, U, client, got) BY <1>5, <1>7, <2>5, <2>6 DEF Rest, ClientOK
  <2> QED BY <1>3, <2>1, <2>7, SameOrdered DEF ClientPart
<1>8. CASE On /\ a
  <2>1. b /\ client.sub = f BY <1>8
  <2>2. client.files # <<>> /\ y = f BY <1>2, <1>5, <1>8, <2>1 DEF SubOK
  <2> DEFINE c == IF ActiveFile(f) THEN client ELSE [client EXCEPT !.sub = NoFile]
  <2>3. SameClient(client, c) /\ c.files = client.files /\ SubOK(G, c)
    <3>1. CASE ActiveFile(f)
      <4>1. IsActive(G, f) BY <3>1 DEF ActiveFile, IsActive
      <4>2. SubOK(G, client) BY <2>1, <2>2, <4>1 DEF SubOK
      <4>3. SameClient(client, client) BY SameOrdered DEF SameClient
      <4> QED BY <3>1, <4>2, <4>3
    <3>2. CASE ~ActiveFile(f)
      <4> DEFINE d == [client EXCEPT !.sub = NoFile]
      <4>1. ~IsActive(G, f) BY <3>2 DEF ActiveFile, IsActive
      <4>2. SameClient(client, d) /\ d.files = client.files /\ d.sub = NoFile
        <5>1. NoFile \in Nat BY DEF NoFile
        <5> QED BY <5>1, SameOrdered DEF ClientRec, SameClient
      <4> HIDE DEF d
      <4>3. SubOK(G, d) BY <2>2, <4>1, <4>2 DEF SubOK
      <4>4. c = d BY <3>2 DEF d
      <4> QED BY <4>2, <4>3, <4>4
    <3> QED BY <3>1, <3>2
  <2>4. PICK r \in TryToSend(c, got) : client' = r.c /\ got' = r.got
    BY <1>8, Zenon DEF Callback, fileUpdated
  <2> HIDE DEF c
  <2>5. Ready(G, stack, list, U, c, got)
    <3>1. Rest(G, stack, list, U, c, got) BY <1>5, <1>8, <2>3, RestSame
    <3> QED BY <2>3, <3>1, ReadyRest
  <2>6. Outcome(G, c, got, r.c, r.got)
    <3>1. sendPaused \in BOOLEAN BY DEF LiveInv
    <3>2. c \in ClientRec /\ got \in Seq(ChunkRec) /\ Ordered(G, got, c.files)
      BY <2>5 DEF Ready
    <3> QED BY <2>3, <2>4, <3>1, <3>2, TryIs
  <2>7. ClientPart(G, stack, list, U, r.c, r.got) BY <2>5, <2>6, OutcomeKept
  <2> QED BY <2>4, <2>7
<1> QED BY <1>4, <1>7, <1>8

LEMMA SignalKept ==
  ASSUME LiveInv, todo # <<>>, todo' = Tail(todo), ~IsStart(todo[1]),
         NEW f \in 1 .. Len(file), NEW x, OfFile(file[f], x), NEW b, Telling(file[f], x, b),
         file' = [file EXCEPT ![f] = x], UNCHANGED list,
         NEW a, a = (b /\ client.sub = f),
         IF On /\ a THEN Callback(fileUpdated(client, f)) ELSE UNCHANGED <<client, got>>,
         UNCHANGED <<stack, index, pulseTime, nextIndex, server>>
  PROVE  LiveInv'
<1> DEFINE G == [file EXCEPT ![f] = x]
<1>1. FilesOK(file, list) /\ ListOK(file, list) /\ list \in Seq(Seq(Nat)) /\ list' = list
  BY DEF LiveInv, ListOK
<1>2. Signalled(file, f, x, G) /\ FilesOK(G, list) BY <1>1, SignalledIs
<1>3. file' = G OBVIOUS
<1> HIDE DEF G
<1>4. ClientPart(G, stack, list, Tail(todo), client', got') BY <1>2, <1>3, SignalPart
<1>5. Grown(file, G) /\ Len(G) = Len(file) BY <1>2 DEF Signalled
<1>6. ListOK(G, list)
  <2>1. \A c, q : AllOf(file, c, q) => AllOf(G, c, q) BY <1>5, GrownKept
  <2> QED BY <1>1, <2>1 DEF ListOK
<1>7. Later(list, todo, list) BY <1>1, SeqFacts DEF Later
<1> QED BY <1>1, <1>2, <1>3, <1>4, <1>5, <1>6, <1>7, DeliverStep

LEMMA SignalFile ==
  ASSUME LiveInv, todo # <<>>, NEW e, e = Head(todo), e.op \in {"write", "close"}
  PROVE  e.file \in 1 .. Len(file) /\ file[e.file] \in FileRec /\ ~IsStart(todo[1])
         /\ file[e.file].size >= 1 /\ file[e.file].seen <= file[e.file].size
<1>1. todo \in Seq(TodoRec) /\ file \in Seq(FileRec) BY DEF LiveInv, TodoOK, FilesOK
<1>2. e = todo[1] /\ 1 \in 1 .. Len(todo) BY <1>1, TailIs, SeqFacts
<1>3. EventOK(file, list, e) BY <1>2 DEF LiveInv, TodoOK
<1>4. e.file \in 1 .. Len(file) BY <1>3 DEF EventOK
<1>5. file[e.file] \in FileRec BY <1>1, <1>4, SeqFacts
<1>6. ~IsStart(todo[1]) BY <1>2 DEF IsStart
<1> QED BY <1>4, <1>5, <1>6 DEF LiveInv, FilesOK

LEMMA GrownOne ==
  ASSUME NEW y \in FileRec, y.seen <= y.size, NEW n \in BOOLEAN, NEW x,
         x = [y EXCEPT !.size = y.size + 1, !.seen = IF n THEN y.size + 1 ELSE y.seen]
  PROVE  OfFile(y, x) /\ Telling(y, x, n)
<1> DEFINE m == y.size + 1
           s == IF n THEN m ELSE y.seen
<1>1. m \in Nat /\ s \in Nat /\ m >= 1 /\ s <= m BY DEF FileRec
<1>2. x = [y EXCEPT !.size = m, !.seen = s] OBVIOUS
<1>3. ~n => s = y.seen OBVIOUS
<1> HIDE DEF m, s
<1>4. /\ x \in FileRec /\ x.cont = y.cont /\ x.paused = y.paused /\ x.active = y.active
      /\ x.size = m /\ x.seen = s
  BY ONLY y \in FileRec, <1>1, <1>2 DEF FileRec
<1> QED BY <1>1, <1>3, <1>4 DEF OfFile, Telling

LEMMA ClosedOne ==
  ASSUME NEW y \in FileRec, y.seen <= y.size, NEW x,
         x = [y EXCEPT !.size = y.size + 1, !.active = FALSE]
  PROVE  OfFile(y, x) /\ Telling(y, x, TRUE)
<1> DEFINE m == y.size + 1
<1>1. m \in Nat /\ m >= 1 /\ y.seen <= m BY DEF FileRec
<1>2. x = [y EXCEPT !.size = m, !.active = FALSE] OBVIOUS
<1> HIDE DEF m
<1>3. /\ x \in FileRec /\ x.cont = y.cont /\ x.paused = y.paused /\ x.active = FALSE
      /\ x.size = m /\ x.seen = y.seen
  BY ONLY y \in FileRec, <1>1, <1>2 DEF FileRec
<1> QED BY <1>1, <1>3 DEF OfFile, Telling

LEMMA WriteKept ==
  ASSUME LiveInv, todo # <<>>, todo' = Tail(todo), NEW e, e = Head(todo), e.op = "write",
         DeliverWrite(e), UNCHANGED <<stack, index, pulseTime, nextIndex, server>>
  PROVE  LiveInv'
<1> DEFINE f == e.file
           b == e.notify
           x == [file[f] EXCEPT !.size = file[f].size + 1,
                                !.seen = IF b THEN file[f].size + 1 ELSE file[f].seen]
           a == b /\ client.sub = f
<1>1. f \in 1 .. Len(file) /\ file[f] \in FileRec /\ ~IsStart(todo[1])
      /\ file[f].seen <= file[f].size
  BY SignalFile
<1>2. b \in BOOLEAN
  <2>1. todo \in Seq(TodoRec) BY DEF LiveInv, TodoOK
  <2>2. e \in TodoRec BY <2>1, TailIs, SeqFacts
  <2> QED BY <2>2 DEF TodoRec
<1>3. file' = [file EXCEPT ![f] = x]
  <2>1. file' = [file EXCEPT ![f].size = @ + 1,
                             ![f].seen = IF b THEN file[f].size + 1 ELSE @]
    BY DEF DeliverWrite
  <2> HIDE DEF f, b
  <2> QED BY ONLY <2>1
<1>4. UNCHANGED list
      /\ IF On /\ a THEN Callback(fileUpdated(client, f)) ELSE UNCHANGED <<client, got>>
  BY DEF DeliverWrite
<1> HIDE DEF b
<1>5. OfFile(file[f], x) /\ Telling(file[f], x, b) BY <1>1, <1>2, GrownOne
<1> HIDE DEF x, a
<1>6. a = (b /\ client.sub = f) BY DEF a
<1> HIDE DEF f
<1> QED BY <1>1, <1>3, <1>4, <1>5, <1>6, SignalKept

LEMMA CloseKept ==
  ASSUME LiveInv, todo # <<>>, todo' = Tail(todo), NEW e, e = Head(todo), e.op = "close",
         DeliverClose(e), UNCHANGED <<stack, index, pulseTime, nextIndex, server>>
  PROVE  LiveInv'
<1> DEFINE f == e.file
           x == [file[f] EXCEPT !.size = file[f].size + 1, !.active = FALSE]
           a == TRUE /\ client.sub = f
<1>1. f \in 1 .. Len(file) /\ file[f] \in FileRec /\ ~IsStart(todo[1])
      /\ file[f].seen <= file[f].size
  BY SignalFile
<1>2. file' = [file EXCEPT ![f] = x]
  <2>1. file' = [file EXCEPT ![f].size = @ + 1, ![f].active = FALSE] BY DEF DeliverClose
  <2> HIDE DEF f
  <2> QED BY ONLY <2>1
<1>3. UNCHANGED list
      /\ IF On /\ a THEN Callback(fileUpdated(client, f)) ELSE UNCHANGED <<client, got>>
  BY DEF DeliverClose
<1>4. OfFile(file[f], x) /\ Telling(file[f], x, TRUE) BY <1>1, ClosedOne
<1> HIDE DEF x, a
<1>5. a = (TRUE /\ client.sub = f) BY DEF a
<1> HIDE DEF f
<1> QED BY <1>1, <1>2, <1>3, <1>4, <1>5, SignalKept

\* The same client, but for the containers it knows of.
SameSender(c, d) ==
  /\ d \in ClientRec /\ d.phase = c.phase /\ d.files = c.files /\ d.sub = c.sub
  /\ d.write = c.write /\ d.joined = c.joined /\ d.known = c.known
Recont(c, q, s, d) == d = [c EXCEPT !.conts = q, !.contSub = s]

LEMMA RecontSame ==
  ASSUME NEW c \in ClientRec, NEW q \in Seq(ContRec), NEW s \in Nat, NEW d, Recont(c, q, s, d)
  PROVE  SameSender(c, d) /\ d.conts = q /\ d.contSub = s
BY DEF ClientRec, SameSender, Recont

LEMMA RecontPart ==
  ASSUME NEW F, NEW S, NEW L, NEW M, NEW T, NEW U, NEW c, NEW g, ClientPart(F, S, L, T, c, g),
         c.phase = "on", NEW d, SameSender(c, d), Upto(F, g, c.files, Reach(M, d)),
         Heard(F, M, d, g), ContsOK(S, M, U, d), Covered(S, M, U, d)
  PROVE  ClientPart(F, S, M, U, d, g)
<1>1. SubOK(F, d) /\ Woken(F, d) BY DEF ClientPart, ClientOK, SubOK, Woken, SameSender
<1>2. Upto(F, g, d.files, Reach(M, d)) /\ Ordered(F, g, d.files)
  BY DEF ClientPart, SameSender
<1>3. ClientOK(F, S, M, U, d, g) BY <1>1, <1>2 DEF ClientOK
<1> QED BY <1>2, <1>3 DEF ClientPart, SameSender

LEMMA NowPart == LiveInv => ClientPart(file, stack, list, todo, client, got)
BY DEF LiveInv, ClientPart, On

\* The container id is known of, too.
Behind(p, id, q) ==
  /\ q \in Seq(ContRec) /\ Len(q) = Len(p) + 1 /\ Len(p) \in Nat /\ (p = <<>> <=> Len(p) = 0)
  /\ \A n \in 1 .. Len(p) : n \in 1 .. Len(q) /\ q[n] = p[n]
  /\ Len(q) \in 1 .. Len(q) /\ q[Len(q)].cont = id /\ q[Len(q)].starting
  /\ \A n \in 1 .. Len(q) : n \in 1 .. Len(p) \/ n = Len(q)
  /\ q # <<>>

LEMMA BehindIs ==
  ASSUME NEW p \in Seq(ContRec), NEW id \in Nat, NEW q,
         q = Append(p, [cont |-> id, starting |-> TRUE])
  PROVE  Behind(p, id, q)
<1> DEFINE x == [cont |-> id, starting |-> TRUE]
<1>1. x \in ContRec /\ x.cont = id /\ x.starting BY DEF ContRec
<1>2. q = Append(p, x) OBVIOUS
<1> HIDE DEF x
<1>3. Len(p) \in Nat /\ (p = <<>> <=> Len(p) = 0) BY SeqFacts
<1>4. /\ q \in Seq(ContRec) /\ Len(q) = Len(p) + 1
      /\ \A i \in 1 .. Len(p) : i \in 1 .. Len(p) + 1 /\ q[i] = p[i]
      /\ q[Len(p) + 1] = x /\ Len(p) + 1 \in 1 .. Len(p) + 1
      /\ \A i \in 1 .. Len(p) + 1 : i \in 1 .. Len(p) \/ i = Len(p) + 1
  BY <1>1, <1>2, AddIs
<1>5. q # <<>> BY <1>3, <1>4
<1> QED BY <1>1, <1>3, <1>4, <1>5, Zenon DEF Behind

LEMMA StartPart ==
  ASSUME LiveInv, On, todo # <<>>, IsStart(todo[1]), NEW id, todo[1].cont = id,
         NEW d, NEW q, Behind(client.conts, id, q), SameSender(client, d), d.conts = q,
         d.contSub = ConnectCont(client, id), NEW U, U = Tail(todo)
  PROVE  ClientPart(file, stack, list, U, d, got)
<1> DEFINE N == Len(client.conts)
           p == client.conts
<1>1. /\ TodoOK(file, stack, list, todo) /\ todo \in Seq(TodoRec)
      /\ ContsOK(stack, list, todo, client) /\ Covered(stack, list, todo, client)
      /\ Upto(file, got, client.files, Reach(list, client)) /\ Heard(file, list, client, got)
  BY NowReady DEF LiveInv, TodoOK, Ready
<1>2. 1 \in 1 .. Len(todo) BY <1>1, SeqFacts
<1>3. /\ id = Len(list) /\ id \in 1 .. Len(list)
      /\ \A n \in 1 .. Len(todo) : n # 1 => ~IsStart(todo[n])
  <2>1. EventOK(file, list, todo[1]) BY <1>1, <1>2, Zenon DEF TodoOK
  <2>2. /\ id = Len(list)
        /\ \A n \in 1 .. Len(todo) : n # 1 => ~IsStart(todo[n])
    BY <1>1, <1>2, Zenon DEF TodoOK
  <2>3. id \in 1 .. Len(list) BY <2>1 DEF EventOK, IsStart
  <2> QED BY <2>2, <2>3
<1>4. /\ \A n \in 1 .. Len(U) : ~IsStart(U[n])
      /\ \A x : Done(stack, todo, x) => Done(stack, U, x)
  <2>1. \A n \in 1 .. Len(U) : n + 1 \in 1 .. Len(todo) /\ U[n] = todo[n + 1]
    BY <1>1, TailEvents
  <2>2. \A n \in 1 .. Len(U) : n + 1 # 1 OBVIOUS
  <2> QED BY <1>1, <1>3, <2>1, <2>2, TailDone
<1>5. /\ q \in Seq(ContRec) /\ Len(q) = N + 1 /\ N \in Nat /\ (p = <<>> <=> N = 0)
      /\ \A n \in 1 .. N : n \in 1 .. Len(q) /\ q[n] = p[n]
      /\ Len(q) \in 1 .. Len(q) /\ q[Len(q)].cont = id /\ q[Len(q)].starting
      /\ \A n \in 1 .. Len(q) : n \in 1 .. N \/ n = Len(q)
      /\ q # <<>>
  BY Zenon DEF Behind
<1>6. IF p = <<>> THEN client.contSub = NoCont /\ d.contSub = id /\ q[1].cont = id
                       /\ q[1].starting
      ELSE /\ client.contSub = p[1].cont /\ d.contSub = client.contSub /\ q[1] = p[1]
           /\ p[1].starting /\ 1 \in 1 .. N
  <2>1. CASE p = <<>>
    <3>1. client.contSub = NoCont BY <1>1, <2>1 DEF ContsOK
    <3>2. Len(q) = 1 BY <1>5, <2>1
    <3> QED BY <1>5, <2>1, <3>1, <3>2 DEF ConnectCont
  <2>2. CASE p # <<>>
    <3>1. client.contSub = p[1].cont /\ p[1].starting BY <1>1, <2>2 DEF ContsOK
    <3>2. 1 \in 1 .. N BY <1>5, <2>2
    <3>3. p[1].cont \in 1 .. Len(list) BY <1>1, <3>2, Zenon DEF ContsOK
    <3>4. p[1].cont # NoCont BY <3>3 DEF NoCont
    <3> QED BY <1>5, <2>2, <3>1, <3>2, <3>4 DEF ConnectCont
  <2> QED BY <2>1, <2>2
<1> HIDE DEF N, p
<1>7. \A n \in 1 .. N : /\ p[n].cont \in 1 .. Len(list) /\ p[n].cont < id
                        /\ (~p[n].starting => Done(stack, todo, p[n].cont))
                        /\ \A m \in 1 .. N : n < m => p[n].cont < p[m].cont
  BY <1>1, <1>2, Zenon DEF ContsOK, N, p
<1>8. ContsOK(stack, list, U, d)
  <2>1. \A n \in 1 .. Len(q) : q[n].cont \in 1 .. Len(list)
    <3> SUFFICES ASSUME NEW n \in 1 .. Len(q) PROVE q[n].cont \in 1 .. Len(list)
      OBVIOUS
    <3>1. CASE n \in 1 .. N BY <1>5, <1>7, <3>1
    <3>2. CASE n = Len(q) BY <1>3, <1>5, <3>2
    <3> QED BY <1>5, <3>1, <3>2
  <2>2. \A n, m \in 1 .. Len(q) : n < m => q[n].cont < q[m].cont
    <3> SUFFICES ASSUME NEW n \in 1 .. Len(q), NEW m \in 1 .. Len(q), n < m
                 PROVE  q[n].cont < q[m].cont
      OBVIOUS
    <3>1. n \in 1 .. N BY <1>5
    <3>2. CASE m \in 1 .. N BY <1>5, <1>7, <3>1, <3>2
    <3>3. CASE m = Len(q) BY <1>5, <1>7, <3>1, <3>3
    <3> QED BY <1>5, <3>2, <3>3
  <2>3. \A n \in 1 .. Len(q) : ~q[n].starting => Done(stack, U, q[n].cont)
    <3> SUFFICES ASSUME NEW n \in 1 .. Len(q), ~q[n].starting PROVE Done(stack, U, q[n].cont)
      OBVIOUS
    <3>1. n \in 1 .. N BY <1>5
    <3> QED BY <1>4, <1>5, <1>7, <3>1
  <2>4. q[1].starting /\ d.contSub = q[1].cont BY <1>6
  <2> QED BY <1>4, <1>5, <2>1, <2>2, <2>3, <2>4 DEF ContsOK
<1>9. Reach(list, d) = Reach(list, client)
  BY <1>3, <1>5, <1>6 DEF Reach, p
<1>10. \A x : Waits(client, x) => Waits(d, x) BY <1>5 DEF Waits, N, p
<1>11. Heard(file, list, d, got) BY <1>1, <1>10 DEF Heard, SameSender
<1>12. Covered(stack, list, U, d)
  <2> SUFFICES ASSUME NEW x \in 1 .. Len(list)
               PROVE  x < d.joined \/ x = d.contSub \/ Waits(d, x) \/ Done(stack, U, x)
    BY Zenon DEF Covered
  <2>1. \/ x < client.joined \/ x = client.contSub \/ Waits(client, x) \/ Done(stack, todo, x)
        \/ \E n \in 1 .. Len(todo) : IsStart(todo[n]) /\ todo[n].cont = x
    BY <1>1, Zenon DEF Covered
  <2>2. CASE x < client.joined BY <2>2 DEF SameSender
  <2>3. CASE x = client.contSub
    <3>1. x # NoCont BY DEF NoCont
    <3> QED BY <1>6, <2>3, <3>1
  <2>4. CASE Waits(client, x) BY <1>10, <2>4
  <2>5. CASE Done(stack, todo, x) BY <1>4, <2>5
  <2>6. CASE \E n \in 1 .. Len(todo) : IsStart(todo[n]) /\ todo[n].cont = x
    <3>1. x = id BY <1>3, <2>6
    <3>2. CASE p = <<>> BY <1>6, <3>1, <3>2
    <3>3. CASE p # <<>>
      <4>1. Len(q) # 1 BY <1>5, <3>3
      <4> QED BY <1>5, <3>1, <4>1 DEF Waits
    <3> QED BY <3>2, <3>3
  <2> QED BY <2>1, <2>2, <2>3, <2>4, <2>5, <2>6
<1>13. ClientPart(file, stack, list, todo, client, got) /\ client.phase = "on"
  BY NowPart DEF On
<1>14. Upto(file, got, client.files, Reach(list, d)) BY <1>1, <1>9
<1> QED BY <1>8, <1>11, <1>12, <1>13, <1>14, RecontPart

\* u holds all the files announced of the first k containers of p, in order.
Whole(F, L, p, k, u) ==
  /\ u \in Seq(Nat)
  /\ \A i \in 1 .. Len(u) : \E n \in 1 .. k : OfCont(F, p[n].cont, u[i])
  /\ \A i, j \in 1 .. Len(u) : i < j => F[u[i]].cont <= F[u[j]].cont
  /\ \A n \in 1 .. k : \A i \in 1 .. Len(L[p[n].cont]) :
       \E j \in 1 .. Len(u) : u[j] = L[p[n].cont][i]
\* Containers of L, in order.
Rising(L, p) ==
  /\ p \in Seq(ContRec)
  /\ \A n \in 1 .. Len(p) : p[n].cont \in 1 .. Len(L)
  /\ \A n, m \in 1 .. Len(p) : n < m => p[n].cont < p[m].cont

LEMMA WholeMore ==
  ASSUME NEW F, NEW L, ListOK(F, L), FilesOK(F, L), NEW p, Rising(L, p), NEW k \in Nat,
         k + 1 \in 1 .. Len(p), NEW u, Whole(F, L, p, k, u),
         NEW v, v = u \o L[p[k + 1].cont]
  PROVE  Whole(F, L, p, k + 1, v)
<1> DEFINE K == k + 1
           x == p[K].cont
           q == L[x]
<1>1. \A n \in 1 .. K : n \in 1 .. k \/ n = K OBVIOUS
<1>2. \A n \in 1 .. k : n \in 1 .. K /\ n < K /\ n \in 1 .. Len(p) OBVIOUS
<1>3. K \in 1 .. Len(p) /\ K \in 1 .. K OBVIOUS
<1> HIDE DEF K
<1>4. x \in 1 .. Len(L) /\ \A n \in 1 .. k : p[n].cont < x
  BY <1>2, <1>3, Zenon DEF Rising
<1>5. q \in Seq(Nat) /\ AllOf(F, x, q)
  <2>1. L \in Seq(Seq(Nat)) BY DEF ListOK
  <2>2. q \in Seq(Nat) BY <1>4, <2>1, SeqFacts
  <2> QED BY <1>4, <2>2, Zenon DEF ListOK
<1>6. u \in Seq(Nat) BY DEF Whole
<1>7. v = u \o q BY DEF K
<1>8. v \in Seq(Nat) /\ JoinOf(v, u, q) BY <1>5, <1>6, <1>7, JoinIs
<1> HIDE DEF x, q
<1>9. \A i \in 1 .. Len(q) : OfCont(F, x, q[i]) BY <1>5 DEF AllOf
<1>10. \A n \in 1 .. Len(v) :
         \/ n \in 1 .. Len(u) /\ v[n] = u[n]
         \/ \E i \in 1 .. Len(q) : n = Len(u) + i /\ v[n] = q[i]
  BY <1>8, Zenon DEF JoinOf
<1>11. x = p[K].cont BY DEF x
<1>12. ASSUME NEW i \in 1 .. Len(v) PROVE \E n \in 1 .. K : OfCont(F, p[n].cont, v[i])
  <2>1. CASE i \in 1 .. Len(u) /\ v[i] = u[i]
    <3>1. \E n \in 1 .. k : OfCont(F, p[n].cont, u[i]) BY <2>1, Zenon DEF Whole
    <3> QED BY <1>2, <2>1, <3>1
  <2>2. CASE \E m \in 1 .. Len(q) : v[i] = q[m] BY <1>3, <1>9, <1>11, <2>2
  <2> QED BY <1>10, <2>1, <2>2
<1>13. \A i \in 1 .. Len(u) : u[i] \in 1 .. Len(F) /\ F[u[i]].cont < x
  <2> SUFFICES ASSUME NEW i \in 1 .. Len(u) PROVE u[i] \in 1 .. Len(F) /\ F[u[i]].cont < x
    OBVIOUS
  <2>1. PICK n \in 1 .. k : OfCont(F, p[n].cont, u[i]) BY Zenon DEF Whole
  <2> QED BY <1>4, <2>1 DEF OfCont
<1>14. ASSUME NEW i \in 1 .. Len(v), NEW j \in 1 .. Len(v), i < j
       PROVE  F[v[i]].cont <= F[v[j]].cont
  <2>0. \A f \in 1 .. Len(F) : F[f].cont \in Nat BY ContNat
  <2>1. CASE i \in 1 .. Len(u) /\ v[i] = u[i]
    <3>1. CASE j \in 1 .. Len(u) /\ v[j] = u[j] BY <1>14, <2>1, <3>1, Zenon DEF Whole
    <3>2. CASE \E m \in 1 .. Len(q) : v[j] = q[m]
      <4>1. F[v[j]].cont = x BY <1>9, <3>2 DEF OfCont
      <4>2. F[v[i]].cont < x /\ v[i] \in 1 .. Len(F) BY <1>13, <2>1
      <4>3. F[v[i]].cont \in Nat BY <2>0, <4>2, Zenon
      <4>4. x \in Int
        <5>1. x \in 1 .. Len(L) BY <1>4
        <5> QED BY <5>1
      <4> DEFINE a == F[v[i]].cont
                 b == F[v[j]].cont
      <4>5. a < x /\ a \in Nat /\ b = x BY <4>1, <4>2, <4>3
      <4> HIDE DEF a, b
      <4>6. a <= b BY ONLY <4>4, <4>5
      <4> QED BY <4>6 DEF a, b
    <3> QED BY <1>10, <3>1, <3>2
  <2>2. CASE \E m \in 1 .. Len(q) : i = Len(u) + m /\ v[i] = q[m]
    <3>1. ~(j \in 1 .. Len(u))
      <4>1. Len(u) \in Nat BY <1>6, SeqFacts
      <4> QED BY <1>14, <2>2, <4>1
    <3>2. F[v[i]].cont = x /\ F[v[j]].cont = x BY <1>9, <1>10, <2>2, <3>1 DEF OfCont
    <3>3. x \in Int BY <1>4
    <3> QED BY <3>2, <3>3
  <2> QED BY <1>10, <2>1, <2>2
<1>15. ASSUME NEW n \in 1 .. K, NEW i \in 1 .. Len(L[p[n].cont])
       PROVE  \E j \in 1 .. Len(v) : v[j] = L[p[n].cont][i]
  <2>1. CASE n \in 1 .. k
    <3>1. PICK j \in 1 .. Len(u) : u[j] = L[p[n].cont][i] BY <1>15, <2>1, Zenon DEF Whole
    <3>2. j \in 1 .. Len(v) /\ v[j] = u[j] BY <1>8, Zenon DEF JoinOf
    <3> QED BY <3>1, <3>2
  <2>2. CASE n = K
    <3>1. i \in 1 .. Len(q) /\ q[i] = L[p[n].cont][i] BY <1>11, <1>15, <2>2 DEF q
    <3>2. Len(u) + i \in 1 .. Len(v) /\ v[Len(u) + i] = q[i] BY <1>8, <3>1, Zenon DEF JoinOf
    <3> QED BY <3>1, <3>2
  <2> QED BY <1>1, <2>1, <2>2
<1>16. Whole(F, L, p, K, v) BY <1>8, <1>12, <1>14, <1>15, Zenon DEF Whole
<1> QED BY <1>16 DEF K

LEMMA WholeIs ==
  ASSUME NEW F, NEW L, ListOK(F, L), FilesOK(F, L), NEW p, Rising(L, p), NEW k \in 0 .. Len(p),
         NEW u, u = FlattenSeq([n \in 1 .. k |-> L[p[n].cont]])
  PROVE  Whole(F, L, p, k, u)
<1> DEFINE N == Len(p)
           ss == [n \in 1 .. N |-> L[p[n].cont]]
           flat(n) == FlattenSeq([m \in 1 .. n |-> ss[m]])
           B == {n \in Nat : n <= N => Whole(F, L, p, n, flat(n))}
<1>1. N \in Nat BY SeqFacts DEF Rising
<1>2. \A n \in 1 .. N : ss[n] = L[p[n].cont] OBVIOUS
<1>3. \A n \in 1 .. N : ss[n] \in Seq(Nat)
  <2>1. L \in Seq(Seq(Nat)) BY DEF ListOK
  <2>2. \A n \in 1 .. N : p[n].cont \in 1 .. Len(L) BY DEF Rising
  <2>3. \A n \in 1 .. N : L[p[n].cont] \in Seq(Nat) BY <2>1, <2>2, SeqFacts
  <2> QED BY <1>2, <2>3
<1>4. u = flat(k)
  <2>1. [n \in 1 .. k |-> L[p[n].cont]] = [n \in 1 .. k |-> ss[n]] BY <1>1
  <2> QED BY <2>1
<1> HIDE DEF ss
<1>5. /\ flat(0) = <<>>
      /\ \A n \in 0 .. N - 1 : flat(n + 1) = flat(n) \o ss[n + 1]
  BY <1>1, <1>3, FlattenOne
<1> HIDE DEF flat
<1>6. 0 \in B
  <2>1. 1 .. 0 = {} /\ Len(<<>>) = 0 /\ <<>> \in Seq(Nat) OBVIOUS
  <2>2. Whole(F, L, p, 0, <<>>) BY <2>1, Zenon DEF Whole
  <2> QED BY <1>5, <2>2
<1>7. ASSUME NEW n \in Nat, n \in B PROVE n + 1 \in B
  <2> SUFFICES ASSUME n + 1 <= N PROVE Whole(F, L, p, n + 1, flat(n + 1))
    OBVIOUS
  <2>1. n \in 0 .. N - 1 /\ n <= N /\ n + 1 \in 1 .. N BY <1>1
  <2>2. Whole(F, L, p, n, flat(n)) BY <1>7, <2>1
  <2>3. flat(n + 1) = flat(n) \o L[p[n + 1].cont] BY <1>2, <1>5, <2>1
  <2> HIDE DEF B
  <2> QED BY <2>1, <2>2, <2>3, WholeMore
<1> HIDE DEF B
<1>8. \A n \in Nat : n \in B BY <1>6, <1>7, SetInduction
<1>9. k \in B /\ k <= N BY <1>1, <1>8
<1>10. Whole(F, L, p, k, flat(k)) BY <1>9 DEF B
<1> QED BY <1>4, <1>10

\* The entries of the files u, from their beginning.
Entries(u, es) ==
  /\ es \in Seq(ListRec) /\ Len(es) = Len(u)
  /\ \A i \in 1 .. Len(u) : es[i].file = u[i] /\ es[i].off = 0

LEMMA EntriesIs ==
  ASSUME NEW u \in Seq(Nat), NEW es, es = [k \in DOMAIN u |-> Entry(u[k], 0)]
  PROVE  Entries(u, es)
<1> DEFINE n == Len(u)
<1>1. n \in Nat /\ DOMAIN u = 1 .. n /\ \A i \in 1 .. n : u[i] \in Nat BY SeqFacts
<1>2. \A i \in 1 .. n : es[i] = Entry(u[i], 0) BY <1>1
<1>3. \A i \in 1 .. n : es[i] \in ListRec /\ es[i].file = u[i] /\ es[i].off = 0
  <2> SUFFICES ASSUME NEW i \in 1 .. n
               PROVE  es[i] \in ListRec /\ es[i].file = u[i] /\ es[i].off = 0
    OBVIOUS
  <2> DEFINE f == u[i]
  <2>1. f \in Nat /\ es[i] = Entry(f, 0) BY <1>1, <1>2
  <2> HIDE DEF f
  <2>2. es[i] \in ListRec /\ es[i].file = f /\ es[i].off = 0 BY <2>1 DEF Entry, ListRec
  <2> QED BY <2>2 DEF f
<1>4. es = [i \in 1 .. n |-> es[i]] BY <1>1
<1> HIDE DEF n
<1>5. es \in Seq(ListRec) /\ Len(es) = n BY <1>1, <1>3, <1>4, MapIs
<1> QED BY <1>3, <1>5 DEF Entries, n

LEMMA WholeFollowing ==
  ASSUME NEW F, NEW L, NEW p, Rising(L, p), Len(L) \in Nat, NEW k \in 1 .. Len(p), Len(p) \in Nat,
         NEW u, Whole(F, L, p, k, u), NEW es, Entries(u, es),
         NEW b \in Nat, \A n \in 1 .. Len(p) : b < p[n].cont
  PROVE  /\ Following(F, b, es) /\ Followed(F, es, p[k].cont)
         /\ Followed(F, es, Len(L))
<1>1. \A i \in 1 .. Len(es) : es[i].file = u[i] /\ es[i].off = 0 /\ i \in 1 .. Len(u)
  BY DEF Entries
<1>2. \A n \in 1 .. k : /\ n \in 1 .. Len(p) /\ p[n].cont <= p[k].cont
                        /\ p[n].cont \in 1 .. Len(L)
  <2> SUFFICES ASSUME NEW n \in 1 .. k
               PROVE  n \in 1 .. Len(p) /\ p[n].cont <= p[k].cont /\ p[n].cont \in 1 .. Len(L)
    OBVIOUS
  <2>1. n \in 1 .. Len(p) OBVIOUS
  <2>2. p[n].cont \in 1 .. Len(L) BY <2>1 DEF Rising
  <2>3. CASE n = k BY <2>1, <2>2, <2>3
  <2>4. CASE n # k
    <3>1. n < k BY <2>4
    <3>2. p[n].cont < p[k].cont /\ p[k].cont \in 1 .. Len(L) BY <2>1, <3>1, Zenon DEF Rising
    <3> QED BY <2>1, <2>2, <3>2
  <2> QED BY <2>3, <2>4
<1>3. ASSUME NEW i \in 1 .. Len(es)
      PROVE  /\ es[i].file \in 1 .. Len(F) /\ b <= F[es[i].file].cont
             /\ F[es[i].file].cont <= p[k].cont /\ F[es[i].file].cont <= Len(L)
  <2>1. PICK n \in 1 .. k : OfCont(F, p[n].cont, u[i]) BY <1>1, Zenon DEF Whole
  <2> DEFINE x == p[n].cont
             f == u[i]
  <2>2. f \in 1 .. Len(F) /\ F[f].cont = x BY <2>1 DEF OfCont
  <2>3. x <= p[k].cont /\ x \in 1 .. Len(L) /\ b < x BY <1>2
  <2> HIDE DEF x, f
  <2>4. es[i].file = f BY <1>1 DEF f
  <2>5. b <= x /\ x <= Len(L) BY <2>3
  <2> QED BY <2>2, <2>3, <2>4, <2>5
<1>4. \A i, j \in 1 .. Len(es) : i < j => F[es[i].file].cont <= F[es[j].file].cont
  <2> SUFFICES ASSUME NEW i \in 1 .. Len(es), NEW j \in 1 .. Len(es), i < j
               PROVE  F[es[i].file].cont <= F[es[j].file].cont
    OBVIOUS
  <2>1. F[u[i]].cont <= F[u[j]].cont BY <1>1, Zenon DEF Whole
  <2>2. es[i].file = u[i] /\ es[j].file = u[j] BY <1>1
  <2> QED BY <2>1, <2>2
<1>5. es \in Seq(ListRec) BY DEF Entries
<1>6. Following(F, b, es) BY <1>1, <1>3, <1>4, <1>5 DEF Following
<1>7. Followed(F, es, p[k].cont) /\ Followed(F, es, Len(L)) BY <1>3 DEF Followed
<1> QED BY <1>6, <1>7

InConts(q, x) == \E n \in 1 .. Len(q) : q[n].cont = x
\* What follows the container b that was followed.
Ahead(S, L, T, b, q) ==
  /\ Rising(L, q)
  /\ \A n \in 1 .. Len(q) : b < q[n].cont /\ (~q[n].starting => Done(S, T, q[n].cont))
  /\ \A p \in 1 .. Len(T) : IsStart(T[p]) =>
        \A n \in 1 .. Len(q) : q[n].cont < T[p].cont
\* The container b that was followed is over.
Parted(F, S, L, T, c, g, b) ==
  /\ c \in ClientRec /\ c.phase = "on" /\ g \in Seq(ChunkRec) /\ Ordered(F, g, c.files)
  /\ SubOK(F, c) /\ b \in Nat /\ b <= Len(L) /\ Upto(F, g, c.files, b) /\ c.contSub = NoCont
  /\ Ahead(S, L, T, b, c.conts)
  /\ \A x \in 1 .. Len(L) : \A i \in 1 .. Len(L[x]) :
       \/ x < c.joined \/ L[x][i] \in c.known \/ F[L[x][i]].paused
       \/ InConts(c.conts, x) \/ Counted(g, c.files, L[x][i])
  /\ \A x \in 1 .. Len(L) :
       \/ x < c.joined \/ InConts(c.conts, x) \/ Done(S, T, x)
       \/ \E p \in 1 .. Len(T) : IsStart(T[p]) /\ T[p].cont = x

LEMMA LeastIs ==
  ASSUME NEW D, D \subseteq Nat, D # {}
  PROVE  \E n \in D : \A m \in D : n <= m
<1> DEFINE B == {n \in Nat : \A m \in D : n <= m}
<1> SUFFICES ASSUME \A n \in D : ~(\A m \in D : n <= m) PROVE FALSE
  OBVIOUS
<1>1. 0 \in B OBVIOUS
<1>2. ASSUME NEW n \in Nat, n \in B PROVE n + 1 \in B
  <2>1. \A m \in D : n <= m BY <1>2
  <2>2. n \notin D BY <2>1
  <2>3. \A m \in D : n + 1 <= m
    <3> SUFFICES ASSUME NEW m \in D PROVE n + 1 <= m
      OBVIOUS
    <3>1. m \in Nat /\ n <= m /\ m # n BY <2>1, <2>2
    <3> QED BY <3>1
  <2> QED BY <2>3
<1>3. \A n \in Nat : n \in B
  <2> HIDE DEF B
  <2> QED BY <1>1, <1>2, SetInduction
<1>4. PICK m \in D : TRUE OBVIOUS
<1>5. m \in Nat /\ m + 1 \in B BY <1>3
<1>6. m + 1 <= m BY <1>5
<1> QED BY <1>5, <1>6

LEMMA UptoIs ==
  ASSUME NEW p \in Seq(ContRec), p # <<>>, NEW k, k = UptoOf(p)
  PROVE  /\ k \in 1 .. Len(p)
         /\ \A n \in 1 .. Len(p) : n < k => ~p[n].starting
         /\ IF OpenOf(p) = {} THEN k = Len(p) /\ ~p[k].starting ELSE p[k].starting
<1>1. DOMAIN p = 1 .. Len(p) /\ Len(p) \in 1 .. Len(p) /\ Len(p) \in Nat BY SeqFacts
<1>2. \A n : n \in OpenOf(p) <=> n \in 1 .. Len(p) /\ p[n].starting BY <1>1 DEF OpenOf
<1>3. CASE OpenOf(p) = {}
  <2>1. k = Len(p) BY <1>3 DEF UptoOf
  <2> QED BY <1>1, <1>2, <1>3, <2>1
<1>4. CASE OpenOf(p) # {}
  <2>1. \A m \in OpenOf(p) : m \in Nat /\ m >= 1 BY <1>2
  <2>2. \E n \in OpenOf(p) : \A m \in OpenOf(p) : n <= m
    <3>1. OpenOf(p) \subseteq Nat BY <2>1
    <3> QED BY <1>4, <3>1, LeastIs
  <2>3. k = CHOOSE n \in OpenOf(p) : \A m \in OpenOf(p) : n <= m BY <1>4 DEF UptoOf
  <2>4. k \in OpenOf(p) /\ \A m \in OpenOf(p) : k <= m BY <2>2, <2>3, Zenon
  <2>5. ASSUME NEW n \in 1 .. Len(p), n < k PROVE ~p[n].starting
    <3>1. n \in OpenOf(p) => k <= n BY <2>4
    <3>2. k \in Nat BY <2>1, <2>4
    <3>3. n \notin OpenOf(p) BY <2>5, <3>1, <3>2
    <3> QED BY <1>2, <3>3
  <2> QED BY <1>2, <1>4, <2>4, <2>5
<1> QED BY <1>3, <1>4

\* The files of the first k containers are listed, and the others are left.
Taken(F, L, c, k, d) ==
  \E u \in Seq(Nat) : \E es : /\ Whole(F, L, c.conts, k, u) /\ Entries(u, es)
                              /\ Pushed(F, c, es, d)

LEMMA TakeNextIs ==
  ASSUME NEW F, file' = F, NEW L, list' = L, ListOK(F, L), FilesOK(F, L), NEW c \in ClientRec,
         SubOK(F, c), Rising(L, c.conts), c.conts # <<>>, NEW r, r = TakeNext(c)
  PROVE  \E d : /\ Taken(F, L, c, UptoOf(c.conts), d)
                /\ IF OpenOf(c.conts) = {} THEN Recont(d, <<>>, NoCont, r)
                   ELSE Recont(d, SubSeq(c.conts, UptoOf(c.conts), Len(c.conts)),
                               c.conts[UptoOf(c.conts)].cont, r)
<1> DEFINE k == UptoOf(c.conts)
           fs == FlattenSeq([n \in 1 .. k |-> list'[c.conts[n].cont]])
           es == [n \in DOMAIN fs |-> Entry(fs[n], 0)]
           d == PushFiles(c, es)
<1>1. r = IF OpenOf(c.conts) = {} THEN [d EXCEPT !.conts = <<>>, !.contSub = NoCont]
          ELSE [d EXCEPT !.conts = SubSeq(@, k, Len(@)), !.contSub = d.conts[k].cont]
  BY DEF TakeNext
<1>2. k \in 1 .. Len(c.conts) /\ Len(c.conts) \in Nat
  <2>1. c.conts \in Seq(ContRec) BY DEF Rising
  <2> QED BY <2>1, UptoIs, SeqFacts
<1>3. Whole(F, L, c.conts, k, fs)
  <2>1. k \in 0 .. Len(c.conts) BY <1>2
  <2>2. fs = FlattenSeq([n \in 1 .. k |-> L[c.conts[n].cont]]) OBVIOUS
  <2> HIDE DEF fs
  <2> QED BY <2>1, <2>2, WholeIs
<1> HIDE DEF fs
<1>4. fs \in Seq(Nat) BY <1>3 DEF Whole
<1>5. Entries(fs, es) BY <1>4, EntriesIs
<1> HIDE DEF es
<1>6. es \in Seq(ListRec) BY <1>5 DEF Entries
<1>7. Pushed(F, c, es, d) BY <1>6, PushIs
<1> HIDE DEF d
<1>8. d.conts = c.conts BY <1>7 DEF Pushed, SameClient
<1>9. Taken(F, L, c, k, d) BY <1>3, <1>4, <1>5, <1>7 DEF Taken
<1>10. IF OpenOf(c.conts) = {} THEN Recont(d, <<>>, NoCont, r)
       ELSE Recont(d, SubSeq(c.conts, k, Len(c.conts)), c.conts[k].cont, r)
  <2> DEFINE z == [d EXCEPT !.conts = SubSeq(@, k, Len(@)), !.contSub = d.conts[k].cont]
  <2>1. z = [d EXCEPT !.conts = SubSeq(d.conts, k, Len(d.conts)), !.contSub = d.conts[k].cont]
    OBVIOUS
  <2> HIDE DEF z
  <2>2. CASE OpenOf(c.conts) = {} BY <1>1, <2>2 DEF Recont
  <2>3. CASE OpenOf(c.conts) # {}
    <3>1. r = z BY <1>1, <2>3 DEF z
    <3> QED BY <1>8, <2>1, <2>3, <3>1 DEF Recont
  <2> QED BY <2>2, <2>3
<1> QED BY <1>9, <1>10

\* The files taken are in order behind those listed, and none is forgotten.
Listing(F, L, c, g, k, d) ==
  /\ Ordered(F, g, d.files)
  /\ Upto(F, g, d.files, c.conts[k].cont) /\ Upto(F, g, d.files, Len(L))
  /\ \A f : Counted(g, c.files, f) => Counted(g, d.files, f)
  /\ \A n \in 1 .. k : \A i \in 1 .. Len(L[c.conts[n].cont]) :
       Counted(g, d.files, L[c.conts[n].cont][i])
  /\ SameClient(c, d) /\ SubOK(F, d)

LEMMA ListingIs ==
  ASSUME NEW F, NEW S, NEW L, Len(L) \in Nat, FilesOK(F, L), NEW T, NEW c, NEW g, NEW b,
         Parted(F, S, L, T, c, g, b), NEW k \in 1 .. Len(c.conts), Len(c.conts) \in Nat,
         NEW d, Taken(F, L, c, k, d)
  PROVE  Listing(F, L, c, g, k, d)
<1> DEFINE p == c.conts
<1>1. /\ c \in ClientRec /\ Ordered(F, g, c.files) /\ SubOK(F, c) /\ b \in Nat /\ b <= Len(L)
      /\ Upto(F, g, c.files, b) /\ Rising(L, p) /\ \A n \in 1 .. Len(p) : b < p[n].cont
  BY DEF Parted, Ahead
<1>2. PICK u \in Seq(Nat) : \E es : /\ Whole(F, L, p, k, u) /\ Entries(u, es)
                                    /\ Pushed(F, c, es, d)
  BY Zenon DEF Taken
<1>3. PICK es : Whole(F, L, p, k, u) /\ Entries(u, es) /\ Pushed(F, c, es, d)
  BY <1>2
<1> HIDE DEF p
<1>4. Following(F, b, es) /\ Followed(F, es, p[k].cont) /\ Followed(F, es, Len(L))
  <2>1. k \in 1 .. Len(p) /\ Len(p) \in Nat BY DEF p
  <2> QED BY <1>1, <1>3, <2>1, WholeFollowing
<1>5. SameClient(c, d) /\ SubOK(F, d) /\ JoinOf(d.files, c.files, es) BY <1>3 DEF Pushed
<1>6. Len(c.files) \in Nat
  <2>1. c.files \in Seq(ListRec) BY <1>1 DEF ClientRec
  <2> QED BY <2>1, SeqFacts
<1>7. /\ Ordered(F, g, d.files)
      /\ \A x \in Nat : b <= x /\ Followed(F, es, x) => Upto(F, g, d.files, x)
  <2>1. \A f \in 1 .. Len(F) : F[f].cont \in Nat BY ContNat
  <2> QED BY <1>1, <1>4, <1>5, <1>6, <2>1, PushOrdered
<1>8. p[k].cont \in Nat /\ b <= p[k].cont
  <2>1. k \in 1 .. Len(p) BY DEF p
  <2>2. p[k].cont \in 1 .. Len(L) /\ b < p[k].cont BY <1>1, <2>1 DEF Rising
  <2> DEFINE x == p[k].cont
  <2>3. x \in Nat /\ b < x BY <2>2
  <2> HIDE DEF x
  <2>4. b <= x BY <1>1, <2>3
  <2> QED BY <2>3, <2>4 DEF x
<1>9. Upto(F, g, d.files, p[k].cont) BY <1>4, <1>7, <1>8
<1>10. Upto(F, g, d.files, Len(L)) BY <1>1, <1>4, <1>7
<1>11. /\ \A f : Counted(g, c.files, f) => Counted(g, d.files, f)
       /\ \A i \in 1 .. Len(es) : Counted(g, d.files, es[i].file)
  BY <1>4, <1>5, PushCounted
<1>12. ASSUME NEW n \in 1 .. k, NEW i \in 1 .. Len(L[p[n].cont])
       PROVE  Counted(g, d.files, L[p[n].cont][i])
  <2>1. PICK j \in 1 .. Len(u) : u[j] = L[p[n].cont][i] BY <1>3, <1>12, Zenon DEF Whole
  <2>2. j \in 1 .. Len(es) /\ es[j].file = u[j] BY <1>3, <2>1 DEF Entries
  <2>3. Counted(g, d.files, es[j].file) BY <1>11, <2>2
  <2> QED BY <2>1, <2>2, <2>3
<1> QED BY <1>5, <1>7, <1>9, <1>10, <1>11, <1>12 DEF Listing, p

LEMMA AllTaken ==
  ASSUME NEW F, NEW S, NEW L, Len(L) \in Nat, NEW T, NEW c, NEW g, NEW b,
         Parted(F, S, L, T, c, g, b), Len(c.conts) \in Nat,
         NEW d, Listing(F, L, c, g, Len(c.conts), d),
         \A n \in 1 .. Len(c.conts) : ~c.conts[n].starting,
         NEW r, SameSender(d, r), r.conts = <<>>, r.contSub = NoCont
  PROVE  Ready(F, S, L, T, r, g)
<1>1. /\ r \in ClientRec /\ r.files = d.files /\ r.phase = "on" /\ r.joined = c.joined
      /\ r.known = c.known /\ g \in Seq(ChunkRec) /\ SubOK(F, r)
  BY DEF SameSender, Listing, SameClient, Parted, SubOK
<1>2. Ordered(F, g, r.files) /\ Upto(F, g, r.files, Reach(L, r))
  BY <1>1 DEF Listing, Reach
<1>3. \A n \in 1 .. Len(c.conts) : Done(S, T, c.conts[n].cont) BY DEF Parted, Ahead
<1>4. Heard(F, L, r, g)
  <2> SUFFICES ASSUME NEW x \in 1 .. Len(L), NEW i \in 1 .. Len(L[x])
               PROVE  \/ x < r.joined \/ L[x][i] \in r.known \/ F[L[x][i]].paused
                      \/ Counted(g, r.files, L[x][i])
    BY Zenon DEF Heard
  <2>1. \/ x < c.joined \/ L[x][i] \in c.known \/ F[L[x][i]].paused
        \/ InConts(c.conts, x) \/ Counted(g, c.files, L[x][i])
    BY Zenon DEF Parted
  <2>2. InConts(c.conts, x) => Counted(g, d.files, L[x][i])
    <3> SUFFICES ASSUME NEW n \in 1 .. Len(c.conts), c.conts[n].cont = x
                 PROVE  Counted(g, d.files, L[x][i])
      BY DEF InConts
    <3> QED BY Zenon DEF Listing
  <2>3. Counted(g, c.files, L[x][i]) => Counted(g, d.files, L[x][i]) BY Zenon DEF Listing
  <2> QED BY <1>1, <2>1, <2>2, <2>3
<1>5. ContsOK(S, L, T, r)
  <2>1. 1 .. Len(r.conts) = {} OBVIOUS
  <2> QED BY <2>1, Zenon DEF ContsOK
<1>6. Covered(S, L, T, r)
  <2> SUFFICES ASSUME NEW x \in 1 .. Len(L)
               PROVE  \/ x < r.joined \/ Done(S, T, x)
                      \/ \E p \in 1 .. Len(T) : IsStart(T[p]) /\ T[p].cont = x
    BY Zenon DEF Covered
  <2>1. \/ x < c.joined \/ InConts(c.conts, x) \/ Done(S, T, x)
        \/ \E p \in 1 .. Len(T) : IsStart(T[p]) /\ T[p].cont = x
    BY Zenon DEF Parted
  <2>2. InConts(c.conts, x) => Done(S, T, x) BY <1>3 DEF InConts
  <2> QED BY <1>1, <2>1, <2>2
<1> QED BY <1>1, <1>2, <1>4, <1>5, <1>6 DEF Ready

\* The containers from the k-th on are left.
Left(p, k, q) ==
  /\ q \in Seq(ContRec) /\ q # <<>> /\ q[1] = p[k]
  /\ \A i \in 1 .. Len(q) : \E n \in 1 .. Len(p) : n = (k - 1) + i /\ q[i] = p[n]
  /\ \A n \in 1 .. Len(p) : k < n => \E i \in 1 .. Len(q) : i # 1 /\ q[i] = p[n]

LEMMA LeftIs ==
  ASSUME NEW p \in Seq(ContRec), NEW k \in 1 .. Len(p), NEW q, q = SubSeq(p, k, Len(p))
  PROVE  Left(p, k, q)
<1> DEFINE m == k - 1
<1>1. Len(p) \in Nat BY SeqFacts
<1>2. m \in 0 .. Len(p) /\ m + 1 = k BY <1>1
<1>3. SubSeq(p, m + 1, Len(p)) \in Seq(ContRec) /\ CutOf(SubSeq(p, m + 1, Len(p)), p, m)
  <2> HIDE DEF m
  <2> QED BY <1>2, CutIs
<1>4. q \in Seq(ContRec) /\ CutOf(q, p, m) BY <1>2, <1>3
<1>5. Len(q) = Len(p) - m /\ Len(q) \in Nat /\ Len(q) # 0 BY <1>1, <1>2, <1>4 DEF CutOf
<1>6. q # <<>> /\ 1 \in 1 .. Len(q) /\ q[1] = p[k]
  <2>1. 1 \in 1 .. Len(q) /\ q # <<>> BY <1>4, <1>5, SeqFacts
  <2>2. q[1] = p[m + 1] BY <1>4, <2>1 DEF CutOf
  <2> QED BY <1>2, <2>1, <2>2
<1>7. \A i \in 1 .. Len(q) : \E n \in 1 .. Len(p) : n = m + i /\ q[i] = p[n]
  BY <1>4 DEF CutOf
<1>8. ASSUME NEW n \in 1 .. Len(p), k < n PROVE \E i \in 1 .. Len(q) : i # 1 /\ q[i] = p[n]
  <2> DEFINE i == n - m
  <2>1. m < n /\ i # 1 BY <1>2, <1>8
  <2>2. i \in 1 .. Len(q) /\ q[i] = p[n] BY <1>4, <2>1 DEF CutOf
  <2> HIDE DEF i
  <2> QED BY <2>1, <2>2
<1> QED BY <1>4, <1>6, <1>7, <1>8 DEF Left

LEMMA SomeTaken ==
  ASSUME NEW F, NEW S, NEW L, Len(L) \in Nat, NEW T, NEW c, NEW g, NEW b,
         Parted(F, S, L, T, c, g, b), NEW k \in 1 .. Len(c.conts), Len(c.conts) \in Nat,
         NEW d, Listing(F, L, c, g, k, d),
         \A n \in 1 .. Len(c.conts) : n < k => ~c.conts[n].starting, c.conts[k].starting,
         NEW q, Left(c.conts, k, q),
         NEW r, SameSender(d, r), r.conts = q, r.contSub = c.conts[k].cont
  PROVE  Ready(F, S, L, T, r, g)
<1> DEFINE p == c.conts
<1>1. /\ r \in ClientRec /\ r.files = d.files /\ r.phase = "on" /\ r.joined = c.joined
      /\ r.known = c.known /\ g \in Seq(ChunkRec) /\ SubOK(F, r)
  BY DEF SameSender, Listing, SameClient, Parted, SubOK
<1>2. /\ q \in Seq(ContRec) /\ q # <<>> /\ q[1] = p[k]
      /\ \A i \in 1 .. Len(q) : \E n \in 1 .. Len(p) : n = (k - 1) + i /\ q[i] = p[n]
      /\ \A n \in 1 .. Len(p) : k < n => \E i \in 1 .. Len(q) : i # 1 /\ q[i] = p[n]
  BY Zenon DEF Left
<1>3. Ordered(F, g, r.files) /\ Upto(F, g, r.files, Reach(L, r))
  <2>1. Reach(L, r) = p[k].cont BY <1>2 DEF Reach
  <2> QED BY <1>1, <2>1 DEF Listing
<1>4. /\ Rising(L, p)
      /\ \A n \in 1 .. Len(p) : ~p[n].starting => Done(S, T, p[n].cont)
      /\ \A m \in 1 .. Len(T) : IsStart(T[m]) => \A n \in 1 .. Len(p) : p[n].cont < T[m].cont
  BY DEF Parted, Ahead
<1>5. \A n \in 1 .. Len(p) : n \in 1 .. k \/ k < n OBVIOUS
<1>6. \A n \in 1 .. Len(p) : k < n => Waits(r, p[n].cont)
  <2> SUFFICES ASSUME NEW n \in 1 .. Len(p), k < n PROVE Waits(r, p[n].cont)
    OBVIOUS
  <2>1. PICK i \in 1 .. Len(q) : i # 1 /\ q[i] = p[n] BY <1>2
  <2>2. r.conts[i].cont = p[n].cont /\ i \in 1 .. Len(r.conts) BY <2>1
  <2> QED BY <2>1, <2>2 DEF Waits
<1>7. Heard(F, L, r, g)
  <2> SUFFICES ASSUME NEW x \in 1 .. Len(L), NEW i \in 1 .. Len(L[x])
               PROVE  \/ x < r.joined \/ L[x][i] \in r.known \/ F[L[x][i]].paused
                      \/ Waits(r, x) \/ Counted(g, r.files, L[x][i])
    BY Zenon DEF Heard
  <2>1. \/ x < c.joined \/ L[x][i] \in c.known \/ F[L[x][i]].paused
        \/ InConts(c.conts, x) \/ Counted(g, c.files, L[x][i])
    BY Zenon DEF Parted
  <2>2. InConts(c.conts, x) => Waits(r, x) \/ Counted(g, d.files, L[x][i])
    <3> SUFFICES ASSUME NEW n \in 1 .. Len(c.conts), c.conts[n].cont = x
                 PROVE  Waits(r, x) \/ Counted(g, d.files, L[x][i])
      BY DEF InConts
    <3>1. CASE n \in 1 .. k BY <3>1, Zenon DEF Listing
    <3>2. CASE k < n BY <1>6, <3>2
    <3> QED BY <1>5, <3>1, <3>2
  <2>3. Counted(g, c.files, L[x][i]) => Counted(g, d.files, L[x][i]) BY Zenon DEF Listing
  <2> QED BY <1>1, <2>1, <2>2, <2>3
<1>8. ContsOK(S, L, T, r)
  <2>1. ASSUME NEW i \in 1 .. Len(q)
        PROVE  /\ q[i].cont \in 1 .. Len(L) /\ (~q[i].starting => Done(S, T, q[i].cont))
               /\ \A m \in 1 .. Len(T) : IsStart(T[m]) => q[i].cont < T[m].cont
    <3>1. PICK n \in 1 .. Len(p) : q[i] = p[n] BY <1>2
    <3> QED BY <1>4, <3>1 DEF Rising
  <2>2. ASSUME NEW i \in 1 .. Len(q), NEW j \in 1 .. Len(q), i < j PROVE q[i].cont < q[j].cont
    <3>1. PICK n \in 1 .. Len(p) : n = (k - 1) + i /\ q[i] = p[n] BY <1>2
    <3>2. PICK m \in 1 .. Len(p) : m = (k - 1) + j /\ q[j] = p[m] BY <1>2
    <3>3. n < m BY <2>2, <3>1, <3>2
    <3>4. p[n].cont < p[m].cont BY <1>4, <3>3, Zenon DEF Rising
    <3> QED BY <3>1, <3>2, <3>4
  <2>3. q[1].starting /\ r.contSub = q[1].cont BY <1>2
  <2> HIDE DEF p
  <2> QED BY <1>2, <2>1, <2>2, <2>3 DEF ContsOK
<1>9. Covered(S, L, T, r)
  <2> SUFFICES ASSUME NEW x \in 1 .. Len(L)
               PROVE  \/ x < r.joined \/ x = r.contSub \/ Waits(r, x) \/ Done(S, T, x)
                      \/ \E m \in 1 .. Len(T) : IsStart(T[m]) /\ T[m].cont = x
    BY Zenon DEF Covered
  <2>1. \/ x < c.joined \/ InConts(c.conts, x) \/ Done(S, T, x)
        \/ \E m \in 1 .. Len(T) : IsStart(T[m]) /\ T[m].cont = x
    BY Zenon DEF Parted
  <2>2. InConts(c.conts, x) => x = r.contSub \/ Waits(r, x) \/ Done(S, T, x)
    <3> SUFFICES ASSUME NEW n \in 1 .. Len(p), p[n].cont = x
                 PROVE  x = r.contSub \/ Waits(r, x) \/ Done(S, T, x)
      BY DEF InConts
    <3>1. CASE n = k BY <3>1
    <3>2. CASE k < n BY <1>6, <3>2
    <3>3. CASE n # k /\ ~(k < n)
      <4>1. n < k BY <3>3
      <4> QED BY <1>4, <4>1
    <3> QED BY <3>1, <3>2, <3>3
  <2> QED BY <1>1, <2>1, <2>2
<1> QED BY <1>1, <1>3, <1>7, <1>8, <1>9 DEF Ready

LEMMA TakeNextReady ==
  ASSUME NEW F, file' = F, NEW L, list' = L, ListOK(F, L), FilesOK(F, L), NEW S, NEW T,
         NEW c, NEW g, NEW b, Parted(F, S, L, T, c, g, b), c.conts # <<>>,
         NEW r, r = TakeNext(c)
  PROVE  Ready(F, S, L, T, r, g)
<1> DEFINE p == c.conts
           k == UptoOf(p)
<1>1. c \in ClientRec /\ SubOK(F, c) /\ Rising(L, p) BY DEF Parted, Ahead
<1>2. p \in Seq(ContRec) /\ Len(p) \in Nat
  <2>1. p \in Seq(ContRec) BY <1>1 DEF Rising
  <2> QED BY <2>1, SeqFacts
<1>3. Len(L) \in Nat
  <2>1. L \in Seq(Seq(Nat)) BY DEF ListOK
  <2> QED BY <2>1, SeqFacts
<1>4. PICK d : /\ Taken(F, L, c, k, d)
               /\ IF OpenOf(p) = {} THEN Recont(d, <<>>, NoCont, r)
                  ELSE Recont(d, SubSeq(p, k, Len(p)), p[k].cont, r)
  BY <1>1, TakeNextIs
<1>5. /\ k \in 1 .. Len(p) /\ \A n \in 1 .. Len(p) : n < k => ~p[n].starting
      /\ IF OpenOf(p) = {} THEN k = Len(p) /\ ~p[k].starting ELSE p[k].starting
  BY <1>2, UptoIs
<1> HIDE DEF k
<1>6. Listing(F, L, c, g, k, d) BY <1>2, <1>3, <1>4, <1>5, ListingIs
<1>7. d \in ClientRec BY <1>6 DEF Listing, SameClient
<1>8. CASE OpenOf(p) = {}
  <2> DEFINE q == <<>>
  <2>1. q \in Seq(ContRec) /\ NoCont \in Nat BY DEF NoCont
  <2>2. Recont(d, q, NoCont, r) BY <1>4, <1>8
  <2> HIDE DEF q
  <2>6. SameSender(d, r) /\ r.conts = q /\ r.contSub = NoCont
    BY ONLY <1>7, <2>1, <2>2, RecontSame
  <2>3. SameSender(d, r) /\ r.conts = <<>> /\ r.contSub = NoCont BY <2>6 DEF q
  <2>4. \A n \in 1 .. Len(p) : ~p[n].starting
    <3> SUFFICES ASSUME NEW n \in 1 .. Len(p) PROVE ~p[n].starting
      OBVIOUS
    <3>1. n < k \/ n = k BY <1>2, <1>5, <1>8
    <3> QED BY <1>5, <1>8, <3>1
  <2>5. Listing(F, L, c, g, Len(p), d) BY <1>5, <1>6, <1>8
  <2> QED BY <1>2, <1>3, <2>3, <2>4, <2>5, AllTaken
<1>9. CASE OpenOf(p) # {}
  <2> DEFINE q == SubSeq(p, k, Len(p))
  <2>1. Left(p, k, q) BY <1>2, <1>5, LeftIs
  <2>2. Recont(d, q, p[k].cont, r) BY <1>4, <1>9
  <2> HIDE DEF q
  <2>3. q \in Seq(ContRec) BY <2>1 DEF Left
  <2>4. p[k].cont \in Nat
    <3>1. p[k] \in ContRec BY <1>2, <1>5, SeqFacts
    <3> QED BY <3>1 DEF ContRec
  <2>5. SameSender(d, r) /\ r.conts = q /\ r.contSub = p[k].cont
    BY <1>7, <2>2, <2>3, <2>4, RecontSame
  <2>6. p[k].starting BY <1>5, <1>9
  <2> QED BY <1>2, <1>3, <1>5, <1>6, <2>1, <2>5, <2>6, SomeTaken
<1> QED BY <1>8, <1>9

\* The container id has ended in p.
Marked(p, id, q) ==
  /\ q \in Seq(ContRec) /\ Len(q) = Len(p)
  /\ \A n \in 1 .. Len(p) : /\ q[n].cont = p[n].cont
                            /\ q[n].starting <=> (p[n].starting /\ p[n].cont # id)

LEMMA MarkedIs ==
  ASSUME NEW p \in Seq(ContRec), NEW id, NEW at, at = {n \in DOMAIN p : p[n].cont = id},
         NEW q, q = [n \in DOMAIN p |-> IF n \in at THEN [p[n] EXCEPT !.starting = FALSE] ELSE p[n]]
  PROVE  Marked(p, id, q)
<1> DEFINE N == Len(p)
<1>1. N \in Nat /\ DOMAIN p = 1 .. N /\ \A n \in 1 .. N : p[n] \in ContRec BY SeqFacts
<1>2. \A n \in 1 .. N : q[n] = IF p[n].cont = id THEN [p[n] EXCEPT !.starting = FALSE] ELSE p[n]
  BY <1>1
<1>3. ASSUME NEW n \in 1 .. N
      PROVE  /\ q[n] \in ContRec /\ q[n].cont = p[n].cont
             /\ q[n].starting <=> (p[n].starting /\ p[n].cont # id)
  <2> DEFINE e == p[n]
             x == q[n]
  <2>1. e \in ContRec /\ x = IF e.cont = id THEN [e EXCEPT !.starting = FALSE] ELSE e
    BY <1>1, <1>2
  <2> HIDE DEF e, x
  <2>2. CASE e.cont = id
    <3>1. x = [e EXCEPT !.starting = FALSE] BY <2>1, <2>2
    <3>2. x \in ContRec /\ x.cont = e.cont /\ x.starting = FALSE BY <2>1, <3>1 DEF ContRec
    <3> QED BY <2>2, <3>2 DEF e, x
  <2>3. CASE e.cont # id
    <3>1. x = e BY <2>1, <2>3
    <3> QED BY <2>1, <2>3, <3>1 DEF e, x
  <2> QED BY <2>2, <2>3
<1>4. q = [n \in 1 .. N |-> q[n]] BY <1>1
<1>5. \A n \in 1 .. N : q[n] \in ContRec BY <1>3
<1>6. q \in Seq(ContRec) /\ Len(q) = N
  <2> HIDE DEF N
  <2> QED BY ONLY <1>1, <1>4, <1>5, MapIs
<1> QED BY <1>3, <1>6 DEF Marked

Marks(c, q, d) == d = [c EXCEPT !.conts = q]

LEMMA MarksSame ==
  ASSUME NEW c \in ClientRec, NEW q \in Seq(ContRec), NEW d, Marks(c, q, d)
  PROVE  SameSender(c, d) /\ d.conts = q /\ d.contSub = c.contSub
BY DEF ClientRec, SameSender, Marks

LEMMA SenderTwice ==
  ASSUME NEW c, NEW d, NEW e, SameSender(c, d), SameSender(d, e) PROVE SameSender(c, e)
BY DEF SameSender

LEMMA EndFacts ==
  ASSUME LiveInv, todo # <<>>, IsEnd(todo[1]), NEW U, U = Tail(todo)
  PROVE  /\ todo[1].cont \in 1 .. Len(list) /\ ~IsStart(todo[1])
         /\ Done(stack, U, todo[1].cont)
<1> DEFINE id == todo[1].cont
<1>1. todo \in Seq(TodoRec) /\ TodoOK(file, stack, list, todo) BY DEF LiveInv, TodoOK
<1>2. 1 \in 1 .. Len(todo) BY <1>1, SeqFacts
<1>3. EventOK(file, list, todo[1]) BY <1>1, <1>2, Zenon DEF TodoOK
<1>4. id \notin Ids(stack) /\ \A n \in 1 .. Len(todo) : 1 < n => ~IsAdd(todo[n], id)
  BY <1>1, <1>2, Zenon DEF TodoOK
<1>5. id \in 1 .. Len(list) /\ ~IsStart(todo[1]) BY <1>3 DEF EventOK, IsEnd, IsStart
<1>6. id \notin AddsOf(U)
  <2>1. \A n \in 1 .. Len(U) : n + 1 \in 1 .. Len(todo) /\ U[n] = todo[n + 1]
    BY <1>1, TailEvents
  <2>2. \A n \in 1 .. Len(U) : 1 < n + 1 OBVIOUS
  <2>3. \A n \in 1 .. Len(U) : ~IsAdd(U[n], id) BY <1>4, <2>1, <2>2
  <2> HIDE DEF id
  <2> QED BY <2>3 DEF AddsOf, IsAdd
<1> QED BY <1>4, <1>5, <1>6 DEF Done

\* The container that is followed has ended.
LEMMA EndParted ==
  ASSUME LiveInv, On, todo # <<>>, IsEnd(todo[1]), NEW id, id = todo[1].cont,
         client.conts # <<>>, client.conts[1].cont = id, NEW U, U = Tail(todo),
         NEW q, Marked(client.conts, id, q), NEW e, SameSender(client, e), e.conts = Tail(q),
         e.contSub = NoCont
  PROVE  Parted(file, stack, list, U, e, got, id)
<1> DEFINE p == client.conts
           N == Len(p)
           r == Tail(q)
<1>1. /\ id \in 1 .. Len(list) /\ ~IsStart(todo[1]) /\ Done(stack, U, id)
  BY EndFacts
<1>2. /\ client \in ClientRec /\ client.phase = "on" /\ got \in Seq(ChunkRec)
      /\ Ordered(file, got, client.files) /\ SubOK(file, client)
      /\ Upto(file, got, client.files, Reach(list, client)) /\ Heard(file, list, client, got)
      /\ ContsOK(stack, list, todo, client) /\ Covered(stack, list, todo, client)
  BY NowReady DEF Ready
<1>3. ContsOK(stack, list, U, client) /\ Covered(stack, list, U, client)
  <2>1. todo \in Seq(TodoRec) BY DEF LiveInv, TodoOK
  <2> QED BY <1>1, <1>2, <2>1, ClientTail
<1>4. p \in Seq(ContRec) /\ N \in Nat /\ N # 0
  <2>1. p \in Seq(ContRec) BY <1>2 DEF ClientRec
  <2> QED BY <2>1, SeqFacts
<1>5. /\ q \in Seq(ContRec) /\ Len(q) = N
      /\ \A n \in 1 .. N : /\ q[n].cont = p[n].cont
                           /\ q[n].starting <=> (p[n].starting /\ p[n].cont # id)
  BY DEF Marked
<1>6. /\ r \in Seq(ContRec) /\ Len(r) = N - 1 /\ Len(r) \in Nat
      /\ \A n \in 1 .. Len(r) : n + 1 \in 1 .. N /\ r[n] = q[n + 1]
      /\ \A n \in 1 .. N : n # 1 => n - 1 \in 1 .. Len(r) /\ r[n - 1] = q[n]
  <2>1. q # <<>> BY <1>4, <1>5, SeqFacts
  <2>2. r \in Seq(ContRec) /\ CutOf(r, q, 1) BY <1>5, <2>1, TailIs
  <2>3. Len(r) \in Nat BY <2>2, SeqFacts
  <2>4. \A n \in 1 .. N : n # 1 => 1 < n BY <1>4
  <2>5. \A n \in 1 .. Len(r) : 1 + n = n + 1 BY <2>3
  <2> QED BY <1>5, <2>2, <2>3, <2>4, <2>5 DEF CutOf
<1> HIDE DEF p, N, r
<1>7. /\ \A n \in 1 .. N : /\ p[n].cont \in 1 .. Len(list)
                           /\ (~p[n].starting => Done(stack, U, p[n].cont))
      /\ \A n, m \in 1 .. N : n < m => p[n].cont < p[m].cont
      /\ \A m \in 1 .. Len(U) : IsStart(U[m]) => \A n \in 1 .. N : p[n].cont < U[m].cont
  BY <1>3, Zenon DEF ContsOK, p, N
<1>8. p[1].cont = id BY DEF p
<1>9. ASSUME NEW n \in 1 .. Len(r)
      PROVE  \E m \in 1 .. N : m = n + 1 /\ r[n].cont = p[m].cont
               /\ (r[n].starting <=> (p[m].starting /\ p[m].cont # id))
  <2> DEFINE m == n + 1
  <2>1. m \in 1 .. N /\ r[n] = q[m] BY <1>6
  <2> HIDE DEF m
  <2>2. m = n + 1 BY DEF m
  <2> QED BY <1>5, <2>1, <2>2
<1>10. Ahead(stack, list, U, id, r)
  <2>1. ASSUME NEW n \in 1 .. Len(r)
        PROVE  /\ r[n].cont \in 1 .. Len(list) /\ id < r[n].cont
               /\ (~r[n].starting => Done(stack, U, r[n].cont))
               /\ \A m \in 1 .. Len(U) : IsStart(U[m]) => r[n].cont < U[m].cont
    <3>1. PICK m \in 1 .. N : m = n + 1 /\ r[n].cont = p[m].cont
               /\ (r[n].starting <=> (p[m].starting /\ p[m].cont # id))
      BY <1>9
    <3>2. 1 \in 1 .. N /\ 1 < m BY <1>4, <3>1
    <3>3. id < p[m].cont BY <1>7, <1>8, <3>2
    <3>4. p[m].cont # id BY <1>1, <3>3
    <3> QED BY <1>7, <3>1, <3>3, <3>4
  <2>2. ASSUME NEW i \in 1 .. Len(r), NEW j \in 1 .. Len(r), i < j PROVE r[i].cont < r[j].cont
    <3>1. PICK n \in 1 .. N : n = i + 1 /\ r[i].cont = p[n].cont BY <1>9
    <3>2. PICK m \in 1 .. N : m = j + 1 /\ r[j].cont = p[m].cont BY <1>9
    <3>3. n < m BY <2>2, <3>1, <3>2
    <3> QED BY <1>7, <3>1, <3>2, <3>3
  <2> QED BY <1>6, <2>1, <2>2 DEF Ahead, Rising
<1>11. \A x : Waits(client, x) => InConts(r, x)
  <2> SUFFICES ASSUME NEW n \in 1 .. N, n # 1 PROVE InConts(r, p[n].cont)
    BY DEF Waits, p, N
  <2> DEFINE m == n - 1
  <2>1. m \in 1 .. Len(r) /\ r[m] = q[n] BY <1>6
  <2> HIDE DEF m
  <2>2. r[m].cont = p[n].cont BY <1>5, <2>1
  <2> QED BY <2>1, <2>2 DEF InConts
<1>12. /\ e \in ClientRec /\ e.phase = "on" /\ e.files = client.files /\ e.joined = client.joined
       /\ e.known = client.known /\ SubOK(file, e) /\ e.conts = r
  BY <1>2 DEF SameSender, SubOK, r
<1>13. Upto(file, got, client.files, id)
  <2>1. Reach(list, client) = id BY DEF Reach
  <2> QED BY <1>2, <2>1
<1>14. id \in Nat /\ id <= Len(list) BY <1>1
<1>15. \A x \in 1 .. Len(list) : \A i \in 1 .. Len(list[x]) :
          \/ x < e.joined \/ list[x][i] \in e.known \/ file[list[x][i]].paused
          \/ InConts(r, x) \/ Counted(got, e.files, list[x][i])
  BY <1>2, <1>11, <1>12, Zenon DEF Heard
<1>16. ASSUME NEW x \in 1 .. Len(list)
       PROVE  \/ x < e.joined \/ InConts(r, x) \/ Done(stack, U, x)
              \/ \E m \in 1 .. Len(U) : IsStart(U[m]) /\ U[m].cont = x
  <2>1. \/ x < client.joined \/ x = client.contSub \/ Waits(client, x) \/ Done(stack, U, x)
        \/ \E m \in 1 .. Len(U) : IsStart(U[m]) /\ U[m].cont = x
    BY <1>3, Zenon DEF Covered
  <2>2. client.contSub = id BY <1>2 DEF ContsOK
  <2> QED BY <1>1, <1>11, <1>12, <2>1, <2>2
<1> QED BY <1>2, <1>10, <1>12, <1>13, <1>14, <1>15, <1>16, Zenon DEF Parted

LEMMA PartedPart ==
  ASSUME NEW F, NEW S, NEW L, NEW T, NEW e, NEW g, NEW b, Parted(F, S, L, T, e, g, b),
         FilesOK(F, L), F \in Seq(FileRec), Len(L) \in Nat, Woken(F, e), e.conts = <<>>
  PROVE  ClientPart(F, S, L, T, e, g)
<1>0. 1 .. Len(e.conts) = {} OBVIOUS
<1>1. \A x : ~InConts(e.conts, x) BY <1>0, Zenon DEF InConts
<1>2. /\ e \in ClientRec /\ e.phase = "on" /\ g \in Seq(ChunkRec) /\ Ordered(F, g, e.files)
      /\ SubOK(F, e) /\ b \in Nat /\ b <= Len(L) /\ Upto(F, g, e.files, b) /\ e.contSub = NoCont
  BY DEF Parted
<1>3. Upto(F, g, e.files, Reach(L, e))
  <2>1. Grown(F, F)
    <3>1. Len(F) \in Nat BY SeqFacts
    <3> QED BY <3>1 DEF Grown
  <2>2. b \in Int /\ Len(L) \in Int BY <1>2
  <2>3. \A f \in 1 .. Len(F) : F[f].cont \in Nat BY ContNat
  <2>4. Upto(F, g, e.files, Len(L)) BY <1>2, <2>1, <2>2, <2>3, UptoKept
  <2> QED BY <2>4 DEF Reach
<1>4. Heard(F, L, e, g) BY <1>1, Zenon DEF Parted, Heard
<1>5. ContsOK(S, L, T, e) BY <1>0, <1>2, Zenon DEF ContsOK
<1>6. Covered(S, L, T, e) BY <1>1, Zenon DEF Parted, Covered
<1>7. ClientOK(F, S, L, T, e, g) BY <1>2, <1>3, <1>4, <1>5, <1>6 DEF ClientOK
<1> QED BY <1>2, <1>7 DEF ClientPart

\* What the end of the container id leaves of the client.
AfterEnd(c, g, id, r) ==
  \E q, d : /\ Marked(c.conts, id, q) /\ Marks(c, q, d)
            /\ IF c.conts # <<>> /\ c.conts[1].cont = id
               THEN \E e : /\ Recont(d, Tail(q), NoCont, e)
                           /\ IF e.conts = <<>> THEN r.c = e /\ r.got = g
                              ELSE r \in TryToSend(TakeNext(e), g)
               ELSE r.c = d /\ r.got = g

LEMMA EndIs ==
  ASSUME client \in ClientRec, NEW id, NEW r \in containerChange(client, id, FALSE)
  PROVE  AfterEnd(client, got, id, r)
<1> DEFINE p == client.conts
           at == {n \in DOMAIN p : p[n].cont = id}
           q == [n \in DOMAIN p |-> IF n \in at THEN [p[n] EXCEPT !.starting = FALSE] ELSE p[n]]
           d == [client EXCEPT !.conts = q]
           e == [d EXCEPT !.conts = Tail(@), !.contSub = NoCont]
<1>1. r \in IF 1 \notin at THEN Same(d)
            ELSE IF e.conts = <<>> THEN Same(e) ELSE TryToSend(TakeNext(e), got)
  BY DEF containerChange
<1>2. p \in Seq(ContRec) BY DEF ClientRec
<1>3. Marked(p, id, q) BY <1>2, MarkedIs
<1>4. 1 \in at <=> p # <<>> /\ p[1].cont = id
  <2>1. DOMAIN p = 1 .. Len(p) /\ (1 \in 1 .. Len(p) <=> p # <<>>) BY <1>2, SeqFacts
  <2> QED BY <2>1
<1> HIDE DEF at
<1>5. q \in Seq(ContRec) BY <1>3 DEF Marked
<1> HIDE DEF q
<1>6. Marks(client, q, d) BY DEF Marks
<1>7. d.conts = q BY <1>5, <1>6, MarksSame
<1> HIDE DEF d
<1>8. Recont(d, Tail(q), NoCont, e)
  <2>1. e = [d EXCEPT !.conts = Tail(d.conts), !.contSub = NoCont] OBVIOUS
  <2> HIDE DEF e
  <2> QED BY <1>7, <2>1 DEF Recont
<1> HIDE DEF e
<1>9. \A x : r \in Same(x) => r.c = x /\ r.got = got BY DEF Same
<1>10. CASE 1 \notin at
  <2>1. r.c = d /\ r.got = got BY <1>1, <1>9, <1>10
  <2> QED BY <1>3, <1>4, <1>6, <1>10, <2>1 DEF AfterEnd
<1>11. CASE 1 \in at
  <2>1. IF e.conts = <<>> THEN r.c = e /\ r.got = got ELSE r \in TryToSend(TakeNext(e), got)
    BY <1>1, <1>9, <1>11
  <2> QED BY <1>3, <1>4, <1>6, <1>8, <1>11, <2>1 DEF AfterEnd
<1> QED BY <1>10, <1>11

\* A container has ended that the client does not follow.
LEMMA EndSame ==
  ASSUME LiveInv, On, todo # <<>>, IsEnd(todo[1]), NEW id, id = todo[1].cont,
         ~(client.conts # <<>> /\ client.conts[1].cont = id), NEW U, U = Tail(todo),
         NEW q, Marked(client.conts, id, q), NEW d, SameSender(client, d), d.conts = q,
         d.contSub = client.contSub
  PROVE  ClientPart(file, stack, list, U, d, got)
<1> DEFINE p == client.conts
           N == Len(p)
<1>1. ~IsStart(todo[1]) /\ Done(stack, U, id) BY EndFacts
<1>2. /\ client \in ClientRec /\ client.phase = "on"
      /\ Upto(file, got, client.files, Reach(list, client)) /\ Heard(file, list, client, got)
      /\ ContsOK(stack, list, todo, client) /\ Covered(stack, list, todo, client)
  BY NowReady DEF Ready
<1>3. ContsOK(stack, list, U, client) /\ Covered(stack, list, U, client)
  <2>1. todo \in Seq(TodoRec) BY DEF LiveInv, TodoOK
  <2> QED BY <1>1, <1>2, <2>1, ClientTail
<1>4. p \in Seq(ContRec) /\ N \in Nat /\ (p = <<>> <=> N = 0) /\ (p # <<>> => 1 \in 1 .. N)
  <2>1. p \in Seq(ContRec) BY <1>2 DEF ClientRec
  <2> QED BY <2>1, SeqFacts
<1>5. /\ q \in Seq(ContRec) /\ Len(q) = N
      /\ \A n \in 1 .. N : /\ q[n].cont = p[n].cont
                           /\ q[n].starting <=> (p[n].starting /\ p[n].cont # id)
  BY DEF Marked
<1>6. q = <<>> <=> p = <<>> BY <1>4, <1>5, SeqFacts
<1>7. p # <<>> => p[1].cont # id OBVIOUS
<1> HIDE DEF p, N
<1>8. /\ \A n \in 1 .. N : /\ p[n].cont \in 1 .. Len(list)
                           /\ (~p[n].starting => Done(stack, U, p[n].cont))
      /\ \A n, m \in 1 .. N : n < m => p[n].cont < p[m].cont
      /\ \A m \in 1 .. Len(U) : IsStart(U[m]) => \A n \in 1 .. N : p[n].cont < U[m].cont
      /\ p # <<>> => p[1].starting
      /\ client.contSub = IF p = <<>> THEN NoCont ELSE p[1].cont
  BY <1>3, Zenon DEF ContsOK, p, N
<1>9. p # <<>> => q[1].cont = p[1].cont /\ q[1].starting BY <1>4, <1>5, <1>7, <1>8
<1>10. ContsOK(stack, list, U, d)
  <2>1. \A n \in 1 .. N : q[n].cont \in 1 .. Len(list) /\ (~q[n].starting => Done(stack, U, q[n].cont))
    BY <1>1, <1>5, <1>8
  <2>2. \A n, m \in 1 .. N : n < m => q[n].cont < q[m].cont
    <3> SUFFICES ASSUME NEW n \in 1 .. N, NEW m \in 1 .. N, n < m PROVE q[n].cont < q[m].cont
      OBVIOUS
    <3>1. p[n].cont < p[m].cont BY <1>8
    <3> QED BY <1>5, <3>1
  <2>3. \A m \in 1 .. Len(U) : IsStart(U[m]) => \A n \in 1 .. N : q[n].cont < U[m].cont
    BY <1>5, <1>8
  <2>4. q # <<>> => q[1].starting BY <1>6, <1>9
  <2>5. d.contSub = IF q = <<>> THEN NoCont ELSE q[1].cont BY <1>6, <1>8, <1>9
  <2> QED BY <1>5, <2>1, <2>2, <2>3, <2>4, <2>5, Zenon DEF ContsOK
<1>11. \A x : Waits(client, x) <=> Waits(d, x) BY <1>5 DEF Waits, p, N
<1>12. Heard(file, list, d, got) BY <1>2, <1>11 DEF Heard, SameSender
<1>13. Covered(stack, list, U, d) BY <1>3, <1>11 DEF Covered, SameSender
<1>14. Reach(list, d) = Reach(list, client) BY <1>6, <1>9 DEF Reach, p
<1>15. ClientPart(file, stack, list, todo, client, got) BY NowPart
<1>16. Upto(file, got, client.files, Reach(list, d)) BY <1>2, <1>14
<1> QED BY <1>2, <1>10, <1>12, <1>13, <1>15, <1>16, RecontPart

LEMMA EndPart ==
  ASSUME LiveInv, On, todo # <<>>, IsEnd(todo[1]), UNCHANGED <<file, list>>,
         NEW id, id = todo[1].cont, NEW U, U = Tail(todo),
         NEW r \in containerChange(client, id, FALSE)
  PROVE  ClientPart(file, stack, list, U, r.c, r.got)
<1> DEFINE p == client.conts
           follows == p # <<>> /\ p[1].cont = id
<1>1. /\ client \in ClientRec /\ client.phase = "on" /\ p \in Seq(ContRec)
      /\ FilesOK(file, list) /\ file \in Seq(FileRec) /\ ListOK(file, list)
      /\ list \in Seq(Seq(Nat)) /\ sendPaused \in BOOLEAN /\ file' = file /\ list' = list
  BY DEF LiveInv, FilesOK, ListOK, ClientRec, On
<1>2. AfterEnd(client, got, id, r) BY <1>1, EndIs
<1> HIDE DEF follows
<1>3. PICK q, d : /\ Marked(p, id, q) /\ Marks(client, q, d)
                  /\ IF follows
                     THEN \E e : /\ Recont(d, Tail(q), NoCont, e)
                                 /\ IF e.conts = <<>> THEN r.c = e /\ r.got = got
                                    ELSE r \in TryToSend(TakeNext(e), got)
                     ELSE r.c = d /\ r.got = got
  BY <1>2, Zenon DEF AfterEnd, follows
<1>4. q \in Seq(ContRec) BY <1>3 DEF Marked
<1>5. SameSender(client, d) /\ d.conts = q /\ d.contSub = client.contSub
  BY <1>1, <1>3, <1>4, MarksSame
<1>6. CASE ~follows
  <2>1. ~(client.conts # <<>> /\ client.conts[1].cont = id) BY <1>6 DEF follows
  <2>2. ClientPart(file, stack, list, U, d, got) BY <1>3, <1>5, <2>1, EndSame
  <2> QED BY <1>3, <1>6, <2>2
<1>7. CASE follows
  <2>1. PICK e : /\ Recont(d, Tail(q), NoCont, e)
                 /\ IF e.conts = <<>> THEN r.c = e /\ r.got = got
                    ELSE r \in TryToSend(TakeNext(e), got)
    BY <1>3, <1>7
  <2>2. client.conts # <<>> /\ client.conts[1].cont = id BY <1>7 DEF follows
  <2>3. Tail(q) \in Seq(ContRec)
    <3>1. q # <<>>
      <4>1. Len(q) = Len(p) BY <1>3 DEF Marked
      <4> QED BY <1>1, <1>4, <2>2, <4>1, SeqFacts
    <3> QED BY <1>4, <3>1, TailIs
  <2>4. SameSender(client, e) /\ e.conts = Tail(q) /\ e.contSub = NoCont
    <3>1. d \in ClientRec /\ NoCont \in Nat BY <1>5 DEF SameSender, NoCont
    <3>2. SameSender(d, e) /\ e.conts = Tail(q) /\ e.contSub = NoCont
      <4> DEFINE z == Tail(q)
      <4>1. z \in Seq(ContRec) /\ Recont(d, z, NoCont, e) BY <2>1, <2>3
      <4> HIDE DEF z
      <4>2. SameSender(d, e) /\ e.conts = z /\ e.contSub = NoCont
        BY ONLY <3>1, <4>1, RecontSame
      <4> QED BY <4>2 DEF z
    <3> QED BY <1>5, <3>2, SenderTwice
  <2>5. Parted(file, stack, list, U, e, got, id) BY <1>3, <2>2, <2>4, EndParted
  <2>6. CASE e.conts = <<>>
    <3>1. Woken(file, e)
      <4>1. Woken(file, client) BY DEF LiveInv, ClientOK
      <4> QED BY <2>4, <4>1 DEF Woken, SameSender
    <3>2. Len(list) \in Nat BY <1>1, SeqFacts
    <3>3. ClientPart(file, stack, list, U, e, got) BY <1>1, <2>5, <2>6, <3>1, <3>2, PartedPart
    <3> QED BY <2>1, <2>6, <3>3
  <2>7. CASE e.conts # <<>>
    <3> DEFINE n == TakeNext(e)
    <3>1. r \in TryToSend(n, got) BY <2>1, <2>7
    <3>2. Ready(file, stack, list, U, n, got) BY <1>1, <2>5, <2>7, TakeNextReady
    <3> HIDE DEF n
    <3>3. n \in ClientRec /\ got \in Seq(ChunkRec) /\ Ordered(file, got, n.files)
          /\ SubOK(file, n)
      BY <3>2 DEF Ready
    <3>4. Outcome(file, n, got, r.c, r.got) BY <1>1, <3>1, <3>3, TryIs
    <3> QED BY <3>2, <3>4, OutcomeKept
  <2> QED BY <2>6, <2>7
<1> QED BY <1>6, <1>7

LEMMA ContKept ==
  ASSUME LiveInv, todo # <<>>, todo' = Tail(todo), NEW e, e = Head(todo), e.op = "cont",
         DeliverCont(e), UNCHANGED <<stack, index, pulseTime, nextIndex, server>>
  PROVE  LiveInv'
<1> DEFINE U == Tail(todo)
           id == e.cont
           b == e.starting
<1>1. todo \in Seq(TodoRec) /\ FilesOK(file, list) /\ ListOK(file, list)
      /\ list \in Seq(Seq(Nat)) /\ file \in Seq(FileRec)
  BY DEF LiveInv, TodoOK, FilesOK, ListOK
<1>2. e = todo[1] /\ 1 \in 1 .. Len(todo) /\ e \in TodoRec BY <1>1, TailIs, SeqFacts
<1>3. id \in Nat /\ b \in BOOLEAN BY <1>2 DEF TodoRec
<1>4. IsStart(todo[1]) <=> b BY <1>2 DEF IsStart
<1>5. IsEnd(todo[1]) <=> ~b BY <1>2 DEF IsEnd
<1>6. file' = file /\ list' = list
      /\ IF On THEN Callback(containerChange(client, id, b)) ELSE UNCHANGED <<client, got>>
  BY DEF DeliverCont
<1>7. id = todo[1].cont /\ todo' = U BY <1>2
<1> HIDE DEF U, b, id
<1>8. U = Tail(todo) BY DEF U
<1>9. ClientPart(file, stack, list, U, client', got')
  <2>1. CASE ~On
    <3>1. client' = client /\ got' = got BY <1>6, <2>1
    <3> QED BY <2>1, <3>1, SameOrdered DEF ClientPart, On
  <2>2. CASE On /\ b
    <3> DEFINE q == Append(client.conts, [cont |-> id, starting |-> TRUE])
               s == ConnectCont(client, id)
               d == [client EXCEPT !.conts = q, !.contSub = s]
    <3>1. PICK r \in containerChange(client, id, b) : client' = r.c /\ got' = r.got
      BY <1>6, <2>2, Zenon DEF Callback
    <3>2. r.c = d /\ r.got = got
      <4> DEFINE z == [client EXCEPT !.conts = Append(@, [cont |-> id, starting |-> TRUE]),
                                     !.contSub = ConnectCont(client, id)]
      <4>1. z = d OBVIOUS
      <4>2. r \in Same(z) BY <2>2, <3>1 DEF containerChange
      <4> HIDE DEF z, d
      <4> QED BY <4>1, <4>2 DEF Same
    <3>3. client \in ClientRec /\ client.conts \in Seq(ContRec) BY SameOrdered DEF ClientRec
    <3>4. Behind(client.conts, id, q) BY <1>3, <3>3, BehindIs
    <3>5. q \in Seq(ContRec) BY <3>4 DEF Behind
    <3> HIDE DEF q
    <3>6. s \in Nat BY <1>3, <3>3 DEF ConnectCont, ClientRec
    <3>7. s = ConnectCont(client, id) OBVIOUS
    <3> HIDE DEF s
    <3>8. Recont(client, q, s, d) BY DEF Recont
    <3> HIDE DEF d
    <3>9. SameSender(client, d) /\ d.conts = q /\ d.contSub = s
      BY <3>3, <3>5, <3>6, <3>8, RecontSame
    <3>10. ClientPart(file, stack, list, U, d, got)
      BY <1>4, <1>7, <1>8, <2>2, <3>4, <3>7, <3>9, StartPart
    <3> QED BY <3>1, <3>2, <3>10
  <2>3. CASE On /\ ~b
    <3>1. PICK r \in containerChange(client, id, FALSE) : client' = r.c /\ got' = r.got
      <4>1. b = FALSE BY <1>3, <2>3
      <4> QED BY <1>6, <2>3, <4>1, Zenon DEF Callback
    <3>2. ClientPart(file, stack, list, U, r.c, r.got)
      BY <1>5, <1>6, <1>7, <1>8, <2>3, <3>1, EndPart
    <3> QED BY <3>1, <3>2
  <2> QED BY <2>1, <2>2, <2>3
<1>10. Grown(file, file) /\ Later(list, todo, list)
  <2>1. Len(file) \in Nat /\ Len(list) \in Nat BY <1>1, SeqFacts
  <2> QED BY <2>1 DEF Grown, Later
<1> QED BY <1>1, <1>6, <1>7, <1>8, <1>9, <1>10, DeliverStep

\* What a listener that joins is handed of the past.
Past(F, L, es) == es \in Seq(ListRec) /\ Ordered(F, <<>>, es)

LEMMA OnePast ==
  ASSUME NEW F, NEW L, NEW x \in ListRec, IsFile(F, x.file)
  PROVE  Past(F, L, <<x>>)
<1> DEFINE p == <<x>>
           g == <<>>
<1>1. p \in Seq(ListRec) /\ Len(p) = 1 /\ p[1] = x BY OneIs
<1>2. 1 .. Len(g) = {} OBVIOUS
<1> HIDE DEF p, g
<1>3. \A i \in 1 .. Len(p) : i = 1 /\ IsFile(F, p[i].file) BY <1>1
<1>4. \A i, j \in 1 .. Len(p) : ~(i < j) BY <1>1
<1>5. Ordered(F, g, p) BY <1>2, <1>3, <1>4, Zenon DEF Ordered
<1> QED BY <1>1, <1>5 DEF Past, p, g

\* The snapshot comes before everything.
LEMMA SnapshotFirst ==
  ASSUME NEW F, NEW L, NEW x \in ListRec, IsFile(F, x.file), NEW s \in ListRec,
         s.file = StateFile
  PROVE  Past(F, L, <<s>> \o <<x>>)
<1> DEFINE a == <<s>>
           b == <<x>>
           p == a \o b
           g == <<>>
<1>1. /\ a \in Seq(ListRec) /\ Len(a) = 1 /\ a[1] = s
      /\ b \in Seq(ListRec) /\ Len(b) = 1 /\ b[1] = x
  BY OneIs
<1>2. 1 .. Len(g) = {} OBVIOUS
<1> HIDE DEF a, b
<1>3. p \in Seq(ListRec) /\ JoinOf(p, a, b) BY <1>1, JoinIs
<1> HIDE DEF p, g
<1>4. 1 \in 1 .. Len(a) /\ 1 \in 1 .. Len(b) /\ Len(a) + 1 = 2 BY <1>1
<1>5. Len(p) = 2 /\ p[1] = s /\ p[2] = x BY <1>1, <1>3, <1>4 DEF JoinOf
<1>6. \A i \in 1 .. Len(p) : i = 1 \/ i = 2 BY <1>5
<1>7. \A i \in 1 .. Len(p) : IsFile(F, p[i].file) BY <1>5, <1>6 DEF IsFile
<1>8. \A i, j \in 1 .. Len(p) : i < j => i = 1 BY <1>5
<1>9. \A i, j \in 1 .. Len(p) : i < j => NotAfter(F, p[i].file, p[j].file)
  BY <1>5, <1>8 DEF NotAfter
<1>10. Ordered(F, g, p) BY <1>2, <1>7, <1>9, Zenon DEF Ordered
<1> QED BY <1>3, <1>10 DEF Past, p, g, a, b

LEMMA UptoAll ==
  ASSUME NEW F, NEW L, FilesOK(F, L), NEW g, 1 .. Len(g) = {}, NEW p, Ordered(F, g, p)
  PROVE  Upto(F, g, p, Len(L))
<1> SUFFICES ASSUME NEW i \in 1 .. Len(p), p[i].file # StateFile
             PROVE  F[p[i].file].cont <= Len(L)
  BY DEF Upto
<1> DEFINE f == p[i].file
<1>1. IsFile(F, f) BY Zenon DEF Ordered
<1>2. f # StateFile OBVIOUS
<1> HIDE DEF f
<1>3. f \in 1 .. Len(F) BY <1>1, <1>2 DEF IsFile
<1>4. F[f].cont \in 1 .. Len(L) BY <1>3 DEF FilesOK
<1>5. F[f].cont <= Len(L) BY <1>4
<1> QED BY <1>5 DEF f

\* The later files of the current container follow.
LEMMA LaterPast ==
  ASSUME NEW F, NEW L, FilesOK(F, L), Len(L) \in Nat, NEW p, Past(F, L, p),
         NEW es, Following(F, Len(L), es), NEW q, q = p \o es
  PROVE  Past(F, L, q)
<1> DEFINE g == <<>>
<1>1. p \in Seq(ListRec) /\ Ordered(F, g, p) /\ es \in Seq(ListRec) BY DEF Past, Following
<1>2. q \in Seq(ListRec) /\ JoinOf(q, p, es) BY <1>1, JoinIs
<1>3. 1 .. Len(g) = {} OBVIOUS
<1> HIDE DEF g
<1>4. Upto(F, g, p, Len(L)) BY <1>1, <1>3, UptoAll
<1>5. Len(p) \in Nat BY <1>1, SeqFacts
<1>6. \A f \in 1 .. Len(F) : F[f].cont \in Nat BY ContNat
<1>7. Ordered(F, g, q) BY <1>1, <1>2, <1>4, <1>5, <1>6, PushOrdered
<1> QED BY <1>2, <1>7 DEF Past, g

LEMMA StartAtIs ==
  ASSUME index \in Seq(IndexRec), index # <<>>, NEW t, NEW n, n = StartAt(t)
  PROVE  n \in 1 .. Len(index)
<1> DEFINE older == {k \in 1 .. Len(index) - 1 : index[k].key < t}
<1>1. Len(index) \in Nat /\ Len(index) \in 1 .. Len(index) BY SeqFacts
<1>2. \A k \in older : k \in 1 .. Len(index) /\ k \in Nat BY <1>1
<1>3. n = IF older = {} THEN Len(index) ELSE CHOOSE k \in older : \A m \in older : k <= m
  BY DEF StartAt
<1> HIDE DEF older
<1>4. CASE older = {} BY <1>1, <1>3, <1>4
<1>5. CASE older # {}
  <2>1. older \subseteq Nat BY <1>2
  <2>2. \E k \in older : \A m \in older : k <= m BY <1>5, <2>1, LeastIs
  <2>3. n = CHOOSE k \in older : \A m \in older : k <= m BY <1>3, <1>5
  <2>4. n \in older BY <2>2, <2>3, Zenon
  <2> QED BY <1>2, <2>4
<1> QED BY <1>4, <1>5

LEMMA LaterFollow ==
  ASSUME LiveInv, NEW n \in 1 .. Len(index), NEW ss,
         ss = [m \in 1 .. n - 1 |->
                 IF index[n - m].off = 0 THEN <<Entry(index[n - m].data, 0)>> ELSE <<>>]
  PROVE  Following(file, Len(list), FlattenSeq(ss))
<1> DEFINE N == n - 1
           C == {f \in 1 .. Len(file) : file[f].cont = Len(list)}
           R == {x \in ListRec : x.file \in C /\ x.off = 0}
           B == Seq(R)
<1>1. /\ index \in Seq(IndexRec) /\ FilesOK(file, list) /\ IndexOK(file, list, index)
      /\ file \in Seq(FileRec) /\ list \in Seq(Seq(Nat))
  BY DEF LiveInv, IndexOK, FilesOK, ListOK
<1>2. Len(index) \in Nat /\ Len(list) \in Nat /\ Len(file) \in Nat BY <1>1, SeqFacts
<1>3. N \in Nat /\ \A m \in 1 .. N : n - m \in 1 .. Len(index) BY <1>2
<1>4. \A f \in C : Entry(f, 0) \in R
  <2> SUFFICES ASSUME NEW f \in C PROVE Entry(f, 0) \in R
    OBVIOUS
  <2>1. f \in Nat BY <1>2
  <2>2. Entry(f, 0) \in ListRec /\ Entry(f, 0).file = f /\ Entry(f, 0).off = 0
    BY <2>1 DEF Entry, ListRec
  <2> QED BY <2>2
<1>5. \A x \in R : x \in ListRec /\ x.file \in C /\ x.off = 0 OBVIOUS
<1>6. \A f \in C : f \in 1 .. Len(file) /\ file[f].cont = Len(list) OBVIOUS
<1>7. \A k \in 1 .. Len(index) : index[k].off = 0 => index[k].data \in C
  BY <1>1 DEF IndexOK
<1> HIDE DEF C, R
<1>8. <<>> \in B OBVIOUS
<1>9. \A m \in 1 .. N : ss[m] \in Seq(R)
  <2> SUFFICES ASSUME NEW m \in 1 .. N PROVE ss[m] \in Seq(R)
    OBVIOUS
  <2> DEFINE k == n - m
             f == index[k].data
  <2>1. k \in 1 .. Len(index) BY <1>3
  <2>2. ss[m] = IF index[k].off = 0 THEN <<Entry(f, 0)>> ELSE <<>> OBVIOUS
  <2> HIDE DEF k
  <2>3. index[k].off = 0 => f \in C BY <1>7, <2>1
  <2> HIDE DEF f
  <2>4. CASE index[k].off = 0
    <3>1. Entry(f, 0) \in R BY <1>4, <2>3, <2>4
    <3>2. <<Entry(f, 0)>> \in Seq(R) BY <3>1, OneIs
    <3> QED BY <2>2, <2>4, <3>2
  <2>5. CASE index[k].off # 0 BY <1>8, <2>2, <2>5
  <2> QED BY <2>4, <2>5
<1>10. ss = [m \in 1 .. N |-> ss[m]] OBVIOUS
<1>11. \A u \in B : \A m \in 1 .. N : u \o ss[m] \in B
  <2> SUFFICES ASSUME NEW u \in B, NEW m \in 1 .. N PROVE u \o ss[m] \in B
    OBVIOUS
  <2> DEFINE v == ss[m]
  <2>1. v \in Seq(R) BY <1>9
  <2> HIDE DEF v
  <2>2. u \o v \in Seq(R) BY <2>1
  <2> QED BY <2>2 DEF v
<1>12. FlattenSeq(ss) \in B
  <2>1. N \in Nat BY <1>3
  <2> HIDE DEF N, B
  <2> QED BY ONLY <1>8, <1>9, <1>10, <1>11, <2>1, FlattenIn
<1> DEFINE es == FlattenSeq(ss)
<1>13. es \in Seq(R) BY <1>12
<1> HIDE DEF es
<1>14. \A i \in 1 .. Len(es) : es[i] \in R BY <1>13, SeqFacts
<1>15. \A i \in 1 .. Len(es) :
         /\ es[i] \in ListRec /\ es[i].file \in 1 .. Len(file) /\ es[i].off = 0
         /\ file[es[i].file].cont = Len(list)
  <2> SUFFICES ASSUME NEW i \in 1 .. Len(es)
               PROVE  /\ es[i] \in ListRec /\ es[i].file \in 1 .. Len(file) /\ es[i].off = 0
                      /\ file[es[i].file].cont = Len(list)
    OBVIOUS
  <2>1. es[i] \in R BY <1>14
  <2> QED BY <1>5, <1>6, <2>1
<1>16. es \in Seq(ListRec)
  <2>1. R \subseteq ListRec BY <1>5
  <2> QED BY <1>13, <2>1
<1>17. Len(list) <= Len(list) BY <1>2
<1>18. Following(file, Len(list), es)
  <2>1. \A i \in 1 .. Len(es) : /\ es[i].file \in 1 .. Len(file) /\ es[i].off = 0
                                /\ Len(list) <= file[es[i].file].cont
    BY <1>15, <1>17
  <2>2. \A i, j \in 1 .. Len(es) : file[es[i].file].cont <= file[es[j].file].cont
    BY <1>15, <1>17
  <2> QED BY <1>16, <2>1, <2>2 DEF Following
<1> QED BY <1>18 DEF es

LEMMA HistoryPast ==
  ASSUME LiveInv, NEW t, NEW es, es = iterateHistory(t)
  PROVE  Past(file, list, es)
<1> DEFINE s == Entry(StateFile, 0)
<1>1. /\ index \in Seq(IndexRec) /\ index # <<>> /\ FilesOK(file, list)
      /\ IndexOK(file, list, index) /\ file \in Seq(FileRec) /\ list \in Seq(Seq(Nat))
      /\ StackOK(file, stack, list)
  BY DEF LiveInv, IndexOK, FilesOK, ListOK
<1>2. Len(index) \in Nat /\ Len(list) \in Nat /\ Len(file) \in Nat BY <1>1, SeqFacts
<1>3. s \in ListRec /\ s.file = StateFile
  <2>1. StateFile \in Nat BY LiveAssumption DEF StateFile
  <2> QED BY <2>1 DEF Entry, ListRec
<1> HIDE DEF s
<1>4. \A f \in 1 .. Len(file) : \A o \in Nat :
        Entry(f, o) \in ListRec /\ IsFile(file, Entry(f, o).file)
  BY <1>2 DEF Entry, ListRec, IsFile
<1>5. CASE t = 0
  <2> DEFINE f == stack[1].modes[1].file
             x == Entry(f, file[f].size)
  <2>1. f \in 1 .. Len(file)
    <3>1. stack \in Seq(Cont) /\ stack # <<>> BY <1>1 DEF StackOK
    <3>2. 1 \in 1 .. Len(stack) /\ stack[1] \in Cont BY <3>1, SeqFacts
    <3>3. stack[1].modes \in Seq(Mode) BY <3>2 DEF Cont
    <3>4. stack[1].modes # <<>> BY <1>1, <3>2, Zenon DEF StackOK
    <3>5. 1 \in 1 .. Len(stack[1].modes) BY <3>3, <3>4, SeqFacts
    <3>6. ModeOK(file, stack[1].id, stack[1].modes[1])
      BY <1>1, <3>2, <3>5, Zenon DEF StackOK
    <3> QED BY <3>6 DEF ModeOK, OfCont
  <2> HIDE DEF f
  <2>2. file[f].size \in Nat
    <3>1. file[f] \in FileRec BY <1>1, <2>1, SeqFacts
    <3> QED BY <3>1 DEF FileRec
  <2>3. x \in ListRec /\ IsFile(file, x.file) BY <1>4, <2>1, <2>2
  <2>4. es = <<s, x>> BY <1>5 DEF iterateHistory, s, f
  <2> HIDE DEF x
  <2>5. <<s, x>> = <<s>> \o <<x>> OBVIOUS
  <2>6. Past(file, list, <<s>> \o <<x>>) BY <1>3, <2>3, SnapshotFirst
  <2> QED BY <2>4, <2>5, <2>6
<1>6. CASE t # 0
  <2> DEFINE n == StartAt(t)
             a == index[n]
             x == Entry(a.data, a.off)
             p == State(a) \o <<x>>
             ss == [m \in 1 .. n - 1 |->
                      IF index[n - m].off = 0 THEN <<Entry(index[n - m].data, 0)>> ELSE <<>>]
             q == FlattenSeq(ss)
  <2>1. es = p \o q BY <1>6 DEF iterateHistory
  <2>2. n \in 1 .. Len(index) BY <1>1, StartAtIs
  <2> HIDE DEF n
  <2>3. Following(file, Len(list), q)
    <3> HIDE DEF ss
    <3>1. ss = [m \in 1 .. n - 1 |->
                 IF index[n - m].off = 0 THEN <<Entry(index[n - m].data, 0)>> ELSE <<>>]
      BY DEF ss
    <3> QED BY <2>2, <3>1, LaterFollow
  <2> HIDE DEF q
  <2>4. a \in IndexRec /\ a.data \in 1 .. Len(file) BY <1>1, <2>2, SeqFacts DEF IndexOK
  <2> HIDE DEF a
  <2>5. a.off \in Nat BY <2>4 DEF IndexRec
  <2>6. x \in ListRec /\ IsFile(file, x.file) BY <1>4, <2>4, <2>5
  <2> HIDE DEF x
  <2>7. Past(file, list, p)
    <3>1. CASE a.state
      <4>1. State(a) = <<s>> BY <3>1 DEF State, s
      <4>2. Past(file, list, <<s>> \o <<x>>) BY <1>3, <2>6, SnapshotFirst
      <4> QED BY <4>1, <4>2
    <3>2. CASE ~a.state
      <4>1. State(a) = <<>> BY <3>2 DEF State
      <4>2. p = <<x>> BY <4>1
      <4>3. Past(file, list, <<x>>) BY <2>6, OnePast
      <4> QED BY <4>2, <4>3
    <3> QED BY <3>1, <3>2
  <2> HIDE DEF p
  <2> QED BY <1>1, <1>2, <2>1, <2>3, <2>7, LaterPast
<1> QED BY <1>5, <1>6

Greeted(c, fl, id, K, d) ==
  d = [c EXCEPT !.phase = "on", !.flags = fl, !.joined = id, !.known = K]
Opened(c, q, id, d) == d = [c EXCEPT !.conts = q, !.contSub = id, !.write = TRUE]
Follows(c, q, id, d) ==
  /\ d \in ClientRec /\ d.conts = q /\ d.contSub = id /\ d.write = TRUE
  /\ d.phase = c.phase /\ d.joined = c.joined /\ d.known = c.known
  /\ d.files = c.files /\ d.sub = c.sub

LEMMA GreetedSame ==
  ASSUME NEW c \in ClientRec, NEW fl \in {"none", "SEND_PAUSE_DATA", "NO_PAUSE_DATA"},
         NEW id \in Nat, NEW K \in SUBSET Nat, NEW d, Greeted(c, fl, id, K, d)
  PROVE  /\ d \in ClientRec /\ d.phase = "on" /\ d.joined = id /\ d.known = K
         /\ d.files = c.files /\ d.sub = c.sub
BY DEF ClientRec, Greeted

LEMMA OpenedSame ==
  ASSUME NEW c \in ClientRec, NEW q \in Seq(ContRec), NEW id \in Nat, NEW d, Opened(c, q, id, d)
  PROVE  Follows(c, q, id, d)
BY DEF ClientRec, Opened, Follows

\* A client that has just joined follows the current container from here on.
LEMMA JoinedPart ==
  ASSUME NEW F, NEW S, NEW L, FilesOK(F, L), Len(L) \in Nat, Len(L) \in 1 .. Len(L),
         NEW T, 1 .. Len(T) = {}, NEW g \in Seq(ChunkRec), 1 .. Len(g) = {},
         NEW K, \A x \in 1 .. Len(L) : \A i \in 1 .. Len(L[x]) : L[x][i] \in K,
         NEW e \in ClientRec, e.phase = "on", e.write = TRUE, SubOK(F, e), Ordered(F, g, e.files),
         e.joined = Len(L), e.known = K, e.contSub = Len(L), Len(e.conts) = 1,
         e.conts \in Seq(ContRec), e.conts[1].cont = Len(L), e.conts[1].starting
  PROVE  ClientPart(F, S, L, T, e, g)
<1>1. e.conts # <<>> BY SeqFacts
<1>2. \A n \in 1 .. Len(e.conts) : n = 1 OBVIOUS
<1>3. \A n, m \in 1 .. Len(e.conts) : ~(n < m) OBVIOUS
<1>4. Upto(F, g, e.files, Reach(L, e))
  <2>1. Reach(L, e) = Len(L) BY <1>1 DEF Reach
  <2> QED BY <2>1, UptoAll
<1>5. Heard(F, L, e, g) BY DEF Heard
<1>6. ContsOK(S, L, T, e) BY <1>1, <1>2, <1>3 DEF ContsOK
<1>7. Covered(S, L, T, e) BY DEF Covered
<1>8. ClientOK(F, S, L, T, e, g) BY <1>4, <1>5, <1>6, <1>7 DEF ClientOK, Woken
<1> QED BY <1>8 DEF ClientPart

LEMMA KnownIs ==
  ASSUME NEW L \in Seq(Seq(Nat)), NEW K, K = UNION {ToSet(l) : l \in ToSet(L)}
  PROVE  /\ K \in SUBSET Nat
         /\ \A x \in 1 .. Len(L) : \A i \in 1 .. Len(L[x]) : L[x][i] \in K
<1>1. \A x : x \in DOMAIN L <=> x \in 1 .. Len(L) BY SeqFacts
<1>2. \A x \in 1 .. Len(L) : L[x] \in Seq(Nat) BY SeqFacts
<1>3. \A l : l \in Seq(Nat) => (\A i : i \in DOMAIN l <=> i \in 1 .. Len(l))
  BY SeqFacts
<1>4. \A l : l \in Seq(Nat) => \A i \in 1 .. Len(l) : l[i] \in Nat BY SeqFacts
<1>5. \A l \in ToSet(L) : \E x \in 1 .. Len(L) : l = L[x] BY <1>1 DEF ToSet
<1>6. \A x \in 1 .. Len(L) : L[x] \in ToSet(L) BY <1>1 DEF ToSet
<1>7. ASSUME NEW y \in K PROVE y \in Nat
  <2>1. PICK l \in ToSet(L) : y \in ToSet(l) BY Zenon
  <2>2. l \in Seq(Nat) BY <1>2, <1>5
  <2>3. PICK i \in DOMAIN l : y = l[i] BY <2>1 DEF ToSet
  <2> QED BY <1>3, <1>4, <2>2, <2>3
<1>8. ASSUME NEW x \in 1 .. Len(L), NEW i \in 1 .. Len(L[x]) PROVE L[x][i] \in K
  <2> DEFINE l == L[x]
  <2>1. l \in Seq(Nat) /\ l \in ToSet(L) BY <1>2, <1>6
  <2>2. i \in 1 .. Len(l) OBVIOUS
  <2> HIDE DEF l
  <2>3. l[i] \in ToSet(l) BY <1>3, <2>1, <2>2 DEF ToSet
  <2>4. l[i] \in K BY <2>1, <2>3, Zenon
  <2> QED BY <2>4 DEF l
<1> QED BY <1>7, <1>8

LEMMA HelloKept ==
  ASSUME LiveInv, NEW t, NEW fl \in {"none", "SEND_PAUSE_DATA", "NO_PAUSE_DATA"}, Hello(t, fl)
  PROVE  LiveInv'
<1> DEFINE id == stack[1].id
           K == UNION {ToSet(l) : l \in ToSet(list)}
           c == [client EXCEPT !.phase = "on", !.flags = fl, !.joined = id, !.known = K]
           es == iterateHistory(t)
           d == PushFiles(c, es)
           x == [cont |-> id, starting |-> TRUE]
           q == <<x>>
           e == [d EXCEPT !.conts = q, !.contSub = id, !.write = TRUE]
<1>1. /\ todo = <<>> /\ client.phase = "hello" /\ client' = e
      /\ UNCHANGED <<storage, todo>> /\ sendPaused' = sendPaused /\ got' = got /\ file' = file
  BY DEF Hello, Idle, server, storage
<1>2. /\ client \in ClientRec /\ client.files = <<>> /\ client.sub = NoFile /\ got = <<>>
      /\ FilesOK(file, list) /\ list \in Seq(Seq(Nat)) /\ sendPaused \in BOOLEAN
      /\ got \in Seq(ChunkRec) /\ stack # <<>> /\ stack \in Seq(Cont) /\ id = Len(list)
  BY <1>1, SameOrdered DEF LiveInv, ListOK, StackOK
<1>3. Len(list) \in Nat /\ Len(list) \in 1 .. Len(list)
  <2>1. 1 \in 1 .. Len(stack) BY <1>2, SeqFacts
  <2>2. id \in 1 .. Len(list) BY <2>1 DEF LiveInv, StackOK
  <2> QED BY <1>2, <2>2, SeqFacts
<1>4. K \in SUBSET Nat /\ \A y \in 1 .. Len(list) : \A i \in 1 .. Len(list[y]) : list[y][i] \in K
  BY <1>2, KnownIs
<1> HIDE DEF K, id
<1>5. Greeted(client, fl, id, K, c) BY DEF Greeted
<1> HIDE DEF c
<1>6. /\ c \in ClientRec /\ c.phase = "on" /\ c.joined = id /\ c.known = K
      /\ c.files = client.files /\ c.sub = client.sub
  BY <1>2, <1>3, <1>4, <1>5, GreetedSame
<1>7. SubOK(file, c) BY <1>2, <1>6 DEF SubOK
<1>8. Past(file, list, es) BY HistoryPast
<1> HIDE DEF es
<1>9. es \in Seq(ListRec) BY <1>8 DEF Past
<1>10. Pushed(file, c, es, d) BY <1>1, <1>6, <1>7, <1>9, PushIs
<1> HIDE DEF d
<1>11. SameClient(c, d) /\ SubOK(file, d) /\ d.files = es
  <2>1. SameClient(c, d) /\ SubOK(file, d) /\ d.files = c.files \o es BY <1>10 DEF Pushed
  <2>2. c.files \o es = es BY <1>2, <1>6, <1>9
  <2> QED BY <2>1, <2>2
<1>12. d \in ClientRec /\ d.phase = "on" /\ d.joined = id /\ d.known = K
  BY <1>6, <1>11 DEF SameClient
<1>13. x \in ContRec /\ x.cont = id /\ x.starting BY <1>2, <1>3 DEF ContRec
<1> HIDE DEF x
<1>14. q \in Seq(ContRec) /\ Len(q) = 1 /\ q[1] = x BY <1>13, OneIs
<1> HIDE DEF q
<1>15. Opened(d, q, id, e) BY DEF Opened
<1> HIDE DEF e
<1>16. /\ e \in ClientRec /\ e.conts = q /\ e.contSub = id /\ e.write = TRUE
       /\ e.phase = "on" /\ e.joined = id /\ e.known = K /\ e.files = es /\ e.sub = d.sub
  <2>1. id \in Nat BY <1>2, <1>3
  <2>2. d.files = es BY <1>11
  <2>3. d \in ClientRec /\ q \in Seq(ContRec) BY <1>12, <1>14
  <2>4. /\ e \in ClientRec /\ e.conts = q /\ e.contSub = id /\ e.write = TRUE
        /\ e.phase = d.phase /\ e.joined = d.joined /\ e.known = d.known
        /\ e.files = d.files /\ e.sub = d.sub
    <3>1. Follows(d, q, id, e) BY ONLY <1>15, <2>1, <2>3, OpenedSame
    <3> QED BY <3>1 DEF Follows
  <2> QED BY <1>12, <2>2, <2>4
<1>17. SubOK(file, e) BY <1>11, <1>16 DEF SubOK
<1>18. Ordered(file, got, e.files) BY <1>2, <1>8, <1>16 DEF Past
<1>19. 1 .. Len(got) = {} /\ 1 .. Len(todo) = {} BY <1>1, <1>2
<1>20. ClientPart(file, stack, list, todo, e, got)
  BY <1>2, <1>3, <1>4, <1>13, <1>14, <1>16, <1>17, <1>18, <1>19, JoinedPart
<1> QED BY <1>1, <1>2, <1>20, ClientStep

LEMMA ReadyKept == ASSUME LiveInv, SocketReady PROVE LiveInv'
<1>1. /\ On /\ UNCHANGED <<storage, todo>> /\ sendPaused' = sendPaused /\ file' = file
      /\ sendPaused \in BOOLEAN /\ FilesOK(file, list)
  BY DEF SocketReady, storage, server, LiveInv, On
<1>2. PICK r \in Writable(client, got) : client' = r.c /\ got' = r.got BY DEF SocketReady
<1>3. Ready(file, stack, list, todo, client, got) BY <1>1, NowReady
<1>4. Outcome(file, client, got, r.c, r.got)
  <2>1. /\ client \in ClientRec /\ got \in Seq(ChunkRec) /\ SubOK(file, client)
        /\ Ordered(file, got, client.files)
    BY <1>3 DEF Ready
  <2> QED BY <1>1, <1>2, <2>1, WritableIs
<1>5. ClientPart(file, stack, list, todo, r.c, r.got) BY <1>3, <1>4, OutcomeKept
<1> QED BY <1>1, <1>2, <1>5, ClientStep

LEMMA ConnectionKept == ASSUME LiveInv, newConnection PROVE LiveInv'
<1> DEFINE d == [NoClient EXCEPT !.phase = "hello", !.sendPaused = sendPaused]
<1>1. /\ client.phase = "none" /\ client' = d /\ UNCHANGED <<storage, todo>>
      /\ sendPaused' = sendPaused /\ got' = got /\ sendPaused \in BOOLEAN
  BY DEF newConnection, server, LiveInv
<1>2. got = <<>> /\ got \in Seq(ChunkRec) BY <1>1, SameOrdered
<1>3. d.phase = "hello" /\ d.files = <<>> /\ d.sub = NoFile /\ d \in ClientRec
  <2>1. /\ <<>> \in Seq(ListRec) /\ <<>> \in Seq(ContRec) /\ NoFile \in Nat /\ NoCont \in Nat
        /\ FALSE \in BOOLEAN /\ {} \in SUBSET Nat
    BY DEF NoFile, NoCont
  <2> QED BY <1>1, <2>1 DEF NoClient, ClientRec
<1> HIDE DEF d
<1>4. Ordered(file, got, d.files)
  <2>1. 1 .. Len(got) = {} /\ 1 .. Len(d.files) = {} BY <1>2, <1>3
  <2> QED BY <2>1, Zenon DEF Ordered
<1>5. ClientPart(file, stack, list, todo, d, got) BY <1>2, <1>3, <1>4 DEF ClientPart
<1> QED BY <1>1, <1>5, ClientStep

LEMMA DisconnectKept == ASSUME LiveInv, Disconnect PROVE LiveInv'
<1> DEFINE d == [NoClient EXCEPT !.phase = "gone"]
<1>1. /\ client' = d /\ UNCHANGED <<storage, todo>> /\ sendPaused' = sendPaused /\ got' = got
      /\ sendPaused \in BOOLEAN
  BY DEF Disconnect, server, LiveInv
<1>2. ClientPart(file, stack, list, todo, d, got) BY SameOrdered, GoneKept
<1> QED BY <1>1, <1>2, ClientStep

LEMMA LiveKept == ASSUME LiveInv, Live PROVE LiveInv'
<1>1. CASE \E ok \in BOOLEAN : setupListener(ok)
  <2>1. UNCHANGED <<storage, todo>> /\ sendPaused' = sendPaused /\ client' = client /\ got' = got
        /\ sendPaused \in BOOLEAN
    BY <1>1 DEF setupListener, LiveInv
  <2> QED BY <2>1, NowPart, ClientStep
<1>2. CASE Toggle
  <2>1. UNCHANGED <<storage, todo>> /\ sendPaused' = ~sendPaused /\ client' = client /\ got' = got
    BY <1>2 DEF Toggle
  <2> QED BY <2>1, NowPart, ClientStep
<1>3. CASE \E s \in Starts, fl \in Flags : Hello(s, fl)
  <2>1. PICK s \in Starts, fl \in Flags : Hello(s, fl) BY <1>3
  <2>2. fl \in {"none", "SEND_PAUSE_DATA", "NO_PAUSE_DATA"} BY LiveAssumption
  <2> QED BY <2>1, <2>2, HelloKept
<1> QED BY <1>1, <1>2, <1>3, ConnectionKept, DisconnectKept, ReadyKept DEF Live

LEMMA StorageKept == ASSUME LiveInv, Storage PROVE LiveInv'
<1>1. DOMAIN stack \subseteq Nat
  <2>1. stack \in Seq(Cont) BY DEF LiveInv, StackOK
  <2>2. DOMAIN stack = 1 .. Len(stack) BY <2>1, SeqFacts
  <2> QED BY <2>2
<1>2. CASE \E k \in DOMAIN stack, i \in 1 .. MaxModes, t \in pulseTime .. MaxTime, n \in BOOLEAN :
             addPacket(k, i, t, n)
  <2>1. PICK k \in DOMAIN stack, i \in 1 .. MaxModes, t \in pulseTime .. MaxTime, n \in BOOLEAN :
          addPacket(k, i, t, n)
    BY <1>2
  <2>2. pulseTime \in Nat BY DEF LiveInv
  <2>3. k \in Nat /\ i \in Nat /\ t \in Nat BY <1>1, <2>2
  <2> QED BY <2>1, <2>3, PacketKept
<1>3. CASE \E k \in DOMAIN stack, i \in 1 .. MaxModes : ExpireMode(k, i)
  <2>1. PICK k \in DOMAIN stack, i \in 1 .. MaxModes : ExpireMode(k, i) BY <1>3
  <2>2. k \in Nat /\ i \in Nat BY <1>1
  <2> QED BY <2>1, <2>2, ExpireModeKept
<1>4. CASE \E k \in DOMAIN stack : ExpireContainer(k)
  BY <1>1, <1>4, ExpireContKept
<1> QED BY <1>2, <1>3, <1>4, PushKept, NextKept DEF Storage

LEMMA DeliverKept == ASSUME LiveInv, Deliver PROVE LiveInv'
<1> DEFINE e == Head(todo)
<1>1. /\ todo # <<>> /\ todo' = Tail(todo)
      /\ UNCHANGED <<stack, index, pulseTime, nextIndex, server>>
      /\ \/ e.op = "add" /\ DeliverAdd(e)
         \/ e.op = "write" /\ DeliverWrite(e)
         \/ e.op = "close" /\ DeliverClose(e)
         \/ e.op = "cont" /\ DeliverCont(e)
  BY DEF Deliver, Idle
<1>2. e = Head(todo) OBVIOUS
<1> HIDE DEF e
<1> QED BY <1>1, <1>2, AddKept, WriteKept, CloseKept, ContKept

LEMMA NotEmpty == ASSUME NEW s, Len(s) = 1 PROVE s # <<>>
<1>1. Len(<<>>) = 0 OBVIOUS
<1> QED BY <1>1

LEMMA InitLive == Init => LiveInv
<1> SUFFICES ASSUME Init PROVE LiveInv
  OBVIOUS
<1> DEFINE m == [NewMode(FALSE) EXCEPT !.file = 1]
           f == [cont |-> 1, paused |-> FALSE, active |-> TRUE, size |-> 1, seen |-> 0]
           x == [key |-> 1, state |-> FALSE, data |-> 1, off |-> 0]
           ms == <<m>>
           k == [id |-> 1, modes |-> ms]
           l == <<1>>
<1>1. /\ file = <<f>> /\ stack = <<k>> /\ list = <<l>> /\ index = <<x>>
      /\ todo = <<>> /\ pulseTime = 1 /\ sendPaused = TRUE /\ client = NoClient /\ got = <<>>
  BY DEF Init
<1>2. f \in FileRec /\ f.cont = 1 /\ f.size = 1 /\ f.seen = 0 BY DEF FileRec
<1>3. x \in IndexRec /\ x.data = 1 /\ x.off = 0 BY DEF IndexRec
<1>4. m \in Mode /\ m.file = 1 /\ m.pending = <<>>
  <2>1. <<>> \in Seq(Nat) OBVIOUS
  <2> QED BY <2>1 DEF Mode, NewMode
<1> HIDE DEF f, x, m
<1>5. ms \in Seq(Mode) /\ Len(ms) = 1 /\ ms[1] = m BY <1>4, OneIs
<1> HIDE DEF ms
<1>6. k \in Cont /\ k.id = 1 /\ k.modes = ms BY <1>5 DEF Cont
<1> HIDE DEF k
<1>7. /\ file \in Seq(FileRec) /\ Len(file) = 1 /\ file[1] = f
      /\ stack \in Seq(Cont) /\ Len(stack) = 1 /\ stack[1] = k
      /\ index \in Seq(IndexRec) /\ Len(index) = 1 /\ index[1] = x
      /\ l \in Seq(Nat) /\ Len(l) = 1 /\ l[1] = 1
  BY <1>1, <1>2, <1>3, <1>6, OneIs
<1> HIDE DEF l
<1>8. list \in Seq(Seq(Nat)) /\ Len(list) = 1 /\ list[1] = l BY <1>1, <1>7, OneIs
<1>9. \A i \in 1 .. 1 : i = 1 OBVIOUS
<1>10. OfCont(file, 1, 1) BY <1>2, <1>7 DEF OfCont
<1>11. FilesOK(file, list) BY <1>2, <1>7, <1>8, <1>9 DEF FilesOK
<1>12. StackOK(file, stack, list)
  <2>1. AllOf(file, 1, m.pending)
    <3>1. 1 .. Len(m.pending) = {} BY <1>4
    <3> QED BY <3>1, Zenon DEF AllOf
  <2>2. ModeOK(file, 1, m) BY <1>4, <1>10, <2>1 DEF ModeOK
  <2>3. stack # <<>> /\ stack[1].modes # <<>>
    <3>1. stack # <<>> BY <1>7, NotEmpty
    <3>2. ms # <<>> BY <1>5, NotEmpty
    <3> QED BY <1>6, <1>7, <3>1, <3>2
  <2> QED BY <1>5, <1>6, <1>7, <1>8, <1>9, <2>2, <2>3 DEF StackOK
<1>13. ListOK(file, list)
  <2>1. AllOf(file, 1, l) BY <1>7, <1>9, <1>10 DEF AllOf
  <2> QED BY <1>8, <1>9, <2>1 DEF ListOK
<1>14. IndexOK(file, list, index) BY <1>2, <1>3, <1>7, <1>8, <1>9 DEF IndexOK
<1>15. 1 .. Len(todo) = {} /\ 1 .. Len(got) = {} BY <1>1
<1>16. TodoOK(file, stack, list, todo)
  <2>1. todo \in Seq(TodoRec) BY <1>1
  <2> QED BY <1>15, <2>1, Zenon DEF TodoOK
<1>17. client \in ClientRec /\ client.phase = "none" /\ client.files = <<>> /\ client.sub = NoFile
  <2>1. /\ <<>> \in Seq(ListRec) /\ <<>> \in Seq(ContRec) /\ NoFile \in Nat /\ NoCont \in Nat
        /\ FALSE \in BOOLEAN /\ {} \in SUBSET Nat
    BY DEF NoFile, NoCont
  <2> QED BY <1>1, <2>1 DEF NoClient, ClientRec
<1>18. Ordered(file, got, client.files)
  <2>1. 1 .. Len(client.files) = {} BY <1>17
  <2> QED BY <1>15, <2>1, Zenon DEF Ordered
<1>19. index # <<>> BY <1>7, NotEmpty
<1>20. got \in Seq(ChunkRec) /\ pulseTime \in Nat /\ sendPaused \in BOOLEAN BY <1>1
<1>21. Len(file) <= MaxFiles BY <1>7, LiveAssumption
<1> QED BY <1>1, <1>11, <1>12, <1>13, <1>14, <1>16, <1>17, <1>18, <1>19, <1>20, <1>21
     DEF LiveInv, On

\* The inductive invariant: the events that an operation of the storage may
\* still deliver, and what the client is subscribed to, follows, waits for and
\* has listed, fit together in every state, also half way through a list of
\* callbacks.
THEOREM LiveInvariant == Spec => []LiveInv
<1>1. Init => LiveInv BY InitLive
<1>2. LiveInv /\ [Next]_vars => LiveInv'
  <2> SUFFICES ASSUME LiveInv, [Next]_vars PROVE LiveInv'
    OBVIOUS
  <2>1. CASE Storage BY <2>1, StorageKept
  <2>2. CASE Deliver BY <2>2, DeliverKept
  <2>3. CASE Live BY <2>3, LiveKept
  <2>4. CASE UNCHANGED vars
    <3>1. /\ UNCHANGED <<storage, todo>> /\ sendPaused' = sendPaused
          /\ client' = client /\ got' = got
      BY <2>4 DEF vars, server
    <3>2. sendPaused \in BOOLEAN BY DEF LiveInv
    <3> QED BY <3>1, <3>2, NowPart, ClientStep
  <2> QED BY <2>1, <2>2, <2>3, <2>4 DEF Next
<1> QED BY <1>1, <1>2, PTL DEF Spec

\* ListenerWoken: a listener whose write adapter writable() has deleted has
\* nothing left to send that was signalled, and is subscribed to the open file
\* it waits on, whichever files were added, updated and closed meanwhile and
\* however the containers changed (writable(), fileAdded(), fileUpdated(),
\* containerChange()).
THEOREM ListenerAlwaysWoken == Spec => []ListenerWoken
<1>1. LiveInv => ListenerWoken
  <2> SUFFICES ASSUME LiveInv, On, ~client.write, client.files # <<>>
               PROVE  LET f == client.files[1].file
                      IN  f # StateFile /\ file[f].active /\ client.sub = f
                          /\ client.files[1].off >= file[f].seen
    BY DEF ListenerWoken
  <2>1. SubOK(file, client) /\ Woken(file, client) BY DEF LiveInv, ClientOK
  <2> QED BY <2>1 DEF SubOK, Woken, IsActive
<1> QED BY <1>1, LiveInvariant, PTL

LEMMA NoneMissed == LiveInv => NothingMissed
<1> SUFFICES ASSUME LiveInv, On, NEW x \in DOMAIN list, NEW f \in ToSet(list[x])
             PROVE  \/ x < client.joined \/ f \in client.known \/ file[f].paused
                    \/ x \in Waiting \/ f \in Listed \union Received
  BY DEF NothingMissed
<1>1. Ready(file, stack, list, todo, client, got) BY NowReady
<1>2. list \in Seq(Seq(Nat)) /\ client.files \in Seq(ListRec) /\ client.conts \in Seq(ContRec)
      /\ got \in Seq(ChunkRec)
  BY <1>1 DEF LiveInv, ListOK, Ready, ClientRec
<1>3. x \in 1 .. Len(list) /\ list[x] \in Seq(Nat) BY <1>2, SeqFacts
<1>4. PICK i \in 1 .. Len(list[x]) : f = list[x][i]
  <2> DEFINE l == list[x]
  <2>1. l \in Seq(Nat) /\ f \in ToSet(l) BY <1>3
  <2> HIDE DEF l
  <2>2. \E i \in 1 .. Len(l) : f = l[i] BY <2>1, SeqFacts DEF ToSet
  <2> QED BY <2>2 DEF l
<1>5. \/ x < client.joined \/ f \in client.known \/ file[f].paused
      \/ Waits(client, x) \/ Counted(got, client.files, f)
  BY <1>1, <1>3, <1>4, Zenon DEF Ready, Heard
<1>6. /\ DOMAIN got = 1 .. Len(got) /\ DOMAIN client.files = 1 .. Len(client.files)
      /\ DOMAIN client.conts = 1 .. Len(client.conts)
  BY <1>2, SeqFacts
<1>7. Waits(client, x) => x \in Waiting BY <1>6 DEF Waits, Waiting
<1>8. Counted(got, client.files, f) => f \in Listed \union Received
  BY <1>6 DEF Counted, Listed, Received
<1> QED BY <1>5, <1>7, <1>8

LEMMA AllInOrder == LiveInv => ContainersInOrder
<1> SUFFICES ASSUME LiveInv PROVE ContainersInOrder
  OBVIOUS
<1> DEFINE a == [k \in DOMAIN got |-> got[k].file]
           b == [k \in DOMAIN client.files |-> client.files[k].file]
           order == a \o b
<1>1. /\ Ordered(file, got, client.files) /\ got \in Seq(ChunkRec)
      /\ client.files \in Seq(ListRec)
  BY SameOrdered DEF ClientRec
<1> DEFINE N == Len(got)
           M == Len(client.files)
<1>2. /\ N \in Nat /\ DOMAIN got = 1 .. N /\ M \in Nat /\ DOMAIN client.files = 1 .. M
      /\ \A i \in 1 .. N : got[i] \in ChunkRec
      /\ \A i \in 1 .. M : client.files[i] \in ListRec
  BY <1>1, SeqFacts
<1>3. /\ \A i \in 1 .. N : a[i] = got[i].file /\ a[i] \in Nat
      /\ \A i \in 1 .. M : b[i] = client.files[i].file /\ b[i] \in Nat
  BY <1>2 DEF ChunkRec, ListRec
<1>4. a = [i \in 1 .. N |-> a[i]] /\ b = [i \in 1 .. M |-> b[i]] BY <1>2
<1> HIDE DEF N, M, a, b
<1>5. a \in Seq(Nat) /\ Len(a) = N /\ b \in Seq(Nat) /\ Len(b) = M
  BY <1>2, <1>3, <1>4, MapIs
<1>6. order \in Seq(Nat) /\ JoinOf(order, a, b) BY <1>5, JoinIs
<1>7. DOMAIN order = 1 .. Len(order) BY <1>6, SeqFacts
<1> HIDE DEF order
<1>8. /\ \A i, j \in 1 .. N : i < j => NotAfter(file, a[i], a[j])
      /\ \A i, j \in 1 .. M : i < j => NotAfter(file, b[i], b[j])
      /\ \A i \in 1 .. N, j \in 1 .. M : NotAfter(file, a[i], b[j])
  <2>1. /\ \A i, j \in 1 .. N : i < j => NotAfter(file, got[i].file, got[j].file)
        /\ \A i, j \in 1 .. M : i < j => NotAfter(file, client.files[i].file, client.files[j].file)
        /\ \A i \in 1 .. N, j \in 1 .. M : NotAfter(file, got[i].file, client.files[j].file)
    BY <1>1, Zenon DEF Ordered, N, M
  <2> QED BY <1>3, <2>1
<1>9. \A n \in 1 .. Len(order) : \/ n \in 1 .. N /\ order[n] = a[n]
                                 \/ \E i \in 1 .. M : n = N + i /\ order[n] = b[i]
  BY <1>5, <1>6, Zenon DEF JoinOf
<1>10. ASSUME NEW n \in 1 .. Len(order), NEW m \in 1 .. Len(order), n < m
       PROVE  NotAfter(file, order[n], order[m])
  <2>1. CASE n \in 1 .. N /\ order[n] = a[n]
    <3>1. CASE m \in 1 .. N /\ order[m] = a[m] BY <1>8, <1>10, <2>1, <3>1
    <3>2. CASE \E j \in 1 .. M : order[m] = b[j] BY <1>8, <2>1, <3>2
    <3> QED BY <1>9, <3>1, <3>2
  <2>2. CASE \E i \in 1 .. M : n = N + i /\ order[n] = b[i]
    <3>1. PICK i \in 1 .. M : n = N + i /\ order[n] = b[i] BY <2>2
    <3>2. ~(m \in 1 .. N) BY <1>2, <1>10, <3>1
    <3>3. PICK j \in 1 .. M : m = N + j /\ order[m] = b[j] BY <1>9, <3>2
    <3>4. i < j BY <1>2, <1>10, <3>1, <3>3
    <3> QED BY <1>8, <3>1, <3>3, <3>4
  <2> QED BY <1>9, <2>1, <2>2
<1>11. \A i, j \in DOMAIN order : (i < j /\ StateFile \notin {order[i], order[j]}) =>
         file[order[i]].cont <= file[order[j]].cont
  BY <1>7, <1>10 DEF NotAfter
<1> QED BY <1>11, Zenon DEF ContainersInOrder, order, a, b

\* StreamedInOrder: from its first packet on a listener is streamed every file
\* without paused data that is announced, container by container, whatever the
\* order in which modes are pushed, old containers are kept and end, and the
\* socket accepts data (rxPacket(), containerChange(), fileAdded(), writable()).
THEOREM AlwaysStreamedInOrder == Spec => []StreamedInOrder
<1>1. LiveInv => StreamedInOrder BY NoneMissed, AllInOrder DEF StreamedInOrder
<1> QED BY <1>1, LiveInvariant, PTL

=============================================================================
