-------------------------- MODULE RunStreamProofs --------------------------
(***************************************************************************)
(* A run is streamed whole and in order, and no client sleeps through its  *)
(* end: for every number of pause modes, files and packets, every order in *)
(* which late packets reach old modes, and every interleaving of the       *)
(* container's signals with the client.                                    *)
(*                                                                         *)
(* The argument has two halves.  The container's half (Kept) follows a     *)
(* file from the mode that opened it, where it may be deferred, through    *)
(* the signals still to be delivered to the announced list: modes are      *)
(* numbered upwards, a mode's files too, and what is announced belongs to  *)
(* modes no younger than the oldest one that is open.  The client's half   *)
(* (Served) is that it is subscribed to the file it is at exactly as long  *)
(* as that file is written to, and that it passes over nothing that is     *)
(* still written to, but for the files of a pause.                         *)
(***************************************************************************)
EXTENDS RunStream, SequenceTheorems, FiniteSetTheorems, NaturalsInduction, TLAPS

Mode == [num : Nat, numFiles : Nat, numPauseFiles : Nat, paused : BOOLEAN,
         file : Nat, pending : Seq(Nat)]
File == [mode : Nat, num : Nat, pauseNum : Nat, paused : BOOLEAN, size : Nat,
         seen : Nat, active : BOOLEAN, status : {"none", "RUN_EOF", "END_RUN"}]
Entry == [op : {"add", "close"}, file : Nat]
           \cup [op : {"write"}, file : Nat, notify : BOOLEAN]
           \cup [op : {"inactive"}]
Typed(M, F, T) == M \in Seq(Mode) /\ F \in Seq(File) /\ T \in Seq(Entry)

(* The place of a file in the run, which nothing changes once it is open.   *)
Earlier(F, f, g) ==
    \/ F[f].mode < F[g].mode
    \/ F[f].mode = F[g].mode /\ F[f].num < F[g].num
    \/ F[f].mode = F[g].mode /\ F[f].num = F[g].num /\ F[f].pauseNum < F[g].pauseNum

(* The files that are announced, or will be by the signals in T.            *)
Adding(T, k) == k \in 1 .. Len(T) /\ T[k].op = "add"
Closing(T, k) == k \in 1 .. Len(T) /\ T[k].op = "close"
Announced(L, T) == {L[j] : j \in 1 .. Len(L)}
                     \cup {T[k].file : k \in {k \in 1 .. Len(T) : T[k].op = "add"}}
Pending(M, i) == {M[i].pending[k] : k \in 1 .. Len(M[i].pending)}

(* A file comes before another, or its mode overtook the other's: O is a    *)
(* set of pairs <<newer mode, older mode>>.                                 *)
Precedes(O, F, f, g) == Earlier(F, f, g) \/ <<F[f].mode, F[g].mode>> \in O

InOrder(O, F, L, T) ==
    /\ \A j, k \in 1 .. Len(L) : j < k => Precedes(O, F, L[j], L[k])
    /\ \A j \in 1 .. Len(L), k \in 1 .. Len(T) :
           T[k].op = "add" => Precedes(O, F, L[j], T[k].file)
    /\ \A j, k \in 1 .. Len(T) :
           j < k /\ T[j].op = "add" /\ T[k].op = "add" =>
              Precedes(O, F, T[j].file, T[k].file)

Irreflexive(O) == \A m \in Nat : <<m, m>> \notin O

(* The modes are numbered from the newest down; a mode's files carry its    *)
(* number, are all paused or all not, and are counted.                      *)
ModesOK(M, F) ==
    /\ \A i \in 1 .. Len(M) : M[i].num > 0
    /\ \A i, j \in 1 .. Len(M) : i < j => M[j].num < M[i].num
    /\ \A i \in 1 .. Len(M), f \in 1 .. Len(F) :
           F[f].mode = M[i].num =>
              /\ F[f].paused = M[i].paused
              /\ F[f].num <= M[i].numFiles
              /\ M[i].paused => F[f].pauseNum <= M[i].numPauseFiles
    /\ M # <<>> => \A f \in 1 .. Len(F) : F[f].mode <= M[1].num

(* Deferred files belong to their mode and come in order, and announced     *)
(* files come before them, and before what an open mode is yet to write.    *)
Ordered(F, p) == \A j, k \in 1 .. Len(p) : j < k => Earlier(F, p[j], p[k])
AllBefore(O, F, A, p) == \A x \in A : \A k \in 1 .. Len(p) : Precedes(O, F, x, p[k])

NoLater(O, F, x, m) == F[x].mode <= m.num \/ <<F[x].mode, m.num>> \in O

DeferredOK(O, M, F, L, T) ==
    /\ \A i \in 1 .. Len(M) :
          /\ \A k \in 1 .. Len(M[i].pending) :
                M[i].pending[k] \in 1 .. Len(F) /\ F[M[i].pending[k]].mode = M[i].num
          /\ Ordered(F, M[i].pending)
          /\ AllBefore(O, F, Announced(L, T), M[i].pending)
    /\ \A x \in Announced(L, T) :
          /\ x \in 1 .. Len(F)
          /\ \A i \in 1 .. Len(M) : NoLater(O, F, x, M[i])
    /\ \A f \in 1 .. Len(F) :
          f \in Announced(L, T) \/ \E i \in 1 .. Len(M) : f \in Pending(M, i)

(* A file is written to while it is a mode's or is about to be closed, and  *)
(* closed once.                                                             *)
OpenOK(M, F, T) ==
    /\ \A i \in 1 .. Len(M) : M[i].file # NoFile =>
          /\ M[i].file \in 1 .. Len(F) /\ F[M[i].file].mode = M[i].num
          /\ F[M[i].file].active
          /\ \A k \in 1 .. Len(T) : T[k].op = "close" => T[k].file # M[i].file
    /\ \A k \in 1 .. Len(T) : T[k].op \in {"close", "write"} => T[k].file \in 1 .. Len(F)
    /\ \A k \in 1 .. Len(T) : T[k].op = "close" => F[T[k].file].active
    /\ \A j, k \in 1 .. Len(T) :
          j # k /\ T[j].op = "close" /\ T[k].op = "close" => T[j].file # T[k].file
    /\ \A f \in 1 .. Len(F) : F[f].active =>
          \/ \E i \in 1 .. Len(M) : M[i].file = f
          \/ \E k \in 1 .. Len(T) : T[k].op = "close" /\ T[k].file = f

Kept(O, M, F, L, T) == /\ Typed(M, F, T) /\ InOrder(O, F, L, T) /\ ModesOK(M, F)
                    /\ DeferredOK(O, M, F, L, T) /\ OpenOK(M, F, T)

(* The newest mode has a file; the oldest one has nothing deferred.         *)
Steady(M) == M # <<>> => M[1].file # NoFile /\ M[Len(M)].pending = <<>>

(* The last thing an ending run does is to close a file that is sent.       *)
Ends(F, T) == /\ T # <<>> /\ T[Len(T)].op = "close"
              /\ ~F[T[Len(T)].file].paused
Ending == ~runActive \/ \E k \in 1 .. Len(todo) : todo[k].op = "inactive"

RunOK ==
    /\ modes # <<>> => runActive /\ \A k \in 1 .. Len(todo) : todo[k].op # "inactive"
    /\ ~recording /\ modes # <<>> => ~modes[1].paused
    /\ modes = <<>> => ~recording
    /\ modes = <<>> => Ending
    /\ Ending /\ todo # <<>> => Ends(files, todo)
    /\ {runActive, recording} \subseteq BOOLEAN

ContainerInv == /\ list \in Seq(Nat) /\ Kept(overtook, modes, files, list, todo) /\ Steady(modes)
                /\ RunOK /\ Irreflexive(overtook)
                /\ \A f \in 1 .. Len(files) : files[f].seen <= files[f].size

Client == [alive : BOOLEAN, files : Seq(Nat), passed : Seq(Nat), offset : Nat,
           sub : Nat, write : BOOLEAN, done : Nat]

At(c, F) == F[c.files[1]]
Subscribed(c, F) ==
    IF c.files # <<>> /\ At(c, F).active THEN c.sub = c.files[1] ELSE c.sub = NoFile
Waiting(c, F) ==
    ~c.write /\ c.files # <<>> => At(c, F).active /\ c.offset >= At(c, F).seen
PassedOver(c, F) ==
    \A k \in 1 .. Len(c.passed) : ~F[c.passed[k]].active \/ F[c.passed[k]].paused
Served(c, F, L) == /\ c \in Client
                   /\ c.alive => /\ c.passed \o c.files = L
                                 /\ Subscribed(c, F) /\ Waiting(c, F) /\ PassedOver(c, F)
Told(c, act, T) == c.alive /\ ~c.write /\ c.files = <<>> /\ T = <<>> => act \/ c.done > 0

StreamInv == ContainerInv /\ Served(client, files, list) /\ Told(client, runActive, todo)

-----------------------------------------------------------------------------
(* Sequences.                                                               *)

LEMMA Types ==
  ASSUME NEW M, NEW F, NEW T, Typed(M, F, T)
  PROVE  /\ Len(M) \in Nat /\ DOMAIN M = 1 .. Len(M) /\ \A i \in 1 .. Len(M) : M[i] \in Mode
         /\ Len(F) \in Nat /\ DOMAIN F = 1 .. Len(F) /\ \A i \in 1 .. Len(F) : F[i] \in File
         /\ Len(T) \in Nat /\ DOMAIN T = 1 .. Len(T) /\ \A i \in 1 .. Len(T) : T[i] \in Entry
BY LenProperties, ElementOfSeq DEF Typed

LEMMA ModeTypes ==
  ASSUME NEW m \in Mode
  PROVE  /\ m.num \in Nat /\ m.numFiles \in Nat /\ m.numPauseFiles \in Nat
         /\ m.paused \in BOOLEAN /\ m.file \in Nat /\ m.pending \in Seq(Nat)
         /\ Len(m.pending) \in Nat /\ \A k \in 1 .. Len(m.pending) : m.pending[k] \in Nat
BY LenProperties, ElementOfSeq DEF Mode

LEMMA FileTypes ==
  ASSUME NEW f \in File
  PROVE  f.mode \in Nat /\ f.num \in Nat /\ f.pauseNum \in Nat /\ f.size \in Nat
         /\ f.seen \in Nat /\ f.paused \in BOOLEAN /\ f.active \in BOOLEAN
BY DEF File

LEMMA EntryTypes ==
  ASSUME NEW e \in Entry
  PROVE  /\ e.op \in {"add", "close", "write", "inactive"}
         /\ e.op # "inactive" => e.file \in Nat
BY DEF Entry

(* One sequence after another, position by position.                        *)
Join(u, s, t) ==
    /\ Len(s) \in Nat /\ Len(t) \in Nat /\ Len(u) = Len(s) + Len(t)
    /\ \A k \in 1 .. Len(s) : k \in 1 .. Len(u) /\ u[k] = s[k]
    /\ \A k \in 1 .. Len(t) : Len(s) + k \in 1 .. Len(u) /\ u[Len(s) + k] = t[k]
    /\ \A k \in 1 .. Len(u) : k \notin 1 .. Len(s) =>
          k - Len(s) \in 1 .. Len(t) /\ u[k] = t[k - Len(s)]

LEMMA Joined ==
  ASSUME NEW S, NEW s \in Seq(S), NEW t \in Seq(S)
  PROVE  s \o t \in Seq(S) /\ Join(s \o t, s, t)
<1>1. /\ s \o t \in Seq(S) /\ Len(s \o t) = Len(s) + Len(t)
      /\ \A i \in 1 .. Len(s) + Len(t) : (s \o t)[i] =
             IF i <= Len(s) THEN s[i] ELSE t[i - Len(s)]
  BY ConcatProperties
<1>2. Len(s) \in Nat /\ Len(t) \in Nat BY LenProperties
<1> DEFINE u == s \o t
           n == Len(s)
           m == Len(t)
<1>3. /\ Len(u) = n + m /\ n \in Nat /\ m \in Nat
      /\ \A i \in 1 .. n + m : u[i] = IF i <= n THEN s[i] ELSE t[i - n]
  BY <1>1, <1>2
<1> HIDE DEF u, n, m
<1>4. \A k \in 1 .. n : k \in 1 .. Len(u) /\ u[k] = s[k] BY <1>3
<1>5. ASSUME NEW k \in 1 .. m PROVE n + k \in 1 .. Len(u) /\ u[n + k] = t[k]
  <2>1. n + k \in 1 .. n + m /\ ~(n + k <= n) /\ (n + k) - n = k BY <1>3
  <2> QED BY <1>3, <2>1
<1>6. ASSUME NEW k \in 1 .. Len(u), k \notin 1 .. n
      PROVE  k - n \in 1 .. m /\ u[k] = t[k - n]
  BY <1>3, <1>6
<1> QED BY <1>1, <1>2, <1>3, <1>4, <1>5, <1>6 DEF u, n, m, Join

LEMMA Added ==
  ASSUME NEW S, NEW s \in Seq(S), NEW e \in S
  PROVE  /\ Append(s, e) \in Seq(S) /\ Len(s) \in Nat
         /\ Len(Append(s, e)) = Len(s) + 1 /\ Append(s, e)[Len(s) + 1] = e
         /\ \A k \in 1 .. Len(s) : k \in 1 .. Len(Append(s, e)) /\ Append(s, e)[k] = s[k]
         /\ \A k \in 1 .. Len(Append(s, e)) : k \in 1 .. Len(s) \/ k = Len(s) + 1
<1>1. Len(s) \in Nat BY LenProperties
<1> QED BY <1>1, AppendProperties

LEMMA AddsAre ==
  ASSUME NEW p \in Seq(Nat)
  PROVE  /\ Adds(p) \in Seq(Entry) /\ Len(Adds(p)) = Len(p) /\ Len(p) \in Nat
         /\ \A k \in 1 .. Len(p) : Adds(p)[k].op = "add" /\ Adds(p)[k].file = p[k]
<1>1. Len(p) \in Nat /\ \A k \in 1 .. Len(p) : p[k] \in Nat
  BY LenProperties, ElementOfSeq
<1> DEFINE e(k) == [op |-> "add", file |-> p[k]]
<1>2. \A k \in 1 .. Len(p) : e(k) \in Entry BY <1>1 DEF Entry
<1>3. Adds(p) = [k \in 1 .. Len(p) |-> e(k)] BY DEF Adds
<1>4. \A k \in 1 .. Len(p) : e(k).op = "add" /\ e(k).file = p[k] OBVIOUS
<1> HIDE DEF e
<1>5. Adds(p) \in [1 .. Len(p) -> Entry] BY <1>2, <1>3
<1>6. Adds(p) \in Seq(Entry) BY <1>1, <1>5, SMTT(30)
<1>7. Len(Adds(p)) = Len(p) BY <1>1, <1>5, <1>6, LenProperties
<1> QED BY <1>1, <1>3, <1>4, <1>6, <1>7

(* Announcing files that come after all that are announced keeps the order; *)
(* the signals before them, and those that announce nothing, are unchanged. *)
Quiet(T, U) == \A k \in 1 .. Len(U) : U[k].op # "add" => k \in 1 .. Len(T) /\ U[k] = T[k]
Longer(T, U) == Len(U) >= Len(T) /\ \A k \in 1 .. Len(T) : k \in 1 .. Len(U) /\ U[k] = T[k]

Announces(O, U, F, L, T, p) ==
    /\ U \in Seq(Entry) /\ Quiet(T, U) /\ Longer(T, U) /\ InOrder(O, F, L, U)
    /\ Announced(L, U) = Announced(L, T) \cup {p[k] : k \in 1 .. Len(p)}

LEMMA AnnounceMore ==
  ASSUME NEW O, NEW F, NEW L, NEW T \in Seq(Entry), NEW p \in Seq(Nat), InOrder(O, F, L, T),
         Ordered(F, p), AllBefore(O, F, Announced(L, T), p)
  PROVE  Announces(O, T \o Adds(p), F, L, T, p)
<1> DEFINE A == Adds(p)
           U == T \o Adds(p)
<1>0. /\ A \in Seq(Entry) /\ Len(A) = Len(p) /\ Len(p) \in Nat
      /\ \A k \in 1 .. Len(p) : A[k].op = "add" /\ A[k].file = p[k]
  <2> HIDE DEF A
  <2> QED BY AddsAre DEF A
<1>2. U = T \o A OBVIOUS
<1> HIDE DEF A, U
<1>1. /\ A \in Seq(Entry) /\ Len(A) = Len(p) /\ Len(p) \in Nat
      /\ \A k \in 1 .. Len(A) : A[k].op = "add" /\ A[k].file = p[k]
  BY <1>0
<1>3. /\ U \in Seq(Entry) /\ Len(T) \in Nat /\ Len(U) = Len(T) + Len(A)
      /\ \A k \in 1 .. Len(T) : k \in 1 .. Len(U) /\ U[k] = T[k]
      /\ \A k \in 1 .. Len(A) : Len(T) + k \in 1 .. Len(U) /\ U[Len(T) + k] = A[k]
      /\ \A k \in 1 .. Len(U) : k \notin 1 .. Len(T) =>
            k - Len(T) \in 1 .. Len(A) /\ U[k] = A[k - Len(T)]
  <2>1. U \in Seq(Entry) /\ Join(U, T, A) BY <1>1, <1>2, Joined
  <2> QED BY <2>1 DEF Join
<1>4. \A k \in 1 .. Len(U) : k \notin 1 .. Len(T) =>
         U[k].op = "add" /\ k - Len(T) \in 1 .. Len(p) /\ U[k].file = p[k - Len(T)]
  <2> SUFFICES ASSUME NEW k \in 1 .. Len(U), k \notin 1 .. Len(T)
               PROVE  /\ U[k].op = "add" /\ k - Len(T) \in 1 .. Len(p)
                      /\ U[k].file = p[k - Len(T)]
    OBVIOUS
  <2>1. PICK j \in 1 .. Len(A) : j = k - Len(T) /\ U[k] = A[j] BY <1>3
  <2> QED BY <1>0, <1>1, <2>1
<1>5. Quiet(T, U) /\ Longer(T, U) BY <1>1, <1>3, <1>4 DEF Quiet, Longer
<1>6. Announced(L, U) = Announced(L, T) \cup {p[k] : k \in 1 .. Len(p)}
  <2>1. ASSUME NEW x \in Announced(L, U)
        PROVE  x \in Announced(L, T) \cup {p[k] : k \in 1 .. Len(p)}
    <3>1. CASE \E j \in 1 .. Len(L) : x = L[j] BY <3>1 DEF Announced
    <3>2. CASE \E k \in 1 .. Len(U) : U[k].op = "add" /\ x = U[k].file
      <4>1. PICK k \in 1 .. Len(U) : U[k].op = "add" /\ x = U[k].file BY <3>2
      <4>2. CASE k \in 1 .. Len(T) BY <1>3, <4>1, <4>2 DEF Announced
      <4>3. CASE k \notin 1 .. Len(T) BY <1>4, <4>1, <4>3
      <4> QED BY <4>2, <4>3
    <3> QED BY <2>1, <3>1, <3>2 DEF Announced
  <2>2. ASSUME NEW x \in Announced(L, T) PROVE x \in Announced(L, U)
    <3>1. CASE \E j \in 1 .. Len(L) : x = L[j] BY <3>1 DEF Announced
    <3>2. CASE \E k \in 1 .. Len(T) : T[k].op = "add" /\ x = T[k].file
      BY <1>3, <3>2 DEF Announced
    <3> QED BY <2>2, <3>1, <3>2 DEF Announced
  <2>3. ASSUME NEW k \in 1 .. Len(p) PROVE p[k] \in Announced(L, U)
    <3>1. Len(T) + k \in 1 .. Len(U) /\ U[Len(T) + k].op = "add"
          /\ U[Len(T) + k].file = p[k]
      <4>1. k \in 1 .. Len(A) /\ A[k].op = "add" /\ A[k].file = p[k] BY <1>0
      <4>2. Len(T) + k \in 1 .. Len(U) /\ U[Len(T) + k] = A[k] BY <1>3, <4>1
      <4> QED BY <4>1, <4>2
    <3> QED BY <3>1 DEF Announced
  <2> QED BY <2>1, <2>2, <2>3
<1>7. InOrder(O, F, L, U)
  <2>1. ASSUME NEW j \in 1 .. Len(L), NEW k \in 1 .. Len(U), U[k].op = "add"
        PROVE  Precedes(O, F, L[j], U[k].file)
    <3>1. CASE k \in 1 .. Len(T) BY <1>3, <2>1, <3>1 DEF InOrder
    <3>2. CASE k \notin 1 .. Len(T)
      <4>1. L[j] \in Announced(L, T) BY DEF Announced
      <4> QED BY <1>4, <3>2, <4>1 DEF AllBefore
    <3> QED BY <3>1, <3>2
  <2>2. ASSUME NEW j \in 1 .. Len(U), NEW k \in 1 .. Len(U), j < k,
               U[j].op = "add", U[k].op = "add"
        PROVE  Precedes(O, F, U[j].file, U[k].file)
    <3>1. CASE k \in 1 .. Len(T)
      <4>1. j \in 1 .. Len(T) BY <1>3, <2>2, <3>1
      <4> QED BY <1>3, <2>2, <3>1, <4>1 DEF InOrder
    <3>2. CASE k \notin 1 .. Len(T) /\ j \in 1 .. Len(T)
      <4>1. U[j].file \in Announced(L, T) BY <1>3, <2>2, <3>2 DEF Announced
      <4> QED BY <1>4, <3>2, <4>1 DEF AllBefore
    <3>3. CASE k \notin 1 .. Len(T) /\ j \notin 1 .. Len(T)
      <4>1. /\ j - Len(T) \in 1 .. Len(p) /\ k - Len(T) \in 1 .. Len(p)
            /\ U[j].file = p[j - Len(T)] /\ U[k].file = p[k - Len(T)]
        BY <1>4, <3>3
      <4>2. j - Len(T) < k - Len(T) BY <1>3, <2>2
      <4> QED BY <4>1, <4>2 DEF Ordered, Precedes
    <3> QED BY <3>1, <3>2, <3>3
  <2> QED BY <2>1, <2>2 DEF InOrder
<1> QED BY <1>3, <1>5, <1>6, <1>7 DEF Announces, U

(* A signal that announces nothing.                                         *)
Signals(O, U, F, L, T, e) ==
    /\ U \in Seq(Entry) /\ InOrder(O, F, L, U) /\ Announced(L, U) = Announced(L, T)
    /\ Len(T) \in Nat /\ Len(U) = Len(T) + 1 /\ U[Len(U)] = e /\ Longer(T, U)
    /\ \A k \in 1 .. Len(U) : (k \in 1 .. Len(T) /\ U[k] = T[k]) \/ k = Len(U)

LEMMA OtherSignal ==
  ASSUME NEW O, NEW F, NEW L, NEW T \in Seq(Entry), NEW e \in Entry, e.op # "add",
         InOrder(O, F, L, T)
  PROVE  Signals(O, Append(T, e), F, L, T, e)
<1> DEFINE U == Append(T, e)
<1> HIDE DEF U
<1>1. /\ U \in Seq(Entry) /\ Len(T) \in Nat /\ Len(U) = Len(T) + 1 /\ U[Len(T) + 1] = e
      /\ \A k \in 1 .. Len(T) : k \in 1 .. Len(U) /\ U[k] = T[k]
      /\ \A k \in 1 .. Len(U) : k \in 1 .. Len(T) \/ k = Len(T) + 1
  BY Added DEF U
<1>2. \A k \in 1 .. Len(U) : U[k].op = "add" => k \in 1 .. Len(T) /\ U[k] = T[k]
  BY <1>1
<1>3. InOrder(O, F, L, U) BY <1>1, <1>2 DEF InOrder
<1>4. Announced(L, U) = Announced(L, T)
  <2>1. \A k : (k \in 1 .. Len(U) /\ U[k].op = "add") <=> (k \in 1 .. Len(T) /\ T[k].op = "add")
    BY <1>1, <1>2
  <2>2. {U[k].file : k \in {k \in 1 .. Len(U) : U[k].op = "add"}}
        = {T[k].file : k \in {k \in 1 .. Len(T) : T[k].op = "add"}}
    BY <1>1, <2>1
  <2> QED BY <2>2 DEF Announced
<1>5. Longer(T, U) BY <1>1 DEF Longer
<1> QED BY <1>1, <1>3, <1>4, <1>5 DEF Signals, U

-----------------------------------------------------------------------------
(* The container, one change of its modes at a time.                        *)

Replace(N, M, i, m) ==
    /\ N \in Seq(Mode) /\ Len(N) = Len(M) /\ Len(M) \in Nat /\ N[i] = m
    /\ \A j \in 1 .. Len(M) : j # i => N[j] = M[j]
    /\ M # <<>> /\ N # <<>>

LEMMA Replaced ==
  ASSUME NEW M \in Seq(Mode), NEW i \in 1 .. Len(M), NEW m \in Mode
  PROVE  Replace([M EXCEPT ![i] = m], M, i, m)
<1> DEFINE N == [M EXCEPT ![i] = m]
<1>1. /\ [M EXCEPT ![i] = m] \in Seq(Mode)
      /\ Len([M EXCEPT ![i] = m]) = Len(M)
      /\ \A j \in 1 .. Len(M) : [M EXCEPT ![i] = m][j] = IF j = i THEN m ELSE M[j]
  BY ExceptSeq
<1>2. Len(M) \in Nat /\ Len(M) # 0 BY LenProperties
<1>3. Len(<<>>) = 0 BY EmptySeq
<1> QED BY <1>1, <1>2, <1>3 DEF Replace

LEMMA EmptyModes == ASSUME NEW S, NEW s \in Seq(S)
                    PROVE  Len(s) \in Nat /\ (s = <<>> <=> Len(s) = 0)
BY EmptySeq, LenProperties

(* Modes that differ in what they defer, or in their open file.             *)
SameModes(M, N) ==
    /\ Len(N) = Len(M)
    /\ \A i \in 1 .. Len(M) : /\ N[i].num = M[i].num /\ N[i].numFiles = M[i].numFiles
                              /\ N[i].numPauseFiles = M[i].numPauseFiles
                              /\ N[i].paused = M[i].paused

SameNums(M, N) == Len(N) = Len(M) /\ \A i \in 1 .. Len(M) : N[i].num = M[i].num

LEMMA SameModesOK ==
  ASSUME NEW M \in Seq(Mode), NEW N \in Seq(Mode), NEW F, ModesOK(M, F), SameModes(M, N)
  PROVE  ModesOK(N, F)
<1>1. /\ Len(M) \in Nat /\ (M = <<>> <=> Len(M) = 0) /\ (N = <<>> <=> Len(N) = 0)
  BY EmptyModes
<1>2. N # <<>> => M # <<>> /\ 1 \in 1 .. Len(M) BY <1>1 DEF SameModes
<1> QED BY <1>2 DEF ModesOK, SameModes

SameFiles(M, N) == \A i \in 1 .. Len(M) : N[i].file = M[i].file

(* Closings are the same before and after files are announced.              *)
LEMMA QuietOpen ==
  ASSUME NEW M, NEW N, NEW F, NEW T, NEW U, OpenOK(M, F, T), Quiet(T, U), Longer(T, U),
         SameNums(M, N), SameFiles(M, N)
  PROVE  OpenOK(N, F, U)
<1>1. \A k \in 1 .. Len(U) : U[k].op \in {"close", "write"} =>
          k \in 1 .. Len(T) /\ U[k] = T[k]
  BY DEF Quiet
<1>2. \A k \in 1 .. Len(T) : k \in 1 .. Len(U) /\ U[k] = T[k] BY DEF Longer
<1>3. \A i \in 1 .. Len(N) : N[i].file # NoFile =>
          /\ N[i].file \in 1 .. Len(F) /\ F[N[i].file].mode = N[i].num
          /\ F[N[i].file].active
          /\ \A k \in 1 .. Len(U) : U[k].op = "close" => U[k].file # N[i].file
  <2> SUFFICES ASSUME NEW i \in 1 .. Len(N), N[i].file # NoFile
               PROVE  /\ N[i].file \in 1 .. Len(F) /\ F[N[i].file].mode = N[i].num
                      /\ F[N[i].file].active
                      /\ \A k \in 1 .. Len(U) : U[k].op = "close" => U[k].file # N[i].file
    OBVIOUS
  <2>1. i \in 1 .. Len(M) /\ N[i].file = M[i].file /\ N[i].num = M[i].num
    BY DEF SameNums, SameFiles
  <2> QED BY <1>1, <2>1 DEF OpenOK
<1>4. \A f \in 1 .. Len(F) : F[f].active =>
          \/ \E i \in 1 .. Len(N) : N[i].file = f
          \/ \E k \in 1 .. Len(U) : U[k].op = "close" /\ U[k].file = f
  <2> SUFFICES ASSUME NEW f \in 1 .. Len(F), F[f].active
               PROVE  \/ \E i \in 1 .. Len(N) : N[i].file = f
                      \/ \E k \in 1 .. Len(U) : U[k].op = "close" /\ U[k].file = f
    OBVIOUS
  <2>1. CASE \E i \in 1 .. Len(M) : M[i].file = f
    BY <2>1 DEF SameNums, SameFiles
  <2>2. CASE \E k \in 1 .. Len(T) : T[k].op = "close" /\ T[k].file = f BY <1>2, <2>2
  <2> QED BY <2>1, <2>2 DEF OpenOK
<1>5. /\ \A k \in 1 .. Len(U) : U[k].op \in {"close", "write"} => U[k].file \in 1 .. Len(F)
      /\ \A k \in 1 .. Len(U) : U[k].op = "close" => F[U[k].file].active
      /\ \A j, k \in 1 .. Len(U) :
            j # k /\ U[j].op = "close" /\ U[k].op = "close" => U[j].file # U[k].file
  BY <1>1, SMTT(30) DEF OpenOK
<1> QED BY <1>3, <1>4, <1>5 DEF OpenOK

(* A mode's deferred files are announced, once it has overtaken what is     *)
(* still open behind it.                                                    *)
Flushing(M, T, i, N, U) ==
    N = [M EXCEPT ![i].pending = <<>>] /\ U = T \o Adds(M[i].pending)
Clears(O, M, i) == \A j \in 1 .. Len(M) : i < j => <<M[i].num, M[j].num>> \in O

LEMMA FlushKept ==
  ASSUME NEW O, NEW M, NEW F, NEW L, NEW T, Kept(O, M, F, L, T), NEW n \in 1 .. Len(M),
         Clears(O, M, n), NEW N, NEW U, Flushing(M, T, n, N, U)
  PROVE  /\ Kept(O, N, F, L, U) /\ Quiet(T, U) /\ Longer(T, U)
         /\ SameModes(M, N) /\ SameFiles(M, N) /\ N # <<>> /\ N[n].pending = <<>>
         /\ \A i \in 1 .. Len(M) : i # n => N[i] = M[i]
<1>e. N = [M EXCEPT ![n].pending = <<>>] /\ U = T \o Adds(M[n].pending)
  BY DEF Flushing
<1> USE <1>e
<1> DEFINE p == M[n].pending
           m == [M[n] EXCEPT !.pending = <<>>]
<1>0. Typed(M, F, T) BY DEF Kept
<1>1. /\ M \in Seq(Mode) /\ F \in Seq(File) /\ T \in Seq(Entry) /\ Len(M) \in Nat
      /\ M[n] \in Mode /\ p \in Seq(Nat) /\ Len(p) \in Nat
      /\ \A i \in 1 .. Len(M) : M[i].num \in Nat
  <2>1. M \in Seq(Mode) /\ F \in Seq(File) /\ T \in Seq(Entry) BY <1>0 DEF Typed
  <2>2. Len(M) \in Nat /\ \A i \in 1 .. Len(M) : M[i] \in Mode BY <1>0, Types
  <2> QED BY <2>1, <2>2, ModeTypes
<1>2. /\ m \in Mode /\ m.num = M[n].num /\ m.numFiles = M[n].numFiles
      /\ m.numPauseFiles = M[n].numPauseFiles /\ m.paused = M[n].paused
      /\ m.file = M[n].file /\ m.pending = <<>>
  <2>1. <<>> \in Seq(Nat) BY EmptySeq
  <2> QED BY <1>1, <2>1 DEF Mode
<1>3. N = [M EXCEPT ![n] = m] BY <1>1
<1> HIDE DEF m
<1>4. /\ N \in Seq(Mode) /\ Len(N) = Len(M) /\ N[n] = m /\ M # <<>> /\ N # <<>>
      /\ \A j \in 1 .. Len(M) : j # n => N[j] = M[j]
  <2>1. Replace(N, M, n, m) BY <1>1, <1>2, <1>3, Replaced
  <2> QED BY <2>1 DEF Replace
<1>5. /\ SameModes(M, N) /\ SameFiles(M, N) /\ N[n].pending = <<>>
      /\ \A i \in 1 .. Len(M) : N[i].num = M[i].num
  BY <1>2, <1>4 DEF SameModes, SameFiles
<1>6. ModesOK(N, F) BY <1>1, <1>4, <1>5, SameModesOK DEF Kept
<1>7. /\ U \in Seq(Entry) /\ Quiet(T, U) /\ Longer(T, U) /\ InOrder(O, F, L, U)
      /\ Announced(L, U) = Announced(L, T) \cup {p[k] : k \in 1 .. Len(p)}
  <2>1. Ordered(F, p) /\ AllBefore(O, F, Announced(L, T), p)
    BY <1>1 DEF Kept, DeferredOK
  <2>3. InOrder(O, F, L, T) /\ U = T \o Adds(p) BY DEF Kept
  <2>4. p \in Seq(Nat) /\ T \in Seq(Entry) BY <1>1
  <2> HIDE DEF p
  <2>5. Announces(O, T \o Adds(p), F, L, T, p) BY <2>1, <2>3, <2>4, AnnounceMore
  <2> QED BY <2>3, <2>5 DEF Announces
<1>8. OpenOK(N, F, U)
  <2>1. OpenOK(M, F, T) BY DEF Kept
  <2>2. SameNums(M, N) BY <1>5 DEF SameModes, SameNums
  <2> QED BY <1>5, <1>7, <2>1, <2>2, QuietOpen
<1>9. DeferredOK(O, N, F, L, U)
  <2>1. \A k \in 1 .. Len(p) : p[k] \in 1 .. Len(F) /\ F[p[k]].mode = M[n].num
    BY <1>1 DEF Kept, DeferredOK
  <2>2. \A x \in Announced(L, U) : x \notin Announced(L, T) =>
            x \in 1 .. Len(F) /\ F[x].mode = M[n].num
    BY <1>7, <2>1
  <2>3. \A i \in 1 .. Len(M) : \/ i = n
                               \/ M[n].num < M[i].num
                               \/ <<M[n].num, M[i].num>> \in O
    <3> SUFFICES ASSUME NEW i \in 1 .. Len(M), i # n
                 PROVE  M[n].num < M[i].num \/ <<M[n].num, M[i].num>> \in O
      OBVIOUS
    <3>1. CASE n < i BY <3>1 DEF Clears
    <3>2. CASE i < n BY <3>2 DEF Kept, ModesOK
    <3> QED BY <3>1, <3>2
  <2>4. ASSUME NEW x \in Announced(L, U)
        PROVE  x \in 1 .. Len(F) /\ \A i \in 1 .. Len(N) : NoLater(O, F, x, N[i])
    <3>1. CASE x \in Announced(L, T)
      <4>1. x \in 1 .. Len(F) /\ \A i \in 1 .. Len(M) : NoLater(O, F, x, M[i])
        BY <3>1 DEF Kept, DeferredOK
      <4> QED BY <1>4, <1>5, <4>1 DEF NoLater
    <3>2. CASE x \notin Announced(L, T)
      <4>1. x \in 1 .. Len(F) /\ F[x].mode = M[n].num BY <2>2, <3>2
      <4>2. \A i \in 1 .. Len(N) :
               i \in 1 .. Len(M) /\ N[i].num = M[i].num /\ M[i].num \in Nat
               /\ M[n].num \in Nat
        BY <1>1, <1>4, <1>5
      <4> QED BY <2>3, <4>1, <4>2 DEF NoLater
    <3> QED BY <3>1, <3>2
  <2>5. ASSUME NEW i \in 1 .. Len(N)
        PROVE  /\ \A k \in 1 .. Len(N[i].pending) :
                     N[i].pending[k] \in 1 .. Len(F) /\ F[N[i].pending[k]].mode = N[i].num
               /\ Ordered(F, N[i].pending)
               /\ AllBefore(O, F, Announced(L, U), N[i].pending)
    <3>1. CASE i = n
      <4>1. N[i].pending = <<>> BY <1>2, <1>4, <3>1
      <4>2. Len(N[i].pending) = 0 BY <4>1, EmptySeq
      <4> QED BY <4>2 DEF Ordered, AllBefore
    <3>2. CASE i # n
      <4>1. i \in 1 .. Len(M) /\ N[i] = M[i] BY <1>1, <1>4, <3>2
      <4>2. AllBefore(O, F, Announced(L, T), N[i].pending) BY <4>1 DEF Kept, DeferredOK
      <4>3. \A k \in 1 .. Len(N[i].pending) : F[N[i].pending[k]].mode = M[i].num
        BY <4>1 DEF Kept, DeferredOK
      <4>4. M[n].num < M[i].num \/ <<M[n].num, M[i].num>> \in O BY <2>3, <3>2, <4>1
      <4>5. ASSUME NEW x \in Announced(L, U), NEW k \in 1 .. Len(N[i].pending)
            PROVE  Precedes(O, F, x, N[i].pending[k])
        <5>1. CASE x \in Announced(L, T) BY <4>2, <5>1 DEF AllBefore
        <5>2. CASE x \notin Announced(L, T)
          <6>1. F[x].mode = M[n].num BY <2>2, <5>2
          <6> QED BY <4>3, <4>4, <6>1 DEF Earlier, Precedes
        <5> QED BY <5>1, <5>2
      <4>6. AllBefore(O, F, Announced(L, U), N[i].pending) BY <4>5 DEF AllBefore
      <4> QED BY <4>1, <4>6 DEF Kept, DeferredOK
    <3> QED BY <3>1, <3>2
  <2>6. ASSUME NEW f \in 1 .. Len(F)
        PROVE  f \in Announced(L, U) \/ \E i \in 1 .. Len(N) : f \in Pending(N, i)
    <3>1. CASE f \in Announced(L, T) BY <1>7, <3>1
    <3>2. CASE \E i \in 1 .. Len(M) : f \in Pending(M, i)
      <4>1. PICK i \in 1 .. Len(M) : f \in Pending(M, i) BY <3>2
      <4>2. CASE i = n BY <1>7, <4>1, <4>2 DEF Pending
      <4>3. CASE i # n
        <5>1. i \in 1 .. Len(N) /\ N[i] = M[i] BY <1>4, <4>3
        <5> QED BY <4>1, <5>1 DEF Pending
      <4> QED BY <4>2, <4>3
    <3> QED BY <3>1, <3>2 DEF Kept, DeferredOK
  <2> QED BY <2>4, <2>5, <2>6 DEF DeferredOK
<1>10. Typed(N, F, U) BY <1>1, <1>4, <1>7 DEF Typed
<1> QED BY <1>4, <1>5, <1>6, <1>7, <1>8, <1>9, <1>10 DEF Kept

SameDeferred(M, N) == \A i \in 1 .. Len(M) : N[i].pending = M[i].pending

LEMMA SameDeferredOK ==
  ASSUME NEW O, NEW M \in Seq(Mode), NEW N \in Seq(Mode), NEW F, NEW L, NEW T, NEW U,
         DeferredOK(O, M, F, L, T), SameNums(M, N), SameDeferred(M, N),
         Announced(L, U) = Announced(L, T)
  PROVE  DeferredOK(O, N, F, L, U)
<1>1. /\ Len(M) \in Nat /\ (M = <<>> <=> Len(M) = 0) /\ (N = <<>> <=> Len(N) = 0)
  BY EmptyModes
<1>3. \A i \in 1 .. Len(N) : i \in 1 .. Len(M) /\ N[i].num = M[i].num
                              /\ N[i].pending = M[i].pending
  BY DEF SameNums, SameDeferred
<1>4. \A i \in 1 .. Len(N) :
          /\ \A k \in 1 .. Len(N[i].pending) :
                N[i].pending[k] \in 1 .. Len(F) /\ F[N[i].pending[k]].mode = N[i].num
          /\ Ordered(F, N[i].pending)
          /\ AllBefore(O, F, Announced(L, U), N[i].pending)
  BY <1>3 DEF DeferredOK
<1>5. \A x \in Announced(L, U) :
          x \in 1 .. Len(F) /\ \A i \in 1 .. Len(N) : NoLater(O, F, x, N[i])
  BY <1>3 DEF DeferredOK, NoLater
<1>6. \A f \in 1 .. Len(F) :
          f \in Announced(L, U) \/ \E i \in 1 .. Len(N) : f \in Pending(N, i)
  <2>1. \A i \in 1 .. Len(M) : i \in 1 .. Len(N) /\ Pending(N, i) = Pending(M, i)
    BY DEF SameNums, SameDeferred, Pending
  <2> QED BY <2>1 DEF DeferredOK
<1> QED BY <1>4, <1>5, <1>6 DEF DeferredOK

(* A mode's file is to be closed.                                           *)
Shutting(M, T, i, N, U) ==
    /\ N = [M EXCEPT ![i].file = NoFile]
    /\ U = Append(T, [op |-> "close", file |-> M[i].file])

LEMMA CloseKept ==
  ASSUME NEW O, NEW M, NEW F, NEW L, NEW T, Kept(O, M, F, L, T), NEW i \in 1 .. Len(M),
         M[i].file # NoFile, NEW N, NEW U, Shutting(M, T, i, N, U)
  PROVE  /\ Kept(O, N, F, L, U) /\ SameModes(M, N) /\ SameDeferred(M, N)
         /\ N[i].file = NoFile /\ \A j \in 1 .. Len(M) : j # i => N[j].file = M[j].file
<1>e. /\ N = [M EXCEPT ![i].file = NoFile]
      /\ U = Append(T, [op |-> "close", file |-> M[i].file])
  BY DEF Shutting
<1> USE <1>e
<1> DEFINE m == [M[i] EXCEPT !.file = NoFile]
           e == [op |-> "close", file |-> M[i].file]
<1>0. Typed(M, F, T) BY DEF Kept
<1>1. M \in Seq(Mode) /\ F \in Seq(File) /\ T \in Seq(Entry) BY <1>0 DEF Typed
<1>2. M[i] \in Mode BY <1>0, Types
<1>3. M[i].file \in Nat BY <1>2, ModeTypes
<1>4. /\ m \in Mode /\ m.num = M[i].num /\ m.numFiles = M[i].numFiles
      /\ m.numPauseFiles = M[i].numPauseFiles /\ m.paused = M[i].paused
      /\ m.pending = M[i].pending /\ m.file = NoFile
  BY <1>2 DEF Mode, NoFile
<1>5. e \in Entry /\ e.op = "close" /\ e.file = M[i].file BY <1>3 DEF Entry
<1>6. N = [M EXCEPT ![i] = m] /\ U = Append(T, e) OBVIOUS
<1> HIDE DEF m, e
<1>7. Replace(N, M, i, m)
  <2>1. M \in Seq(Mode) /\ m \in Mode BY <1>1, <1>4
  <2>2. Replace([M EXCEPT ![i] = m], M, i, m) BY <2>1, Replaced
  <2> QED BY <1>6, <2>2
<1>8. /\ SameModes(M, N) /\ SameDeferred(M, N)
      /\ N[i].file = NoFile /\ \A j \in 1 .. Len(M) : j # i => N[j].file = M[j].file
  BY <1>4, <1>7 DEF Replace, SameModes, SameDeferred
<1>9. /\ U \in Seq(Entry) /\ InOrder(O, F, L, U) /\ Announced(L, U) = Announced(L, T)
      /\ Len(T) \in Nat /\ Len(U) = Len(T) + 1 /\ U[Len(U)] = e /\ Longer(T, U)
      /\ \A k \in 1 .. Len(U) : (k \in 1 .. Len(T) /\ U[k] = T[k]) \/ k = Len(U)
  <2>1. InOrder(O, F, L, T) /\ e.op # "add" BY <1>5 DEF Kept
  <2>2. Signals(O, U, F, L, T, e) BY <1>1, <1>5, <1>6, <2>1, OtherSignal
  <2> QED BY <2>2 DEF Signals
<1>10. N \in Seq(Mode) BY <1>7 DEF Replace
<1>11. ModesOK(N, F) BY <1>1, <1>8, <1>10, SameModesOK DEF Kept
<1>12. DeferredOK(O, N, F, L, U)
  <2>1. /\ DeferredOK(O, M, F, L, T) /\ SameNums(M, N) /\ SameDeferred(M, N)
        /\ Announced(L, U) = Announced(L, T) /\ M \in Seq(Mode)
    BY <1>1, <1>8, <1>9 DEF Kept, SameModes, SameNums
  <2> QED BY ONLY <1>10, <2>1, SameDeferredOK
<1>13. OpenOK(N, F, U)
  <2>0. OpenOK(M, F, T) BY DEF Kept
  <2>1. /\ e.file \in 1 .. Len(F) /\ F[e.file].active
        /\ \A k \in 1 .. Len(T) : T[k].op = "close" => T[k].file # e.file
    BY <1>5, <2>0 DEF OpenOK
  <2>2. \A j \in 1 .. Len(N) : N[j].file # NoFile =>
           j # i /\ j \in 1 .. Len(M) /\ N[j].file = M[j].file /\ N[j].num = M[j].num
    BY <1>8 DEF SameModes
  <2>3. ASSUME NEW j \in 1 .. Len(N), N[j].file # NoFile
        PROVE  /\ N[j].file \in 1 .. Len(F) /\ F[N[j].file].mode = N[j].num
               /\ F[N[j].file].active
               /\ \A k \in 1 .. Len(U) : U[k].op = "close" => U[k].file # N[j].file
    <3>1. j # i /\ j \in 1 .. Len(M) /\ N[j].file = M[j].file /\ N[j].num = M[j].num
      BY <2>2, <2>3
    <3>2. N[j].file # e.file
      <4>1. F[M[j].file].mode = M[j].num /\ F[e.file].mode = M[i].num
        BY <1>5, <2>0, <2>3, <3>1 DEF OpenOK
      <4>2. M[j].num # M[i].num
        <5>1. i \in Nat /\ j \in Nat BY <3>1
        <5>2. i < j \/ j < i BY <3>1, <5>1
        <5>3. M[i].num \in Nat /\ M[j].num \in Nat BY <1>0, <3>1, Types, ModeTypes
        <5> QED BY <3>1, <5>2, <5>3 DEF Kept, ModesOK
      <4> QED BY <3>1, <4>1, <4>2
    <3> QED BY <1>9, <2>0, <2>3, <3>1, <3>2 DEF OpenOK
  <2>4. /\ \A k \in 1 .. Len(U) : U[k].op \in {"close", "write"} => U[k].file \in 1 .. Len(F)
        /\ \A k \in 1 .. Len(U) : U[k].op = "close" => F[U[k].file].active
    BY <1>9, <2>0, <2>1 DEF OpenOK
  <2>5. ASSUME NEW j \in 1 .. Len(U), NEW k \in 1 .. Len(U), j # k,
               U[j].op = "close", U[k].op = "close"
        PROVE  U[j].file # U[k].file
    <3>1. CASE j = Len(U) BY <1>9, <2>1, <2>5, <3>1
    <3>2. CASE k = Len(U) BY <1>9, <2>1, <2>5, <3>2
    <3>3. CASE j # Len(U) /\ k # Len(U) BY <1>9, <2>0, <2>5, <3>3 DEF OpenOK
    <3> QED BY <3>1, <3>2, <3>3
  <2>6. ASSUME NEW f \in 1 .. Len(F), F[f].active
        PROVE  \/ \E j \in 1 .. Len(N) : N[j].file = f
               \/ \E k \in 1 .. Len(U) : U[k].op = "close" /\ U[k].file = f
    <3>1. CASE \E j \in 1 .. Len(M) : M[j].file = f
      <4>1. PICK j \in 1 .. Len(M) : M[j].file = f BY <3>1
      <4>2. CASE j = i
        <5>1. Len(U) \in 1 .. Len(U) /\ U[Len(U)].op = "close" /\ U[Len(U)].file = f
          BY <1>5, <1>9, <4>1, <4>2
        <5> QED BY <5>1
      <4>3. CASE j # i BY <1>8, <4>1, <4>3 DEF SameModes
      <4> QED BY <4>2, <4>3
    <3>2. CASE \E k \in 1 .. Len(T) : T[k].op = "close" /\ T[k].file = f
      BY <1>9, <3>2 DEF Longer
    <3> QED BY <2>0, <2>6, <3>1, <3>2 DEF OpenOK
  <2>7. \A j, k \in 1 .. Len(U) :
           j # k /\ U[j].op = "close" /\ U[k].op = "close" => U[j].file # U[k].file
    BY <2>5
  <2> QED BY ONLY <2>3, <2>4, <2>6, <2>7 DEF OpenOK
<1>14. Typed(N, F, U) BY <1>1, <1>9, <1>10 DEF Typed
<1> QED BY <1>8, <1>9, <1>11, <1>12, <1>13, <1>14 DEF Kept

(* A write, or the end of the run's being active.                           *)
LEMMA OtherKept ==
  ASSUME NEW O, NEW M, NEW F, NEW L, NEW T, Kept(O, M, F, L, T), NEW e \in Entry,
         e.op = "inactive" \/ (e.op = "write" /\ e.file \in 1 .. Len(F))
  PROVE  Kept(O, M, F, L, Append(T, e))
<1> DEFINE U == Append(T, e)
<1>1. M \in Seq(Mode) /\ F \in Seq(File) /\ T \in Seq(Entry) BY DEF Kept, Typed
<1>2. U = Append(T, e) OBVIOUS
<1> HIDE DEF U
<1>9. /\ U \in Seq(Entry) /\ InOrder(O, F, L, U) /\ Announced(L, U) = Announced(L, T)
      /\ Len(T) \in Nat /\ Len(U) = Len(T) + 1 /\ U[Len(U)] = e /\ Longer(T, U)
      /\ \A k \in 1 .. Len(U) : (k \in 1 .. Len(T) /\ U[k] = T[k]) \/ k = Len(U)
  <2>1. InOrder(O, F, L, T) /\ e.op # "add" BY DEF Kept
  <2>2. Signals(O, U, F, L, T, e) BY <1>1, <1>2, <2>1, OtherSignal
  <2> QED BY <2>2 DEF Signals
<1>3. SameNums(M, M) /\ SameDeferred(M, M) BY DEF SameNums, SameDeferred
<1>4. DeferredOK(O, M, F, L, U)
  <2>1. DeferredOK(O, M, F, L, T) BY DEF Kept
  <2> QED BY <1>1, <1>3, <1>9, <2>1, SameDeferredOK
<1>5. OpenOK(M, F, U)
  <2>0. OpenOK(M, F, T) BY DEF Kept
  <2>1. \A k \in 1 .. Len(U) : U[k].op = "close" => k \in 1 .. Len(T) /\ U[k] = T[k]
    BY <1>9
  <2>2. \A k \in 1 .. Len(U) : U[k].op \in {"close", "write"} => U[k].file \in 1 .. Len(F)
    BY <1>9, <2>0 DEF OpenOK
  <2>3. \A k \in 1 .. Len(T) : k \in 1 .. Len(U) /\ U[k] = T[k] BY <1>9 DEF Longer
  <2>4. ASSUME NEW f \in 1 .. Len(F), F[f].active
        PROVE  \/ \E j \in 1 .. Len(M) : M[j].file = f
               \/ \E k \in 1 .. Len(U) : U[k].op = "close" /\ U[k].file = f
    <3>1. \/ \E j \in 1 .. Len(M) : M[j].file = f
          \/ \E k \in 1 .. Len(T) : T[k].op = "close" /\ T[k].file = f
      BY <2>0, <2>4 DEF OpenOK
    <3>2. ASSUME NEW k \in 1 .. Len(T), T[k].op = "close", T[k].file = f
          PROVE  \E m \in 1 .. Len(U) : U[m].op = "close" /\ U[m].file = f
      BY <2>3, <3>2
    <3> QED BY <3>1, <3>2
  <2>5. \A j, k \in 1 .. Len(U) :
           j # k /\ U[j].op = "close" /\ U[k].op = "close" => U[j].file # U[k].file
    BY <2>0, <2>1 DEF OpenOK
  <2>6. ASSUME NEW i \in 1 .. Len(M), M[i].file # NoFile
        PROVE  /\ M[i].file \in 1 .. Len(F) /\ F[M[i].file].mode = M[i].num
               /\ F[M[i].file].active
               /\ \A k \in 1 .. Len(U) : U[k].op = "close" => U[k].file # M[i].file
    BY <2>0, <2>1, <2>6 DEF OpenOK
  <2>7. \A k \in 1 .. Len(U) : U[k].op = "close" => F[U[k].file].active
    BY <2>0, <2>1 DEF OpenOK
  <2> QED BY <2>2, <2>4, <2>5, <2>6, <2>7 DEF OpenOK
<1>6. Typed(M, F, U) BY <1>1, <1>9 DEF Typed
<1>7. Kept(O, M, F, L, U) BY <1>4, <1>5, <1>6, <1>9 DEF Kept
<1> QED BY <1>7 DEF U

(* A mode with nothing left is dropped.                                     *)
Without(N, M, i) ==
    /\ N \in Seq(Mode) /\ Len(M) \in Nat /\ Len(N) = Len(M) - 1
    /\ \A k \in 1 .. Len(N) : N[k] = IF k < i THEN M[k] ELSE M[k + 1]

LEMMA RemovedAt ==
  ASSUME NEW M \in Seq(Mode), NEW i \in 1 .. Len(M)
  PROVE  Without(RemoveAt(M, i), M, i)
<1> DEFINE n == Len(M)
           A == SubSeq(M, 1, i - 1)
           B == SubSeq(M, i + 1, n)
           N == A \o B
<1>1. n \in Nat /\ i \in 1 .. n /\ i \in Nat BY LenProperties
<1>2. \A k \in 1 .. n : M[k] \in Mode BY ElementOfSeq
<1> HIDE DEF n
<1>3. A = [k \in 1 .. i - 1 |-> M[k]]
  <2>1. 1 \in Int /\ i - 1 \in Int /\ \A k \in 1 .. i - 1 : M[k] \in Mode BY <1>1, <1>2
  <2> QED BY <2>1
<1>4. B = [k \in 1 .. n - i |-> M[k + i]]
  <2>1. i + 1 \in Int /\ n \in Int /\ \A k \in i + 1 .. n : M[k] \in Mode BY <1>1, <1>2
  <2>2. (n - (i + 1)) + 1 = n - i /\ \A k \in 1 .. n - i : (i + 1) + k - 1 = k + i
    BY <1>1
  <2> QED BY <2>1, <2>2
<1>5. A \in Seq(Mode) /\ Len(A) = i - 1 /\ \A k \in 1 .. i - 1 : A[k] = M[k]
  <2>1. \A k \in 1 .. i - 1 : M[k] \in Mode BY <1>1, <1>2
  <2>2. i - 1 \in Nat BY <1>1
  <2> HIDE DEF A
  <2>3. A \in [1 .. i - 1 -> Mode] BY <1>3, <2>1
  <2>4. A \in Seq(Mode) BY <2>2, <2>3
  <2> QED BY <1>3, <2>2, <2>3, <2>4, LenProperties
<1>6. B \in Seq(Mode) /\ Len(B) = n - i /\ \A k \in 1 .. n - i : B[k] = M[k + i]
  <2>1. \A k \in 1 .. n - i : M[k + i] \in Mode BY <1>1, <1>2
  <2>2. n - i \in Nat BY <1>1
  <2> HIDE DEF B
  <2>3. B \in [1 .. n - i -> Mode] BY <1>4, <2>1
  <2>4. B \in Seq(Mode) BY <2>2, <2>3
  <2> QED BY <1>4, <2>2, <2>3, <2>4, LenProperties
<1>7. N \in Seq(Mode) /\ Join(N, A, B) BY <1>5, <1>6, Joined
<1> HIDE DEF A, B, N
<1>8. Len(N) = n - 1 BY <1>1, <1>5, <1>6, <1>7 DEF Join
<1>9. ASSUME NEW k \in 1 .. Len(N) PROVE N[k] = IF k < i THEN M[k] ELSE M[k + 1]
  <2>1. CASE k < i
    <3>1. k \in 1 .. i - 1 BY <1>1, <1>8, <2>1
    <3> QED BY <1>5, <1>7, <2>1, <3>1 DEF Join
  <2>2. CASE ~(k < i)
    <3>1. k \notin 1 .. Len(A) BY <1>1, <1>5, <2>2
    <3>2. k - (i - 1) \in 1 .. n - i /\ (k - (i - 1)) + i = k + 1
      BY <1>1, <1>8, <2>2
    <3>3. N[k] = B[k - (i - 1)] BY <1>5, <1>7, <3>1 DEF Join
    <3> QED BY <1>6, <2>2, <3>2, <3>3
  <2> QED BY <2>1, <2>2
<1>10. RemoveAt(M, i) = N BY DEF RemoveAt, N, A, B, n
<1> QED BY <1>1, <1>7, <1>8, <1>9, <1>10 DEF Without, n

(* The place in M of what is left of it.                                    *)
LEMMA Places ==
  ASSUME NEW M, NEW N, NEW i \in 1 .. Len(M), Without(N, M, i)
  PROVE  /\ \A k \in 1 .. Len(N) : \E j \in 1 .. Len(M) : j # i /\ N[k] = M[j]
         /\ \A j \in 1 .. Len(M) : j # i => \E k \in 1 .. Len(N) : N[k] = M[j]
         /\ \A a, b \in 1 .. Len(N) : a < b =>
               \E j, k \in 1 .. Len(M) : j < k /\ N[a] = M[j] /\ N[b] = M[k]
<1>1. /\ Len(M) \in Nat /\ Len(N) = Len(M) - 1
      /\ \A k \in 1 .. Len(N) : N[k] = IF k < i THEN M[k] ELSE M[k + 1]
  BY DEF Without
<1> DEFINE h(k) == IF k < i THEN k ELSE k + 1
<1>2. \A k \in 1 .. Len(N) : h(k) \in 1 .. Len(M) /\ h(k) # i /\ N[k] = M[h(k)] BY <1>1
<1>3. \A a, b \in 1 .. Len(N) : a < b => h(a) < h(b) BY <1>1
<1> HIDE DEF h
<1>4. ASSUME NEW j \in 1 .. Len(M), j # i PROVE \E k \in 1 .. Len(N) : N[k] = M[j]
  <2>1. CASE j < i
    <3>1. j \in 1 .. Len(N) BY <1>1, <2>1
    <3> QED BY <1>1, <2>1, <3>1
  <2>2. CASE ~(j < i)
    <3>1. j - 1 \in 1 .. Len(N) /\ ~(j - 1 < i) /\ (j - 1) + 1 = j BY <1>1, <1>4, <2>2
    <3>2. N[j - 1] = M[(j - 1) + 1] BY <1>1, <3>1
    <3> QED BY <3>1, <3>2
  <2> QED BY <2>1, <2>2
<1> QED BY <1>2, <1>3, <1>4

LEMMA DropKept ==
  ASSUME NEW O, NEW M, NEW F, NEW L, NEW T, Kept(O, M, F, L, T), NEW i \in 1 .. Len(M),
         M[i].file = NoFile, M[i].pending = <<>>, NEW N, Without(N, M, i),
         i # 1 \/ Len(M) = 1
  PROVE  Kept(O, N, F, L, T)
<1>0. Typed(M, F, T) BY DEF Kept
<1>1. /\ M \in Seq(Mode) /\ F \in Seq(File) /\ T \in Seq(Entry) /\ N \in Seq(Mode)
      /\ Len(M) \in Nat /\ Len(N) = Len(M) - 1
  BY <1>0 DEF Typed, Without
<1>2. /\ \A k \in 1 .. Len(N) : \E j \in 1 .. Len(M) : j # i /\ N[k] = M[j]
      /\ \A j \in 1 .. Len(M) : j # i => \E k \in 1 .. Len(N) : N[k] = M[j]
      /\ \A a, b \in 1 .. Len(N) : a < b =>
            \E j, k \in 1 .. Len(M) : j < k /\ N[a] = M[j] /\ N[b] = M[k]
  BY Places
<1>3. N # <<>> => N[1] = M[1] /\ M # <<>>
  <2> SUFFICES ASSUME N # <<>> PROVE N[1] = M[1] /\ M # <<>> OBVIOUS
  <2>0. N \in Seq(Mode) BY <1>1
  <2>1. Len(N) # 0 /\ Len(N) \in Nat BY <2>0, EmptyModes
  <2>2. i # 1 /\ 1 \in 1 .. Len(N) /\ 1 < i BY <1>1, <2>1
  <2>3. N[1] = M[1] BY <2>2 DEF Without
  <2>4. M # <<>> BY <1>1, <2>1, EmptyModes
  <2> QED BY <2>3, <2>4
<1>6. ModesOK(N, F)
  <2>1. ModesOK(M, F) BY DEF Kept
  <2>2. ASSUME NEW a \in 1 .. Len(N), NEW b \in 1 .. Len(N), a < b
        PROVE  N[b].num < N[a].num
    <3>1. PICK j \in 1 .. Len(M), k \in 1 .. Len(M) : j < k /\ N[a] = M[j] /\ N[b] = M[k]
      BY <1>2, <2>2
    <3> QED BY <2>1, <3>1 DEF ModesOK
  <2>3. \A a \in 1 .. Len(N) : N[a].num > 0 BY <1>2, <2>1 DEF ModesOK
  <2>4. ASSUME NEW a \in 1 .. Len(N), NEW f \in 1 .. Len(F), F[f].mode = N[a].num
        PROVE  /\ F[f].paused = N[a].paused
               /\ F[f].num <= N[a].numFiles
               /\ N[a].paused => F[f].pauseNum <= N[a].numPauseFiles
    <3>1. PICK j \in 1 .. Len(M) : N[a] = M[j] BY <1>2
    <3> QED BY <2>1, <2>4, <3>1 DEF ModesOK
  <2>5. N # <<>> => \A f \in 1 .. Len(F) : F[f].mode <= N[1].num
    BY <1>3, <2>1 DEF ModesOK
  <2> QED BY <2>2, <2>3, <2>4, <2>5 DEF ModesOK
<1>7. DeferredOK(O, N, F, L, T)
  <2>1. DeferredOK(O, M, F, L, T) BY DEF Kept
  <2>2. ASSUME NEW x \in Announced(L, T)
        PROVE  x \in 1 .. Len(F) /\ \A a \in 1 .. Len(N) : NoLater(O, F, x, N[a])
    <3>1. x \in 1 .. Len(F) /\ \A j \in 1 .. Len(M) : NoLater(O, F, x, M[j])
      BY <2>1 DEF DeferredOK
    <3> QED BY <1>2, <3>1
  <2>3. ASSUME NEW f \in 1 .. Len(F)
        PROVE  f \in Announced(L, T) \/ \E a \in 1 .. Len(N) : f \in Pending(N, a)
    <3>1. CASE \E j \in 1 .. Len(M) : f \in Pending(M, j)
      <4>1. PICK j \in 1 .. Len(M) : f \in Pending(M, j) BY <3>1
      <4>2. j # i
        <5>1. Len(M[i].pending) = 0 BY EmptySeq
        <5> QED BY <4>1, <5>1 DEF Pending
      <4>3. PICK a \in 1 .. Len(N) : N[a] = M[j] BY <1>2, <4>2
      <4> QED BY <4>1, <4>3 DEF Pending
    <3> QED BY <2>1, <3>1 DEF DeferredOK
  <2>4. ASSUME NEW a \in 1 .. Len(N)
        PROVE  /\ \A k \in 1 .. Len(N[a].pending) :
                     N[a].pending[k] \in 1 .. Len(F) /\ F[N[a].pending[k]].mode = N[a].num
               /\ Ordered(F, N[a].pending)
               /\ AllBefore(O, F, Announced(L, T), N[a].pending)
    <3>1. PICK j \in 1 .. Len(M) : N[a] = M[j] BY <1>2
    <3> QED BY <2>1, <3>1 DEF DeferredOK
  <2> QED BY <2>2, <2>3, <2>4 DEF DeferredOK
<1>8. OpenOK(N, F, T)
  <2>1. OpenOK(M, F, T) BY DEF Kept
  <2>2. ASSUME NEW f \in 1 .. Len(F), F[f].active
        PROVE  \/ \E a \in 1 .. Len(N) : N[a].file = f
               \/ \E k \in 1 .. Len(T) : T[k].op = "close" /\ T[k].file = f
    <3>1. CASE \E j \in 1 .. Len(M) : M[j].file = f
      <4>1. PICK j \in 1 .. Len(M) : M[j].file = f BY <3>1
      <4>2. j # i BY <4>1 DEF NoFile
      <4>3. PICK a \in 1 .. Len(N) : N[a] = M[j] BY <1>2, <4>2
      <4> QED BY <4>1, <4>3
    <3> QED BY <2>1, <2>2, <3>1 DEF OpenOK
  <2>3. ASSUME NEW a \in 1 .. Len(N), N[a].file # NoFile
        PROVE  /\ N[a].file \in 1 .. Len(F) /\ F[N[a].file].mode = N[a].num
               /\ F[N[a].file].active
               /\ \A k \in 1 .. Len(T) : T[k].op = "close" => T[k].file # N[a].file
    <3>1. PICK j \in 1 .. Len(M) : N[a] = M[j] BY <1>2
    <3> QED BY <2>1, <2>3, <3>1 DEF OpenOK
  <2> QED BY <2>1, <2>2, <2>3 DEF OpenOK
<1>9. Typed(N, F, T) BY <1>1 DEF Typed
<1> QED BY <1>6, <1>7, <1>8, <1>9 DEF Kept

(* A newer mode is pushed in front.                                         *)
LEMMA PushKept ==
  ASSUME NEW O, NEW M, NEW F, NEW L, NEW T, Kept(O, M, F, L, T), M # <<>>, NEW m \in Mode,
         m.num = M[1].num + 1, m.file = NoFile, m.pending = <<>>
  PROVE  /\ Kept(O, <<m>> \o M, F, L, T) /\ <<m>> \o M # <<>>
         /\ Len(<<m>> \o M) = Len(M) + 1 /\ (<<m>> \o M)[1] = m
         /\ (<<m>> \o M)[Len(M) + 1] = M[Len(M)]
<1> DEFINE n == Len(M)
           q == <<m>>
           N == q \o M
<1>0. Typed(M, F, T) BY DEF Kept
<1>1. M \in Seq(Mode) /\ F \in Seq(File) /\ T \in Seq(Entry) BY <1>0 DEF Typed
<1>2. n \in Nat /\ n # 0 /\ n \in 1 .. n /\ 1 \in 1 .. n /\ \A i \in 1 .. n : M[i] \in Mode
  BY <1>0, <1>1, EmptyModes, Types
<1>3. q \in Seq(Mode) /\ Len(q) = 1 /\ q[1] = m OBVIOUS
<1> HIDE DEF q
<1>4. N \in Seq(Mode) /\ Join(N, q, M) BY <1>1, <1>3, Joined
<1> HIDE DEF N
<1>5. /\ Len(N) = n + 1 /\ N[1] = m
      /\ \A i \in 1 .. n : i + 1 \in 1 .. Len(N) /\ N[i + 1] = M[i]
      /\ \A i \in 1 .. Len(N) : i # 1 => i - 1 \in 1 .. n /\ N[i] = M[i - 1]
  <2>1. Len(N) = n + 1 BY <1>2, <1>3, <1>4 DEF Join
  <2>2. N[1] = m BY <1>3, <1>4 DEF Join
  <2>3. ASSUME NEW i \in 1 .. n PROVE i + 1 \in 1 .. Len(N) /\ N[i + 1] = M[i]
    <3>1. 1 + i = i + 1 OBVIOUS
    <3> QED BY <1>3, <1>4, <3>1 DEF Join
  <2>4. ASSUME NEW i \in 1 .. Len(N), i # 1 PROVE i - 1 \in 1 .. n /\ N[i] = M[i - 1]
    <3>1. i \notin 1 .. 1 BY <2>4
    <3> QED BY <1>3, <1>4, <3>1 DEF Join
  <2> QED BY <2>1, <2>2, <2>3, <2>4
<1>6. \A i \in 1 .. n : M[i].num <= M[1].num /\ M[i].num \in Nat
  <2>1. ASSUME NEW i \in 1 .. n PROVE M[i].num <= M[1].num /\ M[i].num \in Nat
    <3>1. M[i].num \in Nat /\ M[1].num \in Nat BY <1>2, ModeTypes
    <3>2. i = 1 \/ 1 < i OBVIOUS
    <3> QED BY <1>2, <3>1, <3>2 DEF Kept, ModesOK
  <2> QED BY <2>1
<1>7. ModesOK(N, F)
  <2>0. ModesOK(M, F) BY DEF Kept
  <2>1. \A f \in 1 .. Len(F) : F[f].mode \in Nat /\ F[f].mode <= M[1].num
    BY <1>0, <2>0, Types, FileTypes DEF ModesOK
  <2>2. M[1].num \in Nat BY <1>2, <1>6
  <2>3. \A f \in 1 .. Len(F) : F[f].mode # m.num /\ F[f].mode <= m.num BY <2>1, <2>2
  <2>4. ASSUME NEW i \in 1 .. Len(N), NEW j \in 1 .. Len(N), i < j
        PROVE  N[j].num < N[i].num
    <3>1. j # 1 BY <2>4
    <3>2. j - 1 \in 1 .. n /\ N[j] = M[j - 1] BY <1>5, <3>1
    <3>3. CASE i = 1 BY <1>5, <1>6, <2>2, <3>2, <3>3
    <3>4. CASE i # 1
      <4>1. i - 1 \in 1 .. n /\ N[i] = M[i - 1] BY <1>5, <3>4
      <4>2. i - 1 < j - 1 BY <2>4
      <4> QED BY <2>0, <3>2, <4>1, <4>2 DEF ModesOK
    <3> QED BY <3>3, <3>4
  <2>5. ASSUME NEW i \in 1 .. Len(N) PROVE N[i].num > 0
    BY <1>5, <2>0, <2>2 DEF ModesOK
  <2>6. ASSUME NEW i \in 1 .. Len(N), NEW f \in 1 .. Len(F), F[f].mode = N[i].num
        PROVE  /\ F[f].paused = N[i].paused
               /\ F[f].num <= N[i].numFiles
               /\ N[i].paused => F[f].pauseNum <= N[i].numPauseFiles
    <3>1. i # 1 BY <1>5, <2>3, <2>6
    <3>2. i - 1 \in 1 .. n /\ N[i] = M[i - 1] BY <1>5, <3>1
    <3> QED BY <2>0, <2>6, <3>2 DEF ModesOK
  <2>7. \A f \in 1 .. Len(F) : F[f].mode <= N[1].num BY <1>5, <2>3
  <2> QED BY <2>4, <2>5, <2>6, <2>7 DEF ModesOK
<1>8. DeferredOK(O, N, F, L, T)
  <2>0. DeferredOK(O, M, F, L, T) BY DEF Kept
  <2>1. ASSUME NEW x \in Announced(L, T)
        PROVE  x \in 1 .. Len(F) /\ \A i \in 1 .. Len(N) : NoLater(O, F, x, N[i])
    <3>1. x \in 1 .. Len(F) /\ \A i \in 1 .. Len(M) : NoLater(O, F, x, M[i])
      BY <2>0 DEF DeferredOK
    <3>2. F[x].mode <= M[1].num /\ F[x].mode \in Nat /\ M[1].num \in Nat
      BY <1>0, <1>2, <1>6, <3>1, Types, FileTypes DEF Kept, ModesOK
    <3>3. NoLater(O, F, x, N[1]) BY <1>5, <3>2 DEF NoLater
    <3>4. ASSUME NEW i \in 1 .. Len(N), i # 1 PROVE NoLater(O, F, x, N[i])
      BY <1>5, <3>1, <3>4
    <3> QED BY <3>1, <3>3, <3>4
  <2>2. ASSUME NEW f \in 1 .. Len(F)
        PROVE  f \in Announced(L, T) \/ \E i \in 1 .. Len(N) : f \in Pending(N, i)
    <3>1. CASE \E i \in 1 .. n : f \in Pending(M, i)
      <4>1. PICK i \in 1 .. n : f \in Pending(M, i) BY <3>1
      <4>2. i + 1 \in 1 .. Len(N) /\ N[i + 1] = M[i] BY <1>5
      <4> QED BY <4>1, <4>2 DEF Pending
    <3> QED BY <2>0, <3>1 DEF DeferredOK
  <2>3. ASSUME NEW i \in 1 .. Len(N)
        PROVE  /\ \A k \in 1 .. Len(N[i].pending) :
                     N[i].pending[k] \in 1 .. Len(F) /\ F[N[i].pending[k]].mode = N[i].num
               /\ Ordered(F, N[i].pending)
               /\ AllBefore(O, F, Announced(L, T), N[i].pending)
    <3>1. CASE i = 1
      <4>1. Len(N[i].pending) = 0 BY <1>5, <3>1, EmptySeq
      <4> QED BY <4>1 DEF Ordered, AllBefore
    <3>2. CASE i # 1
      <4>1. i - 1 \in 1 .. n /\ N[i] = M[i - 1] BY <1>5, <3>2
      <4> QED BY <2>0, <4>1 DEF DeferredOK
    <3> QED BY <3>1, <3>2
  <2> QED BY <2>1, <2>2, <2>3 DEF DeferredOK
<1>9. OpenOK(N, F, T)
  <2>0. OpenOK(M, F, T) BY DEF Kept
  <2>1. ASSUME NEW i \in 1 .. Len(N), N[i].file # NoFile
        PROVE  /\ N[i].file \in 1 .. Len(F) /\ F[N[i].file].mode = N[i].num
               /\ F[N[i].file].active
               /\ \A k \in 1 .. Len(T) : T[k].op = "close" => T[k].file # N[i].file
    <3>1. i - 1 \in 1 .. n /\ N[i] = M[i - 1] BY <1>5, <2>1
    <3> QED BY <2>0, <2>1, <3>1 DEF OpenOK
  <2>2. ASSUME NEW f \in 1 .. Len(F), F[f].active
        PROVE  \/ \E i \in 1 .. Len(N) : N[i].file = f
               \/ \E k \in 1 .. Len(T) : T[k].op = "close" /\ T[k].file = f
    <3>1. CASE \E i \in 1 .. n : M[i].file = f BY <1>5, <3>1
    <3> QED BY <2>0, <2>2, <3>1 DEF OpenOK
  <2> QED BY <2>0, <2>1, <2>2 DEF OpenOK
<1>10. Typed(N, F, T) BY <1>1, <1>4 DEF Typed
<1>11. N # <<>> BY <1>2, <1>4, <1>5, EmptyModes
<1> QED BY <1>2, <1>5, <1>7, <1>8, <1>9, <1>10, <1>11 DEF Kept, N, q

(* A mode that is not paused forgets the count of its paused files.         *)
LEMMA ResetKept ==
  ASSUME NEW O, NEW M, NEW F, NEW L, NEW T, Kept(O, M, F, L, T), M # <<>>, M[1].paused = FALSE
  PROVE  /\ Kept(O, [M EXCEPT ![1].numPauseFiles = 0], F, L, T)
         /\ SameFiles(M, [M EXCEPT ![1].numPauseFiles = 0])
         /\ SameDeferred(M, [M EXCEPT ![1].numPauseFiles = 0])
         /\ SameNums(M, [M EXCEPT ![1].numPauseFiles = 0])
         /\ [M EXCEPT ![1].numPauseFiles = 0][1].paused = FALSE
<1> DEFINE m == [M[1] EXCEPT !.numPauseFiles = 0]
           N == [M EXCEPT ![1].numPauseFiles = 0]
<1>0. Typed(M, F, T) BY DEF Kept
<1>1. M \in Seq(Mode) /\ F \in Seq(File) /\ T \in Seq(Entry) BY <1>0 DEF Typed
<1>2. 1 \in 1 .. Len(M) /\ M[1] \in Mode
  <2>1. Len(M) \in Nat /\ Len(M) # 0 BY <1>1, EmptyModes
  <2> QED BY <1>0, <2>1, Types
<1>3. /\ m \in Mode /\ m.num = M[1].num /\ m.numFiles = M[1].numFiles
      /\ m.paused = FALSE /\ m.pending = M[1].pending /\ m.file = M[1].file
  BY <1>2 DEF Mode
<1>4. N = [M EXCEPT ![1] = m] OBVIOUS
<1> HIDE DEF m, N
<1>5. Replace(N, M, 1, m)
  <2>1. M \in Seq(Mode) /\ m \in Mode BY <1>1, <1>3
  <2>2. Replace([M EXCEPT ![1] = m], M, 1, m) BY <1>2, <2>1, Replaced
  <2> QED BY <1>4, <2>2
<1>6. /\ SameNums(M, N) /\ SameFiles(M, N) /\ SameDeferred(M, N) /\ N[1].paused = FALSE
      /\ \A i \in 1 .. Len(N) :
            /\ i \in 1 .. Len(M) /\ N[i].num = M[i].num /\ N[i].paused = M[i].paused
            /\ N[i].numFiles = M[i].numFiles
            /\ N[i].paused => N[i].numPauseFiles = M[i].numPauseFiles
  BY <1>3, <1>5 DEF Replace, SameNums, SameFiles, SameDeferred
<1>7. ModesOK(N, F)
  <2>1. ModesOK(M, F) BY DEF Kept
  <2>2. 1 \in 1 .. Len(N) BY <1>2, <1>5 DEF Replace
  <2> QED BY <1>6, <2>1, <2>2 DEF ModesOK
<1>8. DeferredOK(O, N, F, L, T)
  <2>1. DeferredOK(O, M, F, L, T) BY DEF Kept
  <2>2. N \in Seq(Mode) BY <1>5 DEF Replace
  <2> QED BY <1>1, <1>6, <2>1, <2>2, SameDeferredOK
<1>9. OpenOK(N, F, T)
  <2>1. OpenOK(M, F, T) BY DEF Kept
  <2>2. Quiet(T, T) /\ Longer(T, T)
    <3>1. Len(T) \in Nat BY <1>0, Types
    <3>2. \A k \in 1 .. Len(T) : k \in 1 .. Len(T) /\ T[k] = T[k] OBVIOUS
    <3>3. Len(T) >= Len(T) BY <3>1
    <3> QED BY <3>2, <3>3 DEF Quiet, Longer
  <2> QED BY <1>6, <2>1, <2>2, QuietOpen
<1>10. Typed(N, F, T) BY <1>1, <1>5 DEF Typed, Replace
<1>11. Kept(O, N, F, L, T) BY <1>7, <1>8, <1>9, <1>10 DEF Kept
<1> QED BY <1>6, <1>11 DEF N

(* The place of a file does not change when others are opened, or when it   *)
(* is written to.                                                           *)
SamePlaces(F, G) ==
    \A f \in 1 .. Len(F) : /\ f \in 1 .. Len(G) /\ G[f].mode = F[f].mode
                           /\ G[f].num = F[f].num /\ G[f].pauseNum = F[f].pauseNum
                           /\ G[f].paused = F[f].paused

LEMMA SameEarlier ==
  ASSUME NEW F, NEW G, SamePlaces(F, G), NEW f \in 1 .. Len(F), NEW g \in 1 .. Len(F)
  PROVE  Earlier(G, f, g) <=> Earlier(F, f, g)
BY DEF SamePlaces, Earlier

LEMMA SamePrecedes ==
  ASSUME NEW O, NEW F, NEW G, SamePlaces(F, G), NEW f \in 1 .. Len(F),
         NEW g \in 1 .. Len(F)
  PROVE  Precedes(O, G, f, g) <=> Precedes(O, F, f, g)
BY SameEarlier DEF SamePlaces, Precedes

LEMMA SameOrder ==
  ASSUME NEW O, NEW F, NEW G, NEW L, NEW T, InOrder(O, F, L, T), SamePlaces(F, G),
         \A x \in Announced(L, T) : x \in 1 .. Len(F)
  PROVE  InOrder(O, G, L, T)
<1>1. \A j \in 1 .. Len(L) : L[j] \in 1 .. Len(F) BY DEF Announced
<1>2. \A k \in 1 .. Len(T) : T[k].op = "add" => T[k].file \in 1 .. Len(F)
  BY DEF Announced
<1> QED BY <1>1, <1>2, SamePrecedes DEF InOrder

(* A mode opens its next file, which is deferred.                           *)
Opening(M, F, i, m, x) ==
    /\ x \in File /\ m \in Mode
    /\ x.mode = M[i].num /\ x.num = m.numFiles /\ x.paused = m.paused /\ x.active = TRUE
    /\ m.paused => x.pauseNum = m.numPauseFiles
    /\ m.num = M[i].num /\ m.file = Len(F) + 1
    /\ m.pending = Append(M[i].pending, Len(F) + 1)
    /\ m.paused => m.numFiles = M[i].numFiles /\ m.numPauseFiles = M[i].numPauseFiles + 1
    /\ ~m.paused => m.numFiles = M[i].numFiles + 1
    /\ \A f \in 1 .. Len(F) : F[f].mode = M[i].num => M[i].paused = m.paused
Opened(M, F, i, m, x, N, G) == N = [M EXCEPT ![i] = m] /\ G = Append(F, x)

LEMMA OpenKept ==
  ASSUME NEW O, NEW M, NEW F, NEW L, NEW T, Kept(O, M, F, L, T), NEW i \in 1 .. Len(M),
         M[i].file = NoFile, NEW x, NEW m, Opening(M, F, i, m, x),
         NEW N, NEW G, Opened(M, F, i, m, x, N, G)
  PROVE  /\ Kept(O, N, G, L, T) /\ Replace(N, M, i, m) /\ SamePlaces(F, G)
         /\ Len(G) = Len(F) + 1 /\ G[Len(F) + 1] = x
         /\ \A f \in 1 .. Len(F) : G[f] = F[f]
<1>e. /\ x \in File /\ m \in Mode
      /\ x.mode = M[i].num /\ x.num = m.numFiles /\ x.paused = m.paused /\ x.active = TRUE
      /\ m.paused => x.pauseNum = m.numPauseFiles
      /\ m.num = M[i].num /\ m.file = Len(F) + 1
      /\ m.pending = Append(M[i].pending, Len(F) + 1)
      /\ m.paused => m.numFiles = M[i].numFiles /\ m.numPauseFiles = M[i].numPauseFiles + 1
      /\ ~m.paused => m.numFiles = M[i].numFiles + 1
      /\ \A f \in 1 .. Len(F) : F[f].mode = M[i].num => M[i].paused = m.paused
      /\ N = [M EXCEPT ![i] = m] /\ G = Append(F, x)
  BY DEF Opening, Opened
<1> USE <1>e
<1> DEFINE n == Len(M)
           id == Len(F) + 1
           p == M[i].pending
<1>0. Typed(M, F, T) /\ ModesOK(M, F) /\ DeferredOK(O, M, F, L, T) /\ OpenOK(M, F, T)
      /\ InOrder(O, F, L, T)
  BY DEF Kept
<1>1. M \in Seq(Mode) /\ F \in Seq(File) /\ T \in Seq(Entry) BY <1>0 DEF Typed
<1>2. /\ n \in Nat /\ \A j \in 1 .. n : M[j] \in Mode
      /\ Len(F) \in Nat /\ \A f \in 1 .. Len(F) : F[f] \in File
  BY <1>0, Types
<1>3. /\ \A j \in 1 .. n : M[j].num \in Nat /\ M[j].numFiles \in Nat
                           /\ M[j].numPauseFiles \in Nat
      /\ p \in Seq(Nat)
  BY <1>2, ModeTypes
<1>4. \A f \in 1 .. Len(F) : F[f].mode \in Nat /\ F[f].num \in Nat /\ F[f].pauseNum \in Nat
  BY <1>2, FileTypes
<1>5. Replace(N, M, i, m)
  <2>1. Replace([M EXCEPT ![i] = m], M, i, m) BY <1>1, Replaced
  <2> QED BY <2>1
<1>6. /\ N \in Seq(Mode) /\ Len(N) = n /\ N[i] = m /\ M # <<>> /\ N # <<>>
      /\ \A j \in 1 .. n : j # i => N[j] = M[j]
      /\ \A j \in 1 .. n : N[j].num = M[j].num
  BY <1>5 DEF Replace
<1>7. /\ G \in Seq(File) /\ Len(G) = id /\ G[id] = x /\ id \in 1 .. id
      /\ \A f \in 1 .. Len(F) : f \in 1 .. id /\ G[f] = F[f] /\ f # id
      /\ \A f \in 1 .. id : f \in 1 .. Len(F) \/ f = id
  BY <1>1, <1>2, AppendProperties
<1> HIDE DEF id
<1>8. SamePlaces(F, G) BY <1>7 DEF SamePlaces
<1>9. InOrder(O, G, L, T)
  <2>1. \A y \in Announced(L, T) : y \in 1 .. Len(F) BY <1>0 DEF DeferredOK
  <2> QED BY <1>0, <1>8, <2>1, SameOrder
<1>10. \A f \in 1 .. Len(F) : F[f].mode <= M[i].num => Earlier(G, f, id)
  <2> SUFFICES ASSUME NEW f \in 1 .. Len(F), F[f].mode <= M[i].num PROVE Earlier(G, f, id)
    OBVIOUS
  <2>1. CASE F[f].mode < M[i].num BY <1>7, <2>1 DEF Earlier
  <2>2. CASE F[f].mode = M[i].num
    <3>1. /\ F[f].num <= M[i].numFiles
          /\ M[i].paused => F[f].pauseNum <= M[i].numPauseFiles
      BY <1>0, <2>2 DEF ModesOK
    <3>2. M[i].paused = m.paused BY <2>2
    <3>3. CASE m.paused
      <4>1. x.num = M[i].numFiles /\ x.pauseNum = M[i].numPauseFiles + 1 BY <3>3
      <4>2. F[f].pauseNum <= M[i].numPauseFiles BY <3>1, <3>2, <3>3
      <4> QED BY <1>3, <1>4, <1>7, <2>2, <3>1, <4>1, <4>2, SMTT(30) DEF Earlier
    <3>4. CASE ~m.paused
      <4>1. x.num = M[i].numFiles + 1 BY <3>4
      <4> QED BY <1>3, <1>4, <1>7, <2>2, <3>1, <4>1 DEF Earlier
    <3> QED BY <3>3, <3>4
  <2> QED BY <1>3, <1>4, <2>1, <2>2
<1>11. ModesOK(N, G)
  <2>1. ASSUME NEW j \in 1 .. Len(N), NEW f \in 1 .. Len(G), G[f].mode = N[j].num
        PROVE  /\ G[f].paused = N[j].paused
               /\ G[f].num <= N[j].numFiles
               /\ N[j].paused => G[f].pauseNum <= N[j].numPauseFiles
    <3>1. CASE f = id
      <4>1. j = i
        <5>1. M[j].num = M[i].num BY <1>6, <1>7, <2>1, <3>1
        <5>2. i < j \/ j < i \/ i = j BY <1>6
        <5> QED BY <1>0, <1>3, <1>6, <5>1, <5>2 DEF ModesOK
      <4>2. G[f] = x /\ N[j] = m BY <1>6, <1>7, <3>1, <4>1
      <4>3. m.numFiles \in Nat /\ m.numPauseFiles \in Nat BY ModeTypes
      <4> QED BY <4>2, <4>3
    <3>2. CASE f \in 1 .. Len(F) /\ j = i
      <4>1. F[f].mode = M[i].num /\ G[f] = F[f] /\ N[j] = m BY <1>6, <1>7, <2>1, <3>2
      <4>2. /\ F[f].paused = M[i].paused /\ F[f].num <= M[i].numFiles
            /\ M[i].paused => F[f].pauseNum <= M[i].numPauseFiles
        BY <1>0, <3>2, <4>1 DEF ModesOK
      <4>3. M[i].paused = m.paused BY <3>2, <4>1
      <4>4. m.numFiles = M[i].numFiles \/ m.numFiles = M[i].numFiles + 1 OBVIOUS
      <4>5. F[f].num <= m.numFiles BY <1>3, <1>4, <3>2, <4>2, <4>4
      <4>6. m.paused => F[f].pauseNum <= m.numPauseFiles BY <1>3, <1>4, <3>2, <4>2, <4>3
      <4> QED BY <4>1, <4>2, <4>3, <4>5, <4>6
    <3>3. CASE f \in 1 .. Len(F) /\ j # i
      <4>1. j \in 1 .. n /\ G[f] = F[f] /\ N[j] = M[j] BY <1>6, <1>7, <3>3
      <4> QED BY <1>0, <2>1, <3>3, <4>1 DEF ModesOK
    <3> QED BY <1>7, <3>1, <3>2, <3>3
  <2>2. 1 \in 1 .. n BY <1>2
  <2>3. M[i].num <= M[1].num
    <3>1. i = 1 \/ 1 < i OBVIOUS
    <3> QED BY <1>0, <1>3, <2>2, <3>1 DEF ModesOK
  <2>4. \A f \in 1 .. Len(G) : G[f].mode <= N[1].num
    BY <1>0, <1>6, <1>7, <2>2, <2>3 DEF ModesOK
  <2>5. /\ \A j \in 1 .. Len(N) : N[j].num > 0
        /\ \A j, k \in 1 .. Len(N) : j < k => N[k].num < N[j].num
    BY <1>0, <1>6 DEF ModesOK
  <2> QED BY <2>1, <2>4, <2>5 DEF ModesOK
<1>12. DeferredOK(O, N, G, L, T)
  <2>1. \A y \in Announced(L, T) :
            y \in 1 .. Len(F) /\ \A j \in 1 .. n : NoLater(O, F, y, M[j])
    BY <1>0, <1>6 DEF DeferredOK
  <2>3. \A y \in Announced(L, T) : Precedes(O, G, y, id)
    <3> SUFFICES ASSUME NEW y \in Announced(L, T) PROVE Precedes(O, G, y, id) OBVIOUS
    <3>1. y \in 1 .. Len(F) /\ NoLater(O, F, y, M[i]) BY <2>1
    <3>2. CASE F[y].mode <= M[i].num BY <1>10, <3>1, <3>2 DEF Precedes
    <3>3. CASE <<F[y].mode, M[i].num>> \in O
      <4>1. G[y].mode = F[y].mode /\ G[id].mode = M[i].num BY <1>7, <3>1
      <4> QED BY <3>3, <4>1 DEF Precedes
    <3> QED BY <3>1, <3>2, <3>3 DEF NoLater
  <2>4. \A y \in Announced(L, T) :
            y \in 1 .. Len(G) /\ \A j \in 1 .. Len(N) : NoLater(O, G, y, N[j])
    BY <1>6, <1>7, <2>1 DEF NoLater
  <2>5. ASSUME NEW j \in 1 .. n
        PROVE  /\ \A k \in 1 .. Len(M[j].pending) :
                     /\ M[j].pending[k] \in 1 .. Len(F) /\ M[j].pending[k] \in 1 .. Len(G)
                     /\ G[M[j].pending[k]].mode = M[j].num
               /\ Ordered(G, M[j].pending)
               /\ AllBefore(O, G, Announced(L, T), M[j].pending)
    <3>1. \A k \in 1 .. Len(M[j].pending) :
              M[j].pending[k] \in 1 .. Len(F) /\ F[M[j].pending[k]].mode = M[j].num
      BY <1>0 DEF DeferredOK
    <3>2. Ordered(F, M[j].pending) /\ AllBefore(O, F, Announced(L, T), M[j].pending)
      BY <1>0 DEF DeferredOK
    <3>3. Ordered(G, M[j].pending) BY <1>8, <3>1, <3>2, SameEarlier DEF Ordered
    <3>4. AllBefore(O, G, Announced(L, T), M[j].pending)
      BY <1>8, <2>1, <3>1, <3>2, SamePrecedes DEF AllBefore
    <3> QED BY <1>7, <3>1, <3>3, <3>4
  <2>6. /\ m.pending \in Seq(Nat) /\ Len(p) \in Nat /\ Len(m.pending) = Len(p) + 1
        /\ m.pending[Len(p) + 1] = id
        /\ \A k \in 1 .. Len(p) : k \in 1 .. Len(m.pending) /\ m.pending[k] = p[k]
        /\ \A k \in 1 .. Len(m.pending) : k \in 1 .. Len(p) \/ k = Len(p) + 1
    <3>1. id \in Nat /\ m.pending = Append(p, id) BY <1>2 DEF id
    <3> QED BY <1>3, <3>1, Added, SMTT(30)
  <2>7. \A k \in 1 .. Len(p) : Earlier(G, p[k], id)
    <3> SUFFICES ASSUME NEW k \in 1 .. Len(p) PROVE Earlier(G, p[k], id) OBVIOUS
    <3>1. p[k] \in 1 .. Len(F) /\ F[p[k]].mode = M[i].num
      BY <1>0 DEF DeferredOK
    <3>2. M[i].num \in Nat BY <1>3
    <3>3. F[p[k]].mode <= M[i].num BY ONLY <3>1, <3>2
    <3> QED BY <1>10, <3>1, <3>3
  <2>8. /\ \A k \in 1 .. Len(m.pending) :
              m.pending[k] \in 1 .. Len(G) /\ G[m.pending[k]].mode = m.num
        /\ Ordered(G, m.pending)
        /\ AllBefore(O, G, Announced(L, T), m.pending)
    <3>1. ASSUME NEW k \in 1 .. Len(m.pending)
          PROVE  m.pending[k] \in 1 .. Len(G) /\ G[m.pending[k]].mode = m.num
      BY <1>7, <2>5, <2>6
    <3>2. Ordered(G, m.pending)
      <4> SUFFICES ASSUME NEW j \in 1 .. Len(m.pending), NEW k \in 1 .. Len(m.pending), j < k
                   PROVE  Earlier(G, m.pending[j], m.pending[k])
        BY DEF Ordered
      <4>1. j \in 1 .. Len(p) BY <2>6
      <4>2. CASE k = Len(p) + 1 BY <2>6, <2>7, <4>1, <4>2
      <4>3. CASE k \in 1 .. Len(p) BY <2>5, <2>6, <4>1, <4>3 DEF Ordered
      <4> QED BY <2>6, <4>2, <4>3
    <3>3. AllBefore(O, G, Announced(L, T), m.pending)
      <4> SUFFICES ASSUME NEW y \in Announced(L, T), NEW k \in 1 .. Len(m.pending)
                   PROVE  Precedes(O, G, y, m.pending[k])
        BY DEF AllBefore
      <4>2. CASE k = Len(p) + 1 BY <2>3, <2>6, <4>2
      <4>3. CASE k \in 1 .. Len(p) BY <2>5, <2>6, <4>3 DEF AllBefore
      <4> QED BY <2>6, <4>2, <4>3
    <3> QED BY <3>1, <3>2, <3>3
  <2>9. ASSUME NEW j \in 1 .. Len(N)
        PROVE  /\ \A k \in 1 .. Len(N[j].pending) :
                     N[j].pending[k] \in 1 .. Len(G) /\ G[N[j].pending[k]].mode = N[j].num
               /\ Ordered(G, N[j].pending)
               /\ AllBefore(O, G, Announced(L, T), N[j].pending)
    <3>1. CASE j = i
      <4>1. N[j] = m BY <1>6, <3>1
      <4> QED BY <2>8, <4>1
    <3>2. CASE j # i BY <1>6, <2>5, <3>2
    <3> QED BY <3>1, <3>2
  <2>10. ASSUME NEW f \in 1 .. Len(G)
         PROVE  f \in Announced(L, T) \/ \E j \in 1 .. Len(N) : f \in Pending(N, j)
    <3>1. CASE f = id
      <4>1. Len(p) + 1 \in 1 .. Len(N[i].pending) /\ N[i].pending[Len(p) + 1] = f
        BY <1>6, <2>6, <3>1
      <4> QED BY <1>6, <4>1 DEF Pending
    <3>2. CASE f \in Announced(L, T) BY <3>2
    <3>3. CASE \E j \in 1 .. n : f \in Pending(M, j)
      <4>1. PICK j \in 1 .. n : f \in Pending(M, j) BY <3>3
      <4>2. PICK k \in 1 .. Len(M[j].pending) : f = M[j].pending[k] BY <4>1 DEF Pending
      <4>3. k \in 1 .. Len(N[j].pending) /\ N[j].pending[k] = f
        BY <1>6, <2>6, <4>2
      <4> QED BY <1>6, <4>3 DEF Pending
    <3> QED BY <1>0, <1>7, <3>1, <3>2, <3>3 DEF DeferredOK
  <2> QED BY <2>4, <2>9, <2>10 DEF DeferredOK
<1>13. OpenOK(N, G, T)
  <2>1. \A k \in 1 .. Len(T) : T[k].op \in {"close", "write"} =>
            T[k].file \in 1 .. Len(F) /\ T[k].file \in 1 .. Len(G) /\ T[k].file # id
    BY <1>0, <1>7 DEF OpenOK
  <2>2. ASSUME NEW j \in 1 .. Len(N), N[j].file # NoFile
        PROVE  /\ N[j].file \in 1 .. Len(G) /\ G[N[j].file].mode = N[j].num
               /\ G[N[j].file].active
               /\ \A k \in 1 .. Len(T) : T[k].op = "close" => T[k].file # N[j].file
    <3>1. CASE j = i
      <4>1. N[j].file = id /\ N[j].num = M[i].num BY <1>6, <3>1 DEF id
      <4> QED BY <1>7, <2>1, <4>1
    <3>2. CASE j # i
      <4>1. j \in 1 .. n /\ N[j] = M[j] BY <1>6, <3>2
      <4> QED BY <1>0, <1>7, <2>2, <4>1 DEF OpenOK
    <3> QED BY <3>1, <3>2
  <2>3. ASSUME NEW f \in 1 .. Len(G), G[f].active
        PROVE  \/ \E j \in 1 .. Len(N) : N[j].file = f
               \/ \E k \in 1 .. Len(T) : T[k].op = "close" /\ T[k].file = f
    <3>1. CASE f = id
      <4>1. N[i].file = f /\ i \in 1 .. Len(N) BY <1>6, <3>1 DEF id
      <4> QED BY <4>1
    <3>2. CASE f \in 1 .. Len(F)
      <4>1. F[f].active BY <1>7, <2>3, <3>2
      <4>2. CASE \E j \in 1 .. n : M[j].file = f
        <5>1. PICK j \in 1 .. n : M[j].file = f BY <4>2
        <5>2. j # i BY <3>2, <5>1 DEF NoFile
        <5> QED BY <1>6, <5>1, <5>2
      <4> QED BY <1>0, <3>2, <4>1, <4>2 DEF OpenOK
    <3> QED BY <1>7, <3>1, <3>2
  <2>4. /\ \A k \in 1 .. Len(T) : T[k].op = "close" => G[T[k].file].active
        /\ \A j, k \in 1 .. Len(T) :
              j # k /\ T[j].op = "close" /\ T[k].op = "close" => T[j].file # T[k].file
    BY <1>0, <1>7, <2>1 DEF OpenOK
  <2> QED BY <2>1, <2>2, <2>3, <2>4 DEF OpenOK
<1>14. Typed(N, G, T) BY <1>1, <1>6, <1>7 DEF Typed
<1>15. Kept(O, N, G, L, T) BY <1>9, <1>11, <1>12, <1>13, <1>14 DEF Kept
<1> QED BY <1>5, <1>7, <1>8, <1>15 DEF id

-----------------------------------------------------------------------------
(* Several old modes are closed in one operation, from the oldest on.       *)

LEMMA SetInduction ==
  ASSUME NEW B, 0 \in B, \A n \in Nat : n \in B => n + 1 \in B
  PROVE  \A n \in Nat : n \in B
<1> DEFINE T == Nat \ B
<1> SUFFICES ASSUME T # {} PROVE FALSE OBVIOUS
<1>1. \E x \in T : \A y \in T : ~(<<y, x>> \in OpToRel(<, Nat))
  BY NatLessThanWellFounded, WFMin
<1>2. \A x, y \in Nat : y < x => <<y, x>> \in OpToRel(<, Nat)
  <2>1. \A x, y \in Nat : y < x => <<y, x>> \in {r \in Nat \X Nat : r[1] < r[2]}
    OBVIOUS
  <2> QED BY <2>1, Zenon DEF OpToRel
<1>3. PICK x \in T : \A y \in T : ~(y < x)
  BY <1>1, <1>2, Zenon
<1>4. x \in Nat /\ x # 0 BY <1>3
<1>5. x - 1 \in Nat /\ x - 1 < x /\ (x - 1) + 1 = x BY <1>4
<1>6. x - 1 \in B BY <1>3, <1>5
<1>7. x \in B BY <1>5, <1>6
<1> QED BY <1>3, <1>7

(* No signal but the last ones of the run says that it is over.             *)
Going(T) == \A k \in 1 .. Len(T) : T[k].op # "inactive"

LEMMA GoingOn ==
  ASSUME NEW T \in Seq(Entry), NEW U \in Seq(Entry), Going(T), Going(U)
  PROVE  Going(T \o U)
BY Joined DEF Join, Going

LEMMA ShutModeIs ==
  ASSUME NEW m \in Mode
  PROVE  /\ ShutMode(m) \in Seq(Entry) /\ Going(ShutMode(m))
         /\ m.file = NoFile => ShutMode(m) = Adds(m.pending)
         /\ m.file # NoFile =>
               ShutMode(m) = Append(Adds(m.pending), [op |-> "close", file |-> m.file])
<1>1. m.pending \in Seq(Nat) /\ m.file \in Nat BY ModeTypes
<1>2. Adds(m.pending) \in Seq(Entry) /\ Going(Adds(m.pending))
  BY <1>1, AddsAre DEF Going
<1> DEFINE e == [op |-> "close", file |-> m.file]
           A == Adds(m.pending)
<1>3. e \in Entry /\ e.op = "close" BY <1>1 DEF Entry
<1>4. ShutMode(m) = A \o (IF m.file = NoFile THEN <<>> ELSE <<e>>)
  BY DEF ShutMode
<1>5. A \in Seq(Entry) /\ Going(A) BY <1>2
<1> HIDE DEF e, A
<1>6. CASE m.file = NoFile
  <2>1. ShutMode(m) = A BY <1>4, <1>5, <1>6, ConcatEmptySeq
  <2> QED BY <1>5, <1>6, <2>1 DEF A
<1>7. CASE m.file # NoFile
  <2>1. ShutMode(m) = Append(A, e) BY <1>3, <1>4, <1>5, <1>7, AppendIsConcat
  <2>2. /\ Append(A, e) \in Seq(Entry) /\ Len(A) \in Nat
        /\ Append(A, e)[Len(A) + 1] = e
        /\ \A k \in 1 .. Len(A) : k \in 1 .. Len(Append(A, e)) /\ Append(A, e)[k] = A[k]
        /\ \A k \in 1 .. Len(Append(A, e)) : k \in 1 .. Len(A) \/ k = Len(A) + 1
    BY <1>3, <1>5, Added
  <2>3. Going(Append(A, e)) BY <1>3, <1>5, <2>2 DEF Going
  <2> QED BY <1>7, <2>1, <2>2, <2>3 DEF A, e
<1> QED BY <1>6, <1>7

LEMMA SameRest ==
  ASSUME NEW M, NEW N, NEW i \in 1 .. Len(M), Len(N) = Len(M),
         \A j \in 1 .. Len(M) : j # i => N[j] = M[j],
         NEW P, NEW Q, Without(P, M, i), Without(Q, N, i)
  PROVE  Q = P
<1>1. /\ P \in Seq(Mode) /\ Q \in Seq(Mode) /\ Len(M) \in Nat
      /\ Len(P) = Len(M) - 1 /\ Len(Q) = Len(M) - 1
      /\ \A k \in 1 .. Len(P) : P[k] = IF k < i THEN M[k] ELSE M[k + 1]
      /\ \A k \in 1 .. Len(Q) : Q[k] = IF k < i THEN N[k] ELSE N[k + 1]
  BY DEF Without
<1>2. ASSUME NEW k \in 1 .. Len(P) PROVE P[k] = Q[k]
  <2>1. k \in 1 .. Len(M) /\ k + 1 \in 1 .. Len(M) /\ (k < i => k # i)
        /\ (~(k < i) => k + 1 # i)
    BY <1>1
  <2> QED BY <1>1, <2>1
<1> QED BY <1>1, <1>2, SeqEqual

(* A mode is closed and dropped.                                            *)
LEMMA ShutKept ==
  ASSUME NEW O, NEW M, NEW F, NEW L, NEW T, Kept(O, M, F, L, T), NEW n \in 1 .. Len(M),
         Clears(O, M, n), n # 1 \/ Len(M) = 1
  PROVE  Kept(O, RemoveAt(M, n), F, L, T \o ShutMode(M[n]))
<1> DEFINE p == M[n].pending
           e == [op |-> "close", file |-> M[n].file]
           N == [M EXCEPT ![n].pending = <<>>]
           U == T \o Adds(p)
           R == RemoveAt(M, n)
<1>0. Typed(M, F, T) BY DEF Kept
<1>1. /\ M \in Seq(Mode) /\ T \in Seq(Entry) /\ Len(M) \in Nat
      /\ M[n] \in Mode /\ p \in Seq(Nat) /\ M[n].file \in Nat
  <2>1. M \in Seq(Mode) /\ F \in Seq(File) /\ T \in Seq(Entry) BY <1>0 DEF Typed
  <2>2. Len(M) \in Nat /\ M[n] \in Mode BY <1>0, Types
  <2> QED BY <2>1, <2>2, ModeTypes
<1>r. Without(R, M, n) BY <1>1, RemovedAt
<1> HIDE DEF R
<1>2. /\ Kept(O, N, F, L, U) /\ SameModes(M, N) /\ SameFiles(M, N) /\ N # <<>>
      /\ N[n].pending = <<>> /\ \A i \in 1 .. Len(M) : i # n => N[i] = M[i]
  <2>1. Flushing(M, T, n, N, U) BY DEF Flushing
  <2> HIDE DEF N, U
  <2> QED BY <2>1, FlushKept
<1>3. Adds(p) \in Seq(Entry) BY <1>1, AddsAre
<1>5. Len(N) = Len(M) /\ N \in Seq(Mode) BY <1>2 DEF Kept, Typed, SameModes
<1> HIDE DEF N
<1>6. CASE M[n].file = NoFile
  <2>1. N[n].file = NoFile BY <1>1, <1>2, <1>5, <1>6 DEF SameFiles
  <2>2. Without(RemoveAt(N, n), N, n) BY <1>5, RemovedAt
  <2>3. Kept(O, RemoveAt(N, n), F, L, U) BY <1>2, <1>5, <2>1, <2>2, DropKept
  <2>4. RemoveAt(N, n) = R BY <1>2, <1>5, <1>r, <2>2, SameRest
  <2>5. U = T \o ShutMode(M[n]) BY <1>1, <1>6, ShutModeIs
  <2> QED BY <2>3, <2>4, <2>5 DEF R
<1>7. CASE M[n].file # NoFile
  <2> DEFINE N2 == [N EXCEPT ![n].file = NoFile]
             U2 == Append(U, [op |-> "close", file |-> N[n].file])
  <2>0. N[n].file = M[n].file BY <1>1, <1>2 DEF SameFiles
  <2>1. /\ Kept(O, N2, F, L, U2) /\ SameModes(N, N2) /\ SameDeferred(N, N2)
        /\ N2[n].file = NoFile
    <3>1. /\ Kept(O, N, F, L, U) /\ n \in 1 .. Len(N) /\ N[n].file # NoFile
          /\ Shutting(N, U, n, N2, U2)
      BY <1>1, <1>2, <1>5, <1>7, <2>0 DEF Shutting
    <3> HIDE DEF N2, U2, U
    <3> QED BY ONLY <3>1, CloseKept
  <2>2. N2[n].pending = <<>> /\ Len(N2) = Len(M) /\ N2 \in Seq(Mode)
    <3>1. Len(N2) = Len(M) /\ N2 \in Seq(Mode) BY <1>5, <2>1 DEF SameModes, Kept, Typed
    <3>2. N2[n].pending = N[n].pending BY <1>1, <1>5, <2>1 DEF SameDeferred
    <3> QED BY <1>2, <3>1, <3>2
  <2>3. \A i \in 1 .. Len(M) : i # n => N2[i] = M[i] BY <1>2, <1>5
  <2> HIDE DEF N2
  <2>4. Without(RemoveAt(N2, n), N2, n) BY <2>2, RemovedAt
  <2>5. Kept(O, RemoveAt(N2, n), F, L, U2) BY <2>1, <2>2, <2>4, DropKept
  <2>6. RemoveAt(N2, n) = R BY <1>r, <2>2, <2>3, <2>4, SameRest
  <2>7. U2 = T \o ShutMode(M[n])
    <3>1. ShutMode(M[n]) = Append(Adds(p), e) BY <1>1, <1>7, ShutModeIs
    <3>2. e \in Entry BY <1>1 DEF Entry
    <3>3. U2 = Append(U, e) BY <2>0
    <3>4. U \in Seq(Entry) BY <1>1, <1>3, Joined
    <3> HIDE DEF e
    <3>5. <<e>> \in Seq(Entry) BY <3>2
    <3>6. Append(U, e) = U \o <<e>> /\ Append(Adds(p), e) = Adds(p) \o <<e>>
      BY <1>3, <3>2, <3>4, AppendIsConcat
    <3>7. (T \o Adds(p)) \o <<e>> = T \o (Adds(p) \o <<e>>)
      BY <1>1, <1>3, <3>5, ConcatAssociative, SMTT(30)
    <3> QED BY <3>1, <3>3, <3>6, <3>7
  <2> QED BY <2>5, <2>6, <2>7 DEF R
<1> QED BY <1>6, <1>7

-----------------------------------------------------------------------------
(* The container's operations, on records of its modes, files and signals.  *)
State == [modes : Seq(Mode), files : Seq(File), todo : Seq(Entry)]
Sized(F) == \A f \in 1 .. Len(F) : F[f].seen <= F[f].size
Good(O, c, L) == /\ c \in State /\ Kept(O, c.modes, c.files, L, c.todo)
              /\ Going(c.todo) /\ Sized(c.files)
Grown(F, G) == Len(F) <= Len(G) /\ \A f \in 1 .. Len(F) : f \in 1 .. Len(G) /\ G[f] = F[f]

(* The modes keep their number and state; nothing new is deferred by the    *)
(* oldest one.  Opens is for a mode that opens a file, Onward in general.   *)
LastClear(M, N) == M[Len(M)].pending = <<>> => N[Len(N)].pending = <<>>
Opens(O, c, d, i, p, L) ==
    /\ Good(O, d, L) /\ Grown(c.files, d.files) /\ Len(d.modes) = Len(c.modes)
    /\ d.modes[i].file # NoFile /\ d.modes[i].paused = p
    /\ \A j \in 1 .. Len(c.modes) : j # i =>
          d.modes[j].file = c.modes[j].file /\ d.modes[j].paused = c.modes[j].paused
    /\ LastClear(c.modes, d.modes)
Onward(O, c, d, L) ==
    /\ Good(O, d, L) /\ Grown(c.files, d.files) /\ Len(d.modes) = Len(c.modes)
    /\ \A j \in 1 .. Len(c.modes) :
          /\ c.modes[j].file # NoFile => d.modes[j].file # NoFile
          /\ d.modes[j].paused = c.modes[j].paused
    /\ LastClear(c.modes, d.modes)

LEMMA GoodTypes ==
  ASSUME NEW O, NEW c, NEW L, Good(O, c, L)
  PROVE  /\ c.modes \in Seq(Mode) /\ c.files \in Seq(File) /\ c.todo \in Seq(Entry)
         /\ Len(c.modes) \in Nat /\ \A i \in 1 .. Len(c.modes) : c.modes[i] \in Mode
         /\ Len(c.files) \in Nat /\ \A f \in 1 .. Len(c.files) : c.files[f] \in File
         /\ Kept(O, c.modes, c.files, L, c.todo) /\ Going(c.todo) /\ Sized(c.files)
<1>1. c \in State /\ Kept(O, c.modes, c.files, L, c.todo) BY DEF Good
<1>2. Typed(c.modes, c.files, c.todo) BY <1>1 DEF Kept
<1>3. c.modes \in Seq(Mode) /\ c.files \in Seq(File) /\ c.todo \in Seq(Entry)
  BY <1>2 DEF Typed
<1> QED BY <1>2, <1>3, Types DEF Good

LEMMA GoingAppend ==
  ASSUME NEW T \in Seq(Entry), NEW e \in Entry, Going(T), e.op # "inactive"
  PROVE  Going(Append(T, e)) /\ Append(T, e) \in Seq(Entry)
<1>1. /\ Append(T, e) \in Seq(Entry) /\ Append(T, e)[Len(T) + 1] = e
      /\ \A k \in 1 .. Len(T) : Append(T, e)[k] = T[k]
      /\ \A k \in 1 .. Len(Append(T, e)) : k \in 1 .. Len(T) \/ k = Len(T) + 1
  BY Added
<1> QED BY <1>1 DEF Going

(* terminateFile() with do_terminate.                                       *)
LEMMA CloseFileGood ==
  ASSUME NEW O, NEW c, NEW L, Good(O, c, L), NEW i \in 1 .. Len(c.modes), c.modes[i].file # NoFile
  PROVE  /\ Good(O, CloseFile(c, i), L) /\ CloseFile(c, i).files = c.files
         /\ SameModes(c.modes, CloseFile(c, i).modes)
         /\ SameDeferred(c.modes, CloseFile(c, i).modes)
         /\ CloseFile(c, i).modes[i].file = NoFile
         /\ \A j \in 1 .. Len(c.modes) : j # i =>
               CloseFile(c, i).modes[j].file = c.modes[j].file
<1> DEFINE d == CloseFile(c, i)
           e == [op |-> "close", file |-> c.modes[i].file]
<1>1. /\ c \in State /\ Kept(O, c.modes, c.files, L, c.todo) /\ Going(c.todo) /\ Sized(c.files)
  BY DEF Good
<1>2. /\ d.modes = [c.modes EXCEPT ![i].file = NoFile] /\ d.todo = Append(c.todo, e)
      /\ d.files = c.files
      /\ d = [modes |-> d.modes, files |-> d.files, todo |-> d.todo]
  <2> DEFINE N == [c.modes EXCEPT ![i].file = NoFile]
             U == Append(c.todo, e)
  <2>1. d = [c EXCEPT !.modes = N, !.todo = U] BY Zenon DEF CloseFile
  <2>2. c = [modes |-> c.modes, files |-> c.files, todo |-> c.todo] BY <1>1 DEF State
  <2> HIDE DEF N, U, d
  <2>3. d = [modes |-> N, files |-> c.files, todo |-> U] BY <2>1, <2>2
  <2> QED BY <2>3 DEF N, U
<1>3. Shutting(c.modes, c.todo, i, d.modes, d.todo) BY <1>2 DEF Shutting
<1>4. e \in Entry /\ e.op # "inactive"
  <2>1. c.modes[i].file \in Nat BY GoodTypes, ModeTypes
  <2> QED BY <2>1 DEF Entry
<1> HIDE DEF d, e
<1>5. /\ Kept(O, d.modes, c.files, L, d.todo) /\ SameModes(c.modes, d.modes)
      /\ SameDeferred(c.modes, d.modes) /\ d.modes[i].file = NoFile
      /\ \A j \in 1 .. Len(c.modes) : j # i => d.modes[j].file = c.modes[j].file
  BY <1>1, <1>3, CloseKept
<1>6. Going(d.todo) BY <1>1, <1>2, <1>4, GoodTypes, GoingAppend
<1>7. d \in State
  <2>1. d.modes \in Seq(Mode) /\ d.files \in Seq(File) /\ d.todo \in Seq(Entry)
    BY <1>2, <1>5 DEF Kept, Typed
  <2> QED BY <1>2, <2>1 DEF State
<1>8. Good(O, d, L) BY <1>1, <1>2, <1>5, <1>6, <1>7 DEF Good
<1> QED BY <1>2, <1>5, <1>8 DEF d

(* newFile(): announced by the oldest mode, deferred by the others.         *)
LEMMA NewFileGood ==
  ASSUME NEW O, NEW c, NEW L, Good(O, c, L), NEW i \in 1 .. Len(c.modes),
         c.modes[i].file = NoFile, NEW p \in BOOLEAN,
         \A f \in 1 .. Len(c.files) :
            c.files[f].mode = c.modes[i].num => c.modes[i].paused = p
  PROVE  Opens(O, c, NewFile(c, i, p), i, p, L)
<1> DEFINE M == c.modes
           F == c.files
           T == c.todo
           m == M[i]
           id == Len(F) + 1
           nf == IF p THEN m.numFiles ELSE m.numFiles + 1
           np == IF p THEN m.numPauseFiles + 1 ELSE m.numPauseFiles
           q == Append(m.pending, id)
           x == [mode |-> m.num, num |-> nf, pauseNum |-> IF p THEN np ELSE 0,
                 paused |-> p, size |-> 1, seen |-> 0, active |-> TRUE, status |-> "none"]
           o(r) == [num |-> m.num, numFiles |-> nf, numPauseFiles |-> np, paused |-> p,
                    file |-> id, pending |-> r]
           N == [M EXCEPT ![i] = o(q)]
           G == Append(F, x)
           d == NewFile(c, i, p)
<1>1. /\ M \in Seq(Mode) /\ F \in Seq(File) /\ T \in Seq(Entry) /\ m \in Mode
      /\ Len(F) \in Nat /\ Len(M) \in Nat /\ Kept(O, M, F, L, T) /\ Going(T) /\ Sized(F)
  BY GoodTypes
<1>2. /\ m.num \in Nat /\ m.numFiles \in Nat /\ m.numPauseFiles \in Nat
      /\ m.pending \in Seq(Nat) /\ m.num # 0 /\ m.file = NoFile /\ m.paused \in BOOLEAN
  <2>1. m.num > 0 BY <1>1 DEF Kept, ModesOK
  <2> QED BY <1>1, <2>1, ModeTypes
<1>3. nf \in Nat /\ np \in Nat /\ id \in Nat /\ id # NoFile BY <1>1, <1>2, SMTT(30) DEF NoFile
<1>4. q \in Seq(Nat) BY <1>2, <1>3, AppendProperties
<1>5. x \in File /\ \A r \in Seq(Nat) : o(r) \in Mode
  <2>1. (IF p THEN np ELSE 0) \in Nat BY <1>3
  <2> HIDE DEF nf, np, id
  <2> QED BY <1>2, <1>3, <2>1 DEF File, Mode
<1>6. Opening(M, F, i, o(q), x)
  <2>1. o(q) \in Mode BY <1>4, <1>5
  <2>2. p => nf = m.numFiles /\ np = m.numPauseFiles + 1 OBVIOUS
  <2>3. ~p => nf = m.numFiles + 1 OBVIOUS
  <2>4. p => x.pauseNum = np OBVIOUS
  <2>5. /\ x.mode = m.num /\ x.num = nf /\ x.paused = p /\ x.active = TRUE
        /\ o(q).num = m.num /\ o(q).file = id /\ o(q).pending = q /\ o(q).paused = p
        /\ o(q).numFiles = nf /\ o(q).numPauseFiles = np
    OBVIOUS
  <2>6. q = Append(M[i].pending, Len(F) + 1) /\ id = Len(F) + 1 OBVIOUS
  <2>7. \A f \in 1 .. Len(F) : F[f].mode = M[i].num => M[i].paused = o(q).paused
    OBVIOUS
  <2> HIDE DEF o, x, nf, np, id, q
  <2> QED BY <1>5, <2>1, <2>2, <2>3, <2>4, <2>5, <2>6, <2>7 DEF Opening
<1>7. Opened(M, F, i, o(q), x, N, G) BY DEF Opened
<1>8. d.modes = [M EXCEPT ![i] = o(IF i = Len(M) THEN <<>> ELSE q)]
      /\ d.files = G /\ d.todo = (IF i = Len(M) THEN T \o Adds(q) ELSE T)
      /\ d = [modes |-> d.modes, files |-> d.files, todo |-> d.todo]
  <2>1. (IF m.num = 0 THEN 1 ELSE m.num) = m.num BY <1>2
  <2> QED BY <2>1 DEF NewFile
<1>9. x.seen <= x.size OBVIOUS
<1> HIDE DEF o, x, N, G, d, q
<1>10. /\ Kept(O, N, G, L, T) /\ Replace(N, M, i, o(q))
       /\ Len(G) = id /\ G[id] = x /\ \A f \in 1 .. Len(F) : G[f] = F[f]
  BY <1>1, <1>2, <1>6, <1>7, OpenKept
<1>11. /\ Len(N) = Len(M) /\ N # <<>> /\ N[i] = o(q)
       /\ \A j \in 1 .. Len(M) : j # i => N[j] = M[j]
  BY <1>10 DEF Replace
<1>12. \A r : o(r).file = id /\ o(r).paused = p /\ o(r).pending = r BY DEF o
<1>13. Grown(F, G) /\ Sized(G)
  <2>1. \A f \in 1 .. Len(F) : f \in 1 .. Len(G) BY <1>1, <1>10
  <2>2. Len(F) <= Len(G) BY <1>1, <1>10
  <2>3. \A f \in 1 .. Len(G) : f \in 1 .. Len(F) \/ f = id BY <1>1, <1>10
  <2> QED BY <1>1, <1>9, <1>10, <2>1, <2>2, <2>3 DEF Grown, Sized
<1>14. ASSUME i = Len(M) PROVE Opens(O, c, d, i, p, L)
  <2>1. d.modes = [M EXCEPT ![i] = o(<<>>)] /\ d.todo = T \o Adds(q) BY <1>8, <1>14
  <2>2. [o(q) EXCEPT !.pending = <<>>] = o(<<>>) BY DEF o
  <2>3. [N EXCEPT ![i] = [N[i] EXCEPT !.pending = <<>>]] = d.modes
    <3>1. [N EXCEPT ![i] = o(<<>>)] = d.modes BY <1>1, <2>1 DEF N
    <3> QED BY <1>11, <2>2, <3>1
  <2>4. Flushing(N, T, i, d.modes, d.todo) /\ Clears(O, N, i)
    <3>1. d.modes = [N EXCEPT ![i].pending = <<>>] BY <1>11, <1>14, <2>3
    <3>2. d.todo = T \o Adds(N[i].pending) BY <1>11, <1>12, <1>14, <2>1
    <3>3. Clears(O, N, i) BY <1>1, <1>11, <1>14 DEF Clears
    <3> QED BY <3>1, <3>2, <3>3 DEF Flushing
  <2>5. /\ Kept(O, d.modes, G, L, d.todo) /\ SameModes(N, d.modes) /\ SameFiles(N, d.modes)
        /\ d.modes # <<>> /\ d.modes[Len(d.modes)].pending = <<>>
    <3>1. i \in 1 .. Len(N) BY <1>11
    <3>2. Len(d.modes) = i BY <1>10, <1>11, <1>14, <2>4, <3>1, FlushKept DEF SameModes
    <3> QED BY <1>10, <1>11, <2>4, <3>1, <3>2, FlushKept
  <2>6. Going(d.todo)
    <3>1. Adds(q) \in Seq(Entry) /\ Going(Adds(q)) BY <1>4, AddsAre DEF Going
    <3> QED BY <1>1, <2>1, <3>1, GoingOn
  <2>7. Good(O, d, L)
    <3>1. d.modes \in Seq(Mode) /\ d.files \in Seq(File) /\ d.todo \in Seq(Entry)
      BY <1>8, <2>5 DEF Kept, Typed
    <3>2. d \in State BY <1>8, <3>1 DEF State
    <3> QED BY <1>8, <1>13, <2>5, <2>6, <3>2 DEF Good
  <2>8. Len(d.modes) = Len(M) /\ d.modes[i].file # NoFile /\ d.modes[i].paused = p
        /\ \A j \in 1 .. Len(M) : j # i =>
              d.modes[j].file = M[j].file /\ d.modes[j].paused = M[j].paused
    BY <1>3, <1>11, <1>12, <2>5 DEF SameModes, SameFiles
  <2> QED BY <1>8, <1>13, <2>5, <2>7, <2>8 DEF Opens, LastClear
<1>15. ASSUME i # Len(M) PROVE Opens(O, c, d, i, p, L)
  <2>1. d.modes = N /\ d.todo = T BY <1>8, <1>15 DEF N
  <2>2. Good(O, d, L)
    <3>1. d.modes \in Seq(Mode) /\ d.files \in Seq(File) /\ d.todo \in Seq(Entry)
      BY <1>8, <1>10, <2>1 DEF Kept, Typed
    <3>2. d \in State BY <1>8, <3>1 DEF State
    <3> QED BY <1>1, <1>8, <1>10, <1>13, <2>1, <3>2 DEF Good
  <2>3. LastClear(M, d.modes)
    <3>1. Len(M) \in 1 .. Len(M) BY <1>1
    <3> QED BY <1>11, <1>15, <2>1, <3>1 DEF LastClear
  <2> QED BY <1>3, <1>8, <1>11, <1>12, <1>13, <2>1, <2>2, <2>3 DEF Opens
<1> QED BY <1>14, <1>15 DEF d

LEMMA OnwardTwice ==
  ASSUME NEW O, NEW c, NEW d, NEW e, NEW L, Good(O, c, L), Onward(O, c, d, L), Onward(O, d, e, L)
  PROVE  Onward(O, c, e, L)
<1>1. Len(c.files) <= Len(d.files) /\ Len(d.files) <= Len(e.files) /\ Good(O, d, L) /\ Good(O, e, L)
  BY DEF Onward, Grown
<1>2. Len(c.files) \in Nat /\ Len(d.files) \in Nat /\ Len(e.files) \in Nat
  BY <1>1, GoodTypes
<1>3. Len(c.files) <= Len(e.files) BY <1>1, <1>2
<1>4. Grown(c.files, e.files) BY <1>3 DEF Onward, Grown
<1>5. LastClear(c.modes, e.modes) BY DEF Onward, LastClear
<1> QED BY <1>4, <1>5 DEF Onward

LEMMA OpensOnward ==
  ASSUME NEW O, NEW c, NEW d, NEW i \in 1 .. Len(c.modes), NEW L,
         Opens(O, c, d, i, c.modes[i].paused, L)
  PROVE  Onward(O, c, d, L)
BY DEF Opens, Onward

LEMMA SelfOnward ==
  ASSUME NEW O, NEW c, NEW L, Good(O, c, L)
  PROVE  Onward(O, c, c, L)
<1>1. Len(c.files) \in Nat BY GoodTypes
<1> QED BY <1>1 DEF Onward, Grown, LastClear

LEMMA RollOverGood ==
  ASSUME NEW O, NEW c, NEW L, Good(O, c, L), NEW i \in 1 .. Len(c.modes), c.modes[i].file # NoFile
  PROVE  Onward(O, c, RollOver(c, i), L) /\ RollOver(c, i).modes[i].file # NoFile
<1> DEFINE d == CloseFile(c, i)
           p == c.modes[i].paused
           e == RollOver(c, i)
<1>1. /\ Good(O, d, L) /\ d.files = c.files /\ SameModes(c.modes, d.modes)
      /\ SameDeferred(c.modes, d.modes) /\ d.modes[i].file = NoFile
      /\ \A j \in 1 .. Len(c.modes) : j # i => d.modes[j].file = c.modes[j].file
  BY CloseFileGood
<1>2. e = NewFile(d, i, p) BY DEF RollOver
<1>3. p \in BOOLEAN BY GoodTypes, ModeTypes
<1> HIDE DEF d, e, p
<1>4. /\ Len(d.modes) = Len(c.modes) /\ d.modes[i].paused = p
      /\ \A j \in 1 .. Len(c.modes) : d.modes[j].paused = c.modes[j].paused
  BY <1>1 DEF SameModes, p
<1>5. Opens(O, d, e, i, p, L)
  <2>1. i \in 1 .. Len(d.modes) BY <1>4
  <2> QED BY <1>1, <1>2, <1>3, <1>4, <2>1, NewFileGood
<1>6. LastClear(c.modes, e.modes)
  <2>1. Len(c.modes) \in Nat /\ Len(c.modes) \in 1 .. Len(c.modes) BY GoodTypes
  <2>2. LastClear(c.modes, d.modes) BY <1>1, <1>4, <2>1 DEF SameDeferred, LastClear
  <2> QED BY <1>5, <2>2 DEF Opens, LastClear
<1>7. Good(O, e, L) /\ Grown(c.files, e.files) /\ Len(e.modes) = Len(c.modes)
  BY <1>1, <1>4, <1>5 DEF Opens
<1>8. e.modes[i].file # NoFile /\ e.modes[i].paused = p BY <1>5 DEF Opens
<1>9. \A j \in 1 .. Len(c.modes) :
         /\ c.modes[j].file # NoFile => e.modes[j].file # NoFile
         /\ e.modes[j].paused = c.modes[j].paused
  BY <1>1, <1>4, <1>5, <1>8 DEF Opens, p
<1> QED BY <1>6, <1>7, <1>8, <1>9 DEF Onward, e

(* write().                                                                 *)
LEMMA WriteToGood ==
  ASSUME NEW O, NEW c, NEW L, Good(O, c, L), NEW i \in 1 .. Len(c.modes),
         NEW rotate \in BOOLEAN, NEW notify \in BOOLEAN
  PROVE  Onward(O, c, WriteTo(c, i, rotate, notify), L)
<1> DEFINE m == c.modes[i]
           o == CASE m.file = NoFile -> NewFile(c, i, m.paused)
                  [] m.file # NoFile /\ Oversize(c.files, m.file) -> RollOver(c, i)
                  [] OTHER -> c
           r == IF rotate THEN RollOver(o, i) ELSE o
           e == [op |-> "write", file |-> r.modes[i].file, notify |-> notify]
           d == WriteTo(c, i, rotate, notify)
<1>1. d = [r EXCEPT !.todo = Append(@, e)] BY DEF WriteTo
<1>2. Onward(O, c, o, L) /\ o.modes[i].file # NoFile
  <2>1. CASE m.file = NoFile
    <3>1. o = NewFile(c, i, m.paused) BY <2>1
    <3>2. m.paused \in BOOLEAN BY GoodTypes, ModeTypes
    <3>3. Opens(O, c, NewFile(c, i, m.paused), i, m.paused, L) BY <2>1, <3>2, NewFileGood
    <3> HIDE DEF o
    <3> QED BY <3>1, <3>3, OpensOnward DEF Opens
  <2>2. CASE m.file # NoFile /\ Oversize(c.files, m.file)
    <3>1. o = RollOver(c, i) BY <2>2
    <3> HIDE DEF o
    <3> QED BY <2>2, <3>1, RollOverGood
  <2>3. CASE m.file # NoFile /\ ~Oversize(c.files, m.file)
    <3>1. o = c BY <2>3
    <3> HIDE DEF o
    <3> QED BY <2>3, <3>1, SelfOnward
  <2> QED BY <2>1, <2>2, <2>3
<1> HIDE DEF o
<1>3. i \in 1 .. Len(o.modes) /\ Good(O, o, L) BY <1>2 DEF Onward
<1>4. Onward(O, c, r, L) /\ r.modes[i].file # NoFile
  <2>1. CASE rotate
    <3>1. r = RollOver(o, i) BY <2>1
    <3>2. Onward(O, o, RollOver(o, i), L) /\ RollOver(o, i).modes[i].file # NoFile
      BY <1>2, <1>3, RollOverGood
    <3> HIDE DEF r
    <3> QED BY <1>2, <3>1, <3>2, OnwardTwice
  <2>2. CASE ~rotate BY <1>2, <2>2
  <2> QED BY <2>1, <2>2
<1> HIDE DEF r
<1>5. i \in 1 .. Len(r.modes) /\ Good(O, r, L) BY <1>4 DEF Onward
<1>6. r \in State /\ r.todo \in Seq(Entry) /\ Kept(O, r.modes, r.files, L, r.todo)
      /\ Going(r.todo) /\ Sized(r.files)
  BY <1>5, GoodTypes DEF Good
<1>7. r.modes[i].file \in 1 .. Len(r.files) /\ r.modes[i].file \in Nat
  <2>1. r.modes[i].file \in 1 .. Len(r.files) BY <1>4, <1>5, <1>6 DEF Kept, OpenOK
  <2> QED BY <2>1, <1>5, GoodTypes
<1>8. e \in Entry /\ e.op = "write" /\ e.file \in 1 .. Len(r.files)
  BY <1>7 DEF Entry
<1> HIDE DEF e
<1>9. Kept(O, r.modes, r.files, L, Append(r.todo, e)) BY <1>6, <1>8, OtherKept
<1>10. Going(Append(r.todo, e)) /\ Append(r.todo, e) \in Seq(Entry)
  BY <1>6, <1>8, GoingAppend
<1>11. /\ d.modes = r.modes /\ d.files = r.files /\ d.todo = Append(r.todo, e)
       /\ d \in State
  BY <1>1, <1>6, <1>10 DEF State
<1> HIDE DEF d
<1>12. Good(O, d, L) BY <1>6, <1>9, <1>10, <1>11 DEF Good
<1> QED BY <1>4, <1>11, <1>12 DEF Onward, d

(* The walk over the stack, from the oldest mode to the newest.             *)
IsShut(f, c, S, m) ==
    f = [n \in 0 .. m |->
           IF n = 0 THEN c
           ELSE IF Len(c.modes) - n + 1 \in S THEN ShutAt(f[n - 1], Len(c.modes) - n + 1)
           ELSE f[n - 1]]

LEMMA ShutExists ==
  ASSUME NEW c, NEW S, Len(c.modes) \in Nat
  PROVE  \E f : IsShut(f, c, S, Len(c.modes)) /\ ShutModes(c, S) = f[Len(c.modes)]
<1> DEFINE l == Len(c.modes)
           B == {m \in Nat : \E f : IsShut(f, c, S, m)}
<1>1. 0 \in B
  <2> DEFINE f == [n \in 0 .. 0 |-> c]
  <2>1. f = [n \in 0 .. 0 |->
               IF n = 0 THEN c
               ELSE IF l - n + 1 \in S THEN ShutAt(f[n - 1], l - n + 1) ELSE f[n - 1]]
    OBVIOUS
  <2> HIDE DEF f
  <2>2. IsShut(f, c, S, 0) BY <2>1 DEF IsShut
  <2> QED BY <2>2
<1>2. ASSUME NEW m \in Nat, m \in B PROVE m + 1 \in B
  <2>1. PICK f : IsShut(f, c, S, m) BY <1>2
  <2> DEFINE r(g, n) == IF n = 0 THEN c
                        ELSE IF l - n + 1 \in S THEN ShutAt(g[n - 1], l - n + 1)
                        ELSE g[n - 1]
             g == [n \in 0 .. m + 1 |-> IF n \in 0 .. m THEN f[n] ELSE r(f, n)]
  <2>2. ASSUME NEW n \in 0 .. m + 1 PROVE g[n] = r(g, n)
    <3>1. n = 0 \/ (n - 1 \in 0 .. m /\ n - 1 \in 0 .. m + 1) OBVIOUS
    <3>2. n = 0 \/ g[n - 1] = f[n - 1] BY <3>1
    <3>3. r(g, n) = r(f, n) BY <3>2
    <3>4. CASE n \in 0 .. m
      <4>1. f[n] = r(f, n) BY <2>1, <3>4 DEF IsShut
      <4> QED BY <3>3, <3>4, <4>1
    <3>5. CASE n \notin 0 .. m BY <3>3, <3>5
    <3> QED BY <3>4, <3>5
  <2>3. g = [n \in 0 .. m + 1 |-> g[n]] OBVIOUS
  <2> HIDE DEF g
  <2>4. g = [n \in 0 .. m + 1 |-> r(g, n)] BY <2>2, <2>3
  <2>5. IsShut(g, c, S, m + 1) BY <2>4, Zenon DEF IsShut
  <2> QED BY <2>5
<1> HIDE DEF B
<1>3. l \in B BY <1>1, <1>2, SetInduction
<1> DEFINE s == CHOOSE f : IsShut(f, c, S, l)
<1>4. IsShut(s, c, S, l)
  <2>1. \E f : IsShut(f, c, S, l) BY <1>3 DEF B
  <2> QED BY <2>1, Zenon
<1>5. ShutModes(c, S) = s[l] BY Zenon DEF ShutModes, IsShut
<1> QED BY <1>4, <1>5

(* After n steps of the walk over the modes of c.                           *)
Walked(O, c, d, S, n, L) ==
    /\ Good(O, d, L) /\ d.files = c.files
    /\ \A j \in 1 .. Len(c.modes) :
          (\A k \in S : k > Len(c.modes) - n => k > j) =>
             j \in 1 .. Len(d.modes) /\ d.modes[j] = c.modes[j]
    /\ \A j \in 1 .. Len(d.modes) : j > Len(c.modes) - n =>
          \E k \in 1 .. Len(c.modes) :
             k > Len(c.modes) - n /\ k \notin S /\ d.modes[j] = c.modes[k]

Overtakes(O, M, S) ==
    \A k \in S, j \in 1 .. Len(M) : k < j /\ j \notin S => <<M[k].num, M[j].num>> \in O

LEMMA ShutModesGood ==
  ASSUME NEW O, NEW c, NEW L, Good(O, c, L), NEW S, S \subseteq 2 .. Len(c.modes),
         Overtakes(O, c.modes, S)
  PROVE  Walked(O, c, ShutModes(c, S), S, Len(c.modes), L)
<1> DEFINE M == c.modes
           l == Len(M)
<1>1. l \in Nat BY GoodTypes
<1>2. PICK s : IsShut(s, c, S, l) /\ ShutModes(c, S) = s[l] BY <1>1, ShutExists
<1> DEFINE B == {n \in Nat : n <= l => Walked(O, c, s[n], S, n, L)}
<1>3. s[0] = c /\ \A n \in 1 .. l :
         s[n] = IF l - n + 1 \in S THEN ShutAt(s[n - 1], l - n + 1) ELSE s[n - 1]
  <2>1. s = [n \in 0 .. l |->
               IF n = 0 THEN c
               ELSE IF l - n + 1 \in S THEN ShutAt(s[n - 1], l - n + 1) ELSE s[n - 1]]
    BY <1>2, Zenon DEF IsShut
  <2>2. 0 \in 0 .. l /\ \A n \in 1 .. l : n \in 0 .. l /\ n # 0 BY <1>1
  <2> QED BY <2>1, <2>2
<1>4. 0 \in B
  <2>1. Walked(O, c, c, S, 0, L) BY <1>1 DEF Walked
  <2> QED BY <1>3, <2>1
<1>5. ASSUME NEW n \in Nat, n \in B PROVE n + 1 \in B
  <2> SUFFICES ASSUME n + 1 <= l PROVE Walked(O, c, s[n + 1], S, n + 1, L) OBVIOUS
  <2> DEFINE d == s[n]
             e == s[n + 1]
             q == l - n
  <2>1. /\ q \in 1 .. l /\ n + 1 \in 1 .. l /\ l - (n + 1) + 1 = q /\ l - (n + 1) = q - 1
        /\ (n + 1) - 1 = n /\ n <= l
    BY <1>1
  <2>2. e = IF q \in S THEN ShutAt(d, q) ELSE d BY <1>3, <2>1
  <2>3. /\ Good(O, d, L) /\ d.files = c.files
        /\ \A j \in 1 .. l : (\A k \in S : k > q => k > j) =>
              j \in 1 .. Len(d.modes) /\ d.modes[j] = M[j]
        /\ \A j \in 1 .. Len(d.modes) : j > q =>
              \E k \in 1 .. l : k > q /\ k \notin S /\ d.modes[j] = M[k]
    BY <1>5, <2>1 DEF Walked
  <2> HIDE DEF d, e, B, q
  <2>4. q \in 1 .. Len(d.modes) /\ d.modes[q] = M[q] BY <2>1, <2>3
  <2>5. CASE q \notin S
    <3>1. e = d BY <2>2, <2>5
    <3>2. ASSUME NEW j \in 1 .. l, \A k \in S : k > q - 1 => k > j
          PROVE  j \in 1 .. Len(d.modes) /\ d.modes[j] = M[j]
      <4>1. \A k \in S : k > q => k > j
        <5>1. \A k \in S : k \in Int BY <1>1
        <5> QED BY <2>1, <3>2, <5>1
      <4> QED BY <2>3, <4>1
    <3>3. ASSUME NEW j \in 1 .. Len(d.modes), j > q - 1
          PROVE  \E k \in 1 .. l : k > q - 1 /\ k \notin S /\ d.modes[j] = M[k]
      <4>1. CASE j = q BY <2>1, <2>4, <2>5, <4>1
      <4>2. CASE j # q
        <5>1. j > q BY <2>1, <3>3, <4>2
        <5>2. PICK k \in 1 .. l : k > q /\ k \notin S /\ d.modes[j] = M[k] BY <2>3, <5>1
        <5> QED BY <2>1, <5>2
      <4> QED BY <4>1, <4>2
    <3>4. Walked(O, c, e, S, n + 1, L) BY <2>1, <2>3, <3>1, <3>2, <3>3 DEF Walked
    <3> QED BY <3>4 DEF e
  <2>6. CASE q \in S
    <3> DEFINE m == d.modes[q]
    <3>1. e = ShutAt(d, q) BY <2>2, <2>6
    <3>2. /\ d.modes \in Seq(Mode) /\ d.todo \in Seq(Entry) /\ Len(d.modes) \in Nat
          /\ Kept(O, d.modes, d.files, L, d.todo) /\ Going(d.todo) /\ Sized(d.files)
          /\ d \in State /\ m \in Mode
      BY <2>3, <2>4, GoodTypes DEF Good
    <3>3. Clears(O, d.modes, q)
      <4> SUFFICES ASSUME NEW j \in 1 .. Len(d.modes), q < j
                   PROVE  <<d.modes[q].num, d.modes[j].num>> \in O
        BY DEF Clears
      <4>1. j > q BY <2>1
      <4>2. PICK k \in 1 .. l : k > q /\ k \notin S /\ d.modes[j] = M[k] BY <2>3, <4>1
      <4> QED BY <2>1, <2>4, <2>6, <4>2 DEF Overtakes
    <3>4. q # 1 BY <1>1, <2>6
    <3> DEFINE N == RemoveAt(d.modes, q)
               U == d.todo \o ShutMode(m)
    <3>5. Kept(O, N, d.files, L, U) BY <2>4, <3>2, <3>3, <3>4, ShutKept
    <3>6. Without(N, d.modes, q) BY <2>4, <3>2, RemovedAt
    <3>7. Going(U)
      <4>1. ShutMode(m) \in Seq(Entry) /\ Going(ShutMode(m)) BY <3>2, ShutModeIs
      <4> QED BY <3>2, <4>1, GoingOn
    <3>8. /\ e.modes = N /\ e.files = d.files /\ e.todo = U
          /\ e = [modes |-> e.modes, files |-> e.files, todo |-> e.todo]
      <4>1. e = [d EXCEPT !.modes = N, !.todo = U] BY <3>1, Zenon DEF ShutAt
      <4>2. d = [modes |-> d.modes, files |-> d.files, todo |-> d.todo]
        BY <3>2 DEF State
      <4> HIDE DEF N, U
      <4>3. e = [modes |-> N, files |-> d.files, todo |-> U] BY <4>1, <4>2
      <4> QED BY <4>3
    <3> HIDE DEF N, U, m
    <3>9. Good(O, e, L)
      <4>1. e.modes \in Seq(Mode) /\ e.files \in Seq(File) /\ e.todo \in Seq(Entry)
        BY <3>5, <3>8 DEF Kept, Typed
      <4>2. e \in State BY <3>8, <4>1 DEF State
      <4> QED BY <3>2, <3>5, <3>7, <3>8, <4>2 DEF Good
    <3>10. /\ Len(N) = Len(d.modes) - 1
           /\ \A k \in 1 .. Len(N) : N[k] = IF k < q THEN d.modes[k] ELSE d.modes[k + 1]
      BY <3>6 DEF Without
    <3>11. ASSUME NEW j \in 1 .. l, \A k \in S : k > q - 1 => k > j
           PROVE  j \in 1 .. Len(N) /\ N[j] = M[j]
      <4>1. j < q BY <2>1, <2>6, <3>11
      <4>2. \A k \in S : k > q => k > j
        <5>1. \A k \in S : k \in Int BY <1>1
        <5> QED BY <2>1, <4>1, <5>1
      <4>3. j \in 1 .. Len(d.modes) /\ d.modes[j] = M[j] BY <2>3, <4>2
      <4>4. j \in 1 .. Len(N) BY <2>1, <2>4, <3>2, <3>10, <4>1
      <4> QED BY <3>10, <4>1, <4>3, <4>4
    <3>12. ASSUME NEW j \in 1 .. Len(N), j > q - 1
           PROVE  \E k \in 1 .. l : k > q - 1 /\ k \notin S /\ N[j] = M[k]
      <4>1. j + 1 \in 1 .. Len(d.modes) /\ j + 1 > q /\ ~(j < q)
        BY <2>1, <3>2, <3>10, <3>12
      <4>2. PICK k \in 1 .. l : k > q /\ k \notin S /\ d.modes[j + 1] = M[k]
        BY <2>3, <4>1
      <4> QED BY <2>1, <3>10, <4>1, <4>2
    <3>13. Walked(O, c, e, S, n + 1, L)
      BY <2>1, <2>3, <3>8, <3>9, <3>11, <3>12 DEF Walked
    <3> QED BY <3>13 DEF e
  <2> QED BY <2>5, <2>6
<1> HIDE DEF B
<1>6. \A n \in Nat : n \in B BY <1>4, <1>5, SetInduction
<1>7. l \in B BY <1>1, <1>6
<1>8. l <= l BY <1>1
<1> QED BY <1>2, <1>7, <1>8 DEF B

LEMMA FlushOldestGood ==
  ASSUME NEW O, NEW c, NEW L, Good(O, c, L), c.modes # <<>>
  PROVE  /\ Good(O, FlushOldest(c), L) /\ FlushOldest(c).files = c.files
         /\ SameModes(c.modes, FlushOldest(c).modes)
         /\ SameFiles(c.modes, FlushOldest(c).modes)
         /\ FlushOldest(c).modes[Len(FlushOldest(c).modes)].pending = <<>>
<1> DEFINE d == FlushOldest(c)
           M == c.modes
           n == Len(M)
           p == M[n].pending
           N == [M EXCEPT ![n].pending = <<>>]
           U == c.todo \o Adds(p)
<1>1. /\ M \in Seq(Mode) /\ c.todo \in Seq(Entry) /\ n \in Nat
      /\ Kept(O, M, c.files, L, c.todo) /\ Going(c.todo) /\ Sized(c.files) /\ c \in State
  BY GoodTypes DEF Good
<1>2. p \in Seq(Nat) /\ n \in 1 .. n
  <2>1. n # 0 BY <1>1, EmptyModes
  <2>2. n \in 1 .. n BY <1>1, <2>1
  <2> QED BY <2>2, GoodTypes, ModeTypes
<1>3. /\ d.modes = N /\ d.todo = U /\ d.files = c.files
      /\ d = [modes |-> d.modes, files |-> d.files, todo |-> d.todo]
  <2>1. d = [c EXCEPT !.modes = N, !.todo = U] BY Zenon DEF FlushOldest
  <2>2. c = [modes |-> c.modes, files |-> c.files, todo |-> c.todo] BY <1>1 DEF State
  <2> HIDE DEF N, U, d
  <2>3. d = [modes |-> N, files |-> c.files, todo |-> U] BY <2>1, <2>2
  <2> QED BY <2>3
<1>4. Flushing(M, c.todo, n, d.modes, d.todo) /\ Clears(O, M, n)
  BY <1>1, <1>3 DEF Flushing, Clears
<1>5. Adds(p) \in Seq(Entry) /\ Going(Adds(p)) BY <1>2, AddsAre DEF Going
<1> HIDE DEF d, N
<1>6. /\ Kept(O, d.modes, c.files, L, d.todo) /\ SameModes(M, d.modes)
      /\ SameFiles(M, d.modes) /\ d.modes[Len(d.modes)].pending = <<>>
  <2>1. /\ Kept(O, d.modes, c.files, L, d.todo) /\ SameModes(M, d.modes)
        /\ SameFiles(M, d.modes) /\ d.modes[n].pending = <<>>
    BY <1>1, <1>2, <1>4, FlushKept
  <2> QED BY <2>1 DEF SameModes
<1>7. Going(d.todo) BY <1>1, <1>3, <1>5, GoingOn
<1>8. d \in State
  <2>1. d.modes \in Seq(Mode) /\ d.files \in Seq(File) /\ d.todo \in Seq(Entry)
    BY <1>3, <1>6 DEF Kept, Typed
  <2> QED BY <1>3, <2>1 DEF State
<1>9. Good(O, d, L) BY <1>1, <1>3, <1>6, <1>7, <1>8 DEF Good
<1> QED BY <1>3, <1>6, <1>9 DEF d

(* getPauseModeByTime(): some modes behind the one that is found expire.    *)
Expired(O, c, d, i, L) ==
    /\ Good(O, d, L) /\ d.files = c.files /\ i \in 1 .. Len(d.modes)
    /\ Steady(d.modes) /\ d.modes # <<>> /\ d.modes[1].paused = c.modes[1].paused

LEMMA ExpireGood ==
  ASSUME NEW O, NEW c, NEW L, Good(O, c, L), Steady(c.modes), NEW i \in 1 .. Len(c.modes),
         NEW S, S \subseteq i + 1 .. Len(c.modes), Overtakes(O, c.modes, S)
  PROVE  Expired(O, c, ExpireModes(c, S), i, L)
<1> DEFINE l == Len(c.modes)
           d == ShutModes(c, S)
           e == FlushOldest(d)
<1>1. l \in Nat /\ c.modes # <<>> /\ c.modes \in Seq(Mode) /\ 1 \in 1 .. l
  <2>1. c.modes \in Seq(Mode) /\ l \in Nat BY GoodTypes
  <2>2. l # 0 /\ 1 \in 1 .. l BY <2>1
  <2> QED BY <2>1, <2>2, EmptyModes
<1>2. S \subseteq 2 .. l BY <1>1
<1>3. Walked(O, c, d, S, l, L) BY <1>2, ShutModesGood
<1>4. e = ExpireModes(c, S) BY DEF ExpireModes
<1> HIDE DEF d
<1>5. /\ Good(O, d, L) /\ d.files = c.files
      /\ \A j \in 1 .. i : j \in 1 .. Len(d.modes) /\ d.modes[j] = c.modes[j]
  <2>1. \A j \in 1 .. i : j \in 1 .. l /\ \A k \in S : k > j BY <1>1
  <2> QED BY <1>3, <2>1 DEF Walked
<1>6. i \in 1 .. Len(d.modes) /\ 1 \in 1 .. Len(d.modes) /\ d.modes[1] = c.modes[1]
  <2>1. i \in 1 .. i /\ 1 \in 1 .. i BY <1>1
  <2> QED BY <1>5, <2>1
<1>7. d.modes # <<>>
  <2>1. d.modes \in Seq(Mode) /\ Len(d.modes) # 0 BY <1>5, <1>6, GoodTypes
  <2> QED BY <2>1, EmptyModes
<1>8. /\ Good(O, e, L) /\ e.files = d.files /\ SameModes(d.modes, e.modes)
      /\ SameFiles(d.modes, e.modes) /\ e.modes[Len(e.modes)].pending = <<>>
  BY <1>5, <1>7, FlushOldestGood
<1> HIDE DEF e
<1>9. Len(e.modes) = Len(d.modes) /\ e.modes[1].file = c.modes[1].file
      /\ e.modes[1].paused = c.modes[1].paused
  BY <1>6, <1>8 DEF SameModes, SameFiles
<1>10. e.modes # <<>>
  <2>1. e.modes \in Seq(Mode) BY <1>8, GoodTypes
  <2>2. d.modes \in Seq(Mode) BY <1>5, GoodTypes
  <2> QED BY <1>7, <1>9, <2>1, <2>2, EmptyModes
<1>11. Steady(e.modes) BY <1>1, <1>8, <1>9 DEF Steady
<1> QED BY <1>4, <1>5, <1>6, <1>8, <1>9, <1>10, <1>11 DEF Expired

(* pause() and resume(): a newer mode is pushed, or the current one stays.  *)
LEMMA PushModeGood ==
  ASSUME NEW O, NEW c, NEW L, Good(O, c, L), Steady(c.modes), c.modes # <<>>,
         NEW a \in Nat, NEW b \in Nat, NEW p \in BOOLEAN
  PROVE  /\ PushMode(c, a, b).modes[1].file = NoFile
         /\ Good(O, NewFile(PushMode(c, a, b), 1, p), L)
         /\ Grown(c.files, NewFile(PushMode(c, a, b), 1, p).files)
         /\ Steady(NewFile(PushMode(c, a, b), 1, p).modes)
         /\ NewFile(PushMode(c, a, b), 1, p).modes # <<>>
         /\ NewFile(PushMode(c, a, b), 1, p).modes[1].paused = p
<1> DEFINE M == c.modes
           m == [num |-> M[1].num + 1, numFiles |-> a, numPauseFiles |-> b,
                 paused |-> M[1].paused, file |-> NoFile, pending |-> <<>>]
           N == <<m>> \o M
           d == PushMode(c, a, b)
           e == NewFile(d, 1, p)
<1>1. /\ M \in Seq(Mode) /\ Len(M) \in Nat /\ c.files \in Seq(File) /\ c.todo \in Seq(Entry)
      /\ Kept(O, M, c.files, L, c.todo) /\ Going(c.todo) /\ Sized(c.files) /\ c \in State
      /\ Len(c.files) \in Nat
  BY GoodTypes DEF Good
<1>2. 1 \in 1 .. Len(M) /\ Len(M) # 0
  <2>1. Len(M) # 0 BY <1>1, EmptyModes
  <2> QED BY <1>1, <2>1
<1>3. M[1] \in Mode /\ M[1].num \in Nat /\ M[1].paused \in BOOLEAN
  BY <1>2, GoodTypes, ModeTypes
<1>4. m \in Mode
  <2>1. <<>> \in Seq(Nat) /\ NoFile \in Nat /\ M[1].num + 1 \in Nat BY <1>3 DEF NoFile
  <2> QED BY <1>3, <2>1 DEF Mode
<1>5. m.num = M[1].num + 1 /\ m.file = NoFile /\ m.pending = <<>> OBVIOUS
<1>6. d.modes = N /\ d.todo = c.todo /\ d.files = c.files
      /\ d = [modes |-> d.modes, files |-> d.files, todo |-> d.todo]
  <2>1. d = [c EXCEPT !.modes = N] BY Zenon DEF PushMode
  <2>2. c = [modes |-> c.modes, files |-> c.files, todo |-> c.todo] BY <1>1 DEF State
  <2> HIDE DEF N, d
  <2>3. d = [modes |-> N, files |-> c.files, todo |-> c.todo] BY <2>1, <2>2
  <2> QED BY <2>3
<1> HIDE DEF m, d
<1>7. /\ Kept(O, N, c.files, L, c.todo) /\ N # <<>> /\ Len(N) = Len(M) + 1 /\ N[1] = m
      /\ N[Len(M) + 1] = M[Len(M)]
  BY <1>1, <1>4, <1>5, PushKept
<1> HIDE DEF N
<1>8. Good(O, d, L)
  <2>1. d.modes \in Seq(Mode) /\ d.files \in Seq(File) /\ d.todo \in Seq(Entry)
    BY <1>1, <1>6, <1>7 DEF Kept, Typed
  <2>2. d \in State BY <1>6, <2>1 DEF State
  <2> QED BY <1>1, <1>6, <1>7, <2>2 DEF Good
<1>9. 1 \in 1 .. Len(d.modes) /\ d.modes[1].file = NoFile
  BY <1>1, <1>5, <1>6, <1>7
<1>10. \A f \in 1 .. Len(d.files) : d.files[f].mode # d.modes[1].num
  <2> SUFFICES ASSUME NEW f \in 1 .. Len(c.files)
               PROVE  c.files[f].mode # M[1].num + 1
    BY <1>5, <1>6, <1>7
  <2>1. c.files[f].mode <= M[1].num BY <1>1 DEF Kept, ModesOK
  <2>2. c.files[f].mode \in Nat BY GoodTypes, FileTypes
  <2> QED BY <1>3, <2>1, <2>2
<1>11. Opens(O, d, e, 1, p, L) BY <1>8, <1>9, <1>10, NewFileGood
<1> HIDE DEF e
<1>12. /\ Good(O, e, L) /\ Grown(c.files, e.files) /\ Len(e.modes) = Len(M) + 1
       /\ e.modes[1].file # NoFile /\ e.modes[1].paused = p /\ LastClear(d.modes, e.modes)
  BY <1>6, <1>7, <1>11 DEF Opens
<1>13. e.modes # <<>>
  <2>1. e.modes \in Seq(Mode) BY <1>12, GoodTypes
  <2>2. Len(e.modes) # 0 BY <1>1, <1>12
  <2> QED BY <2>1, <2>2, EmptyModes
<1>14. Steady(e.modes)
  <2>1. d.modes[Len(d.modes)].pending = <<>> BY <1>6, <1>7 DEF Steady
  <2> QED BY <1>12, <2>1 DEF LastClear, Steady
<1> QED BY <1>9, <1>12, <1>13, <1>14 DEF d, e

(* What an operation leaves of the container while the run goes on.         *)
Runs(O, c, d, L) == /\ Good(O, d, L) /\ Grown(c.files, d.files) /\ Steady(d.modes)
                 /\ d.modes # <<>>

LEMMA PauseGood ==
  ASSUME NEW O, NEW c, NEW L, Good(O, c, L), Steady(c.modes), c.modes # <<>>
  PROVE  Runs(O, c, PauseContainer(c), L)
<1> DEFINE M == c.modes
           open == M[1].file
           d == IF open # NoFile /\ ~c.files[open].paused
                  THEN PushMode(c, 1, M[1].numPauseFiles) ELSE c
           e == PauseContainer(c)
<1>1. e = IF d.modes[1].file = NoFile THEN NewFile(d, 1, TRUE) ELSE d
  BY DEF PauseContainer
<1>2. open # NoFile BY DEF Steady
<1>3. M[1].numPauseFiles \in Nat
  <2>1. M \in Seq(Mode) /\ Len(M) \in Nat BY GoodTypes
  <2>2. Len(M) # 0 BY <2>1, EmptyModes
  <2>3. 1 \in 1 .. Len(M) BY <2>1, <2>2
  <2> QED BY <2>3, GoodTypes, ModeTypes
<1>4. CASE ~c.files[open].paused
  <2> DEFINE a == 1
             b == M[1].numPauseFiles
             p == TRUE
  <2>1. d = PushMode(c, a, b) /\ a \in Nat /\ b \in Nat BY <1>2, <1>3, <1>4
  <2>5. p \in BOOLEAN OBVIOUS
  <2> HIDE DEF d, e, a, b, p
  <2>2. /\ d.modes[1].file = NoFile /\ Good(O, NewFile(d, 1, p), L)
        /\ Grown(c.files, NewFile(d, 1, p).files)
        /\ Steady(NewFile(d, 1, p).modes) /\ NewFile(d, 1, p).modes # <<>>
    <3> HIDE DEF M
    <3> QED BY <2>1, <2>5, PushModeGood, SMTT(30)
  <2>3. e = NewFile(d, 1, p) BY <1>1, <2>2 DEF p
  <2>4. Runs(O, c, e, L) BY <2>2, <2>3 DEF Runs
  <2> QED BY <2>4 DEF e
<1>5. CASE c.files[open].paused
  <2>1. e = c BY <1>1, <1>2, <1>5
  <2>2. Grown(c.files, c.files) BY SelfOnward DEF Onward
  <2> QED BY <2>1, <2>2 DEF Runs
<1> QED BY <1>4, <1>5

(* The newest mode's file says whether the mode is paused.                  *)
LEMMA OpenPaused ==
  ASSUME NEW O, NEW c, NEW L, Good(O, c, L), Steady(c.modes), c.modes # <<>>
  PROVE  /\ c.modes[1].file # NoFile /\ c.modes[1].file \in 1 .. Len(c.files)
         /\ c.files[c.modes[1].file].paused = c.modes[1].paused
         /\ c.modes[1].paused \in BOOLEAN /\ 1 \in 1 .. Len(c.modes)
<1>1. c.modes \in Seq(Mode) /\ Len(c.modes) \in Nat /\ Kept(O, c.modes, c.files, L, c.todo)
  BY GoodTypes
<1>2. Len(c.modes) # 0 BY <1>1, EmptyModes
<1>3. 1 \in 1 .. Len(c.modes) BY <1>1, <1>2
<1>4. c.modes[1].paused \in BOOLEAN BY <1>3, GoodTypes, ModeTypes
<1>5. c.modes[1].file # NoFile BY DEF Steady
<1>6. c.modes[1].file \in 1 .. Len(c.files)
      /\ c.files[c.modes[1].file].mode = c.modes[1].num
  BY <1>1, <1>3, <1>5 DEF Kept, OpenOK
<1> QED BY <1>1, <1>3, <1>4, <1>5, <1>6 DEF Kept, ModesOK

LEMMA ResumeGood ==
  ASSUME NEW O, NEW c, NEW L, Good(O, c, L), Steady(c.modes), c.modes # <<>>
  PROVE  Runs(O, c, ResumeContainer(c), L) /\ ResumeContainer(c).modes[1].paused = FALSE
<1> DEFINE M == c.modes
           open == M[1].file
           N == [M EXCEPT ![1].numPauseFiles = 0]
           r == [c EXCEPT !.modes[1].numPauseFiles = 0]
           d == IF open # NoFile /\ c.files[open].paused THEN PushMode(c, 0, 0) ELSE r
           e == ResumeContainer(c)
<1>1. e = IF d.modes[1].file = NoFile THEN NewFile(d, 1, FALSE) ELSE d
  BY DEF ResumeContainer
<1>2. /\ open # NoFile /\ c.files[open].paused = M[1].paused
      /\ M[1].paused \in BOOLEAN /\ 1 \in 1 .. Len(M)
  BY OpenPaused
<1>3. CASE c.files[open].paused
  <2> DEFINE a == 0
             p == FALSE
  <2>1. d = PushMode(c, a, a) /\ a \in Nat BY <1>2, <1>3
  <2>5. p \in BOOLEAN OBVIOUS
  <2> HIDE DEF d, e, a, p
  <2>2. /\ d.modes[1].file = NoFile /\ Good(O, NewFile(d, 1, p), L)
        /\ Grown(c.files, NewFile(d, 1, p).files)
        /\ Steady(NewFile(d, 1, p).modes) /\ NewFile(d, 1, p).modes # <<>>
        /\ NewFile(d, 1, p).modes[1].paused = p
    BY <2>1, <2>5, PushModeGood
  <2>3. e = NewFile(d, 1, p) BY <1>1, <2>2 DEF p
  <2>4. Runs(O, c, e, L) /\ e.modes[1].paused = FALSE BY <2>2, <2>3 DEF Runs, p
  <2> QED BY <2>4 DEF e
<1>4. CASE ~c.files[open].paused
  <2>1. d = r BY <1>4
  <2>2. M[1].paused = FALSE BY <1>2, <1>4
  <2>3. /\ M \in Seq(Mode) /\ c.files \in Seq(File) /\ c.todo \in Seq(Entry)
        /\ Kept(O, M, c.files, L, c.todo) /\ Going(c.todo) /\ Sized(c.files) /\ c \in State
        /\ Len(M) \in Nat
    BY GoodTypes DEF Good
  <2>4. r.modes = N /\ r.files = c.files /\ r.todo = c.todo
        /\ r = [modes |-> r.modes, files |-> r.files, todo |-> r.todo]
    <3>1. r = [c EXCEPT !.modes = N] BY Zenon
    <3>2. c = [modes |-> c.modes, files |-> c.files, todo |-> c.todo] BY <2>3 DEF State
    <3> HIDE DEF N, r
    <3>3. r = [modes |-> N, files |-> c.files, todo |-> c.todo] BY <3>1, <3>2
    <3> QED BY <3>3
  <2>5. /\ Kept(O, N, c.files, L, c.todo) /\ SameFiles(M, N) /\ SameDeferred(M, N)
        /\ SameNums(M, N) /\ N[1].paused = FALSE
    BY <2>2, <2>3, ResetKept
  <2> HIDE DEF N, r, d, e
  <2>6. N[1].file # NoFile BY <1>2, <2>5 DEF SameFiles
  <2>7. e = r BY <1>1, <2>1, <2>4, <2>6
  <2>8. Good(O, r, L)
    <3>1. r.modes \in Seq(Mode) /\ r.files \in Seq(File) /\ r.todo \in Seq(Entry)
      BY <2>3, <2>4, <2>5 DEF Kept, Typed
    <3>2. r \in State BY <2>4, <3>1 DEF State
    <3> QED BY <2>3, <2>4, <2>5, <3>2 DEF Good
  <2>9. Grown(c.files, r.files) BY <2>4, SelfOnward DEF Onward
  <2>10. Steady(N) /\ N # <<>>
    <3>1. Len(N) = Len(M) /\ Len(M) \in 1 .. Len(M) /\ N \in Seq(Mode)
      BY <1>2, <2>3, <2>5 DEF SameNums, Kept, Typed
    <3>2. N # <<>> BY <1>2, <3>1, EmptyModes
    <3>3. N[Len(N)].pending = <<>> BY <2>5, <3>1 DEF SameDeferred, Steady
    <3> QED BY <2>6, <3>2, <3>3 DEF Steady
  <2>11. Runs(O, c, e, L) /\ e.modes[1].paused = FALSE
    BY <2>4, <2>5, <2>7, <2>8, <2>9, <2>10 DEF Runs
  <2> QED BY <2>11 DEF e
<1> QED BY <1>3, <1>4

(* terminate(): the last signal closes a file that is sent.                 *)
LEMMA TerminateGood ==
  ASSUME NEW O, NEW c, NEW L, Good(O, c, L), Steady(c.modes), c.modes # <<>>, ~c.modes[1].paused
  PROVE  /\ Kept(O, <<>>, c.files, L, TerminateContainer(c).todo)
         /\ TerminateContainer(c).modes = <<>> /\ TerminateContainer(c).files = c.files
         /\ Ends(c.files, TerminateContainer(c).todo)
         /\ \E k \in 1 .. Len(TerminateContainer(c).todo) :
               TerminateContainer(c).todo[k].op = "inactive"
<1> DEFINE M == c.modes
           n == Len(M)
           d == ShutModes(c, 2 .. n)
           i == [op |-> "inactive"]
           T == Append(d.todo, i)
           m == d.modes[1]
           U == T \o ShutMode(m)
           e == TerminateContainer(c)
<1>1. /\ M \in Seq(Mode) /\ n \in Nat /\ 1 \in 1 .. n /\ M[1].file # NoFile
      /\ M[1].file \in 1 .. Len(c.files) /\ M[1].paused = FALSE
      /\ c.files[M[1].file].paused = FALSE /\ M[1] \in Mode /\ c \in State
  BY OpenPaused, GoodTypes DEF Good
<1>2. Overtakes(O, M, 2 .. n) BY <1>1 DEF Overtakes
<1>3. Walked(O, c, d, 2 .. n, n, L) BY <1>2, ShutModesGood
<1> HIDE DEF d
<1>4. /\ Good(O, d, L) /\ d.files = c.files
      /\ Len(d.modes) = 1 /\ m = M[1] /\ d.modes \in Seq(Mode) /\ d.modes # <<>>
  <2>1. Good(O, d, L) /\ d.files = c.files BY <1>3 DEF Walked
  <2>2. d.modes \in Seq(Mode) /\ Len(d.modes) \in Nat BY <2>1, GoodTypes
  <2>3. 1 \in 1 .. Len(d.modes) /\ d.modes[1] = M[1]
    <3>1. \A k \in 2 .. n : k > 1 OBVIOUS
    <3> QED BY <1>1, <1>3, <3>1 DEF Walked
  <2>4. ASSUME NEW j \in 1 .. Len(d.modes) PROVE j = 1
    <3>0. j > n - n BY <1>1
    <3>1. PICK k \in 1 .. n : k \notin 2 .. n /\ d.modes[j] = M[k]
      BY <1>1, <1>3, <3>0 DEF Walked
    <3>2. d.modes[j] = d.modes[1] BY <1>1, <2>3, <3>1
    <3>3. j # 1 => d.modes[j].num < d.modes[1].num /\ d.modes[1].num \in Nat
      <4>1. d.modes[1].num \in Nat BY <1>1, <2>3, ModeTypes
      <4>2. j # 1 => 1 < j OBVIOUS
      <4> QED BY <2>1, <2>3, <4>1, <4>2 DEF Good, Kept, ModesOK
    <3> QED BY <3>2, <3>3
  <2>5. Len(d.modes) = 1
    <3>1. Len(d.modes) \in 1 .. Len(d.modes) BY <2>2, <2>3
    <3> QED BY <2>4, <3>1
  <2> QED BY <2>1, <2>2, <2>3, <2>5, EmptyModes
<1>5. d.todo \in Seq(Entry) /\ Kept(O, d.modes, d.files, L, d.todo) BY <1>4, GoodTypes
<1>6. i \in Entry /\ i.op = "inactive" BY DEF Entry
<1>7. e.modes = <<>> /\ e.files = d.files /\ e.todo = U
  <2>1. e = [d EXCEPT !.modes = <<>>, !.todo = U]
    BY Zenon DEF TerminateContainer, d
  <2>2. d = [modes |-> d.modes, files |-> d.files, todo |-> d.todo]
    BY <1>4 DEF Good, State
  <2> HIDE DEF U, e
  <2> QED BY <2>1, <2>2
<1> HIDE DEF i, e, m
<1>8. Kept(O, d.modes, d.files, L, T) BY <1>5, <1>6, OtherKept
<1>9. T \in Seq(Entry) /\ T[Len(d.todo) + 1] = i /\ Len(T) = Len(d.todo) + 1
      /\ Len(d.todo) \in Nat
  BY <1>5, <1>6, Added
<1> HIDE DEF T
<1>10. Kept(O, <<>>, d.files, L, U)
  <2>1. 1 \in 1 .. Len(d.modes) /\ Clears(O, d.modes, 1) BY <1>4 DEF Clears
  <2>2. Kept(O, RemoveAt(d.modes, 1), d.files, L, T \o ShutMode(d.modes[1]))
    BY <1>4, <1>8, <2>1, ShutKept
  <2>3. RemoveAt(d.modes, 1) = <<>>
    <3>1. Without(RemoveAt(d.modes, 1), d.modes, 1) BY <1>4, <2>1, RemovedAt
    <3>2. RemoveAt(d.modes, 1) \in Seq(Mode) /\ Len(RemoveAt(d.modes, 1)) = 0
      BY <1>4, <3>1 DEF Without
    <3> QED BY <3>2, EmptyModes
  <2> QED BY <1>4, <2>2, <2>3 DEF m
<1>11. PICK A \in Seq(Entry) : ShutMode(m) = Append(A, [op |-> "close", file |-> m.file])
  <2>1. m \in Mode /\ m.file # NoFile /\ m.pending \in Seq(Nat)
    BY <1>1, <1>4, ModeTypes
  <2>2. Adds(m.pending) \in Seq(Entry) BY <2>1, AddsAre
  <2> QED BY <2>1, <2>2, ShutModeIs
<1>12. /\ ShutMode(m) \in Seq(Entry) /\ Len(ShutMode(m)) = Len(A) + 1 /\ Len(A) \in Nat
       /\ ShutMode(m)[Len(A) + 1] = [op |-> "close", file |-> m.file]
  <2>1. [op |-> "close", file |-> m.file] \in Entry
    BY <1>1, <1>4, ModeTypes DEF Entry
  <2> QED BY <1>11, <2>1, Added
<1>13. /\ U \in Seq(Entry) /\ Len(U) = Len(T) + Len(A) + 1
       /\ U[Len(U)] = [op |-> "close", file |-> m.file]
       /\ \A k \in 1 .. Len(T) : k \in 1 .. Len(U) /\ U[k] = T[k]
  <2>1. U \in Seq(Entry) /\ Join(U, T, ShutMode(m)) BY <1>9, <1>12, Joined
  <2> HIDE DEF U
  <2>2. Len(U) = Len(T) + (Len(A) + 1) /\ Len(A) + 1 \in 1 .. Len(A) + 1
    BY <1>12, <2>1 DEF Join
  <2>3. U[Len(T) + (Len(A) + 1)] = ShutMode(m)[Len(A) + 1]
    BY <1>12, <2>1, <2>2 DEF Join
  <2>4. \A k \in 1 .. Len(T) : k \in 1 .. Len(U) /\ U[k] = T[k] BY <2>1 DEF Join
  <2>5. Len(T) \in Nat BY <1>9
  <2> QED BY <1>12, <2>1, <2>2, <2>3, <2>4, <2>5
<1> HIDE DEF U
<1>14. Ends(c.files, U)
  <2>1. U # <<>>
    <3>1. Len(U) # 0 BY <1>9, <1>12, <1>13
    <3> QED BY <1>13, <3>1, EmptyModes
  <2>2. U[Len(U)].op = "close" /\ U[Len(U)].file = M[1].file BY <1>4, <1>13
  <2> QED BY <1>1, <2>1, <2>2 DEF Ends
<1>15. \E k \in 1 .. Len(U) : U[k].op = "inactive"
  <2>1. Len(d.todo) + 1 \in 1 .. Len(T) BY <1>9
  <2> QED BY <1>6, <1>9, <1>13, <2>1
<1> QED BY <1>4, <1>7, <1>10, <1>14, <1>15 DEF e

-----------------------------------------------------------------------------
(* A signal is delivered.                                                   *)
Rest(T, U) ==
    /\ U \in Seq(Entry) /\ Len(U) \in Nat /\ Len(T) = Len(U) + 1 /\ T[1] \in Entry
    /\ \A k \in 1 .. Len(U) : k + 1 \in 1 .. Len(T) /\ U[k] = T[k + 1]
    /\ \A k \in 1 .. Len(T) : k = 1 \/ (k - 1 \in 1 .. Len(U) /\ U[k - 1] = T[k])

LEMMA TailRest ==
  ASSUME NEW T \in Seq(Entry), T # <<>>
  PROVE  Rest(T, Tail(T)) /\ 1 \in 1 .. Len(T)
<1> DEFINE U == Tail(T)
<1>1. /\ U \in Seq(Entry) /\ Len(U) = Len(T) - 1
      /\ \A i \in 1 .. Len(U) : U[i] = T[i + 1]
  BY HeadTailProperties
<1>2. Len(T) \in Nat /\ Len(T) # 0 BY EmptyModes
<1> HIDE DEF U
<1>3. Len(U) \in Nat /\ Len(T) = Len(U) + 1 /\ 1 \in 1 .. Len(T) BY <1>1, <1>2
<1>4. T[1] \in Entry BY <1>3, ElementOfSeq
<1>5. \A k \in 1 .. Len(U) : k + 1 \in 1 .. Len(T) /\ U[k] = T[k + 1] BY <1>1, <1>3
<1>6. ASSUME NEW k \in 1 .. Len(T), k # 1
      PROVE  k - 1 \in 1 .. Len(U) /\ U[k - 1] = T[k]
  <2>1. k - 1 \in 1 .. Len(U) /\ (k - 1) + 1 = k BY <1>3, <1>6
  <2> QED BY <1>5, <2>1
<1> QED BY <1>1, <1>3, <1>4, <1>5, <1>6 DEF Rest, U

(* The list once the first signal is delivered.                             *)
Listed(L, e, L2) == IF e.op = "add" THEN L2 = Append(L, e.file) ELSE L2 = L

Follows(O, F, L, T, U, L2) ==
    /\ L2 \in Seq(Nat) /\ InOrder(O, F, L2, U) /\ Announced(L2, U) = Announced(L, T)
    /\ Len(L2) \in Nat

LEMMA ListedKept ==
  ASSUME NEW O, NEW F, NEW L \in Seq(Nat), NEW T \in Seq(Entry), NEW U, NEW L2, Rest(T, U),
         Listed(L, T[1], L2), InOrder(O, F, L, T)
  PROVE  Follows(O, F, L, T, U, L2)
<1>1. /\ \A k \in 1 .. Len(U) : k + 1 \in 1 .. Len(T) /\ U[k] = T[k + 1]
      /\ \A k \in 1 .. Len(T) : k = 1 \/ (k - 1 \in 1 .. Len(U) /\ U[k - 1] = T[k])
      /\ Len(U) \in Nat /\ Len(T) = Len(U) + 1 /\ T[1] \in Entry /\ Len(L) \in Nat
  BY LenProperties DEF Rest
<1>0. 1 \in 1 .. Len(T) BY <1>1
<1>2. \A j, k \in 1 .. Len(U) :
         j < k /\ U[j].op = "add" /\ U[k].op = "add" => Precedes(O, F, U[j].file, U[k].file)
  <2> SUFFICES ASSUME NEW j \in 1 .. Len(U), NEW k \in 1 .. Len(U), j < k,
                      U[j].op = "add", U[k].op = "add"
               PROVE  Precedes(O, F, U[j].file, U[k].file)
    OBVIOUS
  <2>1. j + 1 < k + 1 /\ j + 1 \in 1 .. Len(T) /\ k + 1 \in 1 .. Len(T) BY <1>1
  <2>2. U[j] = T[j + 1] /\ U[k] = T[k + 1] BY <1>1
  <2>3. \A a, b \in 1 .. Len(T) :
           a < b /\ T[a].op = "add" /\ T[b].op = "add" => Precedes(O, F, T[a].file, T[b].file)
    BY DEF InOrder
  <2> QED BY <2>1, <2>2, <2>3
<1>3. \A j \in 1 .. Len(L), k \in 1 .. Len(U) :
         U[k].op = "add" => Precedes(O, F, L[j], U[k].file)
  BY <1>1 DEF InOrder
<1> DEFINE AU == {U[k].file : k \in {k \in 1 .. Len(U) : U[k].op = "add"}}
           AT == {T[k].file : k \in {k \in 1 .. Len(T) : T[k].op = "add"}}
           LS == {L[j] : j \in 1 .. Len(L)}
<1>4. CASE T[1].op = "add"
  <2> DEFINE f == T[1].file
  <2>1. L2 = Append(L, f) /\ f \in Nat BY <1>1, <1>4, EntryTypes DEF Listed
  <2>2. /\ L2 \in Seq(Nat) /\ Len(L2) = Len(L) + 1 /\ L2[Len(L) + 1] = f
        /\ \A j \in 1 .. Len(L) : j \in 1 .. Len(L2) /\ L2[j] = L[j]
        /\ \A j \in 1 .. Len(L2) : j \in 1 .. Len(L) \/ j = Len(L) + 1
    BY <2>1, Added
  <2> HIDE DEF f
  <2>3. \A j, k \in 1 .. Len(L2) : j < k => Precedes(O, F, L2[j], L2[k])
    <3> SUFFICES ASSUME NEW j \in 1 .. Len(L2), NEW k \in 1 .. Len(L2), j < k
                 PROVE  Precedes(O, F, L2[j], L2[k])
      OBVIOUS
    <3>1. j \in 1 .. Len(L) BY <1>1, <2>2
    <3>2. CASE k \in 1 .. Len(L) BY <2>2, <3>1, <3>2 DEF InOrder
    <3>3. CASE k = Len(L) + 1
      <4>1. Precedes(O, F, L[j], T[1].file) BY <1>0, <1>4, <3>1 DEF InOrder
      <4> QED BY <2>2, <3>1, <3>3, <4>1 DEF f
    <3> QED BY <2>2, <3>2, <3>3
  <2>4. \A j \in 1 .. Len(L2), k \in 1 .. Len(U) :
           U[k].op = "add" => Precedes(O, F, L2[j], U[k].file)
    <3> SUFFICES ASSUME NEW j \in 1 .. Len(L2), NEW k \in 1 .. Len(U), U[k].op = "add"
                 PROVE  Precedes(O, F, L2[j], U[k].file)
      OBVIOUS
    <3>1. CASE j \in 1 .. Len(L) BY <1>3, <2>2, <3>1
    <3>2. CASE j = Len(L) + 1
      <4>1. 1 < k + 1 /\ k + 1 \in 1 .. Len(T) /\ U[k] = T[k + 1] BY <1>1
      <4>2. Precedes(O, F, T[1].file, T[k + 1].file) BY <1>0, <1>4, <4>1 DEF InOrder
      <4> QED BY <2>2, <3>2, <4>1, <4>2 DEF f
    <3> QED BY <2>2, <3>1, <3>2
  <2>5. AT = AU \cup {f}
    <3>1. \A k \in 1 .. Len(T) : T[k].op = "add" => T[k].file \in AU \cup {f}
      <4> SUFFICES ASSUME NEW k \in 1 .. Len(T), T[k].op = "add", k # 1
                   PROVE  T[k].file \in AU
        BY DEF f
      <4>1. k - 1 \in 1 .. Len(U) /\ U[k - 1] = T[k] BY <1>1
      <4> QED BY <4>1
    <3>2. f \in AT BY <1>0, <1>4 DEF f
    <3>3. \A k \in 1 .. Len(U) : U[k].op = "add" => U[k].file \in AT BY <1>1
    <3>4. AU \subseteq AT BY <3>3
    <3>5. AT \subseteq AU \cup {f} BY <3>1
    <3> HIDE DEF AT, AU
    <3> QED BY <3>2, <3>4, <3>5
  <2>6. {L2[j] : j \in 1 .. Len(L2)} = LS \cup {f}
    <3>1. Len(L) + 1 \in 1 .. Len(L2) BY <1>1, <2>2
    <3> QED BY <2>2, <3>1
  <2>7. Announced(L2, U) = Announced(L, T) BY <2>5, <2>6 DEF Announced
  <2>8. InOrder(O, F, L2, U) BY <1>2, <2>3, <2>4 DEF InOrder
  <2>9. Len(L2) \in Nat BY <1>1, <2>2
  <2> QED BY <2>2, <2>7, <2>8, <2>9 DEF Follows
<1>5. CASE T[1].op # "add"
  <2>1. L2 = L BY <1>5 DEF Listed
  <2>2. AT = AU
    <3>1. \A k \in 1 .. Len(T) : T[k].op = "add" => T[k].file \in AU BY <1>1, <1>5
    <3>3. \A k \in 1 .. Len(U) : U[k].op = "add" => U[k].file \in AT BY <1>1
    <3> QED BY <3>1, <3>3
  <2>3. Announced(L2, U) = Announced(L, T) BY <2>1, <2>2 DEF Announced
  <2>4. InOrder(O, F, L2, U) BY <1>2, <1>3, <2>1 DEF InOrder
  <2> QED BY <1>1, <2>1, <2>3, <2>4 DEF Follows
<1> QED BY <1>4, <1>5

LEMMA PlacesKept ==
  ASSUME NEW O, NEW M, NEW F, NEW G, NEW L, NEW T, SamePlaces(F, G), Len(G) = Len(F),
         ModesOK(M, F), DeferredOK(O, M, F, L, T)
  PROVE  ModesOK(M, G) /\ DeferredOK(O, M, G, L, T)
<1>1. ModesOK(M, G) BY DEF ModesOK, SamePlaces
<1>2. \A i \in 1 .. Len(M) :
          /\ \A k \in 1 .. Len(M[i].pending) :
                M[i].pending[k] \in 1 .. Len(G) /\ G[M[i].pending[k]].mode = M[i].num
          /\ Ordered(G, M[i].pending)
          /\ AllBefore(O, G, Announced(L, T), M[i].pending)
  <2> SUFFICES ASSUME NEW i \in 1 .. Len(M)
               PROVE  /\ \A k \in 1 .. Len(M[i].pending) :
                            M[i].pending[k] \in 1 .. Len(G)
                            /\ G[M[i].pending[k]].mode = M[i].num
                      /\ Ordered(G, M[i].pending)
                      /\ AllBefore(O, G, Announced(L, T), M[i].pending)
    OBVIOUS
  <2>1. \A k \in 1 .. Len(M[i].pending) :
           M[i].pending[k] \in 1 .. Len(F) /\ F[M[i].pending[k]].mode = M[i].num
    BY DEF DeferredOK
  <2>2. Ordered(F, M[i].pending) /\ AllBefore(O, F, Announced(L, T), M[i].pending)
    BY DEF DeferredOK
  <2>3. \A x \in Announced(L, T) : x \in 1 .. Len(F) BY DEF DeferredOK
  <2>4. \A k \in 1 .. Len(M[i].pending) :
           M[i].pending[k] \in 1 .. Len(G) /\ G[M[i].pending[k]].mode = M[i].num
    BY <2>1 DEF SamePlaces
  <2>5. Ordered(G, M[i].pending) BY <2>1, <2>2, SameEarlier DEF Ordered
  <2>6. AllBefore(O, G, Announced(L, T), M[i].pending)
    BY <2>1, <2>2, <2>3, SamePrecedes DEF AllBefore
  <2> QED BY <2>4, <2>5, <2>6
<1>3. \A x \in Announced(L, T) :
          x \in 1 .. Len(G) /\ \A i \in 1 .. Len(M) : NoLater(O, G, x, M[i])
  BY DEF DeferredOK, SamePlaces, NoLater
<1>4. \A f \in 1 .. Len(G) :
          f \in Announced(L, T) \/ \E i \in 1 .. Len(M) : f \in Pending(M, i)
  BY DEF DeferredOK
<1> QED BY <1>1, <1>2, <1>3, <1>4 DEF DeferredOK

(* What a signal does to the files: a closed one is no longer written to.   *)
Effect(e, F, G) ==
    /\ G \in Seq(File) /\ Len(G) = Len(F) /\ SamePlaces(F, G)
    /\ \A f \in 1 .. Len(F) : G[f].active <=> F[f].active /\ ~(e.op = "close" /\ e.file = f)

LEMMA SignalKept ==
  ASSUME NEW O, NEW M, NEW F, NEW G, NEW L \in Seq(Nat), NEW L2, NEW T, NEW U,
         Kept(O, M, F, L, T), Rest(T, U), Listed(L, T[1], L2),
         Effect(T[1], F, G)
  PROVE  Kept(O, M, G, L2, U) /\ L2 \in Seq(Nat)
<1>1. /\ M \in Seq(Mode) /\ F \in Seq(File) /\ T \in Seq(Entry) /\ Len(F) \in Nat
      /\ InOrder(O, F, L, T) /\ ModesOK(M, F) /\ DeferredOK(O, M, F, L, T) /\ OpenOK(M, F, T)
  BY LenProperties DEF Kept, Typed
<1>2. Rest(T, U) /\ 1 \in 1 .. Len(T)
  <2>1. Len(T) = Len(U) + 1 /\ Len(U) \in Nat BY DEF Rest
  <2> QED BY <2>1
<1>3. L2 \in Seq(Nat) /\ InOrder(O, F, L2, U) /\ Announced(L2, U) = Announced(L, T)
  <2>1. Follows(O, F, L, T, U, L2) BY <1>1, <1>2, ListedKept
  <2> QED BY <2>1 DEF Follows
<1>4. G \in Seq(File) /\ Len(G) = Len(F) /\ SamePlaces(F, G) BY DEF Effect
<1>5. U \in Seq(Entry) BY <1>2 DEF Rest
<1>6. Typed(M, G, U) BY <1>1, <1>4, <1>5 DEF Typed
<1>7. DeferredOK(O, M, F, L2, U)
  <2>1. Announced(L2, U) = Announced(L, T) /\ DeferredOK(O, M, F, L, T) BY <1>1, <1>3
  <2> QED BY ONLY <2>1 DEF DeferredOK
<1>8. ModesOK(M, G) /\ DeferredOK(O, M, G, L2, U) BY <1>1, <1>4, <1>7, PlacesKept
<1>9. InOrder(O, G, L2, U)
  <2>1. \A x \in Announced(L2, U) : x \in 1 .. Len(F) BY <1>7 DEF DeferredOK
  <2> QED BY <1>3, <1>4, <2>1, SameOrder
<1>10. OpenOK(M, G, U)
  <2>1. \A k \in 1 .. Len(U) : k + 1 \in 1 .. Len(T) /\ U[k] = T[k + 1] /\ k \in Nat
                                /\ k + 1 # 1
    BY <1>2 DEF Rest
  <2>2. \A f \in 1 .. Len(F) :
           G[f].mode = F[f].mode
           /\ (G[f].active <=> F[f].active /\ ~(T[1].op = "close" /\ T[1].file = f))
    BY DEF Effect, SamePlaces
  <2>3. ASSUME NEW i \in 1 .. Len(M), M[i].file # NoFile
        PROVE  /\ M[i].file \in 1 .. Len(G) /\ G[M[i].file].mode = M[i].num
               /\ G[M[i].file].active
               /\ \A k \in 1 .. Len(U) : U[k].op = "close" => U[k].file # M[i].file
    <3>1. /\ M[i].file \in 1 .. Len(F) /\ F[M[i].file].mode = M[i].num
          /\ F[M[i].file].active
          /\ \A k \in 1 .. Len(T) : T[k].op = "close" => T[k].file # M[i].file
      BY <1>1, <2>3 DEF OpenOK
    <3>2. ~(T[1].op = "close" /\ T[1].file = M[i].file) BY <1>2, <3>1
    <3>3. M[i].file \in 1 .. Len(G) /\ G[M[i].file].mode = M[i].num
          /\ G[M[i].file].active
      BY <1>4, <2>2, <3>1, <3>2
    <3>4. \A k \in 1 .. Len(U) : U[k].op = "close" => U[k].file # M[i].file
      BY <2>1, <3>1
    <3> QED BY <3>3, <3>4
  <2>4. ASSUME NEW k \in 1 .. Len(U), U[k].op \in {"close", "write"}
        PROVE  U[k].file \in 1 .. Len(G)
    <3>1. k + 1 \in 1 .. Len(T) /\ U[k] = T[k + 1] BY <2>1
    <3>2. T[k + 1].file \in 1 .. Len(F) BY <1>1, <2>4, <3>1 DEF OpenOK
    <3> QED BY <1>4, <3>1, <3>2
  <2>5. ASSUME NEW k \in 1 .. Len(U), U[k].op = "close"
        PROVE  G[U[k].file].active
    <3>1. k + 1 \in 1 .. Len(T) /\ U[k] = T[k + 1] /\ k + 1 # 1 BY <2>1
    <3>2. U[k].file \in 1 .. Len(F) /\ F[U[k].file].active
      BY <1>1, <2>5, <3>1 DEF OpenOK
    <3>3. ~(T[1].op = "close" /\ T[1].file = U[k].file)
      BY <1>1, <1>2, <2>5, <3>1 DEF OpenOK
    <3> QED BY <2>2, <3>2, <3>3
  <2>6. ASSUME NEW j \in 1 .. Len(U), NEW k \in 1 .. Len(U), j # k,
               U[j].op = "close", U[k].op = "close"
        PROVE  U[j].file # U[k].file
    <3>1. j + 1 # k + 1 BY <2>1, <2>6
    <3>2. /\ j + 1 \in 1 .. Len(T) /\ U[j] = T[j + 1]
          /\ k + 1 \in 1 .. Len(T) /\ U[k] = T[k + 1]
      BY <2>1
    <3> QED BY <1>1, <2>6, <3>1, <3>2 DEF OpenOK
  <2>7. ASSUME NEW f \in 1 .. Len(G), G[f].active
        PROVE  \/ \E i \in 1 .. Len(M) : M[i].file = f
               \/ \E k \in 1 .. Len(U) : U[k].op = "close" /\ U[k].file = f
    <3>1. f \in 1 .. Len(F) /\ F[f].active /\ ~(T[1].op = "close" /\ T[1].file = f)
      BY <1>4, <2>2, <2>7
    <3>2. CASE \E k \in 1 .. Len(T) : T[k].op = "close" /\ T[k].file = f
      <4>1. PICK k \in 1 .. Len(T) : T[k].op = "close" /\ T[k].file = f BY <3>2
      <4>2. k # 1 BY <3>1, <4>1
      <4>3. k - 1 \in 1 .. Len(U) /\ U[k - 1] = T[k] BY <1>2, <4>2 DEF Rest
      <4> QED BY <4>1, <4>3
    <3> QED BY <1>1, <3>1, <3>2 DEF OpenOK
  <2>8. \A j, k \in 1 .. Len(U) :
           j # k /\ U[j].op = "close" /\ U[k].op = "close" => U[j].file # U[k].file
    BY <2>6
  <2> QED BY ONLY <2>3, <2>4, <2>5, <2>7, <2>8 DEF OpenOK
<1> QED BY <1>3, <1>6, <1>8, <1>9, <1>10 DEF Kept

(* A file is seen to have grown.                                            *)
Quietly(F, G) ==
    /\ G \in Seq(File) /\ Len(G) = Len(F) /\ SamePlaces(F, G)
    /\ \A f \in 1 .. Len(F) : G[f].active <=> F[f].active

LEMMA NotifyKept ==
  ASSUME NEW O, NEW M, NEW F, NEW G, NEW L, NEW T, Kept(O, M, F, L, T), Quietly(F, G)
  PROVE  Kept(O, M, G, L, T)
<1>1. /\ M \in Seq(Mode) /\ F \in Seq(File) /\ T \in Seq(Entry)
      /\ InOrder(O, F, L, T) /\ ModesOK(M, F) /\ DeferredOK(O, M, F, L, T) /\ OpenOK(M, F, T)
  BY DEF Kept, Typed
<1>2. G \in Seq(File) /\ Len(G) = Len(F) /\ SamePlaces(F, G) BY DEF Quietly
<1>3. ModesOK(M, G) /\ DeferredOK(O, M, G, L, T) BY <1>1, <1>2, PlacesKept
<1>4. InOrder(O, G, L, T)
  <2>1. \A x \in Announced(L, T) : x \in 1 .. Len(F) BY <1>1 DEF DeferredOK
  <2> QED BY <1>1, <1>2, <2>1, SameOrder
<1>5. OpenOK(M, G, T) BY <1>1 DEF OpenOK, Quietly, SamePlaces
<1> QED BY <1>1, <1>2, <1>3, <1>4, <1>5 DEF Kept, Typed

-----------------------------------------------------------------------------
(* The client.                                                              *)
Cut(s, k, a, b) ==
    /\ a \in Seq(Nat) /\ b \in Seq(Nat) /\ a \o b = s
    /\ Len(a) = k /\ \A j \in 1 .. k : a[j] = s[j]
    /\ k = Len(s) => b = <<>>
    /\ k < Len(s) => b # <<>> /\ b[1] = s[k + 1]

LEMMA RegroupFiles ==
  ASSUME NEW s \in Seq(Nat), NEW t \in Seq(Nat), NEW u \in Seq(Nat)
  PROVE  s \o (t \o u) = (s \o t) \o u
<1>1. (s \o t) \o u = s \o (t \o u) BY ONLY ConcatAssociative, SMTT(30)
<1> QED BY ONLY <1>1

LEMMA CutAt ==
  ASSUME NEW s \in Seq(Nat), NEW k \in 0 .. Len(s)
  PROVE  Cut(s, k, SubSeq(s, 1, k), SubSeq(s, k + 1, Len(s)))
<1> DEFINE a == SubSeq(s, 1, k)
           b == SubSeq(s, k + 1, Len(s))
           n == Len(s)
<1>1. n \in Nat /\ k \in Nat /\ k <= n BY LenProperties
<1>2. \A i \in 1 .. n : s[i] \in Nat BY ElementOfSeq
<1>3. a \in Seq(Nat) /\ Len(a) = k /\ \A j \in 1 .. k : a[j] = s[j]
  <2>1. \A i \in 1 .. k : s[i] \in Nat BY <1>1, <1>2
  <2>2. /\ a \in Seq(Nat) /\ Len(a) = IF 1 <= k THEN k - 1 + 1 ELSE 0
        /\ \A i \in 1 .. k - 1 + 1 : a[i] = s[1 + i - 1]
    BY <1>1, <2>1, SubSeqProperties
  <2> HIDE DEF a
  <2>3. Len(a) = k BY <1>1, <2>2
  <2>4. \A j \in 1 .. k : j \in 1 .. k - 1 + 1 /\ 1 + j - 1 = j BY <1>1
  <2> QED BY <2>2, <2>3, <2>4
<1>4. b \in Seq(Nat) /\ Len(b) = n - k /\ (k < n => b[1] = s[k + 1])
  <2>1. \A i \in k + 1 .. n : s[i] \in Nat BY <1>1, <1>2
  <2>2. /\ b \in Seq(Nat) /\ Len(b) = IF k + 1 <= n THEN n - (k + 1) + 1 ELSE 0
        /\ \A i \in 1 .. n - (k + 1) + 1 : b[i] = s[(k + 1) + i - 1]
    BY <1>1, <2>1, SubSeqProperties
  <2> HIDE DEF b, n
  <2>3. Len(b) = n - k
    <3>1. Len(b) = IF k + 1 <= n THEN n - (k + 1) + 1 ELSE 0 BY <2>2
    <3>2. CASE k < n
      <4>1. k + 1 <= n /\ n - (k + 1) + 1 = n - k BY <1>1, <3>2
      <4> QED BY <3>1, <4>1
    <3>3. CASE k = n
      <4>1. ~(k + 1 <= n) /\ n - k = 0 BY <1>1, <3>3
      <4> QED BY <3>1, <4>1
    <3> QED BY <1>1, <3>2, <3>3
  <2>4. k < n => 1 \in 1 .. n - (k + 1) + 1 /\ (k + 1) + 1 - 1 = k + 1 BY <1>1, SMTT(30)
  <2> QED BY <2>2, <2>3, <2>4
<1>5. a \o b = s
  <2>1. 1 \in 1 .. n + 1 /\ k \in 1 - 1 .. n /\ n \in k .. n BY <1>1
  <2>2. a \o b = SubSeq(s, 1, n) BY <2>1, ConcatAdjacentSubSeq
  <2>3. SubSeq(s, 1, n) = s BY SubSeqFull
  <2> QED BY <2>2, <2>3
<1> HIDE DEF a, b
<1>6. (k = n => b = <<>>) /\ (k < n => b # <<>>) BY <1>1, <1>4, EmptyModes
<1> QED BY <1>3, <1>4, <1>5, <1>6 DEF Cut, a, b

LEMMA ClientTypes ==
  ASSUME NEW c \in Client
  PROVE  /\ c.files \in Seq(Nat) /\ c.passed \in Seq(Nat) /\ c.offset \in Nat
         /\ c.sub \in Nat /\ c.done \in Nat /\ c.alive \in BOOLEAN /\ c.write \in BOOLEAN
         /\ Len(c.files) \in Nat /\ Len(c.passed) \in Nat
BY LenProperties DEF Client

(* What the client may be when its loop starts, and after it passed some    *)
(* files; F is the files and L the list it was told of.                     *)
Ready(c, F, L) ==
    /\ c \in Client /\ c.alive /\ c.passed \o c.files = L
    /\ Subscribed(c, F) /\ PassedOver(c, F)

LEMMA AdvanceReady ==
  ASSUME NEW c, NEW L, Ready(c, files', L), NEW k \in 0 .. Len(c.files),
         \A j \in 1 .. k : Passable(c, j)
  PROVE  /\ Ready(Advance(c, k), files', L)
         /\ Advance(c, k).done = c.done
         /\ k = Len(c.files) => Advance(c, k).files = <<>>
         /\ k < Len(c.files) => /\ Advance(c, k).files # <<>>
                                /\ Advance(c, k).files[1] = c.files[k + 1]
<1> DEFINE d == Advance(c, k)
           F == files'
           s == c.files
           a == SubSeq(s, 1, k)
           b == SubSeq(s, k + 1, Len(s))
           u == IF k < Len(s) /\ F[s[k + 1]].active THEN s[k + 1] ELSE NoFile
<1>1. /\ c \in Client /\ c.alive /\ c.passed \o s = L
      /\ Subscribed(c, F) /\ PassedOver(c, F)
  BY DEF Ready
<1>2. /\ s \in Seq(Nat) /\ c.passed \in Seq(Nat) /\ Len(s) \in Nat /\ k \in Nat
  BY <1>1, ClientTypes
<1>3. CASE k = 0
  <2>1. d = c BY <1>3 DEF Advance
  <2>2. (k = Len(s) => s = <<>>) /\ (k < Len(s) => s # <<>>) /\ k + 1 = 1
    BY <1>2, <1>3, EmptyModes
  <2> QED BY <2>1, <2>2
<1>4. CASE k # 0
  <2>1. d = [c EXCEPT !.files = b, !.passed = c.passed \o a, !.offset = 0, !.sub = u]
    BY <1>4, Zenon DEF Advance
  <2>2. Cut(s, k, a, b) BY <1>2, CutAt
  <2>3. u \in Nat
    <3>1. k < Len(s) => k + 1 \in 1 .. Len(s) BY <1>2
    <3>2. k < Len(s) => s[k + 1] \in Nat BY <1>2, <3>1, ElementOfSeq
    <3> QED BY <3>2 DEF NoFile
  <2> HIDE DEF a, b, u
  <2>4. /\ a \in Seq(Nat) /\ b \in Seq(Nat) /\ a \o b = s /\ Len(a) = k
        /\ \A j \in 1 .. k : a[j] = s[j]
        /\ (k = Len(s) => b = <<>>) /\ (k < Len(s) => b # <<>> /\ b[1] = s[k + 1])
    BY <2>2 DEF Cut
  <2>5. c.passed \o a \in Seq(Nat) /\ Join(c.passed \o a, c.passed, a)
    BY <1>2, <2>4, Joined
  <2>6. (c.passed \o a) \o b = L
    <3> DEFINE r == c.passed
    <3>1. r \in Seq(Nat) /\ a \in Seq(Nat) /\ b \in Seq(Nat) BY <1>2, <2>4
    <3> HIDE DEF r
    <3>2. r \o (a \o b) = (r \o a) \o b BY <3>1, RegroupFiles
    <3> QED BY <1>1, <2>4, <3>2 DEF r
  <2> DEFINE q == c.passed \o a
  <2> HIDE DEF q
  <2>7. /\ d.files = b /\ d.passed = q /\ d.offset = 0 /\ d.sub = u
        /\ d.alive = c.alive /\ d.write = c.write /\ d.done = c.done /\ d \in Client
    <3>1. q \in Seq(Nat) BY <2>5 DEF q
    <3>2. d = [c EXCEPT !.files = b, !.passed = q, !.offset = 0, !.sub = u]
      BY <2>1 DEF q
    <3> HIDE DEF d
    <3> QED BY <1>1, <2>3, <2>4, <3>1, <3>2 DEF Client
  <2> HIDE DEF d
  <2>8. PassedOver(d, F)
    <3> SUFFICES ASSUME NEW j \in 1 .. Len(q)
                 PROVE  ~F[q[j]].active \/ F[q[j]].paused
      BY <2>7 DEF PassedOver
    <3>1. CASE j \in 1 .. Len(c.passed)
      <4>1. q[j] = c.passed[j] BY <2>5, <3>1 DEF Join, q
      <4> QED BY <1>1, <3>1, <4>1 DEF PassedOver
    <3>2. CASE j \notin 1 .. Len(c.passed)
      <4>1. PICK i \in 1 .. k : q[j] = s[i]
        <5>1. j - Len(c.passed) \in 1 .. Len(a) /\ q[j] = a[j - Len(c.passed)]
          BY <2>5, <3>2 DEF Join, q
        <5> QED BY <2>4, <5>1
      <4>2. Passable(c, i) OBVIOUS
      <4> QED BY <4>1, <4>2 DEF Passable, Skipped
    <3> QED BY <3>1, <3>2
  <2>9. Subscribed(d, F)
    <3>1. CASE k = Len(s) BY <1>2, <2>4, <2>7, <3>1 DEF Subscribed, u
    <3>2. CASE k # Len(s)
      <4>1. k < Len(s) BY <1>2, <3>2
      <4> QED BY <2>4, <2>7, <4>1 DEF Subscribed, At, u
    <3> QED BY <3>1, <3>2
  <2>10. Ready(d, F, L) BY <1>1, <2>6, <2>7, <2>8, <2>9 DEF Ready, q
  <2> QED BY <2>4, <2>7, <2>10 DEF d
<1> QED BY <1>3, <1>4

(* A client that has nothing left is told that the run is over.             *)
Content(c, act) == c.alive /\ ~c.write /\ c.files = <<>> => act \/ c.done > 0

LEMMA NobodyServed ==
  ASSUME NEW F, NEW L, NEW act
  PROVE  Served(NoClient, F, L) /\ Content(NoClient, act)
<1>1. NoClient \in Client
  <2>1. <<>> \in Seq(Nat) /\ NoFile \in Nat /\ 0 \in Nat BY DEF NoFile
  <2> QED BY <2>1 DEF NoClient, Client
<1>2. NoClient.alive = FALSE BY DEF NoClient
<1> QED BY <1>1, <1>2 DEF Served, Content

LEMMA ExhaustedServed ==
  ASSUME NEW c, NEW L, Ready(c, files', L), \A j \in 1 .. Len(c.files) : Passable(c, j),
         NEW d \in Exhausted(c)
  PROVE  Served(d, files', L) /\ Content(d, runActive')
<1> DEFINE n == Len(c.files)
           a == Advance(c, n)
           b == SendDataDone(a)
<1>1. n \in 0 .. n
  <2>1. c.files \in Seq(Nat) BY ClientTypes DEF Ready
  <2> QED BY <2>1, LenProperties
<1>2. Ready(a, files', L) /\ a.files = <<>> BY <1>1, AdvanceReady
<1>3. d = [b EXCEPT !.write = FALSE] BY DEF Exhausted
<1> HIDE DEF a
<1>4. a \in Client /\ a.alive /\ a.done \in Nat BY <1>2, ClientTypes DEF Ready
<1>5. /\ b \in Client /\ b.alive = a.alive /\ b.files = a.files /\ b.passed = a.passed
      /\ b.sub = a.sub /\ (runActive' \/ b.done > 0)
  <2>1. CASE runActive'
    <3>1. b = a BY <2>1 DEF SendDataDone
    <3> QED BY <1>4, <2>1, <3>1
  <2>2. CASE ~runActive'
    <3> DEFINE m == IF a.done = 2 THEN 2 ELSE a.done + 1
    <3>1. b = [a EXCEPT !.done = m] BY <2>2 DEF SendDataDone
    <3>2. m \in Nat /\ m > 0 BY <1>4
    <3> HIDE DEF b, m
    <3> QED BY <1>4, <3>1, <3>2 DEF Client
  <2> QED BY <2>1, <2>2
<1> HIDE DEF b
<1>6. /\ d \in Client /\ d.alive = b.alive /\ d.files = b.files /\ d.passed = b.passed
      /\ d.sub = b.sub /\ d.done = b.done /\ d.write = FALSE
  BY <1>3, <1>5 DEF Client
<1>7. d.passed \o d.files = L BY <1>2, <1>5, <1>6 DEF Ready
<1>8. Subscribed(d, files') /\ PassedOver(d, files') /\ Waiting(d, files')
  <2>1. d.files = <<>> /\ d.sub = a.sub /\ d.passed = a.passed BY <1>2, <1>5, <1>6
  <2>2. Subscribed(a, files') /\ PassedOver(a, files') BY <1>2 DEF Ready
  <2> QED BY <1>2, <2>1, <2>2 DEF Subscribed, PassedOver, Waiting
<1>9. Served(d, files', L) BY <1>6, <1>7, <1>8 DEF Served
<1>10. runActive' \/ d.done > 0 BY <1>5, <1>6
<1> QED BY <1>9, <1>10 DEF Content

LEMMA StoppedServed ==
  ASSUME NEW c, NEW L, Ready(c, files', L), files' \in Seq(File), Sized(files'),
         \A j \in 1 .. Len(c.files) : c.files[j] \in 1 .. Len(files'),
         NEW k \in 0 .. Len(c.files), k # Len(c.files), \A j \in 1 .. k : Passable(c, j),
         NEW d \in Stopped(c, k)
  PROVE  Served(d, files', L) /\ Content(d, runActive')
<1> DEFINE a == Advance(c, k)
           f == c.files[k + 1]
           size == files'[f].size
<1>1. k < Len(c.files) /\ k + 1 \in 1 .. Len(c.files)
  <2>1. c.files \in Seq(Nat) BY ClientTypes DEF Ready
  <2>2. Len(c.files) \in Nat BY <2>1, LenProperties
  <2> QED BY <2>2
<1>2. Ready(a, files', L) /\ a.files # <<>> /\ a.files[1] = f BY <1>1, AdvanceReady
<1>3. f \in 1 .. Len(files') BY <1>1
<1>4. files'[f] \in File BY <1>3, ElementOfSeq
<1>5. size \in Nat /\ files'[f].seen <= size /\ files'[f].seen \in Nat
  BY <1>3, <1>4, FileTypes DEF Sized
<1>6. PICK o \in a.offset .. size :
         /\ o = size => files'[f].active
         /\ d = [a EXCEPT !.offset = o, !.write = o < size]
  BY Zenon DEF Stopped
<1> HIDE DEF a, f
<1>7. a \in Client /\ a.offset \in Nat /\ a.alive BY <1>2, ClientTypes DEF Ready
<1>8. o \in Nat /\ o <= size BY <1>5, <1>6, <1>7
<1>9. /\ d \in Client /\ d.alive = a.alive /\ d.files = a.files /\ d.passed = a.passed
      /\ d.sub = a.sub /\ d.offset = o /\ (d.write <=> o < size)
  <2> DEFINE w == o < size
  <2>1. w \in BOOLEAN BY <1>5, <1>8
  <2>2. d = [a EXCEPT !.offset = o, !.write = w] BY <1>6
  <2> HIDE DEF w
  <2>3. /\ d \in Client /\ d.alive = a.alive /\ d.files = a.files /\ d.passed = a.passed
        /\ d.sub = a.sub /\ d.offset = o /\ d.write = w
    BY <1>7, <1>8, <2>1, <2>2 DEF Client
  <2> QED BY <2>3 DEF w
<1>10. d.passed \o d.files = L BY <1>2, <1>9 DEF Ready
<1>11. Waiting(d, files')
  <2> SUFFICES ASSUME ~d.write
               PROVE  files'[f].active /\ d.offset >= files'[f].seen
    BY <1>2, <1>9 DEF Waiting, At
  <2>1. ~(o < size) BY <1>9
  <2>2. o = size BY <1>5, <1>8, <2>1
  <2>3. d.offset >= files'[f].seen BY <1>5, <1>9, <2>2
  <2> QED BY <1>6, <2>2, <2>3
<1>12. Subscribed(d, files') /\ PassedOver(d, files')
  BY <1>2, <1>9 DEF Ready, Subscribed, PassedOver, At
<1>13. Served(d, files', L) BY <1>9, <1>10, <1>11, <1>12 DEF Served
<1>14. d.files # <<>> BY <1>2, <1>9
<1> QED BY <1>13, <1>14 DEF Content

(* writable() and the calls of it from a signal handler.                    *)
LEMMA WritableServed ==
  ASSUME NEW c, NEW L, Ready(c, files', L), files' \in Seq(File), Sized(files'),
         \A j \in 1 .. Len(c.files) : c.files[j] \in 1 .. Len(files'),
         NEW d \in Writable(c)
  PROVE  Served(d, files', L) /\ Content(d, runActive')
<1> DEFINE n == Len(c.files)
           reach == {k \in 0 .. n : \A j \in 1 .. k : Passable(c, j)}
           tried == {k \in reach \ {n} : ~Skipped(c, k + 1)}
           p == \E k \in reach \ {n} : ~Skipped(c, k + 1)
           exhausted == IF n \in reach THEN Exhausted(c) ELSE {}
           stopped == UNION {Stopped(c, k) : k \in tried}
           deleted == IF p THEN Deleted ELSE {}
<1>0. d \in exhausted \cup stopped \cup deleted BY DEF Writable
<1>5. tried \subseteq reach \ {n} OBVIOUS
<1> HIDE DEF reach, tried, p
<1>1. \/ n \in reach /\ d \in Exhausted(c)
      \/ \E k \in reach \ {n} : d \in Stopped(c, k)
      \/ d \in Deleted
  <2>1. d \in exhausted \/ d \in stopped \/ d \in deleted
    <3> HIDE DEF exhausted, stopped, deleted
    <3> QED BY ONLY <1>0
  <2>2. CASE d \in exhausted
    <3>1. d \in IF n \in reach THEN Exhausted(c) ELSE {} BY <2>2
    <3>2. n \in reach /\ d \in Exhausted(c) BY ONLY <3>1
    <3> QED BY <3>2
  <2>3. CASE d \in stopped
    <3>1. d \in UNION {Stopped(c, k) : k \in tried} BY <2>3
    <3>2. PICK k \in tried : d \in Stopped(c, k) BY <3>1
    <3> QED BY <1>5, <3>2
  <2>4. CASE d \in deleted
    <3>1. d \in IF p THEN Deleted ELSE {} BY <2>4
    <3>2. d \in Deleted BY ONLY <3>1
    <3> QED BY <3>2
  <2> QED BY <2>1, <2>2, <2>3, <2>4
<1> USE DEF reach
<1>2. CASE n \in reach /\ d \in Exhausted(c) BY <1>2, ExhaustedServed
<1>3. CASE \E k \in reach \ {n} : d \in Stopped(c, k)
  <2>1. PICK k \in reach \ {n} : d \in Stopped(c, k) BY <1>3
  <2> QED BY <2>1, StoppedServed
<1>4. CASE d \in Deleted
  <2>1. d = NoClient BY <1>4 DEF Deleted
  <2> QED BY <2>1, NobodyServed
<1> QED BY <1>1, <1>2, <1>3, <1>4

(* The files of a client are among those that were announced.               *)
Known(L, F) == \A j \in 1 .. Len(L) : L[j] \in 1 .. Len(F)

LEMMA ClientFiles ==
  ASSUME NEW c \in Client, NEW L, NEW F, c.passed \o c.files = L, Known(L, F)
  PROVE  /\ \A j \in 1 .. Len(c.files) : c.files[j] \in 1 .. Len(F)
         /\ \A j \in 1 .. Len(c.passed) : c.passed[j] \in 1 .. Len(F)
         /\ c.files # <<>> => 1 \in 1 .. Len(c.files)
         /\ \A f : (\E j \in 1 .. Len(L) : L[j] = f) =>
               \/ \E j \in 1 .. Len(c.passed) : c.passed[j] = f
               \/ \E j \in 1 .. Len(c.files) : c.files[j] = f
<1>1. c.passed \in Seq(Nat) /\ c.files \in Seq(Nat) /\ Len(c.files) \in Nat
  BY ClientTypes
<1>2. Join(L, c.passed, c.files) BY <1>1, Joined
<1>3. c.files # <<>> => 1 \in 1 .. Len(c.files) BY <1>1, EmptyModes
<1>4. \A j \in 1 .. Len(c.files) :
         Len(c.passed) + j \in 1 .. Len(L) /\ L[Len(c.passed) + j] = c.files[j]
  BY <1>2 DEF Join
<1>5. \A j \in 1 .. Len(c.passed) : j \in 1 .. Len(L) /\ L[j] = c.passed[j]
  BY <1>2 DEF Join
<1>6. \A j \in 1 .. Len(L) :
         \/ j \in 1 .. Len(c.passed) /\ L[j] = c.passed[j]
         \/ j - Len(c.passed) \in 1 .. Len(c.files) /\ L[j] = c.files[j - Len(c.passed)]
  BY <1>2 DEF Join
<1>7. \A j \in 1 .. Len(c.files) : c.files[j] \in 1 .. Len(F) BY <1>4 DEF Known
<1>8. \A j \in 1 .. Len(c.passed) : c.passed[j] \in 1 .. Len(F) BY <1>5 DEF Known
<1>9. ASSUME NEW j \in 1 .. Len(L)
      PROVE  \/ \E i \in 1 .. Len(c.passed) : c.passed[i] = L[j]
             \/ \E i \in 1 .. Len(c.files) : c.files[i] = L[j]
  BY <1>6
<1> QED BY <1>3, <1>7, <1>8, <1>9

(* A client the files of which did not change as far as it can tell.        *)
Alike(F, G, f) == /\ G[f].active = F[f].active /\ G[f].paused = F[f].paused
                  /\ G[f].seen = F[f].seen

LEMMA StillServed ==
  ASSUME NEW c, NEW F, NEW G, NEW L, Served(c, F, L), Known(L, F),
         \A f \in 1 .. Len(F) : Alike(F, G, f)
  PROVE  Served(c, G, L)
<1>1. c \in Client BY DEF Served
<1>2. CASE ~c.alive BY <1>1, <1>2 DEF Served
<1>3. CASE c.alive
  <2>1. /\ c.passed \o c.files = L /\ Subscribed(c, F) /\ Waiting(c, F) /\ PassedOver(c, F)
    BY <1>3 DEF Served
  <2>2. /\ \A j \in 1 .. Len(c.files) : c.files[j] \in 1 .. Len(F)
        /\ \A j \in 1 .. Len(c.passed) : c.passed[j] \in 1 .. Len(F)
        /\ c.files # <<>> => 1 \in 1 .. Len(c.files)
    BY <1>1, <2>1, ClientFiles
  <2>3. c.files # <<>> => Alike(F, G, c.files[1]) BY <2>2
  <2>4. Subscribed(c, G) /\ Waiting(c, G)
    BY <2>1, <2>3 DEF Subscribed, Waiting, At, Alike
  <2>5. PassedOver(c, G) BY <2>1, <2>2 DEF PassedOver, Alike
  <2> QED BY <1>1, <2>1, <2>4, <2>5 DEF Served
<1> QED BY <1>2, <1>3

(* TryToSend() keeps a client that waits for the socket.                    *)
LEMMA TryServed ==
  ASSUME NEW c, NEW L, Ready(c, files', L), files' \in Seq(File), Sized(files'),
         Known(L, files'), NEW d \in TryToSend(c)
  PROVE  Served(d, files', L) /\ Content(d, runActive')
<1>1. c \in Client /\ c.alive /\ c.passed \o c.files = L BY DEF Ready
<1>2. CASE c.write
  <2>1. d = c BY <1>2 DEF TryToSend
  <2>2. Waiting(c, files') BY <1>2 DEF Waiting
  <2>3. Served(c, files', L) BY <2>2 DEF Ready, Served
  <2> QED BY <1>2, <2>1, <2>3 DEF Content
<1>3. CASE ~c.write
  <2>1. d \in Writable(c) BY <1>3 DEF TryToSend
  <2>2. \A j \in 1 .. Len(c.files) : c.files[j] \in 1 .. Len(files')
    BY <1>1, ClientFiles
  <2> QED BY <2>1, <2>2, WritableServed
<1> QED BY <1>2, <1>3

(* fileAdded().                                                             *)
LEMMA FileAddedServed ==
  ASSUME NEW c, NEW L \in Seq(Nat), Served(c, files', L), c.alive, NEW f \in Nat,
         f # NoFile, files' \in Seq(File), Sized(files'), Known(Append(L, f), files'),
         NEW d \in FileAdded(c, f)
  PROVE  Served(d, files', Append(L, f)) /\ Content(d, runActive')
<1> DEFINE e == [c EXCEPT !.files = Append(@, f)]
           g == [e EXCEPT !.sub = IF @ = NoFile /\ files'[f].active THEN f ELSE @]
<1>1. /\ c \in Client /\ c.passed \o c.files = L /\ Subscribed(c, files')
      /\ Waiting(c, files') /\ PassedOver(c, files')
  BY DEF Served
<1>2. c.files \in Seq(Nat) /\ c.passed \in Seq(Nat) /\ Len(c.files) \in Nat /\ c.sub \in Nat
  BY <1>1, ClientTypes
<1>3. /\ Append(c.files, f) \in Seq(Nat) /\ Len(Append(c.files, f)) = Len(c.files) + 1
      /\ Append(c.files, f)[Len(c.files) + 1] = f
      /\ \A k \in 1 .. Len(c.files) : Append(c.files, f)[k] = c.files[k]
  BY <1>2, Added
<1>4. c.passed \o Append(c.files, f) = Append(L, f)
  <2> DEFINE p == c.passed
             s == c.files
             u == <<f>>
  <2>1. p \in Seq(Nat) /\ s \in Seq(Nat) /\ u \in Seq(Nat) BY <1>2
  <2>2. Append(s, f) = s \o u BY <1>2, AppendIsConcat
  <2>3. Append(L, f) = L \o u BY AppendIsConcat
  <2>4. L = p \o s BY <1>1
  <2> HIDE DEF p, s, u
  <2>5. p \o (s \o u) = (p \o s) \o u BY <2>1, RegroupFiles
  <2> QED BY <2>2, <2>3, <2>4, <2>5 DEF p, s
<1>5. /\ e \in Client /\ e.files = Append(c.files, f) /\ e.passed = c.passed
      /\ e.alive /\ e.write = c.write /\ e.sub = c.sub /\ e.offset = c.offset
  BY <1>1, <1>3 DEF Client
<1>6. d \in IF Len(e.files) > 1 THEN {e} ELSE TryToSend(g) BY Zenon DEF FileAdded
<1> HIDE DEF e
<1>7. e.files # <<>>
  <2>1. Len(e.files) # 0 /\ e.files \in Seq(Nat) BY <1>2, <1>3, <1>5
  <2> QED BY <2>1, EmptyModes
<1>8. PassedOver(e, files') BY <1>1, <1>5 DEF PassedOver
<1>9. CASE c.files # <<>>
  <2>1. Len(c.files) # 0 /\ Len(e.files) > 1 /\ 1 \in 1 .. Len(c.files)
    BY <1>2, <1>3, <1>5, <1>9, EmptyModes
  <2>2. d = e /\ e.files[1] = c.files[1] BY <1>3, <1>5, <1>6, <2>1
  <2>3. Subscribed(e, files') /\ Waiting(e, files')
    BY <1>1, <1>5, <1>7, <1>9, <2>2 DEF Subscribed, Waiting, At
  <2>4. Served(e, files', Append(L, f)) BY <1>4, <1>5, <1>8, <2>3 DEF Served
  <2>5. Content(e, runActive') BY <1>7 DEF Content
  <2> QED BY <2>2, <2>4, <2>5
<1>10. CASE c.files = <<>>
  <2>1. Len(c.files) = 0 /\ ~(Len(e.files) > 1) BY <1>2, <1>3, <1>5, <1>10, EmptyModes
  <2>2. e.files[1] = f BY <1>3, <1>5, <2>1
  <2>3. e.sub = NoFile BY <1>1, <1>5, <1>10 DEF Subscribed
  <2> DEFINE u == IF files'[f].active THEN f ELSE NoFile
  <2>4. g = [e EXCEPT !.sub = u] BY <2>3
  <2>5. u \in Nat BY DEF NoFile
  <2> HIDE DEF u, g
  <2>6. /\ g \in Client /\ g.files = e.files /\ g.passed = e.passed /\ g.alive = e.alive
        /\ g.sub = u
    BY <1>5, <2>4, <2>5 DEF Client
  <2>7. Subscribed(g, files') BY <1>7, <2>2, <2>6 DEF Subscribed, At, u
  <2>8. PassedOver(g, files') BY <1>8, <2>6 DEF PassedOver
  <2>9. Ready(g, files', Append(L, f)) BY <1>4, <1>5, <2>6, <2>7, <2>8 DEF Ready
  <2>10. d \in TryToSend(g) BY <1>6, <2>1
  <2> QED BY <2>9, <2>10, TryServed
<1> QED BY <1>9, <1>10

(* fileUpdated(): one file was written to or closed.                        *)
Touched(F, G, f) ==
    /\ \A g \in 1 .. Len(F) : g # f => Alike(F, G, g)
    /\ G[f].paused = F[f].paused /\ (G[f].active => F[f].active)

LEMMA FileUpdatedServed ==
  ASSUME NEW c, NEW L, NEW F, NEW f \in Nat, Served(c, F, L), c.alive,
         f # NoFile, Known(L, F), Known(L, files'), Touched(F, files', f),
         files' \in Seq(File), Sized(files'), NEW d \in FileUpdated(c, f)
  PROVE  /\ Served(d, files', L)
         /\ Content(d, runActive') \/ (d = c /\ c.sub # f)
<1>1. /\ c \in Client /\ c.passed \o c.files = L /\ Subscribed(c, F)
      /\ Waiting(c, F) /\ PassedOver(c, F)
  BY DEF Served
<1>2. /\ \A j \in 1 .. Len(c.files) : c.files[j] \in 1 .. Len(F)
      /\ \A j \in 1 .. Len(c.passed) : c.passed[j] \in 1 .. Len(F)
      /\ c.files # <<>> => 1 \in 1 .. Len(c.files)
  BY <1>1, ClientFiles
<1>3. PassedOver(c, files')
  <2> SUFFICES ASSUME NEW j \in 1 .. Len(c.passed)
               PROVE  ~files'[c.passed[j]].active \/ files'[c.passed[j]].paused
    BY DEF PassedOver
  <2>1. c.passed[j] \in 1 .. Len(F) /\ (~F[c.passed[j]].active \/ F[c.passed[j]].paused)
    BY <1>1, <1>2 DEF PassedOver
  <2>2. CASE c.passed[j] = f BY <2>1, <2>2 DEF Touched
  <2>3. CASE c.passed[j] # f BY <2>1, <2>3 DEF Touched, Alike
  <2> QED BY <2>2, <2>3
<1>4. CASE c.sub # f
  <2>1. d = c BY <1>4 DEF FileUpdated
  <2>2. Subscribed(c, files') /\ Waiting(c, files')
    <3>1. CASE c.files = <<>> BY <1>1, <3>1 DEF Subscribed, Waiting
    <3>2. CASE c.files # <<>> /\ c.files[1] = f
      <4>1. ~F[f].active /\ c.sub = NoFile /\ ~files'[f].active /\ c.write
        BY <1>1, <1>4, <3>2 DEF Subscribed, Waiting, At, Touched
      <4> QED BY <3>2, <4>1 DEF Subscribed, Waiting, At
    <3>3. CASE c.files # <<>> /\ c.files[1] # f
      <4>1. Alike(F, files', c.files[1]) BY <1>2, <3>3 DEF Touched
      <4> QED BY <1>1, <3>3, <4>1 DEF Subscribed, Waiting, At, Alike
    <3> QED BY <3>1, <3>2, <3>3
  <2>3. Served(c, files', L) BY <1>1, <1>3, <2>2 DEF Served
  <2> QED BY <1>4, <2>1, <2>3
<1>5. CASE c.sub = f
  <2> DEFINE u == IF files'[f].active THEN f ELSE NoFile
             g == [c EXCEPT !.sub = u]
  <2>1. d \in TryToSend(g) BY <1>5, Zenon DEF FileUpdated
  <2>2. c.files # <<>> /\ c.files[1] = f BY <1>1, <1>5 DEF Subscribed, At
  <2>3. u \in Nat BY DEF NoFile
  <2> HIDE DEF u
  <2>4. /\ g \in Client /\ g.files = c.files /\ g.passed = c.passed /\ g.alive = c.alive
        /\ g.sub = u
    BY <1>1, <2>3 DEF Client
  <2> HIDE DEF g
  <2>5. Subscribed(g, files') BY <2>2, <2>4 DEF Subscribed, At, u
  <2>6. PassedOver(g, files') BY <1>3, <2>4 DEF PassedOver
  <2>7. Ready(g, files', L) BY <1>1, <2>4, <2>5, <2>6 DEF Ready
  <2> QED BY <2>1, <2>7, TryServed
<1> QED BY <1>4, <1>5

-----------------------------------------------------------------------------
(* The steps of the specification.                                          *)
LEMMA InvFacts ==
  ASSUME StreamInv
  PROVE  /\ list \in Seq(Nat) /\ Known(list, files) /\ Sized(files)
         /\ modes \in Seq(Mode) /\ files \in Seq(File) /\ todo \in Seq(Entry)
         /\ Kept(overtook, modes, files, list, todo) /\ Steady(modes) /\ RunOK
         /\ Irreflexive(overtook)
         /\ Served(client, files, list) /\ Told(client, runActive, todo)
         /\ runActive \in BOOLEAN /\ recording \in BOOLEAN
<1>1. ContainerInv BY DEF StreamInv
<1>2. /\ list \in Seq(Nat) /\ Kept(overtook, modes, files, list, todo)
      /\ Steady(modes) /\ RunOK
      /\ Irreflexive(overtook)
  BY <1>1 DEF ContainerInv
<1>3. Sized(files) BY <1>1 DEF ContainerInv, Sized
<1>4. Known(list, files)
  <2>1. \A x \in Announced(list, todo) : x \in 1 .. Len(files)
    BY <1>2 DEF Kept, DeferredOK
  <2> QED BY <2>1 DEF Announced, Known
<1>5. runActive \in BOOLEAN /\ recording \in BOOLEAN BY <1>2 DEF RunOK
<1> QED BY <1>2, <1>3, <1>4, <1>5 DEF StreamInv, Kept, Typed

LEMMA NowGood ==
  ASSUME StreamInv, Idle
  PROVE  /\ Good(overtook, Now, list) /\ Now.modes = modes /\ Now.files = files /\ Now.todo = <<>>
<1>1. Now.modes = modes /\ Now.files = files /\ Now.todo = todo BY DEF Now
<1>2. Going(todo)
  <2>1. Len(todo) = 0 BY EmptySeq DEF Idle
  <2> QED BY <2>1 DEF Going
<1>3. Now \in State BY InvFacts DEF Now, State
<1> QED BY <1>1, <1>2, <1>3, InvFacts DEF Good, Idle

(* An operation of the container while the run goes on.                     *)
LEMMA KeptMore ==
  ASSUME NEW O, NEW P, O \subseteq P, NEW M, NEW F, NEW L, NEW T, Kept(O, M, F, L, T)
  PROVE  Kept(P, M, F, L, T)
<1>1. InOrder(P, F, L, T) BY DEF Kept, InOrder, Precedes
<1>2. DeferredOK(P, M, F, L, T)
  <2>1. \A i \in 1 .. Len(M) :
            AllBefore(O, F, Announced(L, T), M[i].pending) =>
            AllBefore(P, F, Announced(L, T), M[i].pending)
    BY DEF AllBefore, Precedes
  <2>2. \A x \in Announced(L, T), i \in 1 .. Len(M) :
            NoLater(O, F, x, M[i]) => NoLater(P, F, x, M[i])
    BY DEF NoLater
  <2> QED BY <2>1, <2>2 DEF Kept, DeferredOK
<1> QED BY <1>1, <1>2 DEF Kept

LEMMA PerformInv ==
  ASSUME StreamInv, Idle, modes # <<>>, NEW c, Runs(overtook', Now, c, list), Perform(c),
         recording' \in BOOLEAN, ~recording' => ~c.modes[1].paused,
         Irreflexive(overtook')
  PROVE  StreamInv'
<1>1. /\ Now.modes = modes /\ Now.files = files BY NowGood
<1>2. /\ Good(overtook', c, list) /\ Grown(files, c.files) /\ Steady(c.modes) /\ c.modes # <<>>
  BY <1>1 DEF Runs
<1>3. /\ modes' = c.modes /\ files' = c.files /\ todo' = c.todo /\ list' = list
      /\ runActive' = runActive /\ client' = client
  BY DEF Perform
<1>4. runActive /\ runActive \in BOOLEAN BY InvFacts DEF RunOK
<1>5. /\ Kept(overtook', c.modes, c.files, list, c.todo) /\ Going(c.todo) /\ Sized(c.files)
      /\ list \in Seq(Nat)
  BY <1>2, GoodTypes, InvFacts
<1>6. RunOK'
  <2>1. ~(Ending')
    <3>1. \A k \in 1 .. Len(todo') : todo'[k].op # "inactive" BY <1>3, <1>5 DEF Going
    <3> QED BY <1>3, <1>4, <3>1 DEF Ending
  <2>2. runActive' /\ runActive' \in BOOLEAN BY <1>3, <1>4
  <2>3. \A k \in 1 .. Len(todo') : todo'[k].op # "inactive" BY <1>3, <1>5 DEF Going
  <2>4. modes' # <<>> BY <1>2, <1>3
  <2>5. ~recording' => ~modes'[1].paused BY <1>3
  <2>6. {runActive', recording'} \subseteq BOOLEAN BY <2>2
  <2> HIDE DEF Ending
  <2> QED BY <2>1, <2>2, <2>3, <2>4, <2>5, <2>6 DEF RunOK
<1>7. ContainerInv'
  <2>1. list' \in Seq(Nat) /\ Kept(overtook', modes', files', list', todo') /\ Steady(modes')
    BY <1>2, <1>3, <1>5
  <2>2. Sized(files') BY <1>3, <1>5
  <2> QED BY <1>6, <2>1, <2>2 DEF ContainerInv, Sized
<1>8. Served(client, c.files, list)
  <2>1. \A f \in 1 .. Len(files) : Alike(files, c.files, f) BY <1>2 DEF Grown, Alike
  <2> QED BY <2>1, StillServed, InvFacts
<1>9. Served(client', files', list') BY <1>3, <1>8
<1>10. Told(client', runActive', todo') BY <1>3, <1>4 DEF Told
<1> QED BY <1>7, <1>9, <1>10 DEF StreamInv

(* What an expiry adds to the history.                                      *)
LEMMA OvertakingIs ==
  ASSUME StreamInv, NEW i \in 1 .. Len(modes), NEW S, S \subseteq i + 1 .. Len(modes)
  PROVE  /\ Overtakes(overtook \cup Overtaking(S), modes, S)
         /\ Irreflexive(overtook \cup Overtaking(S))
<1>1. /\ Kept(overtook, modes, files, list, todo) /\ Irreflexive(overtook)
      /\ Len(modes) \in Nat /\ \A j \in 1 .. Len(modes) : modes[j].num \in Nat
  BY InvFacts, Types, ModeTypes DEF Kept
<1>2. \A k \in S : k \in 1 .. Len(modes) BY <1>1
<1>3. ASSUME NEW k \in S, NEW j \in 1 .. Len(modes), k < j, j \notin S
      PROVE  <<modes[k].num, modes[j].num>> \in Overtaking(S)
  <2>1. j \in (k + 1 .. Len(modes)) \ S BY <1>1, <1>2, <1>3
  <2> QED BY <2>1 DEF Overtaking
<1>4. ASSUME NEW n \in Nat, <<n, n>> \in Overtaking(S) PROVE FALSE
  <2>1. PICK k \in S : \E j \in (k + 1 .. Len(modes)) \ S :
                             <<n, n>> = <<modes[k].num, modes[j].num>>
    BY <1>4 DEF Overtaking
  <2>4. PICK j \in (k + 1 .. Len(modes)) \ S : <<n, n>> = <<modes[k].num, modes[j].num>>
    BY <2>1
  <2>2. j \in 1 .. Len(modes) /\ k < j BY <1>1, <1>2
  <2>3. modes[j].num < modes[k].num BY <1>1, <1>2, <2>2 DEF Kept, ModesOK
  <2> QED BY <1>1, <1>2, <2>4, <2>2, <2>3
<1> QED BY <1>1, <1>3, <1>4 DEF Overtakes, Irreflexive

LEMMA AddPacketInv ==
  ASSUME StreamInv, AddPacket
  PROVE  StreamInv'
<1> DEFINE P == overtook'
<1>1. Idle /\ recording' = recording BY DEF AddPacket
<1>2. PICK i \in 1 .. Len(modes), check \in BOOLEAN, rotate \in BOOLEAN, notify \in BOOLEAN :
         \/ /\ Perform(WriteTo(Now, i, rotate, notify))
            /\ UNCHANGED overtook
         \/ \E S \in SUBSET (i + 1 .. Len(modes)) :
               /\ Perform(WriteTo(ExpireModes(Now, S), i, rotate, notify))
               /\ overtook' = overtook \cup Overtaking(S)
  BY Zenon DEF AddPacket
<1>3. /\ Good(overtook, Now, list) /\ Now.modes = modes /\ Now.files = files
      /\ Steady(modes) /\ RunOK /\ recording \in BOOLEAN /\ modes \in Seq(Mode)
      /\ Irreflexive(overtook)
  BY <1>1, NowGood, InvFacts
<1>4. Len(modes) \in Nat /\ modes # <<>>
  <2>1. Len(modes) \in Nat BY <1>3, EmptyModes
  <2>2. Len(modes) # 0 BY <2>1
  <2> QED BY <1>3, <2>1, <2>2, EmptyModes
<1>5. PICK d : /\ Expired(P, Now, d, i, list) /\ Irreflexive(P)
               /\ Perform(WriteTo(d, i, rotate, notify))
  <2>1. CASE Perform(WriteTo(Now, i, rotate, notify)) /\ UNCHANGED overtook
    <3>1. Expired(P, Now, Now, i, list) BY <1>3, <1>4, <2>1 DEF Expired
    <3> QED BY <1>3, <2>1, <3>1
  <2>2. CASE \E S \in SUBSET (i + 1 .. Len(modes)) :
               /\ Perform(WriteTo(ExpireModes(Now, S), i, rotate, notify))
               /\ overtook' = overtook \cup Overtaking(S)
    <3>1. PICK S \in SUBSET (i + 1 .. Len(modes)) :
             /\ Perform(WriteTo(ExpireModes(Now, S), i, rotate, notify))
             /\ overtook' = overtook \cup Overtaking(S)
      BY <2>2
    <3>2. Overtakes(P, Now.modes, S) /\ Irreflexive(P) BY <1>3, <3>1, OvertakingIs
    <3>3. Good(P, Now, list)
      <4>1. overtook \subseteq P BY <3>1
      <4> HIDE DEF P
      <4> QED BY <1>3, <4>1, KeptMore DEF Good
    <3> HIDE DEF P
    <3>4. Expired(P, Now, ExpireModes(Now, S), i, list)
      BY <1>3, <3>2, <3>3, ExpireGood
    <3> QED BY <3>1, <3>2, <3>4
  <2> QED BY <1>2, <2>1, <2>2
<1> DEFINE e == WriteTo(d, i, rotate, notify)
<1> HIDE DEF P
<1>6. /\ Good(P, d, list) /\ d.files = files /\ i \in 1 .. Len(d.modes)
      /\ Steady(d.modes) /\ d.modes # <<>> /\ d.modes[1].paused = modes[1].paused
  BY <1>3, <1>5 DEF Expired
<1>7. 1 \in 1 .. Len(d.modes) /\ Len(d.modes) \in Nat BY <1>6, GoodTypes
<1>8. Onward(P, d, e, list) BY <1>6, <1>7, WriteToGood
<1>13. Perform(e) BY <1>5
<1> HIDE DEF e
<1>9. /\ Good(P, e, list) /\ Grown(files, e.files) /\ Len(e.modes) = Len(d.modes)
      /\ e.modes[1].file # NoFile /\ e.modes[1].paused = modes[1].paused
      /\ LastClear(d.modes, e.modes)
  BY <1>6, <1>7, <1>8 DEF Onward, Steady
<1>10. e.modes # <<>>
  <2>1. e.modes \in Seq(Mode) BY <1>9, GoodTypes
  <2>2. Len(e.modes) # 0 BY <1>7, <1>9
  <2> QED BY <2>1, <2>2, EmptyModes
<1>11. Steady(e.modes) BY <1>6, <1>9 DEF LastClear, Steady
<1>12. Runs(P, Now, e, list) BY <1>3, <1>9, <1>10, <1>11 DEF Runs
<1>14. ~recording' => ~e.modes[1].paused BY <1>1, <1>3, <1>4, <1>9 DEF RunOK
<1>15. recording' \in BOOLEAN BY <1>1, <1>3
<1>16. Runs(overtook', Now, e, list) /\ Irreflexive(overtook') BY <1>5, <1>12 DEF P
<1> QED BY <1>1, <1>4, <1>13, <1>14, <1>15, <1>16, PerformInv

LEMMA RunningFacts ==
  ASSUME StreamInv, Idle, modes # <<>>
  PROVE  /\ Good(overtook, Now, list) /\ Steady(Now.modes) /\ Now.modes # <<>>
         /\ Now.modes = modes /\ Now.files = files
         /\ runActive /\ (~recording => ~modes[1].paused)
BY NowGood, InvFacts DEF RunOK

LEMMA PauseInv ==
  ASSUME StreamInv, Pause
  PROVE  StreamInv'
<1>1. /\ Idle /\ recording /\ recording' = recording /\ Perform(PauseContainer(Now))
      /\ overtook' = overtook
  BY DEF Pause
<1>2. modes # <<>> BY <1>1, InvFacts DEF RunOK
<1>3. Runs(overtook, Now, PauseContainer(Now), list) BY <1>1, <1>2, RunningFacts, PauseGood
<1>4. recording' \in BOOLEAN /\ Irreflexive(overtook') BY <1>1, InvFacts
<1>5. Runs(overtook', Now, PauseContainer(Now), list) BY <1>1, <1>3
<1> QED BY <1>1, <1>2, <1>4, <1>5, PerformInv

LEMMA ResumeInv ==
  ASSUME StreamInv, Resume
  PROVE  StreamInv'
<1>1. /\ Idle /\ recording /\ recording' = recording /\ Perform(ResumeContainer(Now))
      /\ overtook' = overtook
  BY DEF Resume
<1>2. modes # <<>> BY <1>1, InvFacts DEF RunOK
<1>3. Runs(overtook, Now, ResumeContainer(Now), list) BY <1>1, <1>2, RunningFacts, ResumeGood
<1>4. recording' \in BOOLEAN /\ Irreflexive(overtook') BY <1>1, InvFacts
<1>5. Runs(overtook', Now, ResumeContainer(Now), list) BY <1>1, <1>3
<1> QED BY <1>1, <1>2, <1>4, <1>5, PerformInv

(* A run stops in a mode that is not paused.                                *)
LEMMA RunStopInv ==
  ASSUME StreamInv, RunStop
  PROVE  StreamInv'
<1> DEFINE c == IF modes[1].paused THEN ResumeContainer(Now) ELSE Now
           d == WriteTo(c, 1, FALSE, TRUE)
<1>1. Idle /\ recording /\ recording' = FALSE /\ Perform(d) /\ overtook' = overtook
  BY Zenon DEF RunStop
<1>2. modes # <<>> BY <1>1, InvFacts DEF RunOK
<1>3. /\ Good(overtook, Now, list) /\ Steady(Now.modes) /\ Now.modes # <<>>
      /\ Now.modes = modes /\ Now.files = files
  BY <1>1, <1>2, RunningFacts
<1>4. Runs(overtook, Now, c, list) /\ c.modes[1].paused = FALSE
  <2>1. CASE modes[1].paused
    <3>1. c = ResumeContainer(Now) BY <2>1
    <3> HIDE DEF c
    <3> QED BY <1>3, <3>1, ResumeGood
  <2>2. CASE ~modes[1].paused
    <3>1. c = Now BY <2>2
    <3>2. modes[1].paused \in BOOLEAN BY <1>3, OpenPaused
    <3>3. Runs(overtook, Now, Now, list)
      <4>1. Grown(Now.files, Now.files) BY <1>3, SelfOnward DEF Onward
      <4> QED BY <1>3, <4>1 DEF Runs
    <3> HIDE DEF c
    <3> QED BY <1>3, <2>2, <3>1, <3>2, <3>3
  <2> QED BY <2>1, <2>2
<1> HIDE DEF c
<1>5. /\ Good(overtook, c, list) /\ Grown(files, c.files) /\ Steady(c.modes) /\ c.modes # <<>>
  BY <1>3, <1>4 DEF Runs
<1>6. 1 \in 1 .. Len(c.modes) BY <1>5, OpenPaused
<1>7. Onward(overtook, c, d, list)
  <2> DEFINE r == FALSE
             n == TRUE
  <2>1. r \in BOOLEAN /\ n \in BOOLEAN /\ d = WriteTo(c, 1, r, n) OBVIOUS
  <2> HIDE DEF r, n, d
  <2> QED BY <1>5, <1>6, <2>1, WriteToGood
<1> HIDE DEF d
<1>8. /\ Good(overtook, d, list) /\ Grown(c.files, d.files) /\ Len(d.modes) = Len(c.modes)
      /\ d.modes[1].file # NoFile /\ d.modes[1].paused = FALSE
      /\ LastClear(c.modes, d.modes)
  BY <1>4, <1>5, <1>6, <1>7 DEF Onward, Steady
<1>9. d.modes # <<>>
  <2>1. d.modes \in Seq(Mode) BY <1>8, GoodTypes
  <2>2. Len(d.modes) # 0 BY <1>6, <1>8
  <2> QED BY <2>1, <2>2, EmptyModes
<1>10. Steady(d.modes) BY <1>5, <1>8 DEF LastClear, Steady
<1>11. Grown(files, d.files)
  <2>1. Len(files) \in Nat /\ Len(c.files) \in Nat /\ Len(d.files) \in Nat
    BY <1>3, <1>5, <1>8, GoodTypes
  <2>2. Len(files) <= Len(d.files) BY <1>5, <1>8, <2>1 DEF Grown
  <2> QED BY <1>5, <1>8, <2>2 DEF Grown
<1>12. Runs(overtook, Now, d, list) BY <1>3, <1>8, <1>9, <1>10, <1>11 DEF Runs
<1>13. Runs(overtook', Now, d, list) BY <1>1, <1>12
<1>14. Irreflexive(overtook') BY <1>1, InvFacts
<1> QED BY <1>1, <1>2, <1>8, <1>13, <1>14, PerformInv

LEMMA TerminateInv ==
  ASSUME StreamInv, Terminate
  PROVE  StreamInv'
<1> DEFINE c == TerminateContainer(Now)
<1>1. /\ Idle /\ ~recording /\ modes # <<>> /\ Perform(c) /\ recording' = recording
      /\ overtook' = overtook
  BY DEF Terminate
<1>2. /\ Good(overtook, Now, list) /\ Steady(Now.modes) /\ Now.modes # <<>>
      /\ Now.modes = modes /\ Now.files = files /\ ~modes[1].paused
  BY <1>1, RunningFacts
<1> HIDE DEF c
<1>3. /\ Kept(overtook, <<>>, files, list, c.todo) /\ c.modes = <<>> /\ c.files = files
      /\ Ends(files, c.todo) /\ \E k \in 1 .. Len(c.todo) : c.todo[k].op = "inactive"
  BY <1>2, TerminateGood DEF c
<1>4. /\ modes' = <<>> /\ files' = files /\ todo' = c.todo /\ list' = list
      /\ runActive' = runActive /\ client' = client /\ recording' = recording
  BY <1>1, <1>3 DEF Perform
<1>5. Ending' BY <1>3, <1>4 DEF Ending
<1>6. Ends(files, todo') BY <1>3, <1>4
<1>7. RunOK'
  <2>1. modes' = <<>> /\ ~recording' /\ {runActive', recording'} \subseteq BOOLEAN
    BY <1>1, <1>4, InvFacts
  <2>2. Ends(files', todo') BY <1>4, <1>6
  <2> HIDE DEF Ending
  <2> QED BY <1>5, <2>1, <2>2 DEF RunOK
<1>8. ContainerInv'
  <2>1. Kept(overtook, <<>>, files, list, todo') BY <1>3, <1>4
  <2>2. Kept(overtook', modes', files', list', todo') /\ Irreflexive(overtook')
    BY <1>1, <1>4, <2>1, InvFacts
  <2>3. Steady(modes') BY <1>4 DEF Steady
  <2>4. list' \in Seq(Nat) /\ Sized(files') BY <1>4, InvFacts
  <2> QED BY <1>7, <2>2, <2>3, <2>4 DEF ContainerInv, Sized
<1>9. Served(client', files', list') BY <1>4, InvFacts
<1>10. Told(client', runActive', todo')
  <2>1. todo' # <<>> BY <1>6 DEF Ends
  <2> QED BY <2>1 DEF Told
<1> QED BY <1>8, <1>9, <1>10 DEF StreamInv

(* Deliver performs the first entry of the operation in progress.           *)
LEMMA DeliverFacts ==
  ASSUME StreamInv, Deliver
  PROVE  /\ todo # <<>> /\ Rest(todo, todo') /\ 1 \in 1 .. Len(todo)
         /\ modes' = modes /\ recording' = recording /\ overtook' = overtook
         /\ todo[1] \in Entry
         /\ todo[1].op # "inactive" => todo[1].file \in 1 .. Len(files)
         /\ todo[1].op = "add" => ApplyAdd(todo[1].file)
         /\ todo[1].op = "close" => ApplyClose(todo[1].file)
         /\ todo[1].op = "write" => ApplyWrite(todo[1].file, todo[1].notify)
         /\ todo[1].op = "inactive" => ApplyInactive
<1>1. /\ todo # <<>> /\ todo' = Tail(todo) /\ modes' = modes /\ recording' = recording
      /\ overtook' = overtook
  BY DEF Deliver, Idle
<1>2. todo \in Seq(Entry) /\ Kept(overtook, modes, files, list, todo) BY InvFacts
<1>3. Rest(todo, todo') /\ 1 \in 1 .. Len(todo) BY <1>1, <1>2, TailRest
<1>4. todo[1] \in Entry BY <1>3 DEF Rest
<1>5. CASE todo[1].op = "add"
  <2>1. ApplyAdd(todo[1].file) BY <1>5, Zenon DEF Deliver
  <2>2. todo[1].file \in Announced(list, todo) BY <1>3, <1>5 DEF Announced
  <2>3. todo[1].file \in 1 .. Len(files) BY <1>2, <2>2 DEF Kept, DeferredOK
  <2> QED BY <1>1, <1>3, <1>4, <1>5, <2>1, <2>3
<1>6. ASSUME todo[1].op \in {"close", "write"} PROVE todo[1].file \in 1 .. Len(files)
  BY <1>2, <1>3, <1>6 DEF Kept, OpenOK
<1>7. CASE todo[1].op = "close"
  <2>1. ApplyClose(todo[1].file) BY <1>7 DEF Deliver
  <2> QED BY <1>1, <1>3, <1>4, <1>6, <1>7, <2>1
<1>8. CASE todo[1].op = "write"
  <2>1. ApplyWrite(todo[1].file, todo[1].notify) BY <1>8 DEF Deliver
  <2> QED BY <1>1, <1>3, <1>4, <1>6, <1>8, <2>1
<1>9. CASE todo[1].op = "inactive"
  <2>1. ApplyInactive BY <1>9 DEF Deliver
  <2> QED BY <1>1, <1>3, <1>4, <1>9, <2>1
<1> QED BY <1>4, <1>5, <1>7, <1>8, <1>9, EntryTypes

(* One file is written to or closed: it keeps its place.                    *)
Changed(F, G, f) ==
    /\ G \in Seq(File) /\ Len(G) = Len(F) /\ SamePlaces(F, G) /\ Sized(G)
    /\ Touched(F, G, f) /\ \A g \in 1 .. Len(F) : g # f => G[g] = F[g]

LEMMA OneChanged ==
  ASSUME NEW F \in Seq(File), Sized(F), NEW f \in 1 .. Len(F), NEW x \in File,
         x.mode = F[f].mode, x.num = F[f].num, x.pauseNum = F[f].pauseNum,
         x.paused = F[f].paused, x.active => F[f].active, x.seen <= x.size
  PROVE  Changed(F, [F EXCEPT ![f] = x], f) /\ [F EXCEPT ![f] = x][f] = x
<1> DEFINE G == [F EXCEPT ![f] = x]
<1>1. /\ G \in Seq(File) /\ Len(G) = Len(F)
      /\ \A g \in 1 .. Len(F) : G[g] = IF g = f THEN x ELSE F[g]
  BY ExceptSeq
<1> HIDE DEF G
<1>2. G[f] = x /\ \A g \in 1 .. Len(F) : g # f => G[g] = F[g] BY <1>1
<1>3. SamePlaces(F, G)
  <2> SUFFICES ASSUME NEW g \in 1 .. Len(F)
               PROVE  /\ g \in 1 .. Len(G) /\ G[g].mode = F[g].mode
                      /\ G[g].num = F[g].num /\ G[g].pauseNum = F[g].pauseNum
                      /\ G[g].paused = F[g].paused
    BY DEF SamePlaces
  <2>1. CASE g = f BY <1>1, <1>2, <2>1
  <2>2. CASE g # f BY <1>1, <1>2, <2>2
  <2> QED BY <2>1, <2>2
<1>4. Sized(G)
  <2> SUFFICES ASSUME NEW g \in 1 .. Len(F) PROVE G[g].seen <= G[g].size
    BY <1>1 DEF Sized
  <2>1. CASE g = f BY <1>2, <2>1
  <2>2. CASE g # f BY <1>2, <2>2 DEF Sized
  <2> QED BY <2>1, <2>2
<1>5. Touched(F, G, f) BY <1>2 DEF Touched, Alike
<1>6. Changed(F, G, f) BY <1>1, <1>2, <1>3, <1>4, <1>5 DEF Changed
<1> QED BY <1>2, <1>6 DEF G

(* terminate(), write() and notify() of a file.                             *)
LEMMA CloseChanges ==
  ASSUME NEW f, StreamInv, f \in 1 .. Len(files), ApplyClose(f)
  PROVE  Changed(files, files', f) /\ ~files'[f].active
<1> DEFINE a == files[f]
           s == IF runActive THEN "RUN_EOF" ELSE "END_RUN"
           n == a.size + 1
           x == [a EXCEPT !.active = FALSE, !.size = n, !.status = s]
<1>1. files \in Seq(File) /\ Sized(files) BY InvFacts
<1>2. a \in File /\ a.size \in Nat /\ a.seen \in Nat /\ a.seen <= a.size
  BY <1>1, ElementOfSeq, FileTypes DEF Sized
<1>3. files' = [files EXCEPT ![f] = x] BY DEF ApplyClose
<1> HIDE DEF a
<1>4. s \in {"none", "RUN_EOF", "END_RUN"} BY DEF s
<1>8. n \in Nat /\ a.seen <= n BY <1>2
<1> HIDE DEF s, n
<1>5. /\ x \in File /\ x.active = FALSE /\ x.size = n /\ x.seen = a.seen
      /\ x.mode = a.mode /\ x.num = a.num /\ x.pauseNum = a.pauseNum
      /\ x.paused = a.paused
  BY <1>2, <1>4, <1>8 DEF File
<1> HIDE DEF x
<1>6. x.seen <= x.size BY <1>5, <1>8
<1>7. Changed(files, [files EXCEPT ![f] = x], f) /\ [files EXCEPT ![f] = x][f] = x
  <2>1. /\ x.mode = files[f].mode /\ x.num = files[f].num /\ x.pauseNum = files[f].pauseNum
        /\ x.paused = files[f].paused /\ x.active = FALSE
    BY <1>5 DEF a
  <2> QED BY <1>1, <1>5, <1>6, <2>1, OneChanged
<1> QED BY <1>3, <1>5, <1>7

LEMMA GrowthChanges ==
  ASSUME StreamInv, NEW f \in 1 .. Len(files), NEW size \in Nat, NEW seen \in Nat,
         seen <= size
  PROVE  LET G == [files EXCEPT ![f] = [files[f] EXCEPT !.size = size, !.seen = seen]]
         IN /\ Changed(files, G, f) /\ G[f].active = files[f].active
            /\ G[f].seen = seen
<1> DEFINE a == files[f]
           x == [a EXCEPT !.size = size, !.seen = seen]
<1>1. files \in Seq(File) /\ Sized(files) BY InvFacts
<1>2. a \in File BY <1>1, ElementOfSeq
<1> HIDE DEF a
<1>3. /\ x \in File /\ x.active = a.active /\ x.size = size /\ x.seen = seen
      /\ x.mode = a.mode /\ x.num = a.num /\ x.pauseNum = a.pauseNum
      /\ x.paused = a.paused
  BY <1>2 DEF File
<1> HIDE DEF x
<1>4. Changed(files, [files EXCEPT ![f] = x], f) /\ [files EXCEPT ![f] = x][f] = x
  <2>1. /\ x.mode = files[f].mode /\ x.num = files[f].num /\ x.pauseNum = files[f].pauseNum
        /\ x.paused = files[f].paused /\ x.active = files[f].active
    BY <1>3 DEF a
  <2> QED BY <1>1, <1>3, <2>1, OneChanged
<1> QED BY <1>3, <1>4 DEF x, a

LEMMA WriteChanges ==
  ASSUME NEW f, NEW notify, StreamInv, f \in 1 .. Len(files), ApplyWrite(f, notify)
  PROVE  /\ Changed(files, files', f) /\ (files'[f].active <=> files[f].active)
         /\ ~notify => Alike(files, files', f)
<1> DEFINE a == files[f]
           size == a.size + 1
           seen == IF notify THEN size ELSE a.seen
           x == [a EXCEPT !.size = size, !.seen = seen]
<1>1. files \in Seq(File) /\ Sized(files) BY InvFacts
<1>2. a \in File /\ a.size \in Nat /\ a.seen \in Nat /\ a.seen <= a.size
  BY <1>1, ElementOfSeq, FileTypes DEF Sized
<1>3. files' = [files EXCEPT ![f] = x] BY Zenon DEF ApplyWrite
<1>4. size \in Nat /\ seen \in Nat /\ seen <= size BY <1>2
<1>5. ~notify => seen = files[f].seen OBVIOUS
<1> HIDE DEF size, seen
<1>6. /\ Changed(files, files', f) /\ files'[f].active = files[f].active
      /\ files'[f].seen = seen
  BY <1>3, <1>4, GrowthChanges, ZenonT(40)
<1>7. ~notify => Alike(files, files', f)
  BY <1>5, <1>6 DEF Alike, Changed, SamePlaces
<1> QED BY <1>6, <1>7

LEMMA DeliverKept ==
  ASSUME StreamInv, Deliver
  PROVE  /\ Effect(todo[1], files, files') /\ Sized(files')
         /\ Kept(overtook, modes, files', list', todo') /\ list' \in Seq(Nat)
<1> DEFINE e == todo[1]
           f == e.file
<1>1. /\ Rest(todo, todo') /\ e \in Entry /\ (e.op # "inactive" => f \in 1 .. Len(files))
      /\ (e.op = "add" => ApplyAdd(f)) /\ (e.op = "close" => ApplyClose(f))
      /\ (e.op = "write" => ApplyWrite(f, e.notify)) /\ (e.op = "inactive" => ApplyInactive)
  BY DeliverFacts
<1>2. /\ files \in Seq(File) /\ Sized(files) /\ Kept(overtook, modes, files, list, todo)
      /\ list \in Seq(Nat)
  BY InvFacts
<1>3. SamePlaces(files, files) BY DEF SamePlaces
<1> HIDE DEF e, f
<1>4. CASE e.op = "add"
  <2>1. files' = files /\ list' = Append(list, f) BY <1>1, <1>4 DEF ApplyAdd
  <2>2. Effect(e, files, files') BY <1>2, <1>3, <1>4, <2>1 DEF Effect
  <2>3. Listed(list, e, list') BY <1>4, <2>1 DEF Listed, f
  <2> QED BY <1>1, <1>2, <2>1, <2>2, <2>3, SignalKept DEF e
<1>5. CASE e.op = "close"
  <2>1. ApplyClose(f) /\ f \in 1 .. Len(files) /\ list' = list
    BY <1>1, <1>5 DEF ApplyClose
  <2>2. Changed(files, files', f) /\ ~files'[f].active BY <2>1, CloseChanges
  <2>3. Effect(e, files, files')
    <3>1. \A g \in 1 .. Len(files) :
             files'[g].active <=> files[g].active /\ ~(e.op = "close" /\ e.file = g)
      BY <1>5, <2>2 DEF Changed, f
    <3> QED BY <2>2, <3>1 DEF Effect, Changed
  <2>4. Listed(list, e, list') BY <1>5, <2>1 DEF Listed
  <2>5. Sized(files') BY <2>2 DEF Changed
  <2> QED BY <1>1, <1>2, <2>3, <2>4, <2>5, SignalKept DEF e
<1>6. CASE e.op = "write"
  <2>1. ApplyWrite(f, e.notify) /\ f \in 1 .. Len(files) /\ list' = list
    BY <1>1, <1>6 DEF ApplyWrite
  <2>2. Changed(files, files', f) /\ (files'[f].active <=> files[f].active)
    BY <2>1, WriteChanges
  <2>3. Effect(e, files, files')
    <3>1. \A g \in 1 .. Len(files) :
             files'[g].active <=> files[g].active /\ ~(e.op = "close" /\ e.file = g)
      BY <1>6, <2>2 DEF Changed
    <3> QED BY <2>2, <3>1 DEF Effect, Changed
  <2>4. Listed(list, e, list') BY <1>6, <2>1 DEF Listed
  <2>5. Sized(files') BY <2>2 DEF Changed
  <2> QED BY <1>1, <1>2, <2>3, <2>4, <2>5, SignalKept DEF e
<1>7. CASE e.op = "inactive"
  <2>1. files' = files /\ list' = list BY <1>1, <1>7 DEF ApplyInactive
  <2>2. Effect(e, files, files') BY <1>2, <1>3, <1>7, <2>1 DEF Effect
  <2>3. Listed(list, e, list') BY <1>7, <2>1 DEF Listed
  <2> QED BY <1>1, <1>2, <2>1, <2>2, <2>3, SignalKept DEF e
<1> QED BY <1>1, <1>4, <1>5, <1>6, <1>7, EntryTypes

(* The end of a run stays the end of it while its signals are delivered.    *)
LEMMA DeliverRunOK ==
  ASSUME StreamInv, Deliver
  PROVE  RunOK'
<1>1. /\ Rest(todo, todo') /\ todo[1] \in Entry /\ modes' = modes /\ recording' = recording
      /\ todo # <<>> /\ 1 \in 1 .. Len(todo)
      /\ (todo[1].op # "inactive" => runActive' = runActive)
      /\ (todo[1].op = "inactive" => runActive' = FALSE)
  <2>1. todo[1].op \in {"add", "close", "write", "inactive"} BY DeliverFacts, EntryTypes
  <2> QED BY <2>1, DeliverFacts DEF ApplyAdd, ApplyClose, ApplyWrite, ApplyInactive
<1>2. /\ RunOK /\ runActive \in BOOLEAN /\ recording \in BOOLEAN
  BY InvFacts
<1>3. /\ Len(todo') \in Nat /\ Len(todo) = Len(todo') + 1
      /\ \A k \in 1 .. Len(todo') : k + 1 \in 1 .. Len(todo) /\ todo'[k] = todo[k + 1]
      /\ \A k \in 1 .. Len(todo) :
            k = 1 \/ (k - 1 \in 1 .. Len(todo') /\ todo'[k - 1] = todo[k])
      /\ todo' \in Seq(Entry)
  BY <1>1 DEF Rest
<1>4. runActive' \in BOOLEAN BY <1>1, <1>2
<1>5. modes # <<>> => runActive' /\ \A k \in 1 .. Len(todo') : todo'[k].op # "inactive"
  BY <1>1, <1>2, <1>3 DEF RunOK
<1>6. Ending' => Ending
  <2>1. CASE todo[1].op = "inactive" BY <1>1, <2>1 DEF Ending
  <2>2. CASE todo[1].op # "inactive"
    <3>1. runActive' = runActive BY <1>1, <2>2
    <3>2. ASSUME NEW k \in 1 .. Len(todo'), todo'[k].op = "inactive" PROVE Ending
      BY <1>3, <3>2 DEF Ending
    <3>3. ASSUME ~runActive' PROVE Ending BY <3>1, <3>3 DEF Ending
    <3> QED BY <3>2, <3>3 DEF Ending
  <2> QED BY <2>1, <2>2
<1>7. Ending => Ending'
  <2> SUFFICES ASSUME Ending PROVE Ending' OBVIOUS
  <2>1. CASE ~runActive
    <3>1. ~runActive' BY <1>1, <2>1
    <3> QED BY <3>1 DEF Ending
  <2>2. CASE todo[1].op = "inactive" BY <1>1, <2>2 DEF Ending
  <2>3. CASE runActive /\ todo[1].op # "inactive"
    <3>1. PICK k \in 1 .. Len(todo) : todo[k].op = "inactive" BY <2>3 DEF Ending
    <3>2. k - 1 \in 1 .. Len(todo') /\ todo'[k - 1].op = "inactive" BY <1>3, <2>3, <3>1
    <3> QED BY <3>2 DEF Ending
  <2> QED BY <2>1, <2>2, <2>3
<1>8. Ending' /\ todo' # <<>> => Ends(files', todo')
  <2> SUFFICES ASSUME Ending, todo' # <<>> PROVE Ends(files', todo') BY <1>6
  <2> DEFINE n == Len(todo')
  <2>1. n # 0 BY <1>3, EmptyModes
  <2>2. n \in 1 .. n BY <1>3, <2>1
  <2>3. todo'[n] = todo[Len(todo)] BY <1>3, <2>2
  <2>4. todo[Len(todo)].op = "close" /\ ~files[todo[Len(todo)].file].paused
    BY <1>1, <1>2 DEF RunOK, Ends
  <2>5. todo[Len(todo)].file \in 1 .. Len(files)
    <3>1. Len(todo) \in 1 .. Len(todo) BY <1>3
    <3> QED BY <2>4, <3>1, InvFacts DEF Kept, OpenOK
  <2>6. files'[todo[Len(todo)].file].paused = files[todo[Len(todo)].file].paused
    BY <2>5, DeliverKept DEF Effect, SamePlaces
  <2> QED BY <2>3, <2>4, <2>6 DEF Ends
<1>9. /\ modes' # <<>> => runActive' /\ \A k \in 1 .. Len(todo') : todo'[k].op # "inactive"
      /\ ~recording' /\ modes' # <<>> => ~modes'[1].paused
      /\ modes' = <<>> => ~recording' /\ Ending'
      /\ {runActive', recording'} \subseteq BOOLEAN
  <2>1. /\ ~recording /\ modes # <<>> => ~modes[1].paused
        /\ modes = <<>> => ~recording /\ Ending
    BY <1>2 DEF RunOK
  <2> HIDE DEF Ending
  <2> QED BY <1>1, <1>2, <1>4, <1>5, <1>7, <2>1
<1> HIDE DEF Ending
<1> QED BY <1>8, <1>9 DEF RunOK

LEMMA KnownList ==
  ASSUME NEW O, NEW M, NEW F, NEW L, NEW T, Kept(O, M, F, L, T)
  PROVE  Known(L, F)
<1>1. \A x \in Announced(L, T) : x \in 1 .. Len(F) BY DEF Kept, DeferredOK
<1> QED BY <1>1 DEF Announced, Known

(* Only the end of a file is the last signal of a run.                      *)
LEMMA LastSignal ==
  ASSUME StreamInv, Deliver, todo' = <<>>, ~runActive'
  PROVE  /\ todo[1].op = "close" /\ ~files[todo[1].file].paused /\ modes = <<>>
         /\ files[todo[1].file].active /\ \E j \in 1 .. Len(list) : list[j] = todo[1].file
<1>1. /\ Rest(todo, todo') /\ todo # <<>> /\ 1 \in 1 .. Len(todo) /\ RunOK
      /\ modes' = modes /\ Kept(overtook, modes, files, list, todo)
  BY DeliverFacts, InvFacts
<1>2. Len(todo) = 1
  <2>1. Len(todo') = 0 BY EmptySeq
  <2> QED BY <1>1, <2>1 DEF Rest
<1>3. Ending
  <2>1. CASE todo[1].op = "inactive" BY <1>1, <2>1 DEF Ending
  <2>2. CASE todo[1].op # "inactive"
    <3>1. todo[1].op \in {"add", "close", "write", "inactive"} BY DeliverFacts, EntryTypes
    <3>2. runActive' = runActive
      BY <2>2, <3>1, DeliverFacts DEF ApplyAdd, ApplyClose, ApplyWrite
    <3> QED BY <3>2 DEF Ending
  <2> QED BY <2>1, <2>2
<1>4. todo[1].op = "close" /\ ~files[todo[1].file].paused
  <2>1. Ends(files, todo) BY <1>1, <1>3 DEF RunOK
  <2> QED BY <1>2, <2>1 DEF Ends
<1>5. modes = <<>>
  <2>1. modes' # <<>> => runActive' BY DeliverRunOK DEF RunOK
  <2> QED BY <1>1, <2>1
<1>6. files[todo[1].file].active /\ todo[1].file \in 1 .. Len(files)
  BY <1>1, <1>4 DEF Kept, OpenOK
<1>7. todo[1].file \in Announced(list, todo)
  <2>1. Len(modes) = 0 BY <1>5, EmptySeq
  <2>2. ~\E i \in 1 .. Len(modes) : todo[1].file \in Pending(modes, i) BY <2>1
  <2> QED BY <1>1, <1>6, <2>2 DEF Kept, DeferredOK
<1>8. \E j \in 1 .. Len(list) : list[j] = todo[1].file
  <2>1. \A k \in 1 .. Len(todo) : todo[k].op # "add" BY <1>2, <1>4
  <2> QED BY <1>7, <2>1 DEF Announced
<1> QED BY <1>4, <1>5, <1>6, <1>8

LEMMA DeliverServed ==
  ASSUME StreamInv, Deliver, client.alive
  PROVE  Served(client', files', list') /\ Told(client', runActive', todo')
<1> DEFINE f == todo[1].file
<1>1. /\ todo[1].op # "inactive" => f \in 1 .. Len(files) /\ f \in Nat /\ f # NoFile
      /\ todo[1].op = "add" => ApplyAdd(f)
      /\ todo[1].op = "close" => ApplyClose(f)
      /\ todo[1].op = "write" => ApplyWrite(f, todo[1].notify)
      /\ todo[1].op = "inactive" => ApplyInactive
  <2>1. f \in 1 .. Len(files) => f \in Nat /\ f # NoFile
    <3>1. Len(files) \in Nat BY InvFacts, EmptyModes
    <3> QED BY <3>1 DEF NoFile
  <2> HIDE DEF f
  <2> QED BY <2>1, DeliverFacts DEF f
<1>2. /\ list \in Seq(Nat) /\ Known(list, files) /\ Served(client, files, list)
      /\ client \in Client
  BY InvFacts DEF Served
<1>3. files' \in Seq(File) /\ Sized(files') /\ Known(list', files')
  BY DeliverKept, KnownList DEF Kept, Typed
<1>4. todo' = <<>> /\ todo[1].op # "close" => runActive' BY LastSignal
<1>5. ASSUME Content(client', runActive') PROVE Told(client', runActive', todo')
  BY <1>5 DEF Content, Told
<1>6. ASSUME todo[1].op # "close" PROVE Told(client', runActive', todo')
  BY <1>4, <1>6 DEF Told
<1> HIDE DEF f
<1>7. CASE todo[1].op = "add"
  <2>1. /\ list' = Append(list, f) /\ files' = files /\ client' \in FileAdded(client, f)
    BY <1>1, <1>7 DEF ApplyAdd
  <2>2. Served(client, files', list) BY <1>2, <2>1
  <2>3. Known(Append(list, f), files') BY <1>3, <2>1
  <2>4. f \in Nat /\ f # NoFile BY <1>1, <1>7
  <2>5. Served(client', files', Append(list, f))
    BY <1>2, <1>3, <2>1, <2>2, <2>3, <2>4, FileAddedServed
  <2>6. Served(client', files', list') BY <2>1, <2>5
  <2> QED BY <1>6, <1>7, <2>6
<1>8. CASE todo[1].op = "close"
  <2>1. ApplyClose(f) /\ f \in 1 .. Len(files) /\ f \in Nat /\ f # NoFile
    BY <1>1, <1>8
  <2>2. list' = list /\ runActive' = runActive /\ client' \in FileUpdated(client, f)
    BY <2>1 DEF ApplyClose
  <2>3. Touched(files, files', f) BY <2>1, CloseChanges DEF Changed
  <2>4. Known(list, files') BY <1>3, <2>2
  <2>5. /\ Served(client', files', list)
        /\ Content(client', runActive') \/ (client' = client /\ client.sub # f)
    BY <1>2, <1>3, <2>1, <2>2, <2>3, <2>4, FileUpdatedServed
  <2>6. ASSUME client' = client PROVE Told(client', runActive', todo')
    <3> SUFFICES ASSUME client.files = <<>>, todo' = <<>>, ~runActive' PROVE FALSE
      BY <2>6 DEF Told
    <3>1. /\ ~files[f].paused /\ files[f].active /\ \E j \in 1 .. Len(list) : list[j] = f
      BY LastSignal DEF f
    <3>2. client.passed \o client.files = list /\ PassedOver(client, files)
      BY <1>2 DEF Served
    <3>3. \/ \E j \in 1 .. Len(client.passed) : client.passed[j] = f
          \/ \E j \in 1 .. Len(client.files) : client.files[j] = f
      BY <1>2, <3>1, <3>2, ClientFiles
    <3>4. Len(client.files) = 0 BY EmptySeq
    <3>5. ~\E j \in 1 .. Len(client.files) : client.files[j] = f BY <3>4
    <3> QED BY <3>1, <3>2, <3>3, <3>5 DEF PassedOver
  <2>7. Served(client', files', list') BY <2>2, <2>5
  <2> QED BY <1>5, <2>5, <2>6, <2>7
<1>9. CASE todo[1].op = "write"
  <2> DEFINE n == todo[1].notify
  <2>1. ApplyWrite(f, n) /\ f \in 1 .. Len(files) /\ f \in Nat /\ f # NoFile
    BY <1>1, <1>9
  <2> HIDE DEF n
  <2>2. /\ list' = list
        /\ client' \in IF n THEN FileUpdated(client, f) ELSE {client}
    BY <2>1 DEF ApplyWrite
  <2>3. Changed(files, files', f) /\ (~n => Alike(files, files', f))
    BY <2>1, WriteChanges
  <2>4. Known(list, files') BY <1>3, <2>2
  <2>5. CASE n
    <3>1. client' \in FileUpdated(client, f) /\ Touched(files, files', f)
      BY <2>2, <2>3, <2>5 DEF Changed
    <3>2. Served(client', files', list)
      BY <1>2, <1>3, <2>1, <2>4, <3>1, FileUpdatedServed
    <3>3. Served(client', files', list') BY <2>2, <3>2
    <3> QED BY <1>6, <1>9, <3>3
  <2>6. CASE ~n
    <3>1. \A g \in 1 .. Len(files) : Alike(files, files', g)
      BY <2>3, <2>6 DEF Changed, Touched
    <3>2. client' = client BY <2>2, <2>6
    <3>3. Served(client, files', list) BY <1>2, <3>1, StillServed
    <3>4. Served(client', files', list') BY <2>2, <3>2, <3>3
    <3> QED BY <1>6, <1>9, <3>4
  <2> QED BY <2>5, <2>6
<1>10. CASE todo[1].op = "inactive"
  <2>1. files' = files /\ list' = list /\ client' = client
    BY <1>1, <1>10 DEF ApplyInactive
  <2>2. Served(client', files', list') BY <1>2, <2>1
  <2> QED BY <1>6, <1>10, <2>2
<1>11. todo[1].op \in {"add", "close", "write", "inactive"} BY DeliverFacts, EntryTypes
<1> QED BY <1>7, <1>8, <1>9, <1>10, <1>11

LEMMA DeliverInv ==
  ASSUME StreamInv, Deliver
  PROVE  StreamInv'
<1>1. /\ Sized(files') /\ Kept(overtook, modes, files', list', todo') /\ list' \in Seq(Nat)
      /\ modes' = modes /\ Steady(modes) /\ RunOK' /\ overtook' = overtook
      /\ Irreflexive(overtook)
  BY DeliverKept, DeliverFacts, DeliverRunOK, InvFacts
<1>2. ContainerInv' BY <1>1 DEF ContainerInv, Sized
<1>3. Served(client', files', list') /\ Told(client', runActive', todo')
  <2>1. CASE client.alive BY <2>1, DeliverServed
  <2>2. CASE ~client.alive
    <3>1. todo[1].op \in {"add", "close", "write", "inactive"} BY DeliverFacts, EntryTypes
    <3>2. client' = client
      BY <2>2, <3>1, DeliverFacts DEF ApplyAdd, ApplyClose, ApplyWrite, ApplyInactive
    <3>3. client \in Client BY InvFacts DEF Served
    <3> QED BY <2>2, <3>2, <3>3 DEF Served, Told
  <2> QED BY <2>1, <2>2
<1> QED BY <1>2, <1>3 DEF StreamInv

LEMMA NotifyInv ==
  ASSUME StreamInv, Notify
  PROVE  StreamInv'
<1> DEFINE f == modes[1].file
<1>1. /\ Idle /\ modes # <<>> /\ modes' = modes /\ list' = list /\ todo' = todo
      /\ runActive' = runActive /\ recording' = recording /\ overtook' = overtook
      /\ client' \in IF client.alive THEN FileUpdated(client, f) ELSE {client}
  BY Zenon DEF Notify
<1>2. /\ list \in Seq(Nat) /\ Known(list, files) /\ Served(client, files, list)
      /\ files \in Seq(File) /\ Sized(files) /\ Kept(overtook, modes, files, list, todo)
      /\ Steady(modes) /\ RunOK /\ modes \in Seq(Mode) /\ Irreflexive(overtook)
  BY InvFacts
<1>3. f \in 1 .. Len(files) /\ f \in Nat /\ f # NoFile
  <2>1. Len(modes) \in Nat /\ Len(modes) # 0 /\ Len(files) \in Nat
    BY <1>1, <1>2, EmptyModes
  <2>2. 1 \in 1 .. Len(modes) /\ f # NoFile BY <1>1, <1>2, <2>1 DEF Steady
  <2>3. f \in 1 .. Len(files) BY <1>2, <2>2 DEF Kept, OpenOK
  <2> QED BY <2>1, <2>2, <2>3
<1>4. Changed(files, files', f) /\ files'[f].active = files[f].active
  <2> DEFINE a == files[f]
             s == a.size
  <2>1. a \in File /\ s \in Nat BY <1>2, <1>3, ElementOfSeq, FileTypes
  <2>2. files' = [files EXCEPT ![f] = [a EXCEPT !.seen = s]] BY Zenon DEF Notify
  <2> HIDE DEF a, f
  <2>3. [a EXCEPT !.seen = s] = [a EXCEPT !.size = s, !.seen = s] BY <2>1 DEF File
  <2>4. files' = [files EXCEPT ![f] = [files[f] EXCEPT !.size = s, !.seen = s]]
    BY <2>2, <2>3 DEF a
  <2>5. s <= s BY <2>1
  <2> HIDE DEF s
  <2> QED BY <1>3, <2>1, <2>4, <2>5, GrowthChanges
<1> HIDE DEF f
<1>5. files' \in Seq(File) /\ Len(files') = Len(files) /\ Sized(files')
      /\ Touched(files, files', f)
  BY <1>4 DEF Changed
<1>6. Kept(overtook, modes, files', list, todo)
  <2>1. Quietly(files, files')
    <3>1. \A g \in 1 .. Len(files) : files'[g].active <=> files[g].active
      BY <1>4 DEF Changed
    <3> QED BY <1>4, <3>1 DEF Quietly, Changed
  <2> QED BY <1>2, <2>1, NotifyKept
<1>7. RunOK'
  <2>1. todo = <<>> BY <1>1 DEF Idle
  <2>2. Ending' <=> Ending BY <1>1 DEF Ending
  <2> HIDE DEF Ending
  <2> QED BY <1>1, <1>2, <2>1, <2>2 DEF RunOK
<1>8. ContainerInv' BY <1>1, <1>2, <1>5, <1>6, <1>7 DEF ContainerInv, Sized
<1>9. Served(client', files', list)
  <2>1. CASE client.alive
    <3>1. client' \in FileUpdated(client, f) BY <1>1, <2>1
    <3>2. Known(list, files') BY <1>6, KnownList
    <3> QED BY <1>2, <1>3, <1>5, <2>1, <3>1, <3>2, FileUpdatedServed
  <2>2. CASE ~client.alive BY <1>1, <1>2, <2>2 DEF Served
  <2> QED BY <2>1, <2>2
<1>10. Served(client', files', list') BY <1>1, <1>9
<1>11. Told(client', runActive', todo') BY <1>1, <1>2 DEF Told, RunOK
<1> QED BY <1>8, <1>10, <1>11 DEF StreamInv

(* The steps that leave the container alone.                                *)
LEMMA ContainerUnchanged ==
  ASSUME StreamInv, UNCHANGED <<container, todo>>
  PROVE  ContainerInv' /\ files' = files /\ list' = list /\ todo' = todo
         /\ runActive' = runActive
<1>1. /\ modes' = modes /\ files' = files /\ list' = list /\ todo' = todo
      /\ runActive' = runActive /\ recording' = recording /\ overtook' = overtook
  BY DEF container
<1>2. Ending' <=> Ending BY <1>1 DEF Ending
<1>3. ContainerInv BY DEF StreamInv
<1>4. RunOK' 
  <2>1. RunOK BY <1>3 DEF ContainerInv
  <2> HIDE DEF Ending
  <2> QED BY <1>1, <1>2, <2>1 DEF RunOK
<1>5. ContainerInv' BY <1>1, <1>3, <1>4 DEF ContainerInv
<1> QED BY <1>1, <1>5

(* A client that connects when the run is over has no subscription, as no   *)
(* file is written to any more.                                             *)
LEMMA ConnectInv ==
  ASSUME StreamInv, Connect
  PROVE  StreamInv'
<1>1. Idle /\ client' = NewClient /\ UNCHANGED <<container, todo>> BY DEF Connect
<1>2. ContainerInv' /\ files' = files /\ list' = list /\ todo' = todo
      /\ runActive' = runActive
  BY <1>1, ContainerUnchanged
<1>3. /\ list \in Seq(Nat) /\ Known(list, files) /\ Kept(overtook, modes, files, list, todo) /\ RunOK
  BY InvFacts
<1> DEFINE u == IF runActive /\ list # <<>> /\ files[list[1]].active THEN list[1] ELSE NoFile
           c == [alive |-> TRUE, files |-> list, passed |-> <<>>, offset |-> 0,
                 sub |-> u, write |-> TRUE, done |-> 0]
<1>4. NewClient = c BY DEF NewClient
<1>5. list # <<>> => list[1] \in Nat /\ list[1] \in 1 .. Len(files)
  <2> SUFFICES ASSUME list # <<>> PROVE list[1] \in Nat /\ list[1] \in 1 .. Len(files)
    OBVIOUS
  <2>1. Len(list) \in Nat /\ Len(list) # 0 BY <1>3, EmptyModes
  <2>2. 1 \in 1 .. Len(list) BY <2>1
  <2> QED BY <1>3, <2>2, ElementOfSeq DEF Known
<1>6. u \in Nat BY <1>5 DEF NoFile
<1>7. ~runActive => \A f \in 1 .. Len(files) : ~files[f].active
  <2> SUFFICES ASSUME ~runActive, NEW f \in 1 .. Len(files), files[f].active PROVE FALSE
    OBVIOUS
  <2>1. modes = <<>> /\ todo = <<>> BY <1>1, <1>3 DEF RunOK, Idle
  <2>2. Len(modes) = 0 /\ Len(todo) = 0 BY <2>1, EmptySeq
  <2>3. \/ \E i \in 1 .. Len(modes) : modes[i].file = f
        \/ \E k \in 1 .. Len(todo) : todo[k].op = "close" /\ todo[k].file = f
    BY <1>3 DEF Kept, OpenOK
  <2> QED BY <2>2, <2>3
<1>8. u = IF list # <<>> /\ files[list[1]].active THEN list[1] ELSE NoFile
  BY <1>5, <1>7
<1> HIDE DEF u
<1>9. /\ c \in Client /\ c.alive /\ c.files = list /\ c.passed = <<>> /\ c.sub = u /\ c.write
  <2>1. <<>> \in Seq(Nat) /\ 0 \in Nat OBVIOUS
  <2> QED BY <1>3, <1>6, <2>1 DEF Client
<1> HIDE DEF c
<1>10. c.passed \o c.files = list BY <1>3, <1>9, ConcatEmptySeq
<1>11. Subscribed(c, files) /\ Waiting(c, files) BY <1>8, <1>9 DEF Subscribed, Waiting, At
<1>12. PassedOver(c, files)
  <2>1. Len(c.passed) = 0 BY <1>9, EmptySeq
  <2> QED BY <2>1 DEF PassedOver
<1>13. Served(c, files, list) /\ Told(c, runActive, todo)
  BY <1>9, <1>10, <1>11, <1>12 DEF Served, Told
<1>14. Served(client', files', list') /\ Told(client', runActive', todo')
  BY <1>1, <1>2, <1>4, <1>13
<1> QED BY <1>2, <1>14 DEF StreamInv

LEMMA SocketWritableInv ==
  ASSUME StreamInv, SocketWritable
  PROVE  StreamInv'
<1>1. client.alive /\ UNCHANGED <<container, todo>> /\ client' \in Writable(client)
  BY DEF SocketWritable
<1>2. ContainerInv' /\ files' = files /\ list' = list /\ todo' = todo
  BY <1>1, ContainerUnchanged
<1>3. /\ Known(list, files) /\ Served(client, files, list) /\ files \in Seq(File)
      /\ Sized(files)
  BY InvFacts
<1>4. Ready(client, files', list) BY <1>1, <1>2, <1>3 DEF Served, Ready
<1>5. \A j \in 1 .. Len(client.files) : client.files[j] \in 1 .. Len(files')
  <2>1. client \in Client /\ client.passed \o client.files = list
    BY <1>1, <1>3 DEF Served
  <2> QED BY <1>2, <1>3, <2>1, ClientFiles
<1>6. files' \in Seq(File) /\ Sized(files') BY <1>2, <1>3
<1>7. Served(client', files', list) /\ Content(client', runActive')
  BY <1>1, <1>4, <1>5, <1>6, WritableServed
<1>8. Served(client', files', list') BY <1>2, <1>7
<1>9. Told(client', runActive', todo') BY <1>7 DEF Content, Told
<1> QED BY <1>2, <1>8, <1>9 DEF StreamInv

LEMMA ReadableInv ==
  ASSUME StreamInv, Readable
  PROVE  StreamInv'
<1>1. client' = NoClient /\ UNCHANGED <<container, todo>> BY DEF Readable
<1>2. ContainerInv' BY <1>1, ContainerUnchanged
<1>3. Served(NoClient, files', list') /\ Content(NoClient, runActive') BY NobodyServed
<1>4. Served(client', files', list') /\ Told(client', runActive', todo')
  BY <1>1, <1>3 DEF Content, Told
<1> QED BY <1>2, <1>4 DEF StreamInv

(* The first file of a run is announced and open.                           *)
LEMMA InitInv == Init => StreamInv
<1> SUFFICES ASSUME Init PROVE StreamInv OBVIOUS
<1> DEFINE m == [num |-> 1, numFiles |-> 1, numPauseFiles |-> 0,
                 paused |-> FALSE, file |-> 1, pending |-> <<>>]
           x == [mode |-> 1, num |-> 1, pauseNum |-> 0, paused |-> FALSE,
                 size |-> 1, seen |-> 0, active |-> TRUE, status |-> "none"]
<1>1. /\ modes = <<m>> /\ files = <<x>> /\ list = <<1>> /\ runActive = TRUE
      /\ recording = TRUE /\ todo = <<>> /\ client = NoClient
  BY DEF Init
<1>2. /\ m \in Mode /\ m.num = 1 /\ m.numFiles = 1 /\ m.paused = FALSE /\ m.file = 1
      /\ m.pending = <<>>
  <2>1. <<>> \in Seq(Nat) OBVIOUS
  <2> QED BY <2>1 DEF Mode
<1>3. /\ x \in File /\ x.mode = 1 /\ x.num = 1 /\ x.paused = FALSE /\ x.active = TRUE
      /\ x.size = 1 /\ x.seen = 0
  BY DEF File
<1> HIDE DEF m, x
<1>4. /\ modes \in Seq(Mode) /\ Len(modes) = 1 /\ modes[1] = m /\ modes # <<>>
      /\ files \in Seq(File) /\ Len(files) = 1 /\ files[1] = x
      /\ list \in Seq(Nat) /\ Len(list) = 1 /\ list[1] = 1
      /\ todo \in Seq(Entry) /\ Len(todo) = 0
  BY <1>1, <1>2, <1>3
<1>5. Announced(list, todo) = {1}
  <2>1. \A k \in 1 .. Len(todo) : FALSE BY <1>4
  <2>2. {todo[k].file : k \in {k \in 1 .. Len(todo) : todo[k].op = "add"}} = {} BY <2>1
  <2>3. {list[j] : j \in 1 .. Len(list)} = {1} BY <1>4
  <2> QED BY <2>2, <2>3 DEF Announced
<1>6. InOrder(overtook, files, list, todo)
  <2>1. \A j, k \in 1 .. Len(list) : ~(j < k) BY <1>4
  <2>2. \A k \in 1 .. Len(todo) : FALSE BY <1>4
  <2> QED BY <2>1, <2>2 DEF InOrder
<1>7. ModesOK(modes, files)
  <2>1. \A i \in 1 .. Len(modes) : modes[i] = m BY <1>4
  <2>2. \A i, j \in 1 .. Len(modes) : ~(i < j) BY <1>4
  <2>3. \A f \in 1 .. Len(files) : files[f] = x BY <1>4
  <2>4. \A i \in 1 .. Len(modes), f \in 1 .. Len(files) :
           /\ files[f].paused = modes[i].paused /\ ~modes[i].paused
           /\ files[f].num <= modes[i].numFiles
    <3>1. x.paused = m.paused /\ ~m.paused BY ONLY <1>2, <1>3, Zenon
    <3>2. x.num <= m.numFiles BY ONLY <1>2, <1>3
    <3> QED BY ONLY <2>1, <2>3, <3>1, <3>2
  <2>5. \A i \in 1 .. Len(modes) : modes[i].num > 0 BY <1>2, <2>1
  <2>6. \A f \in 1 .. Len(files) : files[f].mode <= modes[1].num
    BY <1>2, <1>3, <1>4, <2>3
  <2> QED BY ONLY <2>2, <2>4, <2>5, <2>6 DEF ModesOK
<1>8. Len(<<>>) = 0 BY EmptySeq
<1>9. DeferredOK(overtook, modes, files, list, todo)
  <2>1. \A i \in 1 .. Len(modes) : modes[i].pending = <<>> BY <1>2, <1>4
  <2>2. \A i \in 1 .. Len(modes) : \A k \in 1 .. Len(modes[i].pending) : FALSE
    BY <1>8, <2>1
  <2>3. \A i \in 1 .. Len(modes) :
           Ordered(files, modes[i].pending)
           /\ AllBefore(overtook, files, Announced(list, todo), modes[i].pending)
    BY <2>2 DEF Ordered, AllBefore
  <2>4. \A y \in Announced(list, todo) :
           y \in 1 .. Len(files) /\ files[y].mode <= modes[Len(modes)].num
    BY <1>2, <1>3, <1>4, <1>5
  <2>5. \A f \in 1 .. Len(files) : f \in Announced(list, todo) BY <1>4, <1>5
  <2>6. \A y \in Announced(list, todo) :
           /\ y \in 1 .. Len(files)
           /\ \A i \in 1 .. Len(modes) : NoLater(overtook, files, y, modes[i])
    BY <1>4, <2>4 DEF NoLater
  <2> QED BY <2>2, <2>3, <2>5, <2>6 DEF DeferredOK
<1>10. OpenOK(modes, files, todo)
  <2>1. \A k \in 1 .. Len(todo) : FALSE BY <1>4
  <2>2. \A i \in 1 .. Len(modes) : /\ modes[i].file \in 1 .. Len(files)
                                    /\ files[modes[i].file].mode = modes[i].num
                                    /\ files[modes[i].file].active
    BY <1>2, <1>3, <1>4
  <2>3. \A f \in 1 .. Len(files) : \E i \in 1 .. Len(modes) : modes[i].file = f
    BY <1>2, <1>4
  <2> QED BY <2>1, <2>2, <2>3 DEF OpenOK
<1>11. Kept(overtook, modes, files, list, todo)
  BY <1>4, <1>6, <1>7, <1>9, <1>10 DEF Kept, Typed
<1>12. Steady(modes) BY <1>2, <1>4 DEF Steady, NoFile
<1>13. RunOK
  <2>1. ~Ending BY <1>1, <1>4 DEF Ending
  <2>2. \A k \in 1 .. Len(todo) : FALSE BY <1>4
  <2> HIDE DEF Ending
  <2> QED BY <1>1, <1>4, <2>1, <2>2 DEF RunOK
<1>14. \A f \in 1 .. Len(files) : files[f].seen <= files[f].size BY <1>3, <1>4
<1>17. Irreflexive(overtook) BY DEF Init, Irreflexive
<1>15. ContainerInv BY <1>4, <1>11, <1>12, <1>13, <1>14, <1>17 DEF ContainerInv
<1>16. Served(client, files, list) /\ Told(client, runActive, todo)
  BY <1>1, NobodyServed DEF Content, Told
<1> QED BY <1>15, <1>16 DEF StreamInv

LEMMA StreamStep == StreamInv /\ [Next]_vars => StreamInv'
<1> SUFFICES ASSUME StreamInv, [Next]_vars PROVE StreamInv' OBVIOUS
<1>1. CASE AddPacket BY <1>1, AddPacketInv
<1>2. CASE Pause BY <1>2, PauseInv
<1>3. CASE Resume BY <1>3, ResumeInv
<1>4. CASE RunStop BY <1>4, RunStopInv
<1>5. CASE Terminate BY <1>5, TerminateInv
<1>6. CASE Deliver BY <1>6, DeliverInv
<1>7. CASE Notify BY <1>7, NotifyInv
<1>8. CASE Connect BY <1>8, ConnectInv
<1>9. CASE SocketWritable BY <1>9, SocketWritableInv
<1>10. CASE Readable BY <1>10, ReadableInv
<1>11. CASE UNCHANGED vars
  <2>1. UNCHANGED <<container, todo>> /\ client' = client BY <1>11 DEF vars, container
  <2>2. ContainerInv' /\ files' = files /\ list' = list /\ todo' = todo
        /\ runActive' = runActive
    BY <2>1, ContainerUnchanged
  <2>3. Served(client', files', list') /\ Told(client', runActive', todo')
    BY <2>1, <2>2, InvFacts
  <2> QED BY <2>2, <2>3 DEF StreamInv
<1> QED BY <1>1, <1>2, <1>3, <1>4, <1>5, <1>6, <1>7, <1>8, <1>9, <1>10, <1>11 DEF Next

-----------------------------------------------------------------------------
(* The inductive invariant: however the packets of a run arrive, a file is  *)
(* announced or deferred, in the place it has in the run, and a client is   *)
(* subscribed to the file it is at while that file is written to.           *)
THEOREM StreamInvHolds == Spec => []StreamInv
BY InitInv, StreamStep, PTL DEF Spec

(* Files are announced in the order in which a restarted service lists      *)
(* them, whichever modes late packets kept open, but for what a mode writes *)
(* after a newer one expired in front of it (StorageContainer::newFile,     *)
(* terminateFile, getPauseModeByTime).                                      *)
THEOREM FilesAnnouncedInOrder == Spec => []AnnouncedInOrder
<1>1. StreamInv => AnnouncedInOrder
  <2> SUFFICES ASSUME StreamInv PROVE AnnouncedInOrder OBVIOUS
  <2>1. InOrder(overtook, files, list, todo) BY InvFacts DEF Kept
  <2>2. \A j, k \in 1 .. Len(list) : j < k => Precedes(overtook, files, list[j], list[k])
    BY <2>1 DEF InOrder
  <2> QED BY <2>2 DEF AnnouncedInOrder, Before, Earlier, Precedes
<1> QED BY <1>1, StreamInvHolds, PTL

(* A client that joins a run in progress neither loses nor repeats a file   *)
(* (STCClient::STCClient, fileAdded, writable).                             *)
THEOREM StreamAlwaysComplete == Spec => []StreamComplete
<1>1. StreamInv => StreamComplete BY InvFacts DEF Served, StreamComplete
<1> QED BY <1>1, StreamInvHolds, PTL

(* A client that waits for no socket waits for a signal that will come, and *)
(* one with nothing left to send has sent Data Done when the run is over    *)
(* (STCClient::fileUpdated, writable, StorageContainer::terminate).         *)
THEOREM NoWakeupMissed == Spec => []NoMissedWakeup
<1>1. StreamInv => NoMissedWakeup
  <2> SUFFICES ASSUME StreamInv, Idle, client.alive, ~client.write
               PROVE  IF client.files = <<>> THEN runActive \/ client.done > 0
                      ELSE /\ files[client.files[1]].active
                           /\ client.sub = client.files[1]
                           /\ client.offset >= files[client.files[1]].seen
    BY DEF NoMissedWakeup
  <2>1. Served(client, files, list) /\ Told(client, runActive, todo) /\ todo = <<>>
    BY InvFacts DEF Idle
  <2>2. CASE client.files = <<>> BY <2>1, <2>2 DEF Told
  <2>3. CASE client.files # <<>> BY <2>1, <2>3 DEF Served, Subscribed, Waiting, At
  <2> QED BY <2>2, <2>3
<1> QED BY <1>1, StreamInvHolds, PTL

(* When the container is closed nothing is deferred and no signal is left:  *)
(* every file of the run was announced, once (StorageContainer::terminate,  *)
(* newFile).                                                                *)
THEOREM EveryFileAnnounced == Spec => []AllFilesAnnounced
<1>1. StreamInv => AllFilesAnnounced
  <2> SUFFICES ASSUME StreamInv, todo = <<>>, modes = <<>>
               PROVE  ToSet(list) = 1 .. Len(files) /\ Len(list) = Len(files)
    BY DEF AllFilesAnnounced, Idle
  <2> DEFINE m == Len(list)
             n == Len(files)
  <2>1. /\ list \in Seq(Nat) /\ files \in Seq(File) /\ Known(list, files)
        /\ Kept(overtook, modes, files, list, todo)
    BY InvFacts
  <2>2. m \in Nat /\ n \in Nat /\ DOMAIN list = 1 .. m BY <2>1, LenProperties
  <2>3. \A f \in 1 .. n : \E j \in 1 .. m : list[j] = f
    <3>1. Len(modes) = 0 /\ Len(todo) = 0 BY EmptySeq
    <3>2. \A f \in 1 .. n : f \in Announced(list, todo)
      BY <2>1, <3>1 DEF Kept, DeferredOK
    <3> QED BY <3>1, <3>2 DEF Announced
  <2>4. \A j \in 1 .. m : list[j] \in 1 .. n BY <2>1 DEF Known
  <2>5. \A j, k \in 1 .. m : list[j] = list[k] => j = k
    <3>1. \A j, k \in 1 .. m : j < k => Precedes(overtook, files, list[j], list[k])
      BY <2>1 DEF Kept, InOrder
    <3>2. \A f \in 1 .. n : ~Precedes(overtook, files, f, f)
      <4> SUFFICES ASSUME NEW f \in 1 .. n PROVE ~Precedes(overtook, files, f, f) OBVIOUS
      <4>1. files[f] \in File BY <2>1, ElementOfSeq
      <4>2. files[f].mode \in Nat /\ files[f].num \in Nat /\ files[f].pauseNum \in Nat
        BY <4>1, FileTypes
      <4> QED BY <4>2, InvFacts DEF Earlier, Precedes, Irreflexive
    <3> SUFFICES ASSUME NEW j \in 1 .. m, NEW k \in 1 .. m, list[j] = list[k], j # k
                 PROVE  FALSE
      OBVIOUS
    <3>3. j < k \/ k < j BY <2>2
    <3>4. list[j] \in 1 .. n BY <2>4
    <3> QED BY <3>1, <3>2, <3>3, <3>4
  <2>6. ToSet(list) = 1 .. n BY <2>2, <2>3, <2>4 DEF ToSet
  <2>7. m = n
    <3>1. IsFiniteSet(1 .. m) /\ Cardinality(1 .. m) = m /\ Cardinality(1 .. n) = n
      <4>1. \A k \in Nat : /\ IsFiniteSet(1 .. k)
                            /\ Cardinality(1 .. k) = IF 1 > k THEN 0 ELSE k - 1 + 1
        BY FS_Interval
      <4>2. \A k \in Nat : (IF 1 > k THEN 0 ELSE k - 1 + 1) = k OBVIOUS
      <4> QED BY <2>2, <4>1, <4>2
    <3>2. list \in [1 .. m -> 1 .. n]
      <4>1. list = [j \in 1 .. m |-> list[j]] BY <2>1, <2>2
      <4> QED BY <2>4, <4>1
    <3> HIDE DEF m, n
    <3>3. list \in Bijection(1 .. m, 1 .. n)
      BY <2>3, <2>5, <3>2 DEF Bijection, Injection, Surjection, IsInjective
    <3>4. ExistsBijection(1 .. m, 1 .. n) BY <3>3 DEF ExistsBijection
    <3>5. Cardinality(1 .. m) = Cardinality(1 .. n) BY <3>1, <3>4, FS_Bijection
    <3> QED BY <3>1, <3>5
  <2> QED BY <2>6, <2>7
<1> QED BY <1>1, StreamInvHolds, PTL
=============================================================================
