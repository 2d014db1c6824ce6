------------------------ MODULE ContainerStackProofs ------------------------
(***************************************************************************)
(* A lookup by time stamp always ends in a container and in a pause mode,  *)
(* for every set of sources and every bound.                               *)
(*                                                                         *)
(* The argument: from the start of any range on a stack, the ranges at its *)
(* position and in front of it leave no gap.  A push splits the time at    *)
(* the start of the new range.  Closing what has expired opens no gap      *)
(* either: a range that stays behind the one found ends later than every   *)
(* range that is closed, so it takes over all of their times after its own *)
(* start.                                                                  *)
(***************************************************************************)
EXTENDS ContainerStack, TLAPS, WellFoundedInduction, FiniteSetTheorems

IsTop(S, t) == t \in S /\ \A q \in S : q.pos <= t.pos

Typed(S) == \A r \in S : r.pos \in Nat /\ r.min \in Nat /\ r.max \in Nat

\* The current range has no maximum.
TopOpen(S) == (\E t : IsTop(S, t)) /\ \A t : IsTop(S, t) => t.max = 0

\* No gap from the start of r on, at its position and in front of it.
NoGap(S) ==
  \A r \in S, ts \in Nat :
    r.min <= ts => \E q \in S : r.pos <= q.pos /\ Covers(q, ts)

RangeStack(S) == Typed(S) /\ TopOpen(S) /\ NoGap(S)

-----------------------------------------------------------------------------
(* Stacks of time ranges.                                                  *)

\* A set of natural numbers with an element has a least one.
LEMMA NatMin ==
  ASSUME NEW T \in SUBSET Nat, T # {}
  PROVE  \E x \in T : \A y \in T : x <= y
<1>1. \E x \in T : \A y \in T : ~(<<y, x>> \in OpToRel(<, Nat))
  BY NatLessThanWellFounded, WFMin
<1>2. \A x, y \in Nat : y < x => <<y, x>> \in OpToRel(<, Nat)
  <2>1. \A x, y \in Nat : y < x => <<y, x>> \in {ss \in Nat \X Nat : ss[1] < ss[2]}
    OBVIOUS
  <2> QED BY <2>1, Zenon DEF OpToRel
<1>3. \E x \in T : \A y \in T : ~(y < x)
  BY <1>1, <1>2, Zenon
<1> QED BY <1>3

\* A part of a stack that is not empty has a top and a bottom.
LEMMA TopExists ==
  ASSUME NEW S, RangeStack(S), NEW M \in SUBSET S, M # {}
  PROVE  IsTop(M, Top(M))
<1>1. PICK t : IsTop(S, t)
  BY DEF RangeStack, TopOpen
<1>2. t.pos \in Nat /\ \A r \in M : r.pos \in Nat /\ r.pos <= t.pos
  BY <1>1 DEF IsTop, RangeStack, Typed
<1> DEFINE T == {t.pos - r.pos : r \in M}
<1>3. T \in SUBSET Nat /\ T # {}
  BY <1>2
<1>4. PICK x \in T : \A y \in T : x <= y
  <2> HIDE DEF T
  <2> QED BY <1>3, NatMin
<1>5. PICK r \in M : x = t.pos - r.pos
  OBVIOUS
<1>6. ASSUME NEW q \in M PROVE q.pos <= r.pos
  <2>1. t.pos - q.pos \in T
    OBVIOUS
  <2> QED BY <2>1, <1>2, <1>4, <1>5
<1> QED BY <1>6 DEF IsTop, Top

LEMMA BottomExists ==
  ASSUME NEW S, RangeStack(S)
  PROVE  Bottom(S) \in S /\ \A q \in S : Bottom(S).pos <= q.pos
<1>1. S # {} /\ \A r \in S : r.pos \in Nat
  BY DEF RangeStack, TopOpen, Typed, IsTop
<1> DEFINE T == {r.pos : r \in S}
<1>2. T \in SUBSET Nat /\ T # {}
  BY <1>1
<1>3. PICK x \in T : \A y \in T : x <= y
  <2> HIDE DEF T
  <2> QED BY <1>2, NatMin
<1>4. PICK r \in S : x = r.pos
  OBVIOUS
<1>5. ASSUME NEW q \in S PROVE r.pos <= q.pos
  <2>1. q.pos \in T
    OBVIOUS
  <2> QED BY <2>1, <1>3, <1>4
<1> QED BY <1>5 DEF Bottom

\* Every search in a stack without gaps ends with a range.
LEMMA StackFindable ==
  ASSUME NEW S, RangeStack(S), NEW ts \in Nat, NEW ignore \in BOOLEAN
  PROVE  Findable(S, ts, ignore) /\ Find(S, ts, ignore) \in S
<1>1. Bottom(S) \in S
  BY BottomExists
<1>2. CASE ignore \/ Sawtooth(S, ts)
  <2>1. IsTop(S, Top(S))
    BY TopExists, <1>1
  <2> QED BY <1>2, <2>1 DEF Findable, Find, IsTop
<1>3. CASE ~(ignore \/ Sawtooth(S, ts))
  <2>1. Matching(S, ts) # {}
    <3>1. CASE Bottom(S).min <= ts
      BY <3>1, <1>1 DEF RangeStack, NoGap, Matching
    <3>2. CASE ~(Bottom(S).min <= ts)
      BY <3>2, <1>1, <1>3 DEF RangeStack, Typed, Sawtooth
    <3> QED BY <3>1, <3>2
  <2>2. Matching(S, ts) \in SUBSET S
    BY DEF Matching
  <2>3. Top(Matching(S, ts)) \in Matching(S, ts)
    BY <2>1, <2>2, TopExists DEF IsTop
  <2> QED BY <1>3, <2>1, <2>2, <2>3 DEF Findable, Find
<1> QED BY <1>2, <1>3

\* What a search leaves has no gap.
LEMMA SearchedStack ==
  ASSUME NEW S, RangeStack(S), NEW ts \in Nat, NEW ignore \in BOOLEAN,
         NEW check \in BOOLEAN, NEW old \in Nat, ConstantsOK
  PROVE  /\ RangeStack(Searched(S, ts, ignore, check, old))
         /\ Find(S, ts, ignore) \in Searched(S, ts, ignore, check, old)
<1> DEFINE f == Find(S, ts, ignore)
           R == S \ Expired(S, f, old)
<1>0. f \in S
  BY StackFindable
<1>1. f.pos \in Nat /\ Timeout \in Nat
  BY <1>0 DEF RangeStack, Typed, ConstantsOK
<1>2. CASE Searched(S, ts, ignore, check, old) = S
  BY <1>0, <1>2
<1>3. CASE Searched(S, ts, ignore, check, old) = R
  <2>1. f \in R /\ R \in SUBSET S
    BY <1>0, <1>1 DEF Expired
  <2>2. Typed(R)
    BY <2>1 DEF RangeStack, Typed
  <2>3. \A t : IsTop(R, t) <=> IsTop(S, t)
    <3>1. PICK t : IsTop(S, t)
      BY DEF RangeStack, TopOpen
    <3>2. \A u : IsTop(S, u) => u \in R
      BY <1>0, <1>1 DEF IsTop, Expired, RangeStack, Typed
    <3>3. \A u : IsTop(S, u) => IsTop(R, u)
      BY <3>2, <2>1 DEF IsTop
    <3>4. ASSUME NEW u, IsTop(R, u) PROVE IsTop(S, u)
      <4>1. t.pos <= u.pos /\ u \in S
        BY <3>1, <3>2, <3>4, <2>1 DEF IsTop
      <4>2. \A q \in S : q.pos <= t.pos
        BY <3>1 DEF IsTop
      <4>3. \A q \in S : q.pos \in Nat
        BY DEF RangeStack, Typed
      <4>4. t.pos \in Nat /\ u.pos \in Nat
        BY <4>1, <4>3, <3>1 DEF IsTop
      <4> QED BY <4>1, <4>2, <4>3, <4>4 DEF IsTop
    <3> QED BY <3>3, <3>4
  <2>4. TopOpen(R)
    BY <2>3 DEF RangeStack, TopOpen
  <2>5. ASSUME NEW r \in R, NEW x \in Nat, r.min <= x
        PROVE  \E q \in R : r.pos <= q.pos /\ Covers(q, x)
    <3>1. PICK q \in S : r.pos <= q.pos /\ Covers(q, x)
      BY <2>1, <2>5 DEF RangeStack, NoGap
    <3>2. CASE q \in R
      BY <3>1, <3>2
    <3>3. CASE q \notin R
      <4>1. q.pos < f.pos /\ q.max # 0 /\ q.max + Timeout <= old
        BY <3>3 DEF Expired
      <4>2. /\ q.pos \in Nat /\ q.max \in Nat
            /\ r.pos \in Nat /\ r.max \in Nat /\ r.min \in Nat
        BY <2>1 DEF RangeStack, Typed
      <4>3. r.pos < f.pos
        BY <3>1, <4>1, <4>2, <1>1
      <4>4. r.max = 0 \/ ~(r.max + Timeout <= old)
        BY <4>3 DEF Expired
      <4>5. x <= q.max
        BY <3>1, <4>1 DEF Covers
      <4>6. r.max = 0 \/ x <= r.max
        BY <4>1, <4>2, <4>4, <4>5, <1>1
      <4> QED BY <2>5, <4>2, <4>6 DEF Covers
    <3> QED BY <3>2, <3>3
  <2> QED BY <1>3, <2>1, <2>2, <2>4, <2>5 DEF RangeStack, NoGap
<1> QED BY <1>2, <1>3 DEF Searched

\* A push leaves no gap: a range without a maximum ends where the new one
\* starts.
LEMMA PushStack ==
  ASSUME NEW S, RangeStack(S), NEW r \in S, r.max = 0, NEW t \in Nat \ {0},
         NEW new, new.pos \in Nat, new.min = t, new.max = 0,
         \A q \in S : q.pos < new.pos,
         NEW e, e.pos = r.pos, e.min = r.min, e.max = t - 1
  PROVE  RangeStack((S \ {r}) \cup {e, new})
<1> DEFINE P == (S \ {r}) \cup {e, new}
<1>1. \A q \in S : q.pos \in Nat /\ q.min \in Nat /\ q.max \in Nat
  BY DEF RangeStack, Typed
<1>2. Typed(P)
  BY <1>1 DEF Typed
<1>3. \A q \in P : q = new \/ q.pos < new.pos
  OBVIOUS
<1>4. TopOpen(P)
  <2>1. IsTop(P, new)
    BY <1>1, <1>3 DEF IsTop
  <2>2. ASSUME NEW u, IsTop(P, u) PROVE u = new
    <3>1. u \in P /\ new.pos <= u.pos
      BY <2>2 DEF IsTop
    <3>2. u.pos \in Nat
      BY <3>1, <1>2 DEF Typed
    <3> QED BY <3>1, <3>2, <1>3
  <2> QED BY <2>1, <2>2 DEF TopOpen
<1>5. ASSUME NEW q \in P, NEW x \in Nat, q.min <= x
      PROVE  \E d \in P : q.pos <= d.pos /\ Covers(d, x)
  <2>1. q.pos <= new.pos
    BY <1>1, <1>3
  <2>2. CASE t <= x
    BY <2>1, <2>2 DEF Covers
  <2>3. CASE ~(t <= x)
    <3>1. PICK s \in S : s.pos = q.pos /\ s.min = q.min
      BY <1>5, <2>3
    <3>2. PICK d \in S : s.pos <= d.pos /\ Covers(d, x)
      BY <3>1, <1>5 DEF RangeStack, NoGap
    <3>3. CASE d = r
      <4>1. x <= e.max
        BY <2>3
      <4> QED BY <3>1, <3>2, <3>3, <4>1 DEF Covers
    <3>4. CASE d # r
      BY <3>1, <3>2, <3>4
    <3> QED BY <3>3, <3>4
  <2> QED BY <2>2, <2>3
<1> QED BY <1>2, <1>4, <1>5 DEF RangeStack, NoGap

\* A range replaced by one with the same bounds, and a stack of one range.
LEMMA ReplaceStack ==
  ASSUME NEW S, RangeStack(S), NEW r \in S,
         NEW e, e.pos = r.pos, e.min = r.min, e.max = r.max
  PROVE  RangeStack(Replace(S, r, e))
<1> DEFINE P == (S \ {r}) \cup {e}
<1>1. \A q \in S : q.pos \in Nat /\ q.min \in Nat /\ q.max \in Nat
  BY DEF RangeStack, Typed
<1>2. Typed(P)
  BY <1>1 DEF Typed
<1>3. TopOpen(P)
  <2>1. PICK t : IsTop(S, t)
    BY DEF RangeStack, TopOpen
  <2>2. \E u : IsTop(P, u)
    <3>1. CASE t = r
      BY <2>1, <3>1 DEF IsTop
    <3>2. CASE t # r
      BY <2>1, <3>2 DEF IsTop
    <3> QED BY <3>1, <3>2
  <2>3. ASSUME NEW u, IsTop(P, u) PROVE u.max = 0
    <3>1. PICK s \in S : s.pos = u.pos /\ s.max = u.max
      BY <2>3 DEF IsTop
    <3>2. ASSUME NEW q \in S PROVE q.pos <= s.pos
      <4>1. \E p \in P : p.pos = q.pos
        OBVIOUS
      <4> QED BY <4>1, <3>1, <2>3 DEF IsTop
    <3> QED BY <3>1, <3>2 DEF RangeStack, TopOpen, IsTop
  <2> QED BY <2>2, <2>3 DEF TopOpen
<1>4. ASSUME NEW q \in P, NEW x \in Nat, q.min <= x
      PROVE  \E d \in P : q.pos <= d.pos /\ Covers(d, x)
  <2>1. PICK s \in S : s.pos = q.pos /\ s.min = q.min
    OBVIOUS
  <2>2. PICK d \in S : s.pos <= d.pos /\ Covers(d, x)
    BY <2>1, <1>4 DEF RangeStack, NoGap
  <2> QED BY <2>1, <2>2 DEF Covers
<1> QED BY <1>2, <1>3, <1>4 DEF RangeStack, NoGap, Replace

LEMMA SingleStack ==
  ASSUME NEW r, r.pos \in Nat, r.min \in Nat, r.max = 0
  PROVE  RangeStack({r})
BY DEF RangeStack, Typed, TopOpen, NoGap, IsTop, Covers

\* What a search finds in a stack without gaps.
LEMMA FindIs ==
  ASSUME NEW S, RangeStack(S), NEW ts \in Nat, NEW ignore \in BOOLEAN
  PROVE  /\ ignore \/ Matching(S, ts) = {} => IsTop(S, Find(S, ts, ignore))
         /\ ~ignore /\ Matching(S, ts) # {} =>
              IsTop(Matching(S, ts), Find(S, ts, ignore))
<1>1. Sawtooth(S, ts) <=> Matching(S, ts) = {}
  <2>1. Findable(S, ts, FALSE)
    BY StackFindable
  <2> QED BY <2>1 DEF Findable, Sawtooth
<1>2. S # {} /\ Matching(S, ts) \in SUBSET S
  BY BottomExists DEF Matching
<1>3. CASE ignore \/ Matching(S, ts) = {}
  <2>1. Find(S, ts, ignore) = Top(S)
    BY <1>1, <1>3 DEF Find
  <2> QED BY <1>2, <1>3, <2>1, TopExists
<1>4. CASE ~ignore /\ Matching(S, ts) # {}
  <2>1. Find(S, ts, ignore) = Top(Matching(S, ts))
    BY <1>1, <1>4 DEF Find
  <2> QED BY <1>2, <1>4, <2>1, TopExists
<1> QED BY <1>3, <1>4

\* The same ranges give the same answer.
LEMMA SameFind ==
  ASSUME NEW S, RangeStack(S), NEW R, RangeStack(R),
         \A r \in S : \E q \in R : q.pos = r.pos /\ q.min = r.min /\ q.max = r.max,
         \A r \in R : \E q \in S : q.pos = r.pos /\ q.min = r.min /\ q.max = r.max,
         NEW ts \in Nat, NEW ignore \in BOOLEAN
  PROVE  Find(R, ts, ignore).pos = Find(S, ts, ignore).pos
<1> DEFINE f == Find(S, ts, ignore)
           g == Find(R, ts, ignore)
<1>1. /\ \A r \in Matching(S, ts) : \E q \in Matching(R, ts) : q.pos = r.pos
      /\ \A r \in Matching(R, ts) : \E q \in Matching(S, ts) : q.pos = r.pos
  BY DEF Matching, Covers
<1>2. f \in S /\ g \in R
  BY StackFindable
<1>3. f.pos \in Nat /\ g.pos \in Nat
  BY <1>2 DEF RangeStack, Typed
<1>4. f.pos <= g.pos /\ g.pos <= f.pos
  <2>1. CASE ignore \/ Matching(S, ts) = {}
    <3>1. IsTop(S, f) /\ IsTop(R, g)
      BY <1>1, <2>1, FindIs
    <3> HIDE DEF f, g
    <3> QED BY <3>1 DEF IsTop
  <2>2. CASE ~ignore /\ Matching(S, ts) # {}
    <3>1. IsTop(Matching(S, ts), f) /\ IsTop(Matching(R, ts), g)
      BY <1>1, <2>2, FindIs
    <3> HIDE DEF f, g
    <3> QED BY <3>1, <1>1 DEF IsTop
  <2> QED BY <2>1, <2>2
<1> QED BY <1>3, <1>4

\* After a search the same search finds the same position.
LEMMA SearchedFind ==
  ASSUME NEW S, RangeStack(S), NEW ts \in Nat, NEW ignore \in BOOLEAN,
         NEW check \in BOOLEAN, NEW old \in Nat, ConstantsOK
  PROVE  Find(Searched(S, ts, ignore, check, old), ts, ignore).pos
           = Find(S, ts, ignore).pos
<1> DEFINE R == Searched(S, ts, ignore, check, old)
           f == Find(S, ts, ignore)
           g == Find(R, ts, ignore)
<1>1. RangeStack(R) /\ f \in R
  BY SearchedStack
<1>2. R \in SUBSET S
  BY DEF Searched
<1>3. g \in R /\ f \in S
  BY <1>1, <1>2, StackFindable
<1>4. f.pos \in Nat /\ g.pos \in Nat
  BY <1>2, <1>3 DEF RangeStack, Typed
<1>5. CASE R = S
  BY <1>5
<1>6. CASE R # S
  <2>1. ignore \/ ~Sawtooth(S, ts)
    BY <1>6 DEF Searched
  <2>2. Findable(S, ts, FALSE)
    BY StackFindable
  <2>3. ignore \/ Matching(S, ts) # {}
    BY <2>1, <2>2 DEF Findable
  <2>4. CASE ignore
    <3>1. IsTop(S, f) /\ IsTop(R, g)
      BY <1>1, <2>4, FindIs
    <3> HIDE DEF f, g, R
    <3>2. f.pos <= g.pos /\ g.pos <= f.pos
      BY <3>1, <1>1, <1>2 DEF IsTop
    <3> QED BY <3>2, <1>4 DEF f, g, R
  <2>5. CASE ~ignore
    <3>1. IsTop(Matching(S, ts), f)
      BY <2>3, <2>5, FindIs
    <3>2. f \in Matching(R, ts) /\ Matching(R, ts) \in SUBSET Matching(S, ts)
      BY <3>1, <1>1, <1>2 DEF IsTop, Matching
    <3>3. IsTop(Matching(R, ts), g)
      BY <1>1, <2>5, <3>2, FindIs
    <3> HIDE DEF f, g, R
    <3>4. f.pos <= g.pos /\ g.pos <= f.pos
      BY <3>1, <3>2, <3>3 DEF IsTop
    <3> QED BY <3>4, <1>4 DEF f, g, R
  <2> QED BY <2>4, <2>5
<1> QED BY <1>5, <1>6

-----------------------------------------------------------------------------
(* Stacks of containers.                                                   *)

Good(S) ==
  /\ S \subseteq Container
  /\ RangeStack(S)
  /\ \A c \in S : RangeStack(c.modes)

\* The next cached lookup is right about the stack S.
Fresh(S, l) ==
  l.ts # -1 => /\ Findable(S, l.ts, l.ignore)
               /\ Find(S, l.ts, l.ignore).pos = l.pos

Single(S) == \E c : S = {c}

IInv ==
  /\ Good(stack)
  /\ up = {} => Single(stack)
  /\ Fresh(stack, last)
  /\ last \in Lookup
  /\ up \subseteq Sources
  /\ maxTimes \in [Sources -> Stamps]

LEMMA NewContainerOK ==
  ASSUME NEW pos \in Nat, NEW min \in Nat, NEW paused \in BOOLEAN,
         NEW run \in BOOLEAN
  PROVE  /\ NewContainer(pos, min, paused, run) \in Container
         /\ RangeStack(NewContainer(pos, min, paused, run).modes)
<1> DEFINE m == [pos |-> 1, min |-> min, max |-> 0, paused |-> paused]
<1>1. m \in Mode /\ m.pos \in Nat /\ m.min \in Nat /\ m.max = 0
  BY DEF Mode
<1>2. RangeStack({m})
  <2> HIDE DEF m
  <2> QED BY <1>1, SingleStack
<1>3. NewContainer(pos, min, paused, run).modes = {m}
  BY DEF NewContainer
<1>4. NewContainer(pos, min, paused, run) \in Container
  BY <1>1 DEF NewContainer, Container
<1> QED BY <1>2, <1>3, <1>4

\* A container whose pause modes change keeps its place and its bounds.
SameRange(c, d) ==
  d \in Container /\ d.pos = c.pos /\ d.min = c.min /\ d.max = c.max
    /\ RangeStack(d.modes)

LEMMA PushModeOK ==
  ASSUME NEW c \in Container, RangeStack(c.modes), NEW t \in Nat \ {0},
         NEW paused \in BOOLEAN
  PROVE  SameRange(c, PushMode(c, t, paused))
<1> DEFINE m == Top(c.modes)
           new == [pos |-> m.pos + 1, min |-> t, max |-> 0, paused |-> paused]
           e == [m EXCEPT !.max = t - 1]
           M == (c.modes \ {m}) \cup {e, new}
<1>1. IsTop(c.modes, m)
  <2>1. c.modes # {}
    BY BottomExists
  <2> QED BY <2>1, TopExists
<1>2. m \in c.modes /\ m.max = 0 /\ c.modes \in SUBSET Mode
  BY <1>1 DEF RangeStack, TopOpen, IsTop, Container
<1>3. m \in Mode /\ m.pos \in Nat
  BY <1>2 DEF Mode
<1>4. /\ e.pos = m.pos /\ e.min = m.min /\ e.max = t - 1
      /\ new.pos = m.pos + 1 /\ new.min = t /\ new.max = 0
  <2> HIDE DEF m
  <2> QED BY <1>3 DEF Mode
<1>5. \A q \in c.modes : q.pos < new.pos
  <2>1. \A q \in c.modes : q.pos \in Nat /\ q.pos <= m.pos
    BY <1>1 DEF IsTop, RangeStack, Typed
  <2> QED BY <2>1, <1>3
<1>6. RangeStack(M)
  <2> HIDE DEF m, e, new
  <2> QED BY <1>2, <1>3, <1>4, <1>5, PushStack
<1>7. e \in Mode /\ new \in Mode
  <2> HIDE DEF m
  <2> QED BY <1>3 DEF Mode
<1>8. PushMode(c, t, paused) = [c EXCEPT !.modes = M]
  BY DEF PushMode, Push
<1>9. M \in SUBSET Mode
  BY <1>2, <1>7
<1> HIDE DEF M
<1> QED BY <1>6, <1>8, <1>9 DEF SameRange, Container

LEMMA ResumedOK ==
  ASSUME NEW c \in Container, RangeStack(c.modes), NEW t \in Nat \ {0}
  PROVE  SameRange(c, Resumed(c, t))
BY PushModeOK DEF Resumed, SameRange

LEMMA SearchModesOK ==
  ASSUME NEW c \in Container, RangeStack(c.modes), NEW ts \in Nat,
         NEW ignore \in BOOLEAN, NEW check \in BOOLEAN, NEW old \in Nat
  PROVE  SameRange(c, SearchModes(c, ts, ignore, check, old))
<1> DEFINE M == Searched(c.modes, ts, ignore, check, old)
<1>1. RangeStack(M)
  BY ConstantsOK, SearchedStack
<1>2. M \in SUBSET Mode
  BY DEF Searched, Container
<1>3. SearchModes(c, ts, ignore, check, old) = [c EXCEPT !.modes = M]
  BY DEF SearchModes
<1> HIDE DEF M
<1> QED BY <1>1, <1>2, <1>3 DEF SameRange, Container

\* Searches see no difference when one container is replaced by another of
\* the same range.
SameSearch(S, R) ==
  \A ts \in Nat, ignore \in BOOLEAN :
    Find(R, ts, ignore).pos = Find(S, ts, ignore).pos

LEMMA ReplaceOK ==
  ASSUME NEW S, Good(S), NEW c \in S, NEW d, SameRange(c, d)
  PROVE  /\ Good(Replace(S, c, d)) /\ d \in Replace(S, c, d)
         /\ SameSearch(S, Replace(S, c, d))
         /\ Single(S) => Single(Replace(S, c, d))
<1> DEFINE R == Replace(S, c, d)
<1>1. RangeStack(R) /\ R \subseteq Container /\ d \in R
  BY ReplaceStack DEF Good, SameRange, Replace
<1>2. \A e \in R : RangeStack(e.modes)
  BY DEF Good, SameRange, Replace
<1>3. /\ \A r \in S : \E q \in R : q.pos = r.pos /\ q.min = r.min /\ q.max = r.max
      /\ \A r \in R : \E q \in S : q.pos = r.pos /\ q.min = r.min /\ q.max = r.max
  BY DEF SameRange, Replace
<1>4. SameSearch(S, R)
  <2> HIDE DEF R
  <2> QED BY <1>1, <1>3, SameFind DEF SameSearch, Good
<1>5. Single(S) => Single(R)
  BY DEF Single, Replace
<1> QED BY <1>1, <1>2, <1>4, <1>5 DEF Good

LEMMA CurrentOK ==
  ASSUME NEW S, Good(S)
  PROVE  IsTop(S, Top(S)) /\ Top(S) \in S /\ Top(S).max = 0 /\ Top(S).pos \in Nat
<1>1. S # {}
  BY BottomExists DEF Good
<1>2. IsTop(S, Top(S))
  BY <1>1, TopExists DEF Good
<1> QED BY <1>2 DEF Good, RangeStack, TopOpen, IsTop, Typed

\* What a new container in front of, or in place of, an old one leaves.
Ended(S, e) ==
  /\ Good(e.stack)
  /\ up = {} => Single(e.stack)
  /\ e.reset \in BOOLEAN
  /\ ~e.reset => SameSearch(S, e.stack)

\* endCurrentContainer() and startContainer().
LEMMA EndAndStartOK ==
  ASSUME NEW S, Good(S), NEW c \in S, c.max = 0,
         up = {} => Single(S),
         NEW newStart \in Nat \ {0}, NEW terminate \in BOOLEAN, NEW min \in Nat,
         terminate => min = c.min, ~terminate => min = newStart,
         NEW paused \in BOOLEAN, NEW run \in BOOLEAN
  PROVE  Ended(S, EndAndStart(S, c, newStart, terminate, min, paused, run))
<1> DEFINE e == EndAndStart(S, c, newStart, terminate, min, paused, run)
<1> SUFFICES Ended(S, e)
  OBVIOUS
<1>0. c \in Container /\ c.pos \in Nat /\ c.min \in Nat
  BY DEF Good, Container
<1>1. CASE terminate \/ up = {}
  <2> DEFINE n == NewContainer(c.pos, min, paused, run)
  <2>1. e.stack = Replace(S, c, n) /\ e.reset = FALSE
    BY <1>1 DEF EndAndStart
  <2> HIDE DEF e
  <2>2. n \in Container /\ RangeStack(n.modes)
    BY <1>0, NewContainerOK
  <2>3. n.pos = c.pos /\ n.min = min /\ n.max = 0
    BY DEF NewContainer
  <2> HIDE DEF n
  <2>4. CASE up = {}
    <3>1. S = {c} /\ Replace(S, c, n) = {n}
      BY <2>4 DEF Single, Replace
    <3>2. RangeStack({n})
      BY <2>3, <1>0, SingleStack
    <3>3. Good({n})
      BY <2>2, <3>2 DEF Good
    <3>4. SameSearch({c}, {n})
      <4>1. \A ts \in Nat, ignore \in BOOLEAN :
              Find({n}, ts, ignore) \in {n} /\ Find({c}, ts, ignore) \in {c}
        BY <3>1, <3>2, StackFindable DEF Good
      <4> QED BY <4>1, <2>3 DEF SameSearch
    <3> QED BY <2>1, <3>1, <3>3, <3>4 DEF Single, Ended
  <2>5. CASE up # {}
    <3>1. SameRange(c, n)
      BY <1>1, <2>2, <2>3, <2>5 DEF SameRange
    <3> QED BY <2>1, <2>5, <3>1, ReplaceOK DEF Ended
  <2> QED BY <2>4, <2>5
<1>2. CASE ~(terminate \/ up = {})
  <2> DEFINE n == NewContainer(Top(S).pos + 1, min, paused, run)
             d == [c EXCEPT !.max = newStart - 1]
             R == (S \ {c}) \cup {d, n}
  <2>1. e.stack = R /\ e.reset = TRUE
    BY <1>2 DEF EndAndStart, Push
  <2> HIDE DEF e
  <2>2. IsTop(S, Top(S)) /\ Top(S).pos \in Nat
    BY CurrentOK
  <2>3. n \in Container /\ RangeStack(n.modes)
    <3>1. Top(S).pos + 1 \in Nat
      BY <2>2
    <3> QED BY <3>1, NewContainerOK
  <2>4. n.pos = Top(S).pos + 1 /\ n.min = newStart /\ n.max = 0
    BY <1>2 DEF NewContainer
  <2>5. /\ d \in Container /\ d.modes = c.modes
        /\ d.pos = c.pos /\ d.min = c.min /\ d.max = newStart - 1
    BY <1>0 DEF Container
  <2>6. n.pos \in Nat /\ \A q \in S : q.pos < n.pos
    <3>1. \A q \in S : q.pos \in Nat /\ q.pos <= Top(S).pos
      BY <2>2 DEF IsTop, Good, RangeStack, Typed
    <3> HIDE DEF n
    <3> QED BY <3>1, <2>2, <2>4
  <2>7. RangeStack(R)
    <3> HIDE DEF n, d
    <3> QED BY <2>4, <2>5, <2>6, PushStack DEF Good
  <2>8. R \subseteq Container /\ \A q \in R : RangeStack(q.modes)
    <3> HIDE DEF n, d
    <3> QED BY <2>3, <2>5 DEF Good
  <2> HIDE DEF R
  <2> QED BY <1>2, <2>1, <2>7, <2>8 DEF Good, Ended
<1> QED BY <1>1, <1>2

\* findContainerByTime(): what it leaves is good, and the cached lookup is
\* right about it.
LEMMA LookupOK ==
  ASSUME Good(stack), Fresh(stack, last), last \in Lookup,
         NEW ts \in Nat, NEW ignore \in BOOLEAN, NEW check \in BOOLEAN,
         NEW old \in Nat,
         NEW f, f = FindContainerByTime(ts, ignore, check, old)
  PROVE  /\ f.c \in f.stack /\ f.stack \in SUBSET stack
         /\ Good(f.stack) /\ Fresh(f.stack, f.last) /\ f.last \in Lookup
<1>0. RangeStack(stack)
  BY DEF Good
<1>1. CASE CacheHit(ts, ignore, check)
  <2>1. f.c = At(stack, last.pos) /\ f.stack = stack /\ f.last = last
    BY <1>1 DEF FindContainerByTime
  <2>2. last.ts = ts /\ last.ignore = ignore
    BY <1>1 DEF CacheHit
  <2>3. Find(stack, ts, ignore).pos = last.pos
    BY <2>2 DEF Fresh
  <2>4. Find(stack, ts, ignore) \in stack
    BY <1>0, StackFindable
  <2>5. At(stack, last.pos) \in stack
    BY <2>3, <2>4 DEF At
  <2> QED BY <2>1, <2>5
<1>2. CASE ~CacheHit(ts, ignore, check)
  <2> DEFINE c == Find(stack, ts, ignore)
             S == Searched(stack, ts, ignore, check, old)
             l == [ts |-> ts, ignore |-> ignore, check |-> check, pos |-> c.pos]
  <2>1. f.c = c /\ f.stack = S /\ f.last = l
    BY <1>2 DEF FindContainerByTime
  <2>2. RangeStack(S) /\ c \in S
    BY <1>0, ConstantsOK, SearchedStack
  <2>3. S \in SUBSET stack
    BY DEF Searched
  <2>4. Good(S)
    BY <2>2, <2>3 DEF Good
  <2>5. Find(S, ts, ignore).pos = c.pos
    BY <1>0, ConstantsOK, SearchedFind
  <2>6. Findable(S, ts, ignore)
    BY <2>2, StackFindable
  <2>7. l \in Lookup
    <3>1. c.pos \in Nat
      BY <2>2, <2>3 DEF Good, RangeStack, Typed
    <3> HIDE DEF c
    <3> QED BY <3>1 DEF Lookup
  <2>8. Fresh(S, l)
    <3> HIDE DEF S, c
    <3> QED BY <2>5, <2>6 DEF Fresh
  <2> HIDE DEF S, c, l
  <2> QED BY <2>1, <2>2, <2>3, <2>4, <2>7, <2>8
<1> QED BY <1>1, <1>2

\* A cached lookup stays right when searches see no difference.
LEMMA FreshKept ==
  ASSUME NEW S, NEW R, NEW l \in Lookup, Fresh(S, l), SameSearch(S, R), Good(R)
  PROVE  Fresh(R, l)
<1> SUFFICES ASSUME l.ts # -1
             PROVE  Findable(R, l.ts, l.ignore) /\ Find(R, l.ts, l.ignore).pos = l.pos
  BY DEF Fresh
<1>1. l.ts \in Nat /\ l.ignore \in BOOLEAN
  BY DEF Lookup
<1>2. Findable(R, l.ts, l.ignore)
  BY <1>1, StackFindable DEF Good
<1> QED BY <1>1, <1>2 DEF Fresh, SameSearch

LEMMA NoLookupFresh == NoLookup \in Lookup /\ \A S : Fresh(S, NoLookup)
BY DEF NoLookup, Lookup, Fresh

LEMMA OldestNewest ==
  ASSUME NEW m \in [Sources -> Stamps]
  PROVE  Oldest(m) \in Nat /\ Newest(m) \in Nat
<1>1. Timed(m) \in SUBSET Nat /\ \A t \in Timed(m) : t <= MaxTime
  BY ConstantsOK DEF Timed, Stamps
<1>2. CASE Timed(m) = {}
  BY <1>2 DEF Oldest, Newest
<1>3. CASE Timed(m) # {}
  <2>1. \E t \in Timed(m) : \A u \in Timed(m) : t <= u
    BY <1>1, <1>3, NatMin
  <2> DEFINE T == {MaxTime - t : t \in Timed(m)}
  <2>2. T \in SUBSET Nat /\ T # {}
    BY <1>1, <1>3, ConstantsOK DEF ConstantsOK
  <2>3. PICK x \in T : \A y \in T : x <= y
    <3> HIDE DEF T
    <3> QED BY <2>2, NatMin
  <2>4. PICK t \in Timed(m) : x = MaxTime - t
    OBVIOUS
  <2>5. ASSUME NEW u \in Timed(m) PROVE u <= t
    <3>1. MaxTime - u \in T
      OBVIOUS
    <3>2. MaxTime - t <= MaxTime - u
      BY <3>1, <2>3, <2>4
    <3> QED BY <3>2, <1>1, ConstantsOK DEF ConstantsOK
  <2> QED BY <1>1, <1>3, <2>1, <2>5 DEF Oldest, Newest
<1> QED BY <1>2, <1>3

LEMMA SplitOK ==
  ASSUME NEW S, Good(S), NEW c \in S, c.max = 0, up = {} => Single(S),
         NEW now \in Nat, maxTimes \in [Sources -> Stamps]
  PROVE  Ended(S, Split(S, c, now))
<1> DEFINE cut == (IF now < Newest(maxTimes) THEN now ELSE Newest(maxTimes)) + 1
           one == Cardinality(c.modes) = 1
           min == IF one THEN c.min ELSE cut
<1>1. cut \in Nat \ {0}
  BY OldestNewest
<1>2. min \in Nat /\ one \in BOOLEAN
  BY <1>1 DEF Good, Container
<1>3. IsPaused(c) \in BOOLEAN
  <2>1. c.modes \in SUBSET Mode /\ RangeStack(c.modes)
    BY DEF Good, Container
  <2>2. Top(c.modes) \in c.modes
    BY <2>1, BottomExists, TopExists DEF IsTop
  <2> QED BY <2>1, <2>2 DEF IsPaused, Mode
<1>4. Split(S, c, now) = EndAndStart(S, c, cut, one, min, IsPaused(c), FALSE)
  BY DEF Split
<1>5. (one => min = c.min) /\ (~one => min = cut)
  OBVIOUS
<1> HIDE DEF cut, one, min
<1>6. Ended(S, EndAndStart(S, c, cut, one, min, IsPaused(c), FALSE))
  BY <1>1, <1>2, <1>3, <1>5, EndAndStartOK
<1> QED BY <1>4, <1>6

-----------------------------------------------------------------------------
(* The actions keep the invariant.                                         *)

LEMMA InitIInv == Init => IInv
<1> SUFFICES ASSUME Init PROVE IInv
  OBVIOUS
<1> DEFINE n == NewContainer(1, 0, FALSE, FALSE)
<1>1. n \in Container /\ RangeStack(n.modes)
  BY NewContainerOK
<1>2. n.pos \in Nat /\ n.min \in Nat /\ n.max = 0
  BY DEF NewContainer
<1>3. stack = {n}
  BY DEF Init
<1> HIDE DEF n
<1>4. Good(stack)
  BY <1>1, <1>2, <1>3, SingleStack DEF Good
<1>5. maxTimes \in [Sources -> Stamps]
  BY ConstantsOK DEF Init, Stamps, ConstantsOK
<1> QED BY <1>3, <1>4, <1>5, NoLookupFresh DEF IInv, Init, Single

LEMMA CleanStep ==
  ASSUME IInv, NEW connected, CleanContainerStack(connected)
  PROVE  /\ Good(stack') /\ Fresh(stack', last') /\ last' \in Lookup
         /\ connected = {} \/ Single(stack) => Single(stack')
<1>1. CASE connected = {}
  <2>1. stack' = {Current} /\ last' = NoLookup
    BY <1>1 DEF CleanContainerStack
  <2>2. Current \in stack /\ Current.max = 0 /\ Current.pos \in Nat
    BY CurrentOK DEF IInv, Current
  <2>3. Current \in Container /\ Current.min \in Nat /\ RangeStack(Current.modes)
    BY <2>2 DEF IInv, Good, Container
  <2>4. RangeStack({Current})
    BY <2>2, <2>3, SingleStack
  <2> HIDE DEF Current
  <2> QED BY <2>1, <2>3, <2>4, NoLookupFresh DEF Good, Single
<1>2. CASE connected # {}
  BY <1>2 DEF CleanContainerStack, IInv
<1> QED BY <1>1, <1>2

LEMMA SourceStep ==
  ASSUME IInv,
         CheckRequired \/ \E s \in Sources : SourceUp(s) \/ SourceDown(s)
  PROVE  IInv'
<1>1. CASE CheckRequired
  BY <1>1, CleanStep DEF CheckRequired, IInv
<1>2. ASSUME NEW s \in Sources, SourceUp(s) PROVE IInv'
  BY <1>2, CleanStep DEF SourceUp, IInv
<1>3. ASSUME NEW s \in Sources, SourceDown(s) PROVE IInv'
  <2>1. maxTimes' \in [Sources -> Stamps]
    BY <1>3, ConstantsOK DEF SourceDown, IInv, Stamps, ConstantsOK
  <2> QED BY <1>3, <2>1, CleanStep DEF SourceDown, IInv
<1> QED BY <1>1, <1>2, <1>3

LEMMA AdvancedOK ==
  ASSUME IInv, NEW s \in Sources, NEW ts \in Times
  PROVE  Advanced(s, ts) \in [Sources -> Stamps]
BY DEF IInv, Advanced, Times, Stamps

\* The search of a container and of its pause modes.
LEMMA FindModeOK ==
  ASSUME IInv, NEW ts \in Nat, NEW ignore \in BOOLEAN, NEW check \in BOOLEAN,
         NEW old \in Nat,
         NEW f, f = FindContainerByTime(ts, ignore, check, old),
         NEW c, c = SearchModes(f.c, ts, ignore, check, old),
         NEW S, S = Replace(f.stack, f.c, c)
  PROVE  /\ Good(S) /\ c \in S
         /\ Fresh(S, f.last) /\ f.last \in Lookup
         /\ up = {} => Single(S)
<1>1. /\ f.c \in f.stack /\ f.stack \in SUBSET stack
      /\ Good(f.stack) /\ Fresh(f.stack, f.last) /\ f.last \in Lookup
  BY LookupOK DEF IInv
<1>2. SameRange(f.c, c)
  BY <1>1, SearchModesOK DEF Good
<1>3. /\ Good(S) /\ c \in S /\ SameSearch(f.stack, S)
      /\ Single(f.stack) => Single(S)
  BY <1>1, <1>2, ReplaceOK
<1>4. Fresh(S, f.last)
  BY <1>1, <1>3, FreshKept
<1>5. up = {} => Single(f.stack)
  BY <1>1 DEF IInv, Single
<1> QED BY <1>1, <1>3, <1>4, <1>5

LEMMA DataStep ==
  ASSUME IInv, NEW s \in Sources, NEW ts \in Times, Data(s, ts) \/ Heartbeat(s, ts)
  PROVE  IInv'
<1>0. ts \in Nat /\ Advanced(s, ts) \in [Sources -> Stamps]
  BY AdvancedOK DEF Times
<1>1. CASE Data(s, ts)
  BY <1>0, <1>1 DEF Data, IInv
<1>2. CASE Heartbeat(s, ts)
  <2> DEFINE old == Oldest(maxTimes')
             f == FindContainerByTime(ts, FALSE, TRUE, old)
             c == SearchModes(f.c, ts, FALSE, TRUE, old)
             S == Replace(f.stack, f.c, c)
  <2>1. maxTimes' = Advanced(s, ts) /\ up' = up /\ stack' = S /\ last' = f.last
    BY <1>2 DEF Heartbeat
  <2>2. old \in Nat
    BY <1>0, <2>1, OldestNewest
  <2> HIDE DEF old
  <2>3. Good(S) /\ Fresh(S, f.last) /\ f.last \in Lookup /\ (up = {} => Single(S))
    BY <1>0, <2>2, FindModeOK
  <2> HIDE DEF f, c, S
  <2> QED BY <1>0, <2>1, <2>3 DEF IInv
<1> QED BY <1>1, <1>2

LEMMA AddPacketStep ==
  ASSUME IInv, NEW ts \in Times, NEW ignore \in BOOLEAN, NEW check \in BOOLEAN,
         NEW full \in BOOLEAN, NEW now \in Wallclocks,
         AddPacket(ts, ignore, check, full, now)
  PROVE  IInv'
<1> DEFINE old == Oldest(maxTimes)
           f == FindContainerByTime(ts, ignore, check, old)
           c == SearchModes(f.c, ts, ignore, check, old)
           S == Replace(f.stack, f.c, c)
           e == Split(S, c, now)
<1>1. ts \in Nat /\ now \in Nat
  BY ConstantsOK DEF Times, ConstantsOK
<1>2. old \in Nat
  BY OldestNewest DEF IInv
<1>3. /\ Good(S) /\ c \in S
      /\ Fresh(S, f.last) /\ f.last \in Lookup
      /\ up = {} => Single(S)
  <2> HIDE DEF old
  <2> QED BY <1>1, <1>2, FindModeOK
<1>4. /\ up' = up /\ maxTimes' = maxTimes
      /\ \/ /\ c.max = 0 /\ stack' = e.stack
            /\ last' = IF e.reset THEN NoLookup ELSE f.last
         \/ stack' = S /\ last' = f.last
  BY DEF AddPacket, Splits
<1> HIDE DEF old, f, c, S
<1>5. CASE stack' = S /\ last' = f.last
  BY <1>3, <1>4, <1>5 DEF IInv
<1>6. CASE /\ c.max = 0 /\ stack' = e.stack
           /\ last' = IF e.reset THEN NoLookup ELSE f.last
  <2>1. Ended(S, e)
    BY <1>1, <1>3, <1>6, SplitOK DEF IInv
  <2> HIDE DEF e
  <2>2. Good(e.stack) /\ (up = {} => Single(e.stack)) /\ e.reset \in BOOLEAN
    BY <2>1 DEF Ended
  <2>3. CASE e.reset
    <3>1. last' = NoLookup
      BY <1>6, <2>3
    <3> QED BY <1>4, <1>6, <2>2, <3>1, NoLookupFresh DEF IInv
  <2>4. CASE ~e.reset
    <3>1. Fresh(e.stack, f.last)
      BY <1>3, <2>1, <2>2, <2>4, FreshKept DEF Ended
    <3>2. last' = f.last
      BY <1>6, <2>4
    <3> QED BY <1>3, <1>4, <1>6, <2>2, <3>1, <3>2 DEF IInv
  <2> QED BY <2>3, <2>4
<1> QED BY <1>4, <1>5, <1>6

LEMMA SavePacketStep ==
  ASSUME IInv, NEW ts \in Stamps, NEW ignore \in BOOLEAN,
         NEW full \in BOOLEAN, NEW now \in Wallclocks,
         SavePacket(ts, ignore, full, now)
  PROVE  IInv'
<1> DEFINE f == FindContainerByTime(ts, ignore, FALSE, 0)
           e == Split(stack, f.c, now)
<1>1. ts \in Nat /\ now \in Nat
  BY ConstantsOK DEF Stamps, ConstantsOK
<1>2. f.c \in f.stack /\ Fresh(f.stack, f.last) /\ f.last \in Lookup
  BY <1>1, LookupOK DEF IInv
<1>3. f.stack = stack
  BY DEF FindContainerByTime, Searched
<1>4. /\ up' = up /\ maxTimes' = maxTimes
      /\ \/ /\ f.c.max = 0 /\ stack' = e.stack
            /\ last' = IF e.reset THEN NoLookup ELSE f.last
         \/ stack' = stack /\ last' = f.last
  BY DEF SavePacket, Splits
<1> HIDE DEF f
<1>5. CASE stack' = stack /\ last' = f.last
  BY <1>2, <1>3, <1>4, <1>5 DEF IInv
<1>6. CASE /\ f.c.max = 0 /\ stack' = e.stack
           /\ last' = IF e.reset THEN NoLookup ELSE f.last
  <2>1. Ended(stack, e)
    BY <1>1, <1>2, <1>3, <1>6, SplitOK DEF IInv
  <2> HIDE DEF e
  <2>2. Good(e.stack) /\ (up = {} => Single(e.stack)) /\ e.reset \in BOOLEAN
    BY <2>1 DEF Ended
  <2>3. CASE e.reset
    <3>1. last' = NoLookup
      BY <1>6, <2>3
    <3> QED BY <1>4, <1>6, <2>2, <3>1, NoLookupFresh DEF IInv
  <2>4. CASE ~e.reset
    <3>1. Fresh(e.stack, f.last)
      BY <1>2, <1>3, <2>1, <2>2, <2>4, FreshKept DEF Ended
    <3>2. last' = f.last
      BY <1>6, <2>4
    <3> QED BY <1>2, <1>4, <1>6, <2>2, <3>1, <3>2 DEF IInv
  <2> QED BY <2>3, <2>4
<1> QED BY <1>4, <1>5, <1>6

\* A container that is resumed before it ends.
LEMMA ResumedStack ==
  ASSUME IInv, NEW t \in Times, NEW c, c = Resumed(Current, t),
         NEW S, S = Replace(stack, Current, c)
  PROVE  /\ Good(S) /\ c \in S /\ c.max = 0
         /\ up = {} => Single(S)
         /\ SameSearch(stack, S)
<1>1. Current \in stack /\ Current.max = 0
  BY CurrentOK DEF IInv, Current
<1>2. t \in Nat \ {0}
  BY ConstantsOK DEF Times, ConstantsOK
<1>3. SameRange(Current, c)
  BY <1>1, <1>2, ResumedOK DEF IInv, Good
<1> HIDE DEF Current
<1>4. Good(S) /\ c \in S /\ SameSearch(stack, S) /\ (Single(stack) => Single(S))
  BY <1>1, <1>3, ReplaceOK DEF IInv
<1> QED BY <1>1, <1>3, <1>4 DEF IInv, SameRange

LEMMA RecordingStep ==
  ASSUME IInv, NEW t \in Times, StartRecording(t) \/ StopRecording(t)
  PROVE  IInv'
<1> DEFINE c == Resumed(Current, t)
           S == Replace(stack, Current, c)
<1>1. t \in Nat \ {0} /\ t + 1 \in Nat \ {0}
  BY ConstantsOK DEF Times, ConstantsOK
<1>2. /\ Good(S) /\ c \in S /\ c.max = 0
      /\ up = {} => Single(S)
      /\ SameSearch(stack, S)
  BY ResumedStack
<1>3. CASE StartRecording(t)
  <2> DEFINE e == EndAndStart(S, c, t, FALSE, t, FALSE, TRUE)
  <2>1. stack' = e.stack /\ last' = NoLookup /\ up' = up /\ maxTimes' = maxTimes
    BY <1>3 DEF StartRecording
  <2> HIDE DEF c, S
  <2>2. Ended(S, e)
    BY <1>1, <1>2, EndAndStartOK
  <2> HIDE DEF e
  <2> QED BY <2>1, <2>2, NoLookupFresh DEF IInv, Ended
<1>4. CASE StopRecording(t)
  <2> DEFINE e == EndAndStart(S, c, t + 1, FALSE, t + 1, FALSE, FALSE)
  <2>1. /\ stack' = e.stack /\ last' = (IF e.reset THEN NoLookup ELSE last)
        /\ up' = up /\ maxTimes' = maxTimes
    BY <1>4 DEF StopRecording
  <2> HIDE DEF c, S
  <2>2. Ended(S, e)
    BY <1>1, <1>2, EndAndStartOK
  <2> HIDE DEF e
  <2>3. Good(e.stack) /\ (up = {} => Single(e.stack)) /\ e.reset \in BOOLEAN
    BY <2>2 DEF Ended
  <2>4. CASE e.reset
    <3>1. last' = NoLookup
      BY <2>1, <2>4
    <3> QED BY <2>1, <2>3, <3>1, NoLookupFresh DEF IInv
  <2>5. CASE ~e.reset
    <3>1. Fresh(S, last)
      BY <1>2, FreshKept DEF IInv
    <3>2. Fresh(e.stack, last)
      BY <2>2, <2>3, <2>5, <3>1, FreshKept DEF Ended, IInv
    <3>3. last' = last
      BY <2>1, <2>5
    <3> QED BY <2>1, <2>3, <3>2, <3>3 DEF IInv
  <2> QED BY <2>3, <2>4, <2>5
<1> QED BY <1>3, <1>4

LEMMA PauseStep ==
  ASSUME IInv, NEW t \in Times, Pause(t) \/ Resume(t)
  PROVE  IInv'
<1>1. PICK paused \in BOOLEAN :
        stack' = Replace(stack, Current, PushMode(Current, t, paused))
  BY DEF Pause, Resume
<1>2. last' = last /\ up' = up /\ maxTimes' = maxTimes
  BY DEF Pause, Resume
<1>3. Current \in stack
  BY CurrentOK DEF IInv, Current
<1>4. SameRange(Current, PushMode(Current, t, paused))
  <2>1. t \in Nat \ {0}
    BY ConstantsOK DEF Times, ConstantsOK
  <2> QED BY <1>3, <2>1, PushModeOK DEF IInv, Good
<1> HIDE DEF Current
<1>5. /\ Good(stack') /\ SameSearch(stack, stack')
      /\ Single(stack) => Single(stack')
  BY <1>1, <1>3, <1>4, ReplaceOK DEF IInv
<1>6. Fresh(stack', last)
  BY <1>5, FreshKept DEF IInv
<1> QED BY <1>2, <1>5, <1>6 DEF IInv

-----------------------------------------------------------------------------
(* An old container is closed late.                                        *)

\* Every container of S still has its place in R.
Keeps(S, R) == \A c \in S : \E d \in R : d.pos = c.pos

\* Every container of S still has its place in R, or its time-out is over by
\* the times m of the data sources.
KeepsOrLate(S, R, m) ==
  \A c \in S :
    \/ \E d \in R : d.pos = c.pos
    \/ c.max # 0 /\ \A t \in Timed(m) : c.max + Timeout <= t

\* What ClosedLate says of one step.
ClosesLate ==
  \A c \in stack :
    \/ \E d \in stack' : d.pos = c.pos
    \/ up' = {}
    \/ c.max # 0 /\ \A t \in Timed(maxTimes') : c.max + Timeout <= t

LEMMA KeepsTrans ==
  ASSUME NEW S, NEW R, NEW Q, Keeps(R, Q)
  PROVE  /\ Keeps(S, R) => Keeps(S, Q)
         /\ \A m : KeepsOrLate(S, R, m) => KeepsOrLate(S, Q, m)
<1>1. ASSUME NEW c \in S, NEW d \in R, d.pos = c.pos
      PROVE  \E q \in Q : q.pos = c.pos
  BY <1>1 DEF Keeps
<1> QED BY <1>1 DEF Keeps, KeepsOrLate

LEMMA ReplaceKeeps ==
  ASSUME NEW S, NEW c \in S, NEW d, d.pos = c.pos
  PROVE  Keeps(S, Replace(S, c, d))
BY DEF Keeps, Replace

\* A new container takes the place of the one that ends, or is in front of it.
LEMMA EndKeeps ==
  ASSUME NEW S, Good(S), NEW c \in S, NEW newStart, NEW terminate, NEW min,
         NEW paused, NEW run
  PROVE  Keeps(S, EndAndStart(S, c, newStart, terminate, min, paused, run).stack)
<1> DEFINE e == EndAndStart(S, c, newStart, terminate, min, paused, run)
<1>1. CASE terminate \/ up = {}
  <2> DEFINE n == NewContainer(c.pos, min, paused, run)
  <2>1. n.pos = c.pos
    BY DEF NewContainer
  <2>2. e.stack = Replace(S, c, n)
    BY <1>1 DEF EndAndStart
  <2> HIDE DEF n, e
  <2>3. Keeps(S, e.stack)
    BY <2>1, <2>2, ReplaceKeeps
  <2> QED BY <2>3 DEF e
<1>2. CASE ~(terminate \/ up = {})
  <2> DEFINE n == NewContainer(Top(S).pos + 1, min, paused, run)
             d == [c EXCEPT !.max = newStart - 1]
  <2>1. c \in Container
    BY DEF Good
  <2>2. d.pos = c.pos
    BY <2>1 DEF Container
  <2>3. e.stack = (S \ {c}) \cup {d, n}
    BY <1>2 DEF EndAndStart, Push
  <2> HIDE DEF n, d, e
  <2>4. Keeps(S, e.stack)
    BY <2>2, <2>3 DEF Keeps
  <2> QED BY <2>4 DEF e
<1> QED BY <1>1, <1>2

\* updateMaxDataSourceTime() finds the least time of the sources with data.
LEMMA OldestLeast ==
  ASSUME NEW m \in [Sources -> Stamps]
  PROVE  \A t \in Timed(m) : Oldest(m) \in Nat /\ t \in Nat /\ Oldest(m) <= t
<1>1. Timed(m) \in SUBSET Nat
  BY ConstantsOK DEF Timed, Stamps
<1>2. ASSUME Timed(m) # {}
      PROVE  Oldest(m) \in Timed(m) /\ \A u \in Timed(m) : Oldest(m) <= u
  <2>1. \E t \in Timed(m) : \A u \in Timed(m) : t <= u
    BY <1>1, <1>2, NatMin
  <2> QED BY <1>2, <2>1 DEF Oldest
<1> QED BY <1>1, <1>2

\* A search closes a range only when the oldest time has passed its time-out.
LEMMA SearchLate ==
  ASSUME Good(stack), Fresh(stack, last), last \in Lookup,
         NEW ts \in Nat, NEW ignore \in BOOLEAN, NEW check \in BOOLEAN,
         NEW m \in [Sources -> Stamps],
         NEW f, f = FindContainerByTime(ts, ignore, check, Oldest(m))
  PROVE  KeepsOrLate(stack, f.stack, m)
<1>1. CASE f.stack = stack
  BY <1>1 DEF KeepsOrLate
<1>2. CASE f.stack # stack
  <2> DEFINE g == Find(stack, ts, ignore)
  <2>1. f.stack = stack \ Expired(stack, g, Oldest(m))
    BY <1>2 DEF FindContainerByTime, Searched
  <2>2. ASSUME NEW c \in stack, c \notin f.stack
        PROVE  c.max # 0 /\ \A t \in Timed(m) : c.max + Timeout <= t
    <3>1. c.max # 0 /\ c.max + Timeout <= Oldest(m)
      BY <2>1, <2>2 DEF Expired
    <3>2. c.max \in Nat /\ Timeout \in Nat
      BY ConstantsOK DEF ConstantsOK, Good, Container
    <3>3. ASSUME NEW t \in Timed(m) PROVE c.max + Timeout <= t
      <4>1. Oldest(m) \in Nat /\ t \in Nat /\ Oldest(m) <= t
        BY OldestLeast
      <4> QED BY <3>1, <3>2, <4>1
    <3> QED BY <3>1, <3>3
  <2> QED BY <2>2 DEF KeepsOrLate
<1> QED BY <1>1, <1>2

LEMMA FindModeLate ==
  ASSUME IInv, NEW ts \in Nat, NEW ignore \in BOOLEAN, NEW check \in BOOLEAN,
         NEW m \in [Sources -> Stamps], Oldest(m) \in Nat,
         NEW f, f = FindContainerByTime(ts, ignore, check, Oldest(m)),
         NEW c, c = SearchModes(f.c, ts, ignore, check, Oldest(m))
  PROVE  KeepsOrLate(stack, Replace(f.stack, f.c, c), m)
<1>1. f.c \in f.stack /\ Good(f.stack)
  BY LookupOK DEF IInv
<1>2. SameRange(f.c, c)
  BY <1>1, SearchModesOK DEF Good
<1>3. Keeps(f.stack, Replace(f.stack, f.c, c))
  BY <1>1, <1>2, ReplaceKeeps DEF SameRange
<1>4. KeepsOrLate(stack, f.stack, m)
  BY SearchLate DEF IInv
<1> QED BY <1>3, <1>4, KeepsTrans

LEMMA LateStep == IInv /\ [Next]_vars => ClosesLate
<1> SUFFICES ASSUME IInv, [Next]_vars PROVE ClosesLate
  OBVIOUS
<1>0. ASSUME Keeps(stack, stack') PROVE ClosesLate
  BY <1>0 DEF Keeps, ClosesLate
<1>a. ASSUME KeepsOrLate(stack, stack', maxTimes') PROVE ClosesLate
  BY <1>a DEF KeepsOrLate, ClosesLate
<1>b. Current \in stack /\ Good(stack)
  BY CurrentOK DEF IInv, Current
<1>c. ASSUME stack' = stack PROVE ClosesLate
  BY <1>c DEF ClosesLate
<1>d. ASSUME NEW connected, up' = connected, CleanContainerStack(connected)
      PROVE  ClosesLate
  BY <1>d DEF CleanContainerStack, ClosesLate
<1>1. CASE UNCHANGED vars
  BY <1>1, <1>c DEF vars
<1>2. CASE CheckRequired
  BY <1>2, <1>d DEF CheckRequired
<1>3. ASSUME NEW s \in Sources, SourceUp(s) \/ SourceDown(s) PROVE ClosesLate
  BY <1>3, <1>d DEF SourceUp, SourceDown
<1>4. ASSUME NEW s \in Sources, NEW ts \in Times, Data(s, ts) PROVE ClosesLate
  BY <1>4, <1>c DEF Data
<1>5. ASSUME NEW s \in Sources, NEW ts \in Times, Heartbeat(s, ts) PROVE ClosesLate
  <2> DEFINE m == maxTimes'
             f == FindContainerByTime(ts, FALSE, TRUE, Oldest(m))
             c == SearchModes(f.c, ts, FALSE, TRUE, Oldest(m))
  <2>1. m = Advanced(s, ts) /\ stack' = Replace(f.stack, f.c, c)
    BY <1>5 DEF Heartbeat
  <2>2. ts \in Nat /\ m \in [Sources -> Stamps]
    BY <2>1, AdvancedOK DEF Times
  <2>3. Oldest(m) \in Nat
    BY <2>2, OldestNewest
  <2>4. KeepsOrLate(stack, Replace(f.stack, f.c, c), m)
    <3> HIDE DEF m
    <3> QED BY <2>2, <2>3, FindModeLate
  <2> HIDE DEF f, c
  <2> QED BY <2>1, <2>4, <1>a
<1>6. ASSUME NEW ts \in Times, NEW ignore \in BOOLEAN, NEW check \in BOOLEAN,
             NEW full \in BOOLEAN, NEW now \in Wallclocks,
             AddPacket(ts, ignore, check, full, now)
      PROVE  ClosesLate
  <2> DEFINE f == FindContainerByTime(ts, ignore, check, Oldest(maxTimes))
             c == SearchModes(f.c, ts, ignore, check, Oldest(maxTimes))
             S == Replace(f.stack, f.c, c)
             e == Split(S, c, now)
  <2>1. maxTimes' = maxTimes /\ (stack' = e.stack \/ stack' = S)
    BY <1>6 DEF AddPacket
  <2>2. ts \in Nat /\ maxTimes \in [Sources -> Stamps]
    BY DEF Times, IInv
  <2>3. Oldest(maxTimes) \in Nat
    BY <2>2, OldestNewest
  <2>4. KeepsOrLate(stack, S, maxTimes)
    BY <2>2, <2>3, FindModeLate
  <2>5. Good(S) /\ c \in S
    BY <2>2, <2>3, FindModeOK
  <2>6. Keeps(S, e.stack)
    <3> HIDE DEF f, c, S
    <3> QED BY <2>5, EndKeeps DEF Split
  <2>7. KeepsOrLate(stack, e.stack, maxTimes)
    <3> HIDE DEF S, e
    <3> QED BY <2>4, <2>6, KeepsTrans
  <2> HIDE DEF S, e
  <2> QED BY <2>1, <2>4, <2>7, <1>a
<1>7. ASSUME NEW ts \in Stamps, NEW ignore \in BOOLEAN, NEW full \in BOOLEAN,
             NEW now \in Wallclocks, SavePacket(ts, ignore, full, now)
      PROVE  ClosesLate
  <2> DEFINE f == FindContainerByTime(ts, ignore, FALSE, 0)
             e == Split(stack, f.c, now)
  <2>1. stack' = e.stack \/ stack' = stack
    BY <1>7 DEF SavePacket
  <2>2. ts \in Nat
    BY ConstantsOK DEF Stamps, ConstantsOK
  <2>3. f.c \in stack
    BY <2>2, LookupOK DEF IInv
  <2>4. Keeps(stack, e.stack)
    <3> HIDE DEF f
    <3> QED BY <1>b, <2>3, EndKeeps DEF Split
  <2> HIDE DEF e
  <2> QED BY <2>1, <2>4, <1>0, <1>c
<1>8. ASSUME NEW t \in Times, StartRecording(t) \/ StopRecording(t)
      PROVE  ClosesLate
  <2> DEFINE c == Resumed(Current, t)
             S == Replace(stack, Current, c)
             a == EndAndStart(S, c, t, FALSE, t, FALSE, TRUE)
             b == EndAndStart(S, c, t + 1, FALSE, t + 1, FALSE, FALSE)
  <2>1. stack' = a.stack \/ stack' = b.stack
    BY <1>8 DEF StartRecording, StopRecording
  <2>2. Good(S) /\ c \in S
    BY ResumedStack
  <2>3. t \in Nat \ {0}
    BY ConstantsOK DEF Times, ConstantsOK
  <2>4. SameRange(Current, c)
    BY <1>b, <2>3, ResumedOK DEF Good
  <2>5. Keeps(stack, S)
    <3> HIDE DEF c, Current
    <3> QED BY <1>b, <2>4, ReplaceKeeps DEF SameRange
  <2> HIDE DEF S, c
  <2>6. Keeps(S, a.stack) /\ Keeps(S, b.stack)
    BY <2>2, EndKeeps
  <2> HIDE DEF a, b
  <2>7. Keeps(stack, a.stack) /\ Keeps(stack, b.stack)
    BY <2>5, <2>6, KeepsTrans
  <2> QED BY <2>1, <2>7, <1>0
<1>9. ASSUME NEW t \in Times, Pause(t) \/ Resume(t) PROVE ClosesLate
  <2>1. PICK paused \in BOOLEAN :
          stack' = Replace(stack, Current, PushMode(Current, t, paused))
    BY <1>9 DEF Pause, Resume
  <2>2. t \in Nat \ {0}
    BY ConstantsOK DEF Times, ConstantsOK
  <2>3. SameRange(Current, PushMode(Current, t, paused))
    BY <1>b, <2>2, PushModeOK DEF Good
  <2> HIDE DEF Current
  <2>4. Keeps(stack, stack')
    BY <1>b, <2>1, <2>3, ReplaceKeeps DEF SameRange
  <2> QED BY <2>4, <1>0
<1> QED
  BY <1>1, <1>2, <1>3, <1>4, <1>5, <1>6, <1>7, <1>8, <1>9 DEF Next

-----------------------------------------------------------------------------
(* The theorems.                                                           *)

\* The inductive invariant: the container stack and every stack of pause
\* modes end in an open range and have no gap, no old container stays without
\* a connected source, and the lookup that findContainerByTime() has cached
\* is what a search of the stack would return.
THEOREM InductiveInvariant == Spec => []IInv
<1>1. IInv /\ [Next]_vars => IInv'
  <2> SUFFICES ASSUME IInv, [Next]_vars PROVE IInv'
    OBVIOUS
  <2>1. CASE UNCHANGED vars
    BY <2>1 DEF vars, IInv
  <2>2. CASE CheckRequired \/ \E s \in Sources : SourceUp(s) \/ SourceDown(s)
    BY <2>2, SourceStep
  <2>3. CASE \E s \in Sources, ts \in Times : Data(s, ts) \/ Heartbeat(s, ts)
    BY <2>3, DataStep
  <2>4. CASE \E ts \in Times, ignore, check, full \in BOOLEAN, now \in Wallclocks :
               AddPacket(ts, ignore, check, full, now)
    BY <2>4, AddPacketStep
  <2>5. CASE \E ts \in Stamps, ignore, full \in BOOLEAN, now \in Wallclocks :
               SavePacket(ts, ignore, full, now)
    BY <2>5, SavePacketStep
  <2>6. CASE \E t \in Times : StartRecording(t) \/ StopRecording(t)
    BY <2>6, RecordingStep
  <2>7. CASE \E t \in Times : Pause(t) \/ Resume(t)
    BY <2>7, PauseStep
  <2> QED BY <2>1, <2>2, <2>3, <2>4, <2>5, <2>6, <2>7 DEF Next
<1> QED BY <1>1, InitIInv, PTL DEF Spec

\* The variables of the container stack keep their types, and the stack and
\* the pause modes of its containers are never empty: front() is defined.
THEOREM TypeCorrect == Spec => []TypeOK
<1>1. IInv => TypeOK
  <2> SUFFICES ASSUME IInv PROVE TypeOK
    OBVIOUS
  <2>1. stack # {} /\ \A c \in stack : c.modes # {}
    BY BottomExists DEF IInv, Good
  <2> QED BY <2>1 DEF IInv, Good, TypeOK
<1> QED BY <1>1, InductiveInvariant, PTL

\* findContainerByTime() finds a container for every time stamp, and
\* getPauseModeByTime() finds a pause mode in every container: a packet is
\* never without a file to go to, whatever the order of the time stamps that
\* run starts, stops, pauses and data carry.
THEOREM LookupNeverFails == Spec => []AlwaysFound
<1>1. IInv => AlwaysFound
  <2> SUFFICES ASSUME IInv, NEW ts \in Stamps
               PROVE  /\ Findable(stack, ts, FALSE)
                      /\ \A c \in stack : Findable(c.modes, ts, FALSE)
    BY DEF AlwaysFound
  <2>1. ts \in Nat
    BY ConstantsOK DEF Stamps, ConstantsOK
  <2> QED BY <2>1, StackFindable DEF IInv, Good
<1> QED BY <1>1, InductiveInvariant, PTL

\* The iterator that findContainerByTime() caches is the one its search would
\* find, after every push, expiry, pause and cleaning of the stack.
THEOREM CacheNeverStale == Spec => []CacheFresh
<1>1. IInv => CacheFresh
  BY DEF IInv, Fresh, CacheFresh
<1> QED BY <1>1, InductiveInvariant, PTL

\* checkRequiredDataSources() leaves one container when no source is
\* connected, and nothing adds to it until a source connects.
THEOREM NoContainerStranded == Spec => []NoneStranded
<1>1. IInv => NoneStranded
  <2> SUFFICES ASSUME IInv, up = {} PROVE Cardinality(stack) = 1
    BY DEF NoneStranded
  <2>1. PICK c : stack = {c}
    BY DEF IInv, Single
  <2> QED BY <2>1, FS_Singleton
<1> QED BY <1>1, InductiveInvariant, PTL

\* findContainerByTime() and cleanContainerStack() close an old container only
\* when every source that has sent data has moved
\* m_container_cleanup_timeout past its end, or none is connected: late data
\* of a slow source still finds the container of its time.
THEOREM ClosedOnlyLate == Spec => ClosedLate
<1>1. IInv /\ [Next]_vars => [ClosesLate]_vars
  BY LateStep
<1>2. Spec => [][ClosesLate]_vars
  BY <1>1, InductiveInvariant, PTL DEF Spec
<1> QED BY <1>2 DEF ClosedLate, ClosesLate

=============================================================================
