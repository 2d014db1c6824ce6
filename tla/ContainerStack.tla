--------------------------- MODULE ContainerStack ---------------------------
(***************************************************************************)
(* The stack of storage containers (sms/StorageManager.cc) and the stack   *)
(* of pause modes inside each container (sms/StorageContainer.cc), both    *)
(* searched by packet time stamp.                                          *)
(*                                                                         *)
(* Packets arrive late and from several sources, and run starts, stops,    *)
(* pauses and resumes carry time stamps of other machines.  An old         *)
(* container stays open on the stack, bounded by the time at which its     *)
(* successor starts, until every source that has sent data has moved       *)
(* m_container_cleanup_timeout past it.                                    *)
(*                                                                         *)
(* Time is in ticks of one nanosecond of the EPICS epoch; 0 is the epoch   *)
(* and, as a maximum, "no maximum".  Whether a container has 100 files and *)
(* the current one is oversize is an input of the packet actions.          *)
(* startContainer() succeeds here; its failures are in RunControl.         *)
(***************************************************************************)
EXTENDS Integers, FiniteSets

CONSTANTS
  Sources,        \* the data sources
  Timeout,        \* m_container_cleanup_timeout
  Wallclocks,     \* what clock_gettime() may return, of the Unix epoch
  MaxTime,        \* bound: time stamps
  MaxContainers,  \* bound: containers ever pushed
  MaxModes,       \* bound: pause modes ever pushed in one container
  Multi           \* bound: the containers, by position, that may have several modes

ASSUME ConstantsOK ==
  /\ {Timeout, MaxTime, MaxContainers, MaxModes} \cup Multi \subseteq Nat
  /\ Wallclocks \subseteq Nat

VARIABLES
  stack,     \* m_containerStack
  last,      \* m_last_ts, m_last_ignore_..., m_last_check_..., m_last_found_it
  up,        \* the sources whose isConnected() holds
  maxTimes   \* m_dataSourcesMaxTimes, 0 for a source that has sent no data

vars == <<stack, last, up, maxTimes>>

Stamps == 0..MaxTime
Times == 1..MaxTime

\* struct PauseMode and StorageContainer: what the searches look at.  pos
\* orders a stack, the largest in front; a list node keeps its pos.
Mode == [pos : Nat, min : Nat, max : Nat, paused : BOOLEAN]
Container ==
  [pos : Nat, min : Nat, max : Nat, run : BOOLEAN, modes : SUBSET Mode]
Lookup == [ts : Nat \cup {-1}, ignore : BOOLEAN, check : BOOLEAN, pos : Nat]

\* The value of m_last_ts that no packet carries.
NoLookup == [ts |-> -1, ignore |-> FALSE, check |-> FALSE, pos |-> 0]

-----------------------------------------------------------------------------
(* Searching a stack of time ranges.                                       *)

Covers(r, ts) == r.min <= ts /\ (r.max = 0 \/ ts <= r.max)
Matching(S, ts) == {r \in S : Covers(r, ts)}

Top(S) == CHOOSE r \in S : \A q \in S : q.pos <= r.pos
Bottom(S) == CHOOSE r \in S : \A q \in S : r.pos <= q.pos

\* A time stamp before the oldest range, a "SAWTOOTH".
Sawtooth(S, ts) == Matching(S, ts) = {} /\ ts < Bottom(S).min

\* The search ends with a range: otherwise "No Container Found", and
\* addPacket() throws "No container!".
Findable(S, ts, ignore) == ignore \/ Matching(S, ts) # {} \/ Sawtooth(S, ts)

\* The newest range that encloses the time stamp; the current one when time
\* stamps are ignored and for every sawtooth.
Find(S, ts, ignore) ==
  IF ignore \/ Sawtooth(S, ts) THEN Top(S) ELSE Top(Matching(S, ts))

\* The ranges behind the one found whose expiration time has been reached by
\* oldestMaxDataSourceTime().
Expired(S, found, old) ==
  {r \in S : r.pos < found.pos /\ r.max # 0 /\ r.max + Timeout <= old}

\* What a search leaves of the stack: expiration is checked behind a match,
\* and not after a sawtooth.
Searched(S, ts, ignore, check, old) ==
  IF check /\ (ignore \/ ~Sawtooth(S, ts))
  THEN S \ Expired(S, Find(S, ts, ignore), old)
  ELSE S

\* Mutant: the maximum of the range that ends is one tick short.
PushGap(S, r, newStart, new) ==
  (S \ {r}) \cup {[r EXCEPT !.max = newStart - 2], new}

\* A range ends one tick before newStart, and stays, and another is pushed.
Push(S, r, newStart, new) ==
  (S \ {r}) \cup {[r EXCEPT !.max = newStart - 1], new}

-----------------------------------------------------------------------------
(* The data sources.                                                       *)

Timed(m) == {m[s] : s \in Sources} \ {0}

\* Mutant: the newest time of the sources.
OldestTakesNewest(m) ==
  IF Timed(m) = {} THEN 0
  ELSE CHOOSE t \in Timed(m) : \A u \in Timed(m) : u <= t

\* updateMaxDataSourceTime(): over the sources that have sent data.
Oldest(m) ==
  IF Timed(m) = {} THEN 0
  ELSE CHOOSE t \in Timed(m) : \A u \in Timed(m) : t <= u

Newest(m) ==
  IF Timed(m) = {} THEN 0
  ELSE CHOOSE t \in Timed(m) : \A u \in Timed(m) : u <= t

\* rxPacket(): a source's maximum only grows while it is connected.
Advanced(s, ts) ==
  IF ts > maxTimes[s] THEN [maxTimes EXCEPT ![s] = ts] ELSE maxTimes

-----------------------------------------------------------------------------
(* Containers and pause modes.                                             *)

NewContainer(pos, min, paused, run) ==
  [pos |-> pos, min |-> min, max |-> 0, run |-> run,
   modes |-> {[pos |-> 1, min |-> min, max |-> 0, paused |-> paused]}]

Current == Top(stack)
IsPaused(c) == Top(c.modes).paused
Replace(S, c, d) == (S \ {c}) \cup {d}

\* terminateFile() without do_terminate, then newFile().
PushMode(c, t, paused) ==
  LET m == Top(c.modes)
  IN [c EXCEPT !.modes =
        Push(@, m, t, [pos |-> m.pos + 1, min |-> t, max |-> 0,
                       paused |-> paused])]

\* Markers::beforeNewRun() and runStop() resume a paused container first.
Resumed(c, t) == IF IsPaused(c) THEN PushMode(c, t, FALSE) ELSE c

\* Mutant: the last lookup survives the push.
EndAndStartCached(S, c, newStart, terminate, min, paused, run) ==
  IF terminate \/ up = {}
  THEN [stack |-> Replace(S, c, NewContainer(c.pos, min, paused, run)),
        reset |-> FALSE]
  ELSE [stack |-> Push(S, c, newStart,
                       NewContainer(Top(S).pos + 1, min, paused, run)),
        reset |-> FALSE]

\* endCurrentContainer() and startContainer().  A container that is
\* terminated leaves its list node to the new one; one that stays gets a
\* maximum, and the last lookup is forgotten.
EndAndStart(S, c, newStart, terminate, min, paused, run) ==
  IF terminate \/ up = {}
  THEN [stack |-> Replace(S, c, NewContainer(c.pos, min, paused, run)),
        reset |-> FALSE]
  ELSE [stack |-> Push(S, c, newStart,
                       NewContainer(Top(S).pos + 1, min, paused, run)),
        reset |-> TRUE]

\* Room in the model for one more container, and for one more pause mode in
\* the current one.
Room == Current.pos < MaxContainers
ModeRoom ==
  /\ Top(Current.modes).pos < MaxModes
  /\ Current.pos \in Multi

-----------------------------------------------------------------------------
(* Lookups.                                                                *)

CacheHit(ts, ignore, check) ==
  last.ts = ts /\ last.ignore = ignore /\ last.check = check

At(S, pos) == CHOOSE c \in S : c.pos = pos

\* findContainerByTime(): the container, what is left of the stack, and the
\* arguments and the result as the next cached lookup.
FindContainerByTime(ts, ignore, check, old) ==
  IF CacheHit(ts, ignore, check)
  THEN [c |-> At(stack, last.pos), stack |-> stack, last |-> last]
  ELSE LET c == Find(stack, ts, ignore)
       IN [c |-> c,
           stack |-> Searched(stack, ts, ignore, check, old),
           last |-> [ts |-> ts, ignore |-> ignore, check |-> check,
                     pos |-> c.pos]]

\* The lookup finds a container and then, in it, a pause mode.
FindsMode(ts, ignore, check) ==
  /\ CacheHit(ts, ignore, check) \/ Findable(stack, ts, ignore)
  /\ Findable(FindContainerByTime(ts, ignore, check, 0).c.modes, ts, ignore)

\* getPauseModeByTime() in the container found.
SearchModes(c, ts, ignore, check, old) ==
  [c EXCEPT !.modes = Searched(@, ts, ignore, check, old)]

\* The long-non-running-container check of addPacket() and savePacket().  The
\* wall clock, which is not of the EPICS epoch, bounds the newest data time.
Splits(c, full) == full /\ ~c.run /\ c.max = 0

Split(S, c, now) ==
  LET newest == Newest(maxTimes)
      cut == (IF now < newest THEN now ELSE newest) + 1
      doTerminate == Cardinality(c.modes) = 1
  IN EndAndStart(S, c, cut, doTerminate, IF doTerminate THEN c.min ELSE cut,
                 IsPaused(c), FALSE)

-----------------------------------------------------------------------------
(* The actions.                                                            *)

Init ==
  /\ stack = {NewContainer(1, 0, FALSE, FALSE)}
  /\ last = NoLookup
  /\ up = {}
  /\ maxTimes = [s \in Sources |-> 0]

\* checkRequiredDataSources(): cleanContainerStack() when no source is
\* connected.  It also runs when a source becomes required or optional, and
\* when a run start is refused.
CleanContainerStack(connected) ==
  IF connected = {} THEN stack' = {Current} /\ last' = NoLookup
                    ELSE UNCHANGED <<stack, last>>

CheckRequired ==
  /\ CleanContainerStack(up)
  /\ UNCHANGED <<up, maxTimes>>

\* A source is connected: sourceUp().
SourceUp(s) ==
  /\ s \notin up
  /\ up' = up \cup {s}
  /\ CleanContainerStack(up')
  /\ UNCHANGED maxTimes

\* Mutant: the stack is cleaned by the count before the disconnection.
SourceDownStale(s) ==
  /\ s \in up
  /\ up' = up \ {s}
  /\ CleanContainerStack(up)
  /\ maxTimes' = [maxTimes EXCEPT ![s] = 0]

\* DataSource::connectionFailed(): sourceDown(), then the source's maximum
\* time is reset.
SourceDown(s) ==
  /\ s \in up
  /\ up' = up \ {s}
  /\ CleanContainerStack(up')
  /\ maxTimes' = [maxTimes EXCEPT ![s] = 0]

\* A data packet of a source; its pulse is recorded later, by AddPacket.
Data(s, ts) ==
  /\ s \in up
  /\ maxTimes' = Advanced(s, ts)
  /\ UNCHANGED <<stack, last, up>>

\* A heartbeat: checkContainerTimeout() with the source's time advanced.
Heartbeat(s, ts) ==
  /\ s \in up
  /\ FindsMode(ts, FALSE, TRUE)
  /\ maxTimes' = Advanced(s, ts)
  /\ LET old == Oldest(maxTimes')
         f == FindContainerByTime(ts, FALSE, TRUE, old)
     IN /\ stack' = Replace(f.stack, f.c, SearchModes(f.c, ts, FALSE, TRUE, old))
        /\ last' = f.last
  /\ UNCHANGED up

\* addPacket(): find the container and the pause mode, closing what has
\* expired, and split a container that has grown too long.
AddPacket(ts, ignore, check, full, now) ==
  /\ FindsMode(ts, ignore, check)
  /\ LET old == Oldest(maxTimes)
         f == FindContainerByTime(ts, ignore, check, old)
         c == SearchModes(f.c, ts, ignore, check, old)
         S == Replace(f.stack, f.c, c)
         e == Split(S, c, now)
     IN IF Splits(c, full)
        THEN /\ Room
             /\ stack' = e.stack
             /\ last' = IF e.reset THEN NoLookup ELSE f.last
        ELSE stack' = S /\ last' = f.last
  /\ UNCHANGED <<up, maxTimes>>

\* savePacket(): no pause mode is looked up and nothing expires.
SavePacket(ts, ignore, full, now) ==
  /\ up # {}
  /\ CacheHit(ts, ignore, FALSE) \/ Findable(stack, ts, ignore)
  /\ LET f == FindContainerByTime(ts, ignore, FALSE, 0)
         e == Split(stack, f.c, now)
     IN IF Splits(f.c, full)
        THEN /\ Room
             /\ stack' = e.stack
             /\ last' = IF e.reset THEN NoLookup ELSE f.last
        ELSE stack' = stack /\ last' = f.last
  /\ UNCHANGED <<up, maxTimes>>

\* setRecording(true): a run starts at the time the request carries.  With no
\* source connected checkRequiredDataSources() has forgotten the last lookup.
StartRecording(t) ==
  /\ ~Current.run
  /\ Room /\ (IsPaused(Current) => ModeRoom)
  /\ LET c == Resumed(Current, t)
     IN stack' = EndAndStart(Replace(stack, Current, c), c, t, FALSE, t, FALSE,
                             TRUE).stack
  /\ last' = NoLookup
  /\ UNCHANGED <<up, maxTimes>>

\* setRecording(false): the next container starts one tick after the run.
StopRecording(t) ==
  /\ Current.run
  /\ Room /\ (IsPaused(Current) => ModeRoom)
  /\ LET c == Resumed(Current, t)
         e == EndAndStart(Replace(stack, Current, c), c, t + 1, FALSE, t + 1,
                          FALSE, FALSE)
     IN /\ stack' = e.stack
        /\ last' = IF e.reset THEN NoLookup ELSE last
  /\ UNCHANGED <<up, maxTimes>>

\* pauseRecording() and resumeRecording(): nothing when already so.
Pause(t) ==
  /\ ~IsPaused(Current)
  /\ ModeRoom
  /\ stack' = Replace(stack, Current, PushMode(Current, t, TRUE))
  /\ UNCHANGED <<last, up, maxTimes>>

Resume(t) ==
  /\ IsPaused(Current)
  /\ ModeRoom
  /\ stack' = Replace(stack, Current, PushMode(Current, t, FALSE))
  /\ UNCHANGED <<last, up, maxTimes>>

Next ==
  \/ CheckRequired
  \/ \E s \in Sources : SourceUp(s) \/ SourceDown(s)
  \/ \E s \in Sources, ts \in Times : Data(s, ts) \/ Heartbeat(s, ts)
  \/ \E ts \in Times, ignore, check, full \in BOOLEAN, now \in Wallclocks :
        AddPacket(ts, ignore, check, full, now)
  \/ \E ts \in Stamps, ignore, full \in BOOLEAN, now \in Wallclocks :
        SavePacket(ts, ignore, full, now)
  \/ \E t \in Times : StartRecording(t) \/ StopRecording(t)
  \/ \E t \in Times : Pause(t) \/ Resume(t)

Spec == Init /\ [][Next]_vars

-----------------------------------------------------------------------------
(* Properties.                                                             *)

\* The variables keep their types, and neither kind of stack is ever empty.
TypeOK ==
  /\ stack \subseteq Container /\ stack # {}
  /\ \A c \in stack : c.modes # {}
  /\ last \in Lookup
  /\ up \subseteq Sources
  /\ maxTimes \in [Sources -> Stamps]

\* findContainerByTime() always finds a container, in which
\* getPauseModeByTime() always finds a pause mode: addPacket() never throws
\* "No container!" and never uses the end of the pause mode list.
AlwaysFound ==
  \A ts \in Stamps :
    /\ Findable(stack, ts, FALSE)
    /\ \A c \in stack : Findable(c.modes, ts, FALSE)

\* A cached lookup returns what the full search would: m_last_found_it is
\* never left behind by a change of the stack.
CacheFresh ==
  last.ts # -1 => /\ Findable(stack, last.ts, last.ignore)
                  /\ Find(stack, last.ts, last.ignore).pos = last.pos

\* With no source connected nothing would ever expire, so no old container
\* is left on the stack.
NoneStranded == up = {} => Cardinality(stack) = 1

\* While sources are connected, an old container is closed only when every
\* source that has sent data has moved Timeout past its end.
ClosedLate ==
  [][\A c \in stack :
       \/ \E d \in stack' : d.pos = c.pos
       \/ up' = {}
       \/ c.max # 0 /\ \A t \in Timed(maxTimes') : c.max + Timeout <= t]_vars

=============================================================================
