------------------------- MODULE PulseAssemblyProofs -------------------------
(***************************************************************************)
(* The pulse map of the stream management service, for any data sources,   *)
(* hardware sources, source bits, pulses and limits: the cached iterator,   *)
(* the timers, the owners of source bits, and, last, that the map           *)
(* implements PulseStream.                                                  *)
(***************************************************************************)
EXTENDS PulseAssembly, SequenceTheorems, FiniteSetTheorems, WellFoundedInduction,
        TLAPS

-----------------------------------------------------------------------------
(* The cached iterator.                                                    *)

(* Whatever a flush is given, what it leaves cached is what it leaves in   *)
(* the map.                                                                *)
LEMMA FlushCache ==
  ASSUME NEW P, NEW to, NEW cached \in DOMAIN P \union {NoPid},
         Flush(P, to, cached) \/ HoldAll(P, cached)
  PROVE  CacheValid'
<1>1. CASE Flush(P, to, cached)
  BY <1>1 DEF Flush, UpTo, Without, CacheValid
<1>2. CASE HoldAll(P, cached)
  BY <1>2 DEF HoldAll, CacheValid
<1> QED BY <1>1, <1>2

LEMMA GiveUpOnDomain ==
  ASSUME NEW i, NEW S, NEW P
  PROVE  DOMAIN GiveUpOn(i, S, P) = DOMAIN P
BY DEF GiveUpOn

LEMMA UnregisterCache ==
  ASSUME CacheValid, NEW i, unregisterEventSource(i)
  PROVE  CacheValid'
<1> DEFINE P == GiveUpOn(i, DOMAIN pulses, pulses)
           done == Complete(P, DOMAIN P)
           to == IF Cardinality(eventSources) > 1
                 THEN LastMinusBuffer(Max(done), P) ELSE Max(done)
<1>1. Flush(P, to, lastPid) \/ HoldAll(P, lastPid)
  BY DEF unregisterEventSource
<1>2. lastPid \in DOMAIN P \union {NoPid}
  BY GiveUpOnDomain DEF CacheValid
<1> HIDE DEF P, to
<1> QED BY <1>1, <1>2, FlushCache

LEMMA MarkCompleteCache ==
  ASSUME NEW pid \in DOMAIN pulses \union {NoPid}, NEW i, markComplete(pid, i)
  PROVE  CacheValid'
<1> DEFINE P1 == IF i = NoSms THEN pulses
                 ELSE GiveUpOn(i, {q \in DOMAIN pulses : q < pid}, pulses)
           P == IF i = NoSms THEN P1 ELSE [P1 EXCEPT ![pid].pending = @ \ {i}]
           done == Complete(P, IF i = NoSms THEN {pid} ELSE UpTo(P, pid))
           to == LastMinusBuffer(Max(done), P)
<1>1. Flush(P, to, pid) \/ HoldAll(P, pid)
  BY DEF markComplete
<1>2. DOMAIN P1 = DOMAIN pulses BY GiveUpOnDomain
<1> HIDE DEF P1
<1>3. DOMAIN P = DOMAIN pulses BY <1>2
<1> HIDE DEF P, to
<1> QED BY <1>1, <1>3, FlushCache

(* A call that marks a pulse leaves the map its keys and caches that pulse. *)
LEMMA TouchCache ==
  ASSUME NEW c, Ready(c), Touch(c), DOMAIN pulses' = DOMAIN pulses
  PROVE  CacheValid'
BY DEF Ready, Touch, CacheValid

LEMMA SettleCache ==
  ASSUME CacheValid, NEW src, NEW arg, NEW rest, Settle(src, arg, rest)
  PROVE  CacheValid'
<1>1. CASE UNCHANGED <<pulses, lastPid>>
  BY <1>1 DEF CacheValid
<1>2. CASE unregisterEventSource(IntermittentBit)
  BY <1>2, UnregisterCache
<1> QED BY <1>1, <1>2 DEF Settle

LEMMA HandleCache ==
  ASSUME CacheValid, NEW c, NEW rest, Ready(c), Handle(c, rest)
  PROVE  CacheValid'
<1>1. CASE CallDrop(c, rest)
  <2>1. CASE UNCHANGED <<pulses, lastPid>>
    BY <2>1 DEF CacheValid
  <2>2. CASE /\ pulses' = [pulses EXCEPT ![Wants(c)].partial = TRUE]
             /\ Touch(c)
    BY <2>2, TouchCache
  <2> QED BY <1>1, <2>1, <2>2 DEF CallDrop
<1>2. CASE CallPartial(c, rest)
  BY <1>2, TouchCache DEF CallPartial
<1>3. CASE CallEnd(c, rest)
  <2>1. CASE UNCHANGED <<pulses, lastPid>>
    BY <2>1 DEF CacheValid
  <2>2. CASE \E arg : Settle(c.src, arg, rest)
    BY <2>2, SettleCache
  <2> QED BY <1>3, <2>1, <2>2 DEF CallEnd
<1>4. CASE CallSettle(c, rest)
  BY <1>4, SettleCache DEF CallSettle
<1>5. CASE CallComplete(c, rest)
  <2>1. c.arg.pid \in DOMAIN pulses \union {NoPid}
    BY <1>5 DEF CallComplete, Ready, Wants, PulseOps
  <2> QED BY <1>5, <2>1, MarkCompleteCache DEF CallComplete
<1>6. CASE CallUnregister(c, rest)
  <2>1. CASE UNCHANGED <<pulses, lastPid>>
    BY <2>1 DEF CacheValid
  <2>2. CASE unregisterEventSource(Src(c.src).smsId)
    BY <2>2, UnregisterCache
  <2> QED BY <1>6, <2>1, <2>2 DEF CallUnregister
<1>7. CASE CallEvents(c, rest)
  BY <1>7, TouchCache DEF CallEvents
<1>8. CASE CallRTDL(c, rest)
  <2>1. DOMAIN pulses' = DOMAIN pulses
    BY <1>8 DEF CallRTDL
  <2> QED BY <1>8, <2>1, TouchCache DEF CallRTDL
<1>9. CASE CallPop(c, rest) \/ CallLeave(c, rest) \/ CallAccept(c, rest)
  <2>1. UNCHANGED <<pulses, lastPid>>
    BY <1>9 DEF CallPop, CallLeave, CallAccept, smsVars
  <2> QED BY <2>1 DEF CacheValid
<1> QED BY <1>1, <1>2, <1>3, <1>4, <1>5, <1>6, <1>7, <1>8, <1>9 DEF Handle

(* No other action but the operator's erases a pulse or touches the cache. *)
LEMMA NextCache == CacheValid /\ [Next]_vars => CacheValid'
<1> SUFFICES ASSUME CacheValid, [Next]_vars PROVE CacheValid' OBVIOUS
<1>1. CASE HandlerStep
  <2>1. CASE CallGet(Head(todo))
    BY <2>1 DEF CallGet, getPulse, Put, CacheValid
  <2>2. CASE Ready(Head(todo)) /\ Handle(Head(todo), Tail(todo))
    BY <2>2, HandleCache
  <2> QED BY <1>1, <2>1, <2>2 DEF HandlerStep
<1>2. CASE Packet
  <2>1. UNCHANGED <<pulses, lastPid>>
    <3>1. CASE \E s \in Sources \X HwIds, id \in PulseIds, shape \in Shapes,
                 eop, empty, lost \in BOOLEAN :
                   DataPkt(s, id, shape, eop, empty, lost)
      BY <3>1 DEF DataPkt
    <3>2. CASE \E s \in Sources \X HwIds : SourceListPkt(s)
      BY <3>2 DEF SourceListPkt
    <3>3. CASE \E d \in Sources, id \in PulseIds : RTDLPkt(d, id)
      BY <3>3 DEF RTDLPkt, smsVars
    <3>4. CASE \E d \in Sources : HeartbeatPkt(d)
      BY <3>4 DEF HeartbeatPkt, smsVars
    <3> QED BY <1>2, <3>1, <3>2, <3>3, <3>4 DEF Packet
  <2> QED BY <2>1 DEF CacheValid
<1>3. CASE Connection
  <2>1. PICK d \in Sources :
          \/ Enable(d) \/ Disable(d) \/ TimerDelayed(d) \/ RetryTimer(d)
          \/ ConnectTimer(d) \/ DataTimer(d) \/ ConnectComplete(d)
          \/ FdReadyIdle(d) \/ Disconnect(d) \/ SlowRead(d)
    BY <1>3 DEF Connection
  <2>2. UNCHANGED smsVars
    BY <2>1 DEF Enable, Disable, TimerDelayed, RetryTimer, ConnectTimer, DataTimer,
                ConnectComplete, FdReadyIdle, Disconnect, SlowRead, Connects,
                startConnect, connectionFailed
  <2> QED BY <2>2 DEF smsVars, CacheValid
<1>4. CASE \E pid \in Pids : PopPulseBuffer(pid)
  BY <1>4 DEF PopPulseBuffer, Without, CacheValid
<1>5. CASE UNCHANGED vars
  BY <1>5 DEF vars, smsVars, CacheValid
<1> QED BY <1>1, <1>2, <1>3, <1>4, <1>5 DEF Next

(* The map iterator getPulse() caches always points into the map: no path  *)
(* that erases pulses, however many a flush takes, leaves it dangling.     *)
THEOREM CacheAlwaysValid == Spec => []CacheValid
<1>1. Init => CacheValid
  BY DEF Init, CacheValid
<1> QED BY <1>1, NextCache, PTL DEF Spec

-----------------------------------------------------------------------------
(* The connections.                                                        *)

ConnStates == {"DISABLED", "IDLE", "CONNECTING", "ACTIVE", "FAULT"}
Links == [fdreg : {None, "read", "write"}, timer : BOOLEAN, retries : Nat,
          delay : BOOLEAN]
LinksTyped == conn \in [Sources -> ConnStates] /\ link \in [Sources -> Links]
TimerInv == LinksTyped /\ TimerRunning

LEMMA ConnectionFailedTimer ==
  ASSUME TimerInv, NEW d \in Sources, NEW state \in {"DISABLED", "IDLE"},
         connectionFailed(d, state)
  PROVE  TimerInv'
<1> DEFINE new == [link[d] EXCEPT !.fdreg = None, !.timer = (state # "DISABLED")]
<1>1. link[d] \in Links BY DEF TimerInv, LinksTyped
<1>2. new \in Links /\ new.timer = (state # "DISABLED") BY <1>1 DEF Links
<1>3. link' = [link EXCEPT ![d] = new] /\ conn' = [conn EXCEPT ![d] = state]
  BY DEF connectionFailed
<1> HIDE DEF new
<1>4. LinksTyped' BY <1>2, <1>3 DEF TimerInv, LinksTyped, ConnStates
<1>5. ASSUME NEW x \in Sources, conn'[x] \notin {"DISABLED", "FAULT"}
      PROVE  link'[x].timer
  <2>1. CASE x = d BY <1>2, <1>3, <1>5, <2>1 DEF TimerInv, LinksTyped
  <2>2. CASE x # d BY <1>3, <1>5, <2>2 DEF TimerInv, LinksTyped, TimerRunning
  <2> QED BY <2>1, <2>2
<1> QED BY <1>4, <1>5 DEF TimerInv, TimerRunning

LEMMA StartConnectTimer ==
  ASSUME TimerInv, NEW d \in Sources, NEW answer \in ConnectAnswers,
         startConnect(d, answer)
  PROVE  TimerInv'
<1> DEFINE new == [link[d] EXCEPT
                     !.fdreg = IF answer = "inprogress" THEN "write" ELSE "read",
                     !.timer = TRUE]
<1>1. CASE answer = "refused"
  BY <1>1, ConnectionFailedTimer DEF startConnect
<1>2. CASE answer # "refused"
  <2>1. link[d] \in Links BY DEF TimerInv, LinksTyped
  <2>2. new \in Links /\ new.timer = TRUE BY <2>1 DEF Links
  <2>3. PICK state \in ConnStates :
          link' = [link EXCEPT ![d] = new] /\ conn' = [conn EXCEPT ![d] = state]
    BY <1>2 DEF startConnect, ConnStates
  <2> HIDE DEF new
  <2> QED BY <2>2, <2>3 DEF TimerInv, LinksTyped, TimerRunning
<1> QED BY <1>1, <1>2

(* A packet restarts the timer of its connection and stops none.            *)
LEMMA DataReadyTimer ==
  ASSUME TimerInv, NEW d \in Sources, dataReady(d), conn' = conn
  PROVE  TimerInv'
<1> SUFFICES ASSUME NEW x \in Sources
             PROVE  /\ link'[x] \in Links
                    /\ link[x].timer => link'[x].timer
  <2>1. DOMAIN link' = Sources /\ link' = [y \in Sources |-> link'[y]]
    BY DEF dataReady, Restarted
  <2> QED BY <2>1 DEF TimerInv, LinksTyped, TimerRunning
<1>1. link[x] \in Links BY DEF TimerInv, LinksTyped
<1>2. link'[x] = [link[x] EXCEPT !.delay = FALSE,
                     !.timer = IF x = d THEN TRUE ELSE @,
                     !.retries = IF x = d THEN 0 ELSE @]
  BY DEF dataReady, Restarted
<1>3. CASE x = d
  <2> DEFINE new == [link[x] EXCEPT !.delay = FALSE, !.timer = TRUE, !.retries = 0]
  <2>1. link'[x] = new BY <1>2, <1>3
  <2>2. new \in Links /\ new.timer = TRUE BY <1>1 DEF Links
  <2> HIDE DEF new
  <2> QED BY <2>1, <2>2
<1>4. CASE x # d
  <2>1. link'[x] = [link[x] EXCEPT !.delay = FALSE]
    BY <1>1, <1>2, <1>4 DEF Links
  <2> QED BY <1>1, <2>1 DEF Links
<1> QED BY <1>3, <1>4

LEMMA ConnectionTimer ==
  ASSUME TimerInv, NEW d \in Sources,
         \/ Enable(d) \/ Disable(d) \/ TimerDelayed(d) \/ RetryTimer(d)
         \/ ConnectTimer(d) \/ DataTimer(d) \/ ConnectComplete(d)
         \/ FdReadyIdle(d) \/ Disconnect(d) \/ SlowRead(d)
  PROVE  TimerInv'
<1>0. link[d] \in Links BY DEF TimerInv, LinksTyped
<1>1. CASE \E state \in {"DISABLED", "IDLE"} : connectionFailed(d, state)
  BY <1>1, ConnectionFailedTimer
<1>2. CASE \E answer \in ConnectAnswers : startConnect(d, answer)
  BY <1>2, StartConnectTimer
<1>3. ASSUME NEW new \in Links, link[d].timer => new.timer, conn' = conn,
             link' = [link EXCEPT ![d] = new]
      PROVE  TimerInv'
  BY <1>3 DEF TimerInv, LinksTyped, TimerRunning
<1>4. CASE TimerDelayed(d)
  <2>1. PICK n \in Nat : link' = [link EXCEPT ![d].delay = FALSE, ![d].retries = n]
    BY <1>0, <1>4 DEF TimerDelayed, Links
  <2> DEFINE new == [link[d] EXCEPT !.delay = FALSE, !.retries = n]
  <2>2. new \in Links /\ new.timer = link[d].timer BY <1>0 DEF Links
  <2>3. link' = [link EXCEPT ![d] = new] BY <2>1 DEF TimerInv, LinksTyped
  <2>4. conn' = conn BY <1>4 DEF TimerDelayed
  <2> QED BY <1>3, <2>2, <2>3, <2>4
<1>5. CASE DataTimer(d)
  <2>1. CASE conn' = conn /\ link' = [link EXCEPT ![d].retries = @ + 1]
    <3> DEFINE new == [link[d] EXCEPT !.retries = @ + 1]
    <3>1. new \in Links /\ new.timer = link[d].timer BY <1>0 DEF Links
    <3>2. link' = [link EXCEPT ![d] = new] BY <2>1 DEF TimerInv, LinksTyped
    <3> QED BY <1>3, <2>1, <3>1, <3>2
  <2> QED BY <1>1, <1>5, <2>1 DEF DataTimer
<1>6. CASE ConnectComplete(d)
  <2>1. CASE /\ conn' = [conn EXCEPT ![d] = "ACTIVE"]
             /\ link' = [link EXCEPT ![d] = [@ EXCEPT !.fdreg = "read",
                                                !.timer = TRUE, !.retries = 0]]
    <3> DEFINE new == [link[d] EXCEPT !.fdreg = "read", !.timer = TRUE, !.retries = 0]
    <3>1. new \in Links /\ new.timer = TRUE BY <1>0 DEF Links
    <3>2. link' = [link EXCEPT ![d] = new] BY <2>1 DEF TimerInv, LinksTyped
    <3> HIDE DEF new
    <3> QED BY <2>1, <3>1, <3>2 DEF TimerInv, LinksTyped, TimerRunning, ConnStates
  <2> QED BY <1>1, <1>6, <2>1 DEF ConnectComplete
<1>7. CASE FdReadyIdle(d)
  BY <1>7 DEF FdReadyIdle, TimerInv, LinksTyped, TimerRunning, ConnStates
<1>8. CASE SlowRead(d)
  <2>1. ASSUME NEW x \in Sources
        PROVE  link'[x] \in Links /\ (link[x].timer => link'[x].timer)
    <3>1. link[x] \in Links BY DEF TimerInv, LinksTyped
    <3>2. CASE x = d
      <4> DEFINE new == [link[x] EXCEPT !.delay = TRUE, !.timer = TRUE, !.retries = 0]
      <4>1. link'[x] = new BY <1>8, <3>1, <3>2 DEF SlowRead, Restarted, Links
      <4>2. new \in Links /\ new.timer = TRUE BY <3>1 DEF Links
      <4> HIDE DEF new
      <4> QED BY <4>1, <4>2
    <3>3. CASE x # d
      <4>1. link'[x] = [link[x] EXCEPT !.delay = TRUE]
        BY <1>8, <3>1, <3>3 DEF SlowRead, Restarted, Links
      <4> QED BY <3>1, <4>1 DEF Links
    <3> QED BY <3>2, <3>3
  <2>2. conn' = conn /\ link' = [x \in Sources |-> link'[x]]
    BY <1>8 DEF SlowRead
  <2> QED BY <2>1, <2>2 DEF TimerInv, LinksTyped, TimerRunning
<1> QED BY <1>1, <1>2, <1>4, <1>5, <1>6, <1>7, <1>8
    DEF Enable, Disable, RetryTimer, ConnectTimer, Disconnect, Connects

LEMMA NextTimer == TimerInv /\ [Next]_vars => TimerInv'
<1> SUFFICES ASSUME TimerInv, [Next]_vars PROVE TimerInv' OBVIOUS
<1>0. ASSUME UNCHANGED <<conn, link>> PROVE TimerInv'
  BY <1>0 DEF TimerInv, LinksTyped, TimerRunning
<1>1. CASE HandlerStep
  <2>1. CASE CallGet(Head(todo))
    BY <1>0, <2>1 DEF CallGet, dsVars
  <2>2. CASE Ready(Head(todo)) /\ Handle(Head(todo), Tail(todo))
    <3>1. CASE CallAccept(Head(todo), Tail(todo))
      <4>1. CASE connectionFailed(Head(todo).src[1], "IDLE")
        <5>1. CASE Head(todo).src[1] \in Sources
          BY <4>1, <5>1, ConnectionFailedTimer
        <5>2. CASE Head(todo).src[1] \notin Sources
          <6>1. UNCHANGED <<conn, link>>
            BY <4>1, <5>2 DEF connectionFailed, TimerInv, LinksTyped
          <6> QED BY <1>0, <6>1
        <5> QED BY <5>1, <5>2
      <4> QED BY <1>0, <3>1, <4>1 DEF CallAccept
    <3>2. CASE ~CallAccept(Head(todo), Tail(todo))
      <4>1. UNCHANGED <<conn, link>>
        BY <2>2, <3>2 DEF Handle, CallDrop, CallPartial, CallEnd, CallSettle,
           CallComplete, CallPop, CallLeave, CallUnregister, CallEvents, CallRTDL, dsVars
      <4> QED BY <1>0, <4>1
    <3> QED BY <3>1, <3>2
  <2> QED BY <1>1, <2>1, <2>2 DEF HandlerStep
<1>2. CASE Packet
  <2>1. \E d \in Sources : dataReady(d) /\ conn' = conn
    <3>1. CASE \E s \in Sources \X HwIds, id \in PulseIds, shape \in Shapes,
                 eop, empty, lost \in BOOLEAN :
                   DataPkt(s, id, shape, eop, empty, lost)
      BY <3>1 DEF DataPkt
    <3>2. CASE \E s \in Sources \X HwIds : SourceListPkt(s)
      BY <3>2 DEF SourceListPkt
    <3>3. CASE \E d \in Sources, id \in PulseIds : RTDLPkt(d, id)
      BY <3>3 DEF RTDLPkt
    <3>4. CASE \E d \in Sources : HeartbeatPkt(d)
      BY <3>4 DEF HeartbeatPkt
    <3> QED BY <1>2, <3>1, <3>2, <3>3, <3>4 DEF Packet
  <2> QED BY <2>1, DataReadyTimer
<1>3. CASE Connection
  BY <1>3, ConnectionTimer DEF Connection
<1>4. CASE \E pid \in Pids : PopPulseBuffer(pid)
  BY <1>0, <1>4 DEF PopPulseBuffer, dsVars
<1>5. CASE UNCHANGED vars
  BY <1>0, <1>5 DEF vars, dsVars
<1> QED BY <1>1, <1>2, <1>3, <1>4, <1>5 DEF Next

(* Whatever happens to a data source that is enabled, a timer of its is    *)
(* running: it is retried, given up on or found silent, never forgotten.   *)
THEOREM NoSourceForgotten == Spec => []TimerRunning
<1>1. Init => TimerInv
  BY DEF Init, TimerInv, LinksTyped, TimerRunning, ConnStates, Links
<1> QED BY <1>1, NextTimer, PTL DEF Spec, TimerInv
-----------------------------------------------------------------------------
(* The hardware sources, their bits and the calls of the running handler.   *)

Srcs == Sources \X HwIds
Entry == [id : PulseIds, shape : Shapes, dup : 0 .. MaxDup, good : BOOLEAN]
\* A source that was found intermittent has no bit.
HWSource == {x \in [smsId : SmsIds \union {NoSms}, intermittent : BOOLEAN,
                    recover : Nat, noData : Nat, seq : Seq(Entry)] :
                x.intermittent => x.smsId = NoSms}

(* What each call is made with.                                             *)
DataArg == [id : PulseIds, shape : Shapes, eop : BOOLEAN, new : BOOLEAN,
            empty : BOOLEAN, lost : BOOLEAN, batch : Batches]
EventArg == [pid : Pids, lost : BOOLEAN, empty : BOOLEAN, batch : Batches]
EndArg == [id : PulseIds, shape : Shapes, pid : Pids, smsId : SmsIds \union {NoSms}]
RTDLArg == [pid : Pids, smsId : {NoSms}]
Calls == [op : {"drop"}, src : Srcs, arg : Entry]
         \union [op : {"end"}, src : Srcs, arg : Entry \union DataArg]
         \union [op : {"accept"}, src : Srcs, arg : DataArg]
         \union [op : {"events", "partial"}, src : Srcs, arg : EventArg]
         \union [op : {"complete"}, src : Srcs, arg : EndArg]
         \union [op : {"complete", "settle"}, src : {None}, arg : RTDLArg]
         \union [op : {"rtdl"}, src : {None}, arg : [pid : Pids]]
         \union [op : {"pop", "leave", "unregister"}, src : Srcs, arg : {None}]

\* The pulses P wait for bits of E only.
MapOK(P, E) == /\ DOMAIN P \subseteq Pids
               /\ \A p \in DOMAIN P : P[p] \in Pulse /\ P[p].pending \subseteq E
RegistryTyped == eventSources \subseteq SmsIds
                 /\ owner \in [SmsIds -> Sources \union {None}]
HwTyped(H) == /\ DOMAIN H = Sources
              /\ \A d \in Sources : /\ DOMAIN H[d] \subseteq HwIds
                                    /\ \A h \in DOMAIN H[d] : H[d][h] \in HWSource
Typed == /\ MapOK(pulses, eventSources) /\ RegistryTyped /\ HwTyped(hw)
         /\ todo \in Seq(Calls)
OthersTyped == /\ rtdl \in [Sources -> [last : Nat, dup : 0 .. MaxDup]]
               /\ TimerInv
               /\ used \in [packets : 0 .. MaxPackets, extras : Nat]

(* Every registered bit has one hardware source of the connection that owns *)
(* it, and every source with a bit has registered it.                      *)
Holds(H, d, h, i) == h \in DOMAIN H[d] /\ H[d][h].smsId = i
BitsOwned(O, E, H) ==
    /\ \A i \in SmsIds : (O[i] = None) <=> (i \notin E)
    /\ \A i \in E : \E h \in HwIds : Holds(H, O[i], h, i)
    /\ \A d \in Sources, h, g \in HwIds, i \in SmsIds :
           Holds(H, d, h, i) => O[i] = d /\ (Holds(H, d, g, i) => h = g)

(* The calls a handler still makes are about hardware sources that are      *)
(* there, and pulses that are in their lists: nothing is called for a       *)
(* source after it was let go, the entry dropped from a full list is not    *)
(* the one just put in front, and a packet is dealt with last.              *)
Leaving == {"leave", "unregister"}
Here(H, s) == s[2] \in DOMAIN H[s[1]]
CallHere(H, c) == c.src # None => Here(H, c.src)
CallListed(H, c) == c.op \in {"drop", "end", "accept"}
                    => HasPulse(H[c.src[1]][c.src[2]], c.arg.id, c.arg.shape)
CallsValid(H, q) == \A k \in DOMAIN q : CallHere(H, q[k]) /\ CallListed(H, q[k])
NoneAfterLeaving(q) == \A j, k \in DOMAIN q :
                           j < k /\ q[j].op \in Leaving => q[k].src # q[j].src
AcceptLast(q) == \A k \in DOMAIN q : q[k].op = "accept" => k = Len(q)
PopBeforeAccept(q) ==
    \A k \in DOMAIN q : q[k].op = "pop" =>
        /\ k + 1 = Len(q) /\ q[k + 1].op = "accept" /\ q[k + 1].src = q[k].src
Ordered(q) == NoneAfterLeaving(q) /\ AcceptLast(q) /\ PopBeforeAccept(q)
Newest(list, arg) ==
    Len(list) > 1 /\ list[1].id = arg.id /\ list[1].shape = arg.shape
PopKeepsNewest(H, q) ==
    \A k \in DOMAIN q : q[k].op = "pop" =>
        Newest(H[q[k].src[1]][q[k].src[2]].seq, q[k + 1].arg)

(* The sources of a connection that is down are all about to be let go.     *)
LeavingAll(C, H, q) ==
    \A d \in Sources : C[d] \notin {"ACTIVE", "FAULT"} =>
        \A h \in DOMAIN H[d] :
            \E k \in DOMAIN q : q[k].op \in Leaving /\ q[k].src = <<d, h>>

TodoOK(C, H, q) == /\ Ordered(q) /\ CallsValid(H, q) /\ PopKeepsNewest(H, q)
                   /\ LeavingAll(C, H, q)
CoreInv == Typed /\ BitsOwned(owner, eventSources, hw) /\ TodoOK(conn, hw, todo)
PulseInv == CoreInv /\ OthersTyped

(* Minima, pulse identifiers and lists of calls.                            *)
LEMMA MinIn ==
  ASSUME NEW T \in SUBSET Nat, T # {}
  PROVE  Min(T) \in T
<1>1. \E x \in T : \A y \in T : ~(<<y, x>> \in OpToRel(<, Nat))
  BY NatLessThanWellFounded, WFMin
<1>2. \A x, y \in Nat : y < x => <<y, x>> \in OpToRel(<, Nat)
  <2>1. \A x, y \in Nat : y < x => <<y, x>> \in {r \in Nat \X Nat : r[1] < r[2]}
    OBVIOUS
  <2> QED BY <2>1, Zenon DEF OpToRel
<1>3. \E x \in T : \A y \in T : ~(y < x)
  BY <1>1, <1>2, Zenon
<1>4. \E x \in T : \A y \in T : x <= y
  BY <1>3
<1> QED BY <1>4, Zenon DEF Min

LEMMA PidIn ==
  ASSUME NEW id \in PulseIds, NEW dup \in 0 .. MaxDup
  PROVE  Pid(id, dup) \in Pids
BY DEF Pids

LEMMA PidsNat == \A p \in Pids : p \in Nat /\ p # NoPid
<1> SUFFICES ASSUME NEW id \in PulseIds, NEW dup \in 0 .. MaxDup
             PROVE  Pid(id, dup) \in Nat
  BY DEF Pids, NoPid
<1>1. id \in Nat /\ MaxDup + 1 \in Nat /\ dup \in Nat
  BY PulseAssumption
<1> QED BY <1>1 DEF Pid

LEMMA FreeBit ==
  ASSUME FreeBits # {}
  PROVE  Min(FreeBits) \in SmsIds /\ Min(FreeBits) \notin eventSources
BY MinIn, PulseAssumption DEF FreeBits

LEMMA SetToSeqLists ==
  ASSUME NEW S, IsFiniteSet(S)
  PROVE  /\ SetToSeq(S) \in Seq(S)
         /\ \A x \in S : \E k \in DOMAIN SetToSeq(S) : SetToSeq(S)[k] = x
         /\ \A j, k \in DOMAIN SetToSeq(S) :
                SetToSeq(S)[j] = SetToSeq(S)[k] => j = k
<1>1. PICK f \in Bijection(1 .. Cardinality(S), S) : TRUE
  BY FS_CardinalityType DEF ExistsBijection
<1> DEFINE q == SetToSeq(S)
<1>2. f \in [1 .. Cardinality(S) -> S] /\ IsInjective(f)
  BY DEF Bijection, Injection, IsInjective
<1>3. q \in [1 .. Cardinality(S) -> S] /\ IsInjective(q)
  BY <1>2 DEF SetToSeq
<1>4. Cardinality(S) \in Nat BY FS_CardinalityType
<1>5. q \in Injection(1 .. Cardinality(S), S)
  BY <1>3 DEF Injection
<1>6. Cardinality(1 .. Cardinality(S)) = Cardinality(S)
  BY <1>4, FS_Interval
<1>7. q \in Surjection(1 .. Cardinality(S), S)
  BY <1>5, <1>6, FS_Injection
<1>8. DOMAIN q = 1 .. Cardinality(S) BY <1>3
<1> HIDE DEF q
<1>9. q \in Seq(S) BY <1>3, <1>4
<1> QED BY <1>3, <1>7, <1>8, <1>9 DEF Surjection, IsInjective, q

LEMMA IntermittentOwned ==
  ASSUME Typed, IntermittentAt # {}
  PROVE  IntermittentBit \in eventSources
<1> DEFINE A == IntermittentAt
           first == Min({x[1] : x \in A})
           B == {x[2] : x \in {y \in A : y[1] = first}}
<1>1. \A x \in A : /\ x[1] \in DOMAIN pulses
                   /\ x[2] \in pulses[x[1]].pending
  BY DEF IntermittentAt
<1>2. \A x \in A : x[1] \in Nat /\ x[2] \in eventSources
  BY <1>1, PidsNat DEF Typed, MapOK
<1> HIDE DEF A
<1>3. {x[1] : x \in A} \in SUBSET Nat /\ {x[1] : x \in A} # {}
  BY <1>2 DEF A
<1>4. first \in {x[1] : x \in A} BY <1>3, MinIn
<1> HIDE DEF first
<1>5. B \subseteq eventSources /\ B # {}
  BY <1>2, <1>4
<1>6. B \in SUBSET Nat
  BY <1>5, PulseAssumption DEF Typed, RegistryTyped
<1>7. IntermittentBit = Min(B)
  BY DEF IntermittentBit, A, first
<1> HIDE DEF B
<1> QED BY <1>5, <1>6, <1>7, MinIn

(* The calls that let the hardware sources of a connection go.              *)
LEMMA LeaveAllCalls ==
  ASSUME Typed, NEW d \in Sources
  PROVE  /\ LeaveAll(d) \in Seq(Calls)
         /\ \A k \in DOMAIN LeaveAll(d) : \E h \in DOMAIN hw[d] :
                LeaveAll(d)[k] = Call("leave", <<d, h>>, None)
         /\ \A h \in DOMAIN hw[d] : \E k \in DOMAIN LeaveAll(d) :
                LeaveAll(d)[k] = Call("leave", <<d, h>>, None)
         /\ \A j, k \in DOMAIN LeaveAll(d) :
                LeaveAll(d)[j] = LeaveAll(d)[k] => j = k
<1> DEFINE S == {Call("leave", <<d, h>>, None) : h \in DOMAIN hw[d]}
<1>1. DOMAIN hw[d] \subseteq HwIds /\ IsFiniteSet(DOMAIN hw[d])
  BY FS_Subset, PulseAssumption DEF Typed, HwTyped
<1>2. IsFiniteSet(S)
  <2>1. DEFINE f == [h \in DOMAIN hw[d] |-> Call("leave", <<d, h>>, None)]
  <2>2. f \in Surjection(DOMAIN hw[d], S)
    BY DEF Surjection
  <2> QED BY <1>1, <2>2, FS_Surjection
<1>3. S \subseteq Calls
  BY <1>1 DEF Calls, Call, Srcs
<1>4. LeaveAll(d) = SetToSeq(S)
  BY DEF LeaveAll
<1>5. /\ SetToSeq(S) \in Seq(S)
      /\ \A x \in S : \E k \in DOMAIN SetToSeq(S) : SetToSeq(S)[k] = x
      /\ \A j, k \in DOMAIN SetToSeq(S) : SetToSeq(S)[j] = SetToSeq(S)[k] => j = k
  <2> HIDE DEF S
  <2> QED BY <1>2, SetToSeqLists
<1>6. \A k \in DOMAIN SetToSeq(S) : SetToSeq(S)[k] \in S
  <2> HIDE DEF S
  <2> QED BY <1>5, ElementOfSeq, LenProperties
<1>7. LeaveAll(d) \in Seq(Calls)
  BY <1>3, <1>4, <1>5, SeqMonotonic
<1>8. \A k \in DOMAIN LeaveAll(d) : \E h \in DOMAIN hw[d] :
        LeaveAll(d)[k] = Call("leave", <<d, h>>, None)
  BY <1>4, <1>6, Zenon
<1>9. \A h \in DOMAIN hw[d] : \E k \in DOMAIN LeaveAll(d) :
        LeaveAll(d)[k] = Call("leave", <<d, h>>, None)
  BY <1>4, <1>5, Zenon
<1> QED BY <1>4, <1>5, <1>7, <1>8, <1>9, Zenon

-----------------------------------------------------------------------------
(* The running handler.                                                     *)

LEMMA CallTypes ==
  ASSUME NEW c \in Calls
  PROVE  /\ c.op \in {"drop", "end", "accept", "events", "partial", "pop", "leave",
                      "unregister"} => c.src \in Srcs /\ c.src # None
         /\ c.src # None => c.src \in Srcs
         /\ c.op = "drop" => c.arg \in Entry
         /\ c.op = "end" => c.arg \in Entry \union DataArg
         /\ c.op = "accept" => c.arg \in DataArg
         /\ c.op \in {"events", "partial"} => c.arg \in EventArg
         /\ c.op = "complete" => \/ c.src \in Srcs /\ c.arg \in EndArg
                                 \/ c.src = None /\ c.arg \in RTDLArg
         /\ c.op = "settle" => c.src = None /\ c.arg \in RTDLArg
         /\ c.op = "rtdl" => c.src = None /\ c.arg \in [pid : Pids]
<1>0. \A s \in Srcs : s # None BY PulseAssumption DEF Srcs
<1> HIDE DEF Entry, DataArg, EventArg, EndArg, RTDLArg, Srcs
<1>1. CASE c \in [op : {"drop"}, src : Srcs, arg : Entry] BY <1>0, <1>1
<1>2. CASE c \in [op : {"end"}, src : Srcs, arg : Entry \union DataArg] BY <1>0, <1>2
<1>3. CASE c \in [op : {"accept"}, src : Srcs, arg : DataArg] BY <1>0, <1>3
<1>4. CASE c \in [op : {"events", "partial"}, src : Srcs, arg : EventArg] BY <1>0, <1>4
<1>5. CASE c \in [op : {"complete"}, src : Srcs, arg : EndArg] BY <1>0, <1>5
<1>6. CASE c \in [op : {"complete", "settle"}, src : {None}, arg : RTDLArg] BY <1>6
<1>7. CASE c \in [op : {"rtdl"}, src : {None}, arg : [pid : Pids]] BY <1>7
<1>8. CASE c \in [op : {"pop", "leave", "unregister"}, src : Srcs, arg : {None}]
  BY <1>0, <1>8
<1> QED BY <1>1, <1>2, <1>3, <1>4, <1>5, <1>6, <1>7, <1>8 DEF Calls

(* The first call of q is replaced by those it makes: new.                  *)
LEMMA TodoStep ==
  ASSUME NEW q \in Seq(Calls), q # <<>>, NEW new \in Seq(Calls),
         NEW r, r = new \o Tail(q)
  PROVE  /\ r \in Seq(Calls) /\ DOMAIN r = 1 .. Len(r) /\ DOMAIN new = 1 .. Len(new)
         /\ DOMAIN q = 1 .. Len(q) /\ Len(new) \in Nat /\ Len(q) \in Nat \ {0}
         /\ Len(r) = Len(new) + Len(q) - 1
         /\ \A k \in DOMAIN new : r[k] = new[k]
         /\ \A k \in DOMAIN q : k > 1 => r[Len(new) + k - 1] = q[k]
         /\ \A k \in DOMAIN r : k \notin DOMAIN new =>
                /\ k - Len(new) + 1 \in DOMAIN q /\ k - Len(new) + 1 > 1
                /\ r[k] = q[k - Len(new) + 1]
<1>1. /\ Tail(q) \in Seq(Calls) /\ Len(Tail(q)) = Len(q) - 1
      /\ \A k \in 1 .. Len(Tail(q)) : Tail(q)[k] = q[k + 1]
  BY HeadTailProperties
<1>2. Len(q) \in Nat \ {0} BY EmptySeq
<1>3. Len(new) \in Nat /\ DOMAIN new = 1 .. Len(new) /\ DOMAIN q = 1 .. Len(q)
  BY LenProperties
<1>4. /\ r \in Seq(Calls) /\ Len(r) = Len(new) + Len(Tail(q))
      /\ \A k \in 1 .. Len(new) + Len(Tail(q)) :
            r[k] = IF k <= Len(new) THEN new[k] ELSE Tail(q)[k - Len(new)]
  BY <1>1, ConcatProperties
<1>5. DOMAIN r = 1 .. Len(r) BY <1>4, LenProperties
<1>6. ASSUME NEW k \in DOMAIN q, k > 1 PROVE r[Len(new) + k - 1] = q[k]
  <2>1. k - 1 \in 1 .. Len(Tail(q)) /\ Len(new) + k - 1 \in 1 .. Len(new) + Len(Tail(q))
    BY <1>1, <1>2, <1>3, <1>6
  <2>2. r[Len(new) + k - 1] = Tail(q)[k - 1] BY <1>3, <1>4, <2>1
  <2> QED BY <1>1, <1>3, <2>1, <2>2
<1>7. \A k \in DOMAIN new : r[k] = new[k] BY <1>1, <1>2, <1>3, <1>4
<1>8. ASSUME NEW k \in DOMAIN r, k \notin DOMAIN new
      PROVE  /\ k - Len(new) + 1 \in DOMAIN q /\ k - Len(new) + 1 > 1
             /\ r[k] = q[k - Len(new) + 1]
  <2>1. /\ k \in Nat /\ k - Len(new) + 1 \in DOMAIN q /\ k - Len(new) + 1 > 1
    BY <1>1, <1>2, <1>3, <1>4, <1>5, <1>8
  <2>2. Len(new) + (k - Len(new) + 1) - 1 = k BY <1>3, <2>1
  <2> QED BY <1>6, <2>1, <2>2
<1> QED BY <1>1, <1>2, <1>3, <1>4, <1>5, <1>6, <1>7, <1>8

(* What the calls keep: one handler never calls for a source it let go.     *)
Made(q, new) == \A k \in DOMAIN new :
    /\ new[k].op \notin {"accept", "pop", "leave"}
    /\ new[k].src \in {None, Head(q).src}
    /\ new[k].op = "unregister" => Head(q).op = "leave" /\ k = Len(new)

LEMMA OrderedStep ==
  ASSUME NEW q \in Seq(Calls), q # <<>>, Ordered(q), NEW new \in Seq(Calls),
         Made(q, new), NEW r, r = new \o Tail(q)
  PROVE  Ordered(r)
<1> DEFINE at(k) == k - Len(new) + 1
<1>1. /\ DOMAIN r = 1 .. Len(r) /\ DOMAIN new = 1 .. Len(new)
      /\ DOMAIN q = 1 .. Len(q) /\ Len(new) \in Nat /\ Len(q) \in Nat \ {0}
      /\ Len(r) = Len(new) + Len(q) - 1
      /\ \A k \in DOMAIN new : r[k] = new[k]
      /\ \A k \in DOMAIN r : k \notin DOMAIN new =>
             at(k) \in DOMAIN q /\ at(k) > 1 /\ r[k] = q[at(k)]
  BY TodoStep
<1>3. Head(q) = q[1] OBVIOUS
<1>4. NoneAfterLeaving(r)
  <2> SUFFICES ASSUME NEW j \in DOMAIN r, NEW k \in DOMAIN r, j < k, r[j].op \in Leaving
               PROVE  r[k].src # r[j].src
    BY DEF NoneAfterLeaving
  <2>1. j \in Nat /\ k \in Nat BY <1>1
  <2>2. CASE j \in DOMAIN new
    <3>1. new[j].op = "unregister" /\ Head(q).op = "leave" /\ j = Len(new)
          /\ new[j].src \in {None, Head(q).src}
      BY <1>1, <2>2 DEF Made, Leaving
    <3>2. new[j].src # None
      BY <1>1, <2>2, <3>1, ElementOfSeq, CallTypes
    <3>3. k \notin DOMAIN new BY <1>1, <2>1, <3>1
    <3>4. q[at(k)].src # q[1].src
      <4>1. 1 \in DOMAIN q /\ q[1].op \in Leaving
        BY <1>1, <1>3, <3>1 DEF Leaving
      <4>2. at(k) \in DOMAIN q /\ 1 < at(k) BY <1>1, <3>3
      <4> HIDE DEF at
      <4> QED BY <4>1, <4>2 DEF Ordered, NoneAfterLeaving
    <3> QED BY <1>1, <1>3, <2>2, <3>1, <3>2, <3>3, <3>4
  <2>3. CASE j \notin DOMAIN new
    <3>1. k \notin DOMAIN new BY <1>1, <2>1, <2>3
    <3>2. at(j) < at(k) BY <1>1, <2>1
    <3> QED BY <1>1, <2>3, <3>1, <3>2 DEF Ordered, NoneAfterLeaving
  <2> QED BY <2>2, <2>3
<1>5. AcceptLast(r)
  <2> SUFFICES ASSUME NEW k \in DOMAIN r, r[k].op = "accept" PROVE k = Len(r)
    BY DEF AcceptLast
  <2>1. k \notin DOMAIN new BY <1>1 DEF Made
  <2>2. at(k) = Len(q) BY <1>1, <2>1 DEF Ordered, AcceptLast
  <2> QED BY <1>1, <2>2
<1>6. PopBeforeAccept(r)
  <2> SUFFICES ASSUME NEW k \in DOMAIN r, r[k].op = "pop"
               PROVE  k + 1 = Len(r) /\ r[k + 1].op = "accept" /\ r[k + 1].src = r[k].src
    BY DEF PopBeforeAccept
  <2>1. k \notin DOMAIN new BY <1>1 DEF Made
  <2>2. at(k) + 1 = Len(q) /\ q[at(k) + 1].op = "accept"
        /\ q[at(k) + 1].src = q[at(k)].src
    BY <1>1, <2>1 DEF Ordered, PopBeforeAccept
  <2>3. k + 1 = Len(r) BY <1>1, <2>2
  <2>4. at(k + 1) = at(k) + 1 /\ k + 1 \in DOMAIN r /\ k + 1 \notin DOMAIN new
    BY <1>1, <2>1, <2>3, SMTT(30)
  <2> QED BY <1>1, <2>1, <2>2, <2>3, <2>4
<1> QED BY <1>4, <1>5, <1>6 DEF Ordered

(* Most handlers leave the sources and the pulses in their lists as they    *)
(* are, but for the marks of these.                                        *)
SameList(s, t) == /\ DOMAIN t = DOMAIN s /\ Len(t) = Len(s)
                  /\ \A k \in DOMAIN s : t[k].id = s[k].id /\ t[k].shape = s[k].shape
SameLists(H, G) == \A d \in Sources :
                 /\ DOMAIN G[d] = DOMAIN H[d]
                 /\ \A h \in DOMAIN H[d] : SameList(H[d][h].seq, G[d][h].seq)

LEMMA SameListsKeep ==
  ASSUME NEW H, NEW G, SameLists(H, G), NEW c \in Calls, CallHere(H, c), CallListed(H, c)
  PROVE  CallHere(G, c) /\ CallListed(G, c)
<1>1. CallHere(G, c)
  <2> SUFFICES ASSUME c.src # None PROVE Here(G, c.src)
    BY DEF CallHere
  <2>1. c.src[1] \in Sources /\ Here(H, c.src) BY CallTypes DEF CallHere, Srcs
  <2> QED BY <2>1 DEF Here, SameLists
<1>2. CallListed(G, c)
  <2> SUFFICES ASSUME c.op \in {"drop", "end", "accept"}
               PROVE  HasPulse(G[c.src[1]][c.src[2]], c.arg.id, c.arg.shape)
    BY DEF CallListed
  <2> DEFINE s == H[c.src[1]][c.src[2]].seq
             t == G[c.src[1]][c.src[2]].seq
  <2>1. c.src[1] \in Sources /\ Here(H, c.src) BY CallTypes DEF CallHere, Srcs
  <2>2. SameList(s, t)
    BY <2>1 DEF Here, SameLists
  <2>3. PICK k \in DOMAIN s : s[k].id = c.arg.id /\ s[k].shape = c.arg.shape
    BY DEF CallListed, HasPulse
  <2> QED BY <2>2, <2>3 DEF SameList, HasPulse
<1> QED BY <1>1, <1>2

LEMMA TodoKept ==
  ASSUME NEW C, NEW H, HwTyped(H), NEW q \in Seq(Calls), TodoOK(C, H, q), q # <<>>,
         NEW new \in Seq(Calls), Made(q, new), NEW r, r = new \o Tail(q),
         NEW G, SameLists(H, G), CallsValid(H, new),
         Head(q).op \in Leaving =>
             \E k \in DOMAIN new : new[k].op \in Leaving /\ new[k].src = Head(q).src
  PROVE  r \in Seq(Calls) /\ TodoOK(C, G, r)
<1> DEFINE at(k) == k - Len(new) + 1
<1>1. /\ r \in Seq(Calls) /\ DOMAIN r = 1 .. Len(r) /\ DOMAIN new = 1 .. Len(new)
      /\ DOMAIN q = 1 .. Len(q) /\ Len(new) \in Nat /\ Len(q) \in Nat \ {0}
      /\ Len(r) = Len(new) + Len(q) - 1
      /\ \A k \in DOMAIN new : r[k] = new[k]
      /\ \A k \in DOMAIN q : k > 1 => r[Len(new) + k - 1] = q[k]
      /\ \A k \in DOMAIN r : k \notin DOMAIN new =>
             at(k) \in DOMAIN q /\ at(k) > 1 /\ r[k] = q[at(k)]
  BY TodoStep
<1>3. Ordered(r) BY OrderedStep DEF TodoOK
<1>4. CallsValid(G, r)
  <2> SUFFICES ASSUME NEW k \in DOMAIN r
               PROVE  CallHere(G, r[k]) /\ CallListed(G, r[k])
    BY DEF CallsValid
  <2>1. r[k] \in Calls BY <1>1, ElementOfSeq
  <2>2. CallHere(H, r[k]) /\ CallListed(H, r[k])
    <3>1. CASE k \in DOMAIN new BY <1>1, <3>1 DEF CallsValid
    <3>2. CASE k \notin DOMAIN new BY <1>1, <3>2 DEF TodoOK, CallsValid
    <3> QED BY <3>1, <3>2
  <2> QED BY <2>1, <2>2, SameListsKeep
<1>5. PopKeepsNewest(G, r)
  <2> SUFFICES ASSUME NEW k \in DOMAIN r, r[k].op = "pop"
               PROVE  Newest(G[r[k].src[1]][r[k].src[2]].seq, r[k + 1].arg)
    BY DEF PopKeepsNewest
  <2>1. k \notin DOMAIN new BY <1>1 DEF Made
  <2> DEFINE c == q[at(k)]
             s == H[c.src[1]][c.src[2]].seq
             t == G[c.src[1]][c.src[2]].seq
  <2>2. Newest(s, q[at(k) + 1].arg)
    BY <1>1, <2>1 DEF TodoOK, PopKeepsNewest
  <2>3. r[k + 1] = q[at(k) + 1] /\ r[k] = c
    <3>1. at(k) + 1 = Len(q) BY <1>1, <2>1 DEF TodoOK, Ordered, PopBeforeAccept
    <3>2. k + 1 \in DOMAIN r /\ k + 1 \notin DOMAIN new /\ at(k + 1) = at(k) + 1
      BY <1>1, <2>1, <3>1
    <3> QED BY <1>1, <2>1, <3>2
  <2>4. c \in Calls /\ c.op = "pop" /\ CallHere(H, c)
    BY <1>1, <2>1, ElementOfSeq DEF TodoOK, CallsValid
  <2> HIDE DEF c
  <2>5. c.src \in Srcs /\ Here(H, c.src)
    BY <2>4, CallTypes DEF CallHere
  <2>6. SameList(s, t)
    BY <2>5 DEF SameLists, Here, Srcs
  <2>7. s \in Seq(Entry)
    BY <2>5 DEF HwTyped, Here, Srcs, HWSource
  <2>8. 1 \in DOMAIN s
    <3> HIDE DEF s
    <3> QED BY <2>2, <2>7, LenProperties DEF Newest
  <2> QED BY <2>2, <2>3, <2>6, <2>8 DEF SameList, Newest
<1>6. LeavingAll(C, G, r)
  <2> SUFFICES ASSUME NEW d \in Sources, C[d] \notin {"ACTIVE", "FAULT"},
                      NEW h \in DOMAIN H[d]
               PROVE  \E k \in DOMAIN r : r[k].op \in Leaving /\ r[k].src = <<d, h>>
    BY DEF LeavingAll, SameLists
  <2>1. PICK k \in DOMAIN q : q[k].op \in Leaving /\ q[k].src = <<d, h>>
    BY DEF TodoOK, LeavingAll
  <2>2. CASE k = 1
    <3>1. Head(q) = q[1] OBVIOUS
    <3>2. PICK j \in DOMAIN new : new[j].op \in Leaving /\ new[j].src = Head(q).src
      BY <2>1, <2>2, <3>1
    <3>3. j \in DOMAIN r BY <1>1
    <3> QED BY <1>1, <2>1, <2>2, <3>1, <3>2, <3>3
  <2>3. CASE k # 1
    <3>1. Len(new) + k - 1 \in DOMAIN r /\ k > 1 BY <1>1, <2>3
    <3> QED BY <1>1, <2>1, <3>1
  <2> QED BY <2>2, <2>3
<1> QED BY <1>1, <1>3, <1>4, <1>5, <1>6 DEF TodoOK

(* The pulse map: what is taken out of it leaves the rest as it was.        *)
LEMMA FlushMap ==
  ASSUME NEW P, NEW E, MapOK(P, E), NEW to, NEW cached,
         Flush(P, to, cached) \/ HoldAll(P, cached)
  PROVE  MapOK(pulses', E)
<1>1. \E S : pulses' = Without(P, S) \/ pulses' = P
  BY DEF Flush, HoldAll
<1> QED BY <1>1 DEF Without, MapOK

LEMMA GiveUpMap ==
  ASSUME NEW P, NEW E, MapOK(P, E), NEW i, NEW S
  PROVE  /\ MapOK(GiveUpOn(i, S, P), E)
         /\ DOMAIN P \subseteq S => MapOK(GiveUpOn(i, S, P), E \ {i})
<1> DEFINE G == GiveUpOn(i, S, P)
<1>1. DOMAIN G = DOMAIN P BY DEF GiveUpOn
<1>2. ASSUME NEW p \in DOMAIN P
      PROVE  /\ G[p] \in Pulse /\ G[p].pending \subseteq P[p].pending
             /\ p \in S => i \notin G[p].pending
  <2>1. P[p] \in Pulse BY DEF MapOK
  <2>2. CASE p \in S /\ i \in P[p].pending
    <3>1. G[p] = [P[p] EXCEPT !.pending = @ \ {i}, !.partial = TRUE]
      BY <2>2 DEF GiveUpOn
    <3> HIDE DEF G
    <3> QED BY <2>1, <3>1 DEF Pulse
  <2>3. CASE ~(p \in S /\ i \in P[p].pending)
    BY <2>1, <2>3 DEF GiveUpOn
  <2> QED BY <2>2, <2>3
<1> HIDE DEF G
<1> QED BY <1>1, <1>2 DEF MapOK, G

LEMMA UnregisterMap ==
  ASSUME MapOK(pulses, eventSources), NEW i, unregisterEventSource(i)
  PROVE  MapOK(pulses', eventSources') /\ eventSources' = eventSources \ {i}
<1> DEFINE P == GiveUpOn(i, DOMAIN pulses, pulses)
           done == Complete(P, DOMAIN P)
           to == IF Cardinality(eventSources) > 1
                 THEN LastMinusBuffer(Max(done), P) ELSE Max(done)
<1>1. Flush(P, to, lastPid) \/ HoldAll(P, lastPid)
  BY DEF unregisterEventSource
<1>2. MapOK(P, eventSources \ {i})
  BY GiveUpMap
<1> HIDE DEF P, to
<1>3. MapOK(pulses', eventSources \ {i}) BY <1>1, <1>2, FlushMap
<1> QED BY <1>3 DEF unregisterEventSource

LEMMA MarkCompleteMap ==
  ASSUME MapOK(pulses, eventSources), NEW pid \in DOMAIN pulses, NEW i, markComplete(pid, i)
  PROVE  MapOK(pulses', eventSources)
<1> DEFINE P1 == IF i = NoSms THEN pulses
                 ELSE GiveUpOn(i, {q \in DOMAIN pulses : q < pid}, pulses)
           P == IF i = NoSms THEN P1 ELSE [P1 EXCEPT ![pid].pending = @ \ {i}]
           done == Complete(P, IF i = NoSms THEN {pid} ELSE UpTo(P, pid))
           to == LastMinusBuffer(Max(done), P)
<1>1. Flush(P, to, pid) \/ HoldAll(P, pid)
  BY DEF markComplete
<1>2. MapOK(P1, eventSources) BY GiveUpMap
<1> HIDE DEF P1
<1>3. MapOK([P1 EXCEPT ![pid].pending = @ \ {i}], eventSources)
  BY <1>2 DEF MapOK, Pulse
<1>4. MapOK(P, eventSources) BY <1>2, <1>3
<1> HIDE DEF P, to
<1> QED BY <1>1, <1>4, FlushMap

LEMMA GetPulseMap ==
  ASSUME Typed, NEW pid \in Pids, getPulse(pid)
  PROVE  MapOK(pulses', eventSources)
<1>1. PICK P, out : /\ pulses' = Put(Without(P, out), pid, NewPulse)
                    /\ P = [p \in DOMAIN pulses |->
                               IF p \in out /\ pulses[p].pending # {}
                               THEN [pulses[p] EXCEPT !.partial = TRUE] ELSE pulses[p]]
  BY DEF getPulse
<1>2. MapOK(P, eventSources)
  <2> SUFFICES ASSUME NEW p \in DOMAIN pulses
               PROVE  P[p] \in Pulse /\ P[p].pending \subseteq eventSources
    BY <1>1 DEF Typed, MapOK
  <2>1. pulses[p] \in Pulse /\ pulses[p].pending \subseteq eventSources
    BY DEF Typed, MapOK
  <2>2. P[p] = [pulses[p] EXCEPT !.partial = TRUE] \/ P[p] = pulses[p]
    BY <1>1
  <2> QED BY <2>1, <2>2 DEF Pulse
<1>3. NewPulse \in Pulse /\ NewPulse.pending = eventSources
  BY DEF NewPulse, Pulse, Typed, RegistryTyped
<1> QED BY <1>1, <1>2, <1>3 DEF Put, Without, MapOK

(* The registry: a bit and the source that has it come and go together.     *)
LEMMA UnregisterBits ==
  ASSUME RegistryTyped, BitsOwned(owner, eventSources, hw),
         NEW i \in eventSources, unregisterEventSource(i), NEW G,
         \A d \in Sources, h \in HwIds, j \in SmsIds :
             Holds(G, d, h, j) <=> Holds(hw, d, h, j) /\ j # i
  PROVE  BitsOwned(owner', eventSources', G) /\ RegistryTyped'
<1>1. eventSources' = eventSources \ {i} /\ owner' = [owner EXCEPT ![i] = None]
  BY DEF unregisterEventSource
<1>2. RegistryTyped' BY <1>1 DEF RegistryTyped
<1>3. \A j \in SmsIds : (owner'[j] = None) <=> (j \notin eventSources')
  BY <1>1 DEF RegistryTyped, BitsOwned
<1>4. \A j \in eventSources' : j # i /\ owner'[j] = owner[j] /\ owner[j] \in Sources
  BY <1>1, PulseAssumption DEF RegistryTyped, BitsOwned
<1>5. \A j \in eventSources' : \E h \in HwIds : Holds(G, owner'[j], h, j)
  <2> SUFFICES ASSUME NEW j \in eventSources'
               PROVE  \E h \in HwIds : Holds(G, owner'[j], h, j)
    OBVIOUS
  <2>1. j \in SmsIds /\ j \in eventSources BY <1>1 DEF RegistryTyped
  <2>2. PICK h \in HwIds : Holds(hw, owner[j], h, j) BY <2>1 DEF BitsOwned
  <2> QED BY <1>4, <2>1, <2>2
<1>6. ASSUME NEW d \in Sources, NEW h \in HwIds, NEW g \in HwIds, NEW j \in SmsIds,
             Holds(G, d, h, j)
      PROVE  owner'[j] = d /\ (Holds(G, d, g, j) => h = g)
  <2>1. Holds(hw, d, h, j) /\ j # i BY <1>6
  <2>2. owner[j] = d /\ (Holds(hw, d, g, j) => h = g) BY <2>1 DEF BitsOwned
  <2>3. owner'[j] = d BY <1>1, <2>1, <2>2 DEF RegistryTyped
  <2> QED BY <2>2, <2>3
<1>7. BitsOwned(owner', eventSources', G)
  BY <1>3, <1>5, <1>6 DEF BitsOwned
<1> QED BY <1>2, <1>7

LEMMA RegisterBits ==
  ASSUME RegistryTyped, HwTyped(hw), BitsOwned(owner, eventSources, hw),
         NEW d \in Sources, NEW h \in HwIds, FreeBits # {}, registerEventSource(d), NEW G,
         \A j \in SmsIds : ~Holds(hw, d, h, j),
         \A x \in Sources, g \in HwIds, j \in SmsIds :
             Holds(G, x, g, j) <=> \/ Holds(hw, x, g, j)
                                   \/ x = d /\ g = h /\ j = Min(FreeBits)
  PROVE  BitsOwned(owner', eventSources', G) /\ RegistryTyped'
<1> DEFINE i == Min(FreeBits)
<1>0. i \in SmsIds /\ i \notin eventSources BY FreeBit
<1>1. eventSources' = eventSources \union {i} /\ owner' = [owner EXCEPT ![i] = d]
  BY DEF registerEventSource
<1> HIDE DEF i
<1>2. RegistryTyped' BY <1>0, <1>1 DEF RegistryTyped
<1>3. \A j \in SmsIds : (owner'[j] = None) <=> (j \notin eventSources')
  BY <1>0, <1>1, PulseAssumption DEF RegistryTyped, BitsOwned
<1>4. \A j \in eventSources' : \E g \in HwIds : Holds(G, owner'[j], g, j)
  <2> SUFFICES ASSUME NEW j \in eventSources'
               PROVE  \E g \in HwIds : Holds(G, owner'[j], g, j)
    OBVIOUS
  <2>1. CASE j = i
    BY <1>0, <1>1, <2>1 DEF RegistryTyped, i
  <2>2. CASE j # i
    <3>1. j \in SmsIds /\ j \in eventSources BY <1>1, <2>2 DEF RegistryTyped
    <3>2. PICK g \in HwIds : Holds(hw, owner[j], g, j) BY <3>1 DEF BitsOwned
    <3>3. owner[j] \in Sources /\ owner'[j] = owner[j]
      BY <1>1, <2>2, <3>1 DEF RegistryTyped, BitsOwned
    <3> QED BY <3>1, <3>2, <3>3
  <2> QED BY <2>1, <2>2
<1>5. \A x \in Sources, g \in HwIds : ~Holds(hw, x, g, i)
  <2> SUFFICES ASSUME NEW x \in Sources, NEW g \in HwIds, Holds(hw, x, g, i)
               PROVE  FALSE
    OBVIOUS
  <2>1. owner[i] = x /\ owner[i] = None BY <1>0 DEF BitsOwned
  <2> QED BY <2>1, PulseAssumption
<1>6. ASSUME NEW x \in Sources, NEW f \in HwIds, NEW g \in HwIds, NEW j \in SmsIds,
             Holds(G, x, f, j)
      PROVE  owner'[j] = x /\ (Holds(G, x, g, j) => f = g)
  <2>1. CASE j = i
    <3>1. x = d /\ f = h BY <1>5, <1>6, <2>1 DEF i
    <3>2. Holds(G, x, g, j) => g = h BY <1>5, <2>1 DEF i
    <3> QED BY <1>0, <1>1, <2>1, <3>1, <3>2 DEF RegistryTyped
  <2>2. CASE j # i
    <3>1. Holds(hw, x, f, j) /\ (Holds(G, x, g, j) => Holds(hw, x, g, j))
      BY <1>6, <2>2 DEF i
    <3>2. owner[j] = x /\ (Holds(hw, x, g, j) => f = g) BY <3>1 DEF BitsOwned
    <3> QED BY <1>1, <2>2, <3>1, <3>2 DEF RegistryTyped
  <2> QED BY <2>1, <2>2
<1>7. BitsOwned(owner', eventSources', G)
  BY <1>3, <1>4, <1>6 DEF BitsOwned
<1> QED BY <1>2, <1>7

\* The registry does not change, and no source gains or loses a bit.
LEMMA BitsSame ==
  ASSUME RegistryTyped, BitsOwned(owner, eventSources, hw), NEW G,
         \A x \in Sources, g \in HwIds, j \in SmsIds :
             Holds(G, x, g, j) <=> Holds(hw, x, g, j)
  PROVE  BitsOwned(owner, eventSources, G)
<1>1. \A j \in eventSources : j \in SmsIds /\ owner[j] \in Sources
  BY DEF RegistryTyped, BitsOwned
<1> QED BY <1>1 DEF BitsOwned

(* One hardware source changes.                                             *)
LEMMA SetHwHolds ==
  ASSUME HwTyped(hw), NEW s \in Srcs, NEW new \in HWSource, SetHw(s, new)
  PROVE  /\ HwTyped(hw')
         /\ \A d \in Sources : \A h \in HwIds :
               /\ h \in DOMAIN hw'[d] <=> (h \in DOMAIN hw[d] \/ <<d, h>> = s)
               /\ h \in DOMAIN hw'[d] =>
                     hw'[d][h] = IF <<d, h>> = s THEN new ELSE hw[d][h]
<1> PICK e \in Sources, g \in HwIds : s = <<e, g>> BY DEF Srcs
<1>1. hw' = [hw EXCEPT ![e] = Put(hw[e], g, new)]
  BY DEF SetHw
<1>2. DOMAIN hw' = Sources BY <1>1 DEF HwTyped
<1>3. ASSUME NEW d \in Sources
      PROVE  /\ DOMAIN hw'[d] = IF d = e THEN DOMAIN hw[d] \union {g} ELSE DOMAIN hw[d]
             /\ \A h \in DOMAIN hw'[d] :
                   hw'[d][h] = IF d = e /\ h = g THEN new ELSE hw[d][h]
  BY <1>1 DEF HwTyped, Put
<1>4. HwTyped(hw')
  BY <1>2, <1>3, ZenonT(40) DEF HwTyped
<1> QED BY <1>3, <1>4 DEF HwTyped

LEMMA WithGoodTyped ==
  ASSUME HwTyped(hw), NEW s \in Srcs, Here(hw, s), NEW e, NEW good \in BOOLEAN
  PROVE  /\ WithGood(s, e, good) \in HWSource
         /\ WithGood(s, e, good).smsId = Src(s).smsId
         /\ SameList(Src(s).seq, WithGood(s, e, good).seq)
<1> DEFINE x == Src(s)
           k == At(s, e)
           seq == [x.seq EXCEPT ![k].good = good]
<1>1. x \in HWSource BY DEF HwTyped, Here, Srcs, Src
<1>2. WithGood(s, e, good) = [x EXCEPT !.seq = seq]
  BY <1>1 DEF WithGood, HWSource
<1>3. x.seq \in Seq(Entry) BY <1>1 DEF HWSource
<1> HIDE DEF x, k
<1>4. seq \in Seq(Entry) /\ SameList(x.seq, seq)
  <2>1. CASE k \in DOMAIN x.seq
    <3> DEFINE y == [x.seq[k] EXCEPT !.good = good]
    <3>1. x.seq[k] \in Entry /\ k \in 1 .. Len(x.seq)
      BY <1>3, <2>1, ElementOfSeq, LenProperties
    <3>2. y \in Entry /\ y.id = x.seq[k].id /\ y.shape = x.seq[k].shape
      BY <3>1 DEF Entry
    <3>3. seq = [x.seq EXCEPT ![k] = y] OBVIOUS
    <3> HIDE DEF y, seq
    <3>4. /\ seq \in Seq(Entry) /\ Len(seq) = Len(x.seq)
          /\ \A j \in 1 .. Len(x.seq) : seq[j] = IF j = k THEN y ELSE x.seq[j]
      BY <1>3, <3>1, <3>2, <3>3, ExceptSeq
    <3>5. DOMAIN seq = 1 .. Len(x.seq) /\ DOMAIN x.seq = 1 .. Len(x.seq)
      BY <1>3, <3>4, LenProperties
    <3> QED BY <3>2, <3>4, <3>5 DEF SameList
  <2>2. CASE k \notin DOMAIN x.seq
    <3>1. seq = x.seq BY <1>3, <2>2
    <3> QED BY <1>3, <3>1 DEF SameList
  <2> QED BY <2>1, <2>2
<1> HIDE DEF seq
<1> QED BY <1>1, <1>2, <1>4 DEF HWSource, x

LEMMA SetHwSame ==
  ASSUME HwTyped(hw), NEW s \in Srcs, Here(hw, s), NEW new \in HWSource,
         SameList(Src(s).seq, new.seq), new.smsId = Src(s).smsId, SetHw(s, new)
  PROVE  /\ SameLists(hw, hw')
         /\ \A x \in Sources, g \in HwIds, j \in SmsIds :
                Holds(hw', x, g, j) <=> Holds(hw, x, g, j)
<1>1. \A d \in Sources : \A h \in HwIds :
         /\ h \in DOMAIN hw'[d] <=> (h \in DOMAIN hw[d] \/ <<d, h>> = s)
         /\ h \in DOMAIN hw'[d] =>
               hw'[d][h] = IF <<d, h>> = s THEN new ELSE hw[d][h]
  BY SetHwHolds
<1>2. \A d \in Sources : DOMAIN hw[d] \subseteq HwIds /\ DOMAIN hw'[d] \subseteq HwIds
  BY SetHwHolds DEF HwTyped
<1>3. \A d \in Sources : \A h \in HwIds :
         h \in DOMAIN hw'[d] <=> h \in DOMAIN hw[d]
  BY <1>1 DEF Here, Srcs
<1>4. ASSUME NEW d \in Sources, NEW h \in DOMAIN hw[d]
      PROVE  SameList(hw[d][h].seq, hw'[d][h].seq) /\ hw'[d][h].smsId = hw[d][h].smsId
  <2>1. CASE <<d, h>> = s
    BY <1>1, <1>2, <1>3, <2>1 DEF Src
  <2>2. CASE <<d, h>> # s
    <3>1. hw'[d][h] = hw[d][h] BY <1>1, <1>2, <1>3, <2>2
    <3> QED BY <3>1 DEF SameList
  <2> QED BY <2>1, <2>2
<1> QED BY <1>2, <1>3, <1>4 DEF SameLists, Holds

LEMMA SetIntermittentTyped ==
  ASSUME HwTyped(hw), NEW d \in Sources, NEW i \in SmsIds, setIntermittent(d, i)
  PROVE  /\ HwTyped(hw') /\ SameLists(hw, hw')
         /\ \A x \in Sources, h \in HwIds, j \in SmsIds :
                Holds(hw', x, h, j) <=> Holds(hw, x, h, j) /\ ~(x = d /\ j = i)
<1>1. /\ DOMAIN hw' = Sources
      /\ \A x \in Sources : x # d => hw'[x] = hw[x]
      /\ DOMAIN hw'[d] = DOMAIN hw[d]
  BY DEF setIntermittent, HwTyped
<1>2. ASSUME NEW h \in DOMAIN hw[d]
      PROVE  /\ hw'[d][h] \in HWSource /\ SameList(hw[d][h].seq, hw'[d][h].seq)
             /\ hw'[d][h].smsId = IF hw[d][h].smsId = i THEN NoSms ELSE hw[d][h].smsId
  <2> DEFINE x == hw[d][h]
             marked(e) == [e EXCEPT !.good = FALSE]
             seq == [k \in DOMAIN x.seq |-> marked(x.seq[k])]
  <2>1. x \in HWSource BY DEF HwTyped
  <2>2. CASE x.smsId # i
    <3>1. hw'[d][h] = x BY <2>2 DEF setIntermittent, HwTyped
    <3> QED BY <2>1, <2>2, <3>1 DEF SameList
  <2>3. CASE x.smsId = i
    <3>1. hw'[d][h] = [x EXCEPT !.smsId = NoSms, !.intermittent = TRUE, !.seq = seq]
      BY <2>3 DEF setIntermittent, HwTyped
    <3>2. x.seq \in Seq(Entry) BY <2>1 DEF HWSource
    <3> HIDE DEF x
    <3>3. \A k \in DOMAIN x.seq : x.seq[k] \in Entry
      BY <3>2, ElementOfSeq, LenProperties
    <3>4. \A k \in DOMAIN x.seq : /\ marked(x.seq[k]) \in Entry
                                  /\ marked(x.seq[k]).id = x.seq[k].id
                                  /\ marked(x.seq[k]).shape = x.seq[k].shape
      BY <3>3 DEF Entry
    <3> HIDE DEF marked
    <3>5. seq \in Seq(Entry) /\ SameList(x.seq, seq)
      BY <3>2, <3>4 DEF SameList
    <3> HIDE DEF seq
    <3> QED BY <2>1, <2>3, <3>1, <3>5 DEF HWSource, x
  <2> QED BY <2>2, <2>3
<1>3. HwTyped(hw') BY <1>1, <1>2 DEF HwTyped
<1>4. SameLists(hw, hw')
  <2> SUFFICES ASSUME NEW x \in Sources
               PROVE  /\ DOMAIN hw'[x] = DOMAIN hw[x]
                      /\ \A h \in DOMAIN hw[x] : SameList(hw[x][h].seq, hw'[x][h].seq)
    BY DEF SameLists
  <2>1. CASE x = d BY <1>1, <1>2, <2>1
  <2>2. CASE x # d BY <1>1, <2>2 DEF SameList
  <2> QED BY <2>1, <2>2
<1>5. NoSms \notin SmsIds BY PulseAssumption DEF NoSms
<1>6. ASSUME NEW x \in Sources, NEW h \in HwIds, NEW j \in SmsIds
      PROVE  Holds(hw', x, h, j) <=> Holds(hw, x, h, j) /\ ~(x = d /\ j = i)
  <2>1. CASE x = d BY <1>1, <1>2, <1>5, <2>1 DEF Holds
  <2>2. CASE x # d BY <1>1, <2>2 DEF Holds
  <2> QED BY <2>1, <2>2
<1> QED BY <1>3, <1>4, <1>6

LEMMA MapMark ==
  ASSUME NEW P, NEW E, MapOK(P, E), NEW p \in DOMAIN P, NEW x \in Pulse,
         x.pending = P[p].pending
  PROVE  MapOK([P EXCEPT ![p] = x], E)
BY DEF MapOK

(* The first call, and the calls it may be replaced by.                     *)
LEMMA HeadCall ==
  ASSUME CoreInv, todo # <<>>
  PROVE  /\ Head(todo) \in Calls /\ CallHere(hw, Head(todo)) /\ CallListed(hw, Head(todo))
         /\ Head(todo) = todo[1] /\ 1 \in DOMAIN todo
<1>1. todo \in Seq(Calls) BY DEF CoreInv, Typed
<1>2. Head(todo) = todo[1] /\ 1 \in DOMAIN todo /\ Head(todo) \in Calls BY <1>1
<1> QED BY <1>2 DEF CoreInv, TodoOK, CallsValid

LEMMA SrcTyped ==
  ASSUME CoreInv, NEW s \in Srcs, Here(hw, s)
  PROVE  /\ Src(s) \in HWSource /\ Src(s).seq \in Seq(Entry)
         /\ \A k \in DOMAIN Src(s).seq : Src(s).seq[k] \in Entry
<1>1. Src(s) \in HWSource BY DEF CoreInv, Typed, HwTyped, Here, Srcs, Src
<1>2. Src(s).seq \in Seq(Entry) BY <1>1 DEF HWSource
<1> QED BY <1>1, <1>2, ElementOfSeq, LenProperties

LEMMA AtListed ==
  ASSUME CoreInv, NEW s \in Srcs, Here(hw, s), NEW e, HasPulse(Src(s), e.id, e.shape)
  PROVE  /\ At(s, e) \in DOMAIN Src(s).seq
         /\ Src(s).seq[At(s, e)].id = e.id /\ Src(s).seq[At(s, e)].shape = e.shape
         /\ Src(s).seq[At(s, e)] \in Entry
<1>1. \E k \in DOMAIN Src(s).seq :
         Src(s).seq[k].id = e.id /\ Src(s).seq[k].shape = e.shape
  BY DEF HasPulse
<1>2. /\ At(s, e) \in DOMAIN Src(s).seq
      /\ Src(s).seq[At(s, e)].id = e.id /\ Src(s).seq[At(s, e)].shape = e.shape
  BY <1>1 DEF At
<1> QED BY <1>2, SrcTyped

(* Handlers that go on with some calls, with one, or with none.             *)
LEMMA CoreKept ==
  ASSUME CoreInv, todo # <<>>, NEW new \in Seq(Calls), Made(todo, new),
         CallsValid(hw, new), todo' = new \o Tail(todo), conn' = conn,
         Head(todo).op \in Leaving =>
             \E k \in DOMAIN new : new[k].op \in Leaving /\ new[k].src = Head(todo).src,
         HwTyped(hw'), SameLists(hw, hw'), MapOK(pulses', eventSources'),
         RegistryTyped', BitsOwned(owner', eventSources', hw')
  PROVE  CoreInv'
<1>1. HwTyped(hw) /\ todo \in Seq(Calls) /\ TodoOK(conn, hw, todo)
  BY DEF CoreInv, Typed
<1>2. todo' \in Seq(Calls) /\ TodoOK(conn, hw', todo')
  BY <1>1, TodoKept
<1> QED BY <1>2 DEF CoreInv, Typed

LEMMA CoreOne ==
  ASSUME CoreInv, todo # <<>>, NEW x \in Calls, x.src \in {None, Head(todo).src},
         x.op \notin Leaving \union {"accept", "pop"}, Head(todo).op \notin Leaving,
         CallHere(hw, x), CallListed(hw, x), todo' = <<x>> \o Tail(todo), conn' = conn,
         HwTyped(hw'), SameLists(hw, hw'), MapOK(pulses', eventSources'),
         RegistryTyped', BitsOwned(owner', eventSources', hw')
  PROVE  CoreInv'
<1> DEFINE new == <<x>>
<1>1. new \in Seq(Calls) /\ DOMAIN new = {1} /\ new[1] = x OBVIOUS
<1> HIDE DEF new
<1>2. Made(todo, new) /\ CallsValid(hw, new)
  BY <1>1 DEF Made, CallsValid, Leaving
<1>3. todo' = new \o Tail(todo) BY DEF new
<1> QED BY <1>1, <1>2, <1>3, CoreKept

LEMMA CoreNone ==
  ASSUME CoreInv, todo # <<>>, Head(todo).op \notin Leaving, todo' = Tail(todo),
         conn' = conn, HwTyped(hw'), SameLists(hw, hw'), MapOK(pulses', eventSources'),
         RegistryTyped', BitsOwned(owner', eventSources', hw')
  PROVE  CoreInv'
<1> DEFINE new == <<>>
<1>1. new \in Seq(Calls) /\ DOMAIN new = {} BY EmptySeq
<1>2. todo' = new \o Tail(todo)
  <2>1. Tail(todo) \in Seq(Calls) BY HeadTailProperties DEF CoreInv, Typed
  <2> QED BY <2>1, ConcatEmptySeq
<1> HIDE DEF new
<1>3. Made(todo, new) /\ CallsValid(hw, new) BY <1>1 DEF Made, CallsValid
<1> QED BY <1>1, <1>2, <1>3, CoreKept

\* Handlers that do not touch the hardware sources or the registry.
LEMMA CoreSame ==
  ASSUME CoreInv, UNCHANGED <<eventSources, owner, hw>>
  PROVE  /\ HwTyped(hw') /\ SameLists(hw, hw') /\ RegistryTyped'
         /\ BitsOwned(owner', eventSources', hw')
         /\ MapOK(pulses, eventSources) /\ eventSources' = eventSources
BY DEF CoreInv, Typed, RegistryTyped, SameLists, SameList

(* What each call may be.                                                   *)
LEMMA CallsIn ==
  ASSUME NEW src \in Srcs
  PROVE  /\ \A e \in Entry : Call("drop", src, e) \in Calls
         /\ \A e \in Entry \union DataArg : Call("end", src, e) \in Calls
         /\ \A e \in EventArg : Call("events", src, e) \in Calls
         /\ \A e \in EventArg : Call("partial", src, e) \in Calls
         /\ \A e \in EndArg : Call("complete", src, e) \in Calls
         /\ Call("unregister", src, None) \in Calls
BY DEF Call, Calls

LEMMA CallsInNone ==
  ASSUME NEW e \in RTDLArg
  PROVE  Call("complete", None, e) \in Calls /\ Call("settle", None, e) \in Calls
BY DEF Call, Calls

LEMMA CallWith ==
  ASSUME NEW c \in Calls, NEW op
  PROVE  [c EXCEPT !.op = op] = Call(op, c.src, c.arg)
BY DEF Calls, Call

LEMMA DropCore ==
  ASSUME CoreInv, todo # <<>>, Ready(Head(todo)), CallDrop(Head(todo), Tail(todo))
  PROVE  CoreInv'
<1> DEFINE c == Head(todo)
<1>0. /\ HwTyped(hw') /\ SameLists(hw, hw') /\ RegistryTyped'
      /\ BitsOwned(owner', eventSources', hw')
      /\ MapOK(pulses, eventSources) /\ eventSources' = eventSources /\ conn' = conn
  BY CoreSame DEF CallDrop, dsVars
<1>1. c \in Calls /\ CallHere(hw, c) /\ CallListed(hw, c) /\ c.op = "drop"
  BY HeadCall DEF CallDrop
<1>2. c.src \in Srcs /\ c.arg \in Entry BY <1>1, CallTypes
<1>3. CASE Wants(c) = NoPid
  <2>1. todo' = Tail(todo) /\ pulses' = pulses BY <1>3 DEF CallDrop
  <2> QED BY <1>0, <1>1, <2>1, CoreNone DEF Leaving
<1>4. CASE Wants(c) # NoPid
  <2>1. /\ pulses' = [pulses EXCEPT ![Wants(c)].partial = TRUE]
        /\ todo' = <<[c EXCEPT !.op = "end"]>> \o Tail(todo)
        /\ Wants(c) \in DOMAIN pulses
    BY <1>4 DEF CallDrop, Ready
  <2>2. MapOK(pulses', eventSources')
    <3> DEFINE p == Wants(c)
               x == [pulses[p] EXCEPT !.partial = TRUE]
    <3>0. p \in DOMAIN pulses BY <2>1
    <3>1. pulses[p] \in Pulse BY <1>0, <3>0 DEF MapOK
    <3>2. x \in Pulse /\ x.pending = pulses[p].pending BY <3>1 DEF Pulse
    <3>3. pulses' = [pulses EXCEPT ![p] = x] BY <2>1
    <3> HIDE DEF p, x
    <3> QED BY <1>0, <3>0, <3>2, <3>3, MapMark
  <2> DEFINE x == Call("end", c.src, c.arg)
  <2>3. x \in Calls /\ x.op = "end" /\ x.src = c.src /\ x.arg = c.arg
    BY <1>2, CallsIn DEF Call
  <2>4. todo' = <<x>> \o Tail(todo) BY <1>1, <2>1, CallWith
  <2> HIDE DEF x
  <2>5. CallHere(hw, x) /\ CallListed(hw, x)
    BY <1>1, <2>3 DEF CallHere, CallListed
  <2> QED BY <1>0, <1>1, <2>2, <2>3, <2>4, <2>5, CoreOne DEF Leaving
<1> QED BY <1>3, <1>4

LEMMA PartialCore ==
  ASSUME CoreInv, todo # <<>>, Ready(Head(todo)), CallPartial(Head(todo), Tail(todo))
  PROVE  CoreInv'
<1> DEFINE c == Head(todo)
           p == c.arg.pid
<1>0. /\ HwTyped(hw') /\ SameLists(hw, hw') /\ RegistryTyped'
      /\ BitsOwned(owner', eventSources', hw')
      /\ MapOK(pulses, eventSources) /\ eventSources' = eventSources /\ conn' = conn
  BY CoreSame DEF CallPartial, dsVars
<1>1. c \in Calls /\ c.op = "partial" BY HeadCall DEF CallPartial
<1>2. p \in Pids BY <1>1, CallTypes DEF EventArg
<1>3. p \in DOMAIN pulses
  BY <1>1, <1>2, PidsNat DEF Ready, Wants, PulseOps
<1>4. pulses[p] \in Pulse BY <1>0, <1>3 DEF MapOK
<1> DEFINE x == [pulses[p] EXCEPT !.partial = TRUE]
<1>5. x \in Pulse /\ x.pending = pulses[p].pending BY <1>4 DEF Pulse
<1>6. pulses' = [pulses EXCEPT ![p] = x] BY DEF CallPartial
<1> HIDE DEF p, x
<1>7. MapOK(pulses', eventSources') BY <1>0, <1>3, <1>5, <1>6, MapMark
<1>8. todo' = Tail(todo) BY DEF CallPartial
<1> QED BY <1>0, <1>1, <1>7, <1>8, CoreNone DEF Leaving

LEMMA EventsCore ==
  ASSUME CoreInv, todo # <<>>, Ready(Head(todo)), CallEvents(Head(todo), Tail(todo))
  PROVE  CoreInv'
<1> DEFINE c == Head(todo)
           p == c.arg.pid
           x == [pulses[p] EXCEPT !.batches = IF c.arg.empty THEN @
                                              ELSE @ \union {c.arg.batch}]
<1>0. /\ HwTyped(hw') /\ SameLists(hw, hw') /\ RegistryTyped'
      /\ BitsOwned(owner', eventSources', hw')
      /\ MapOK(pulses, eventSources) /\ eventSources' = eventSources /\ conn' = conn
  BY CoreSame DEF CallEvents, dsVars
<1>1. c \in Calls /\ CallHere(hw, c) /\ c.op = "events" BY HeadCall DEF CallEvents
<1>2. c.src \in Srcs /\ c.arg \in EventArg BY <1>1, CallTypes
<1>3. p \in DOMAIN pulses
  BY <1>1, <1>2, PidsNat DEF Ready, Wants, PulseOps, EventArg
<1>4. pulses[p] \in Pulse BY <1>0, <1>3 DEF MapOK
<1>5. pulses' = [pulses EXCEPT ![p] = x] BY DEF CallEvents
<1>6. x \in Pulse /\ x.pending = pulses[p].pending
  BY <1>2, <1>4 DEF Pulse, EventArg
<1>7. MapOK(pulses', eventSources')
  <2> HIDE DEF p, x
  <2> QED BY <1>0, <1>3, <1>5, <1>6, MapMark
<1>8. CASE c.arg.lost
  <2> DEFINE y == Call("partial", c.src, c.arg)
  <2>1. y \in Calls /\ y.op = "partial" /\ y.src = c.src
    BY <1>2, CallsIn DEF Call
  <2>2. todo' = <<y>> \o Tail(todo) BY <1>1, <1>8, CallWith DEF CallEvents
  <2> HIDE DEF y
  <2>3. CallHere(hw, y) /\ CallListed(hw, y)
    BY <1>1, <2>1 DEF CallHere, CallListed
  <2> QED BY <1>0, <1>1, <1>7, <2>1, <2>2, <2>3, CoreOne DEF Leaving
<1>9. CASE ~c.arg.lost
  <2>1. todo' = Tail(todo)
    <3>1. todo' = <<>> \o Tail(todo) BY <1>9 DEF CallEvents
    <3>2. Tail(todo) \in Seq(Calls) BY HeadTailProperties DEF CoreInv, Typed
    <3> QED BY <3>1, <3>2, ConcatEmptySeq
  <2> QED BY <1>0, <1>1, <1>7, <2>1, CoreNone DEF Leaving
<1> QED BY <1>8, <1>9

LEMMA RTDLCore ==
  ASSUME CoreInv, todo # <<>>, Ready(Head(todo)), CallRTDL(Head(todo), Tail(todo))
  PROVE  CoreInv'
<1> DEFINE c == Head(todo)
           p == c.arg.pid
           over == pulses[p].pending = {}
<1>0. /\ HwTyped(hw') /\ SameLists(hw, hw') /\ RegistryTyped'
      /\ BitsOwned(owner', eventSources', hw')
      /\ MapOK(pulses, eventSources) /\ eventSources' = eventSources /\ conn' = conn
  BY CoreSame DEF CallRTDL, dsVars
<1>1. c \in Calls /\ CallHere(hw, c) /\ c.op = "rtdl" BY HeadCall DEF CallRTDL
<1>2. c.arg \in [pid : Pids] BY <1>1, CallTypes
<1>3. p \in DOMAIN pulses
  BY <1>1, <1>2, PidsNat DEF Ready, Wants, PulseOps
<1>4. pulses[p] \in Pulse BY <1>0, <1>3 DEF MapOK
<1>5. Tail(todo) \in Seq(Calls) BY HeadTailProperties DEF CoreInv, Typed
<1>6. CASE pulses[p].rtdl
  <2>1. todo' = Tail(todo) /\ pulses' = pulses BY <1>6 DEF CallRTDL
  <2> QED BY <1>0, <1>1, <2>1, CoreNone DEF Leaving
<1>7. CASE ~pulses[p].rtdl
  <2> DEFINE x == [pulses[p] EXCEPT !.rtdl = TRUE, !.partial = @ \/ over]
  <2>1. x \in Pulse /\ x.pending = pulses[p].pending BY <1>4 DEF Pulse
  <2>2. pulses' = [pulses EXCEPT ![p] = x]
    BY <1>3, <1>4, <1>7 DEF CallRTDL, Pulse
  <2>3. MapOK(pulses', eventSources')
    <3> HIDE DEF p, x
    <3> QED BY <1>0, <1>3, <2>1, <2>2, MapMark
  <2>4. CASE over
    <3> DEFINE y == Call("settle", None, [pid |-> p, smsId |-> NoSms])
    <3>1. y \in Calls /\ y.op = "settle" /\ y.src = None
      BY <1>2, CallsInNone DEF Call, RTDLArg
    <3>2. todo' = <<y>> \o Tail(todo) BY <1>7, <2>4 DEF CallRTDL
    <3> HIDE DEF y
    <3>3. CallHere(hw, y) /\ CallListed(hw, y)
      BY <3>1 DEF CallHere, CallListed
    <3> QED BY <1>0, <1>1, <2>3, <3>1, <3>2, <3>3, CoreOne DEF Leaving
  <2>5. CASE ~over
    <3>1. todo' = <<>> \o Tail(todo) BY <1>7, <2>5 DEF CallRTDL
    <3>2. todo' = Tail(todo) BY <1>5, <3>1, ConcatEmptySeq
    <3> QED BY <1>0, <1>1, <2>3, <3>2, CoreNone DEF Leaving
  <2> QED BY <2>4, <2>5
<1> QED BY <1>6, <1>7

(* markComplete(): a source that is given up on loses its bit.              *)
LEMMA SettleCore ==
  ASSUME CoreInv, todo # <<>>, NEW src \in {None, Head(todo).src}, NEW arg,
         Call("complete", src, arg) \in Calls, Head(todo).op \notin Leaving,
         src # None => Here(hw, src),
         Settle(src, arg, Tail(todo)), conn' = conn
  PROVE  CoreInv'
<1> DEFINE x == Call("complete", src, arg)
<1>1. x \in Calls /\ x.op = "complete" /\ x.src = src BY DEF Call
<1>2. todo' = <<x>> \o Tail(todo) BY DEF Settle
<1> HIDE DEF x
<1>3. CallHere(hw, x) /\ CallListed(hw, x) BY <1>1 DEF CallHere, CallListed
<1>4. /\ HwTyped(hw') /\ SameLists(hw, hw') /\ RegistryTyped'
      /\ BitsOwned(owner', eventSources', hw')
      /\ MapOK(pulses', eventSources')
  <2>1. CASE IntermittentAt = {}
    <3>1. UNCHANGED <<pulses, eventSources, owner, hw>> BY <2>1 DEF Settle
    <3> QED BY <3>1, CoreSame
  <2>2. CASE IntermittentAt # {}
    <3> DEFINE i == IntermittentBit
    <3>1. /\ setIntermittent(owner[i], i) /\ unregisterEventSource(i)
      BY <2>2 DEF Settle
    <3>2. i \in eventSources BY <2>2, IntermittentOwned DEF CoreInv
    <3>3. /\ RegistryTyped /\ HwTyped(hw) /\ MapOK(pulses, eventSources)
          /\ BitsOwned(owner, eventSources, hw)
      BY DEF CoreInv, Typed
    <3>4. i \in SmsIds /\ owner[i] \in Sources
      BY <3>2, <3>3 DEF RegistryTyped, BitsOwned
    <3> HIDE DEF i
    <3>5. /\ HwTyped(hw') /\ SameLists(hw, hw')
          /\ \A d \in Sources, h \in HwIds, j \in SmsIds :
                Holds(hw', d, h, j) <=> Holds(hw, d, h, j) /\ ~(d = owner[i] /\ j = i)
      BY <3>1, <3>3, <3>4, SetIntermittentTyped
    <3>6. \A d \in Sources, h \in HwIds, j \in SmsIds :
             Holds(hw', d, h, j) <=> Holds(hw, d, h, j) /\ j # i
      BY <3>3, <3>4, <3>5 DEF BitsOwned
    <3>7. BitsOwned(owner', eventSources', hw') /\ RegistryTyped'
      BY <3>1, <3>2, <3>3, <3>6, UnregisterBits
    <3>8. MapOK(pulses', eventSources') BY <3>1, <3>3, UnregisterMap
    <3> QED BY <3>5, <3>7, <3>8
  <2> QED BY <2>1, <2>2
<1> QED BY <1>1, <1>2, <1>3, <1>4, CoreOne DEF Leaving

LEMMA EndCore ==
  ASSUME CoreInv, todo # <<>>, CallEnd(Head(todo), Tail(todo))
  PROVE  CoreInv'
<1> DEFINE c == Head(todo)
           e == Src(c.src).seq[At(c.src, c.arg)]
           arg == [id |-> e.id, shape |-> e.shape, pid |-> Pid(e.id, e.dup),
                   smsId |-> Src(c.src).smsId]
<1>1. c \in Calls /\ CallHere(hw, c) /\ CallListed(hw, c) /\ c.op = "end"
  BY HeadCall DEF CallEnd
<1>2. c.src \in Srcs /\ Here(hw, c.src) BY <1>1, CallTypes DEF CallHere
<1>3. HasPulse(Src(c.src), c.arg.id, c.arg.shape) BY <1>1 DEF CallListed, Src
<1>4. e \in Entry BY <1>2, <1>3, AtListed
<1>5. CASE ~e.good
  <2>1. UNCHANGED <<pulses, eventSources, owner, hw, conn>> /\ todo' = Tail(todo)
    BY <1>5 DEF CallEnd
  <2>2. /\ HwTyped(hw') /\ SameLists(hw, hw') /\ RegistryTyped'
        /\ BitsOwned(owner', eventSources', hw') /\ MapOK(pulses', eventSources')
    BY <2>1, CoreSame
  <2> QED BY <1>1, <2>1, <2>2, CoreNone DEF Leaving
<1>6. CASE e.good
  <2>1. Settle(c.src, arg, Tail(todo)) /\ conn' = conn
    BY <1>6 DEF CallEnd
  <2>2. arg \in EndArg
    <3>1. Src(c.src).smsId \in SmsIds \union {NoSms}
      BY <1>2, SrcTyped DEF HWSource
    <3>2. e.id \in PulseIds /\ e.dup \in 0 .. MaxDup /\ e.shape \in Shapes
      BY <1>4 DEF Entry
    <3>3. Pid(e.id, e.dup) \in Pids BY <3>2, PidIn
    <3> HIDE DEF e
    <3> QED BY <3>1, <3>2, <3>3 DEF EndArg
  <2> HIDE DEF arg
  <2>3. Call("complete", c.src, arg) \in Calls BY <1>2, <2>2, CallsIn
  <2> QED BY <1>1, <1>2, <2>1, <2>3, SettleCore DEF Leaving
<1> QED BY <1>5, <1>6

LEMMA CallSettleCore ==
  ASSUME CoreInv, todo # <<>>, CallSettle(Head(todo), Tail(todo))
  PROVE  CoreInv'
<1> DEFINE c == Head(todo)
<1>1. c \in Calls /\ c.op = "settle" BY HeadCall DEF CallSettle
<1>2. c.arg \in RTDLArg BY <1>1, CallTypes
<1>3. Call("complete", None, c.arg) \in Calls BY <1>2, CallsInNone
<1>4. Settle(None, c.arg, Tail(todo)) /\ conn' = conn BY DEF CallSettle
<1> QED BY <1>1, <1>3, <1>4, SettleCore DEF Leaving

LEMMA CompleteCore ==
  ASSUME CoreInv, todo # <<>>, Ready(Head(todo)), CallComplete(Head(todo), Tail(todo))
  PROVE  CoreInv'
<1> DEFINE c == Head(todo)
<1>1. c \in Calls /\ CallHere(hw, c) /\ c.op = "complete"
  BY HeadCall DEF CallComplete
<1>2. c.arg.pid \in Pids BY <1>1, CallTypes DEF EndArg, RTDLArg
<1>3. c.arg.pid \in DOMAIN pulses
  BY <1>1, <1>2, PidsNat DEF Ready, Wants, PulseOps
<1>4. /\ RegistryTyped /\ HwTyped(hw) /\ MapOK(pulses, eventSources)
      /\ BitsOwned(owner, eventSources, hw)
  BY DEF CoreInv, Typed
<1>5. /\ todo' = Tail(todo) /\ UNCHANGED <<eventSources, owner, conn>>
      /\ markComplete(c.arg.pid, c.arg.smsId)
  BY DEF CallComplete
<1>6. MapOK(pulses', eventSources') BY <1>3, <1>4, <1>5, MarkCompleteMap
<1>7. /\ HwTyped(hw') /\ SameLists(hw, hw')
      /\ BitsOwned(owner', eventSources', hw')
  <2>1. CASE c.src = None
    <3>1. hw' = hw BY <2>1 DEF CallComplete
    <3> QED BY <1>5, <3>1, CoreSame
  <2>2. CASE c.src # None
    <3> DEFINE new == WithGood(c.src, c.arg, FALSE)
    <3>1. c.src \in Srcs /\ Here(hw, c.src)
      BY <1>1, <2>2, CallTypes DEF CallHere
    <3>2. SetHw(c.src, new) BY <2>2 DEF CallComplete
    <3>3. /\ new \in HWSource /\ new.smsId = Src(c.src).smsId
          /\ SameList(Src(c.src).seq, new.seq)
      BY <1>4, <3>1, WithGoodTyped
    <3> HIDE DEF new
    <3>4. HwTyped(hw') BY <1>4, <3>1, <3>2, <3>3, SetHwHolds
    <3>5. /\ SameLists(hw, hw')
          /\ \A x \in Sources, g \in HwIds, j \in SmsIds :
                Holds(hw', x, g, j) <=> Holds(hw, x, g, j)
      BY <1>4, <3>1, <3>2, <3>3, SetHwSame
    <3>6. BitsOwned(owner, eventSources, hw') BY <1>4, <3>5, BitsSame
    <3> QED BY <1>5, <3>4, <3>5, <3>6
  <2> QED BY <2>1, <2>2
<1>8. RegistryTyped' BY <1>4, <1>5 DEF RegistryTyped
<1> QED BY <1>1, <1>5, <1>6, <1>7, <1>8, CoreNone DEF Leaving

LEMMA CallGetCore ==
  ASSUME CoreInv, todo # <<>>, CallGet(Head(todo))
  PROVE  CoreInv'
<1> DEFINE c == Head(todo)
<1>1. c \in Calls /\ CallHere(hw, c) /\ CallListed(hw, c) BY HeadCall
<1>2. Wants(c) # NoPid BY DEF CallGet, Ready
<1>3. Wants(c) \in Pids
  <2>1. CASE c.op = "drop"
    <3>1. c.arg \in Entry BY <1>1, <2>1, CallTypes
    <3> QED BY <1>2, <2>1, <3>1, PidIn DEF Wants, PulseOps, Entry
  <2>2. CASE c.op \in PulseOps \ {"drop"}
    <3>1. c.arg.pid \in Pids
      BY <1>1, <2>2, CallTypes DEF PulseOps, EndArg, RTDLArg, EventArg
    <3> QED BY <2>2, <3>1 DEF Wants, PulseOps
  <2> QED BY <1>2, <2>1, <2>2 DEF Wants
<1>4. /\ getPulse(Wants(c)) /\ UNCHANGED <<eventSources, owner, hw, conn, todo>>
  BY DEF CallGet, dsVars
<1>5. MapOK(pulses', eventSources')
  BY <1>3, <1>4, GetPulseMap DEF CoreInv
<1> QED BY <1>4, <1>5 DEF CoreInv, Typed, RegistryTyped

(* The oldest entry is dropped from a list that has a newer one.            *)
LEMMA PopCore ==
  ASSUME CoreInv, todo # <<>>, CallPop(Head(todo), Tail(todo))
  PROVE  CoreInv'
<1> DEFINE c == Head(todo)
           s == c.src
           a == todo[2]
           new == [Src(s) EXCEPT !.seq = Front(@)]
<1>1. c \in Calls /\ CallHere(hw, c) /\ c.op = "pop" /\ c = todo[1] /\ 1 \in DOMAIN todo
  BY HeadCall DEF CallPop
<1>2. s \in Srcs /\ Here(hw, s) BY <1>1, CallTypes DEF CallHere
<1>3. /\ Len(todo) = 2 /\ a.op = "accept" /\ a.src = s
      /\ Newest(Src(s).seq, a.arg)
  <2>1. PopBeforeAccept(todo) /\ PopKeepsNewest(hw, todo)
    BY DEF CoreInv, TodoOK, Ordered
  <2>2. 1 + 1 = Len(todo) /\ todo[1 + 1].op = "accept" /\ todo[1 + 1].src = todo[1].src
    BY <1>1, <2>1 DEF PopBeforeAccept
  <2>3. Newest(hw[todo[1].src[1]][todo[1].src[2]].seq, todo[1 + 1].arg)
    BY <1>1, <2>1 DEF PopKeepsNewest
  <2>4. 1 + 1 = 2 OBVIOUS
  <2>5. hw[todo[1].src[1]][todo[1].src[2]] = Src(s) BY <1>1 DEF Src
  <2> QED BY <1>1, <2>2, <2>3, <2>4, <2>5, Zenon
<1>4. /\ RegistryTyped /\ HwTyped(hw) /\ MapOK(pulses, eventSources)
      /\ BitsOwned(owner, eventSources, hw) /\ todo \in Seq(Calls)
  BY DEF CoreInv, Typed
<1>5. a \in Calls BY <1>3, <1>4
<1>6. todo' = Tail(todo) /\ DOMAIN todo' = {1} /\ todo'[1] = a /\ todo' \in Seq(Calls)
      /\ Len(todo') = 1
  <2>1. /\ Tail(todo) \in Seq(Calls) /\ Len(Tail(todo)) = Len(todo) - 1
        /\ \A k \in 1 .. Len(Tail(todo)) : Tail(todo)[k] = todo[k + 1]
    BY <1>4, HeadTailProperties
  <2>2. todo' = Tail(todo) BY DEF CallPop
  <2>3. DOMAIN todo' = 1 .. Len(todo') BY <2>1, <2>2, LenProperties
  <2>4. Len(todo') = 1 BY <1>3, <2>1, <2>2
  <2>5. DOMAIN todo' = {1} BY <2>3, <2>4
  <2>6. todo'[1] = todo[1 + 1] BY <2>1, <2>2, <2>4
  <2>7. 1 + 1 = 2 OBVIOUS
  <2> QED BY <2>1, <2>2, <2>4, <2>5, <2>6, <2>7, Zenon
<1>7. /\ SetHw(s, new) /\ UNCHANGED <<pulses, eventSources, owner, conn>>
  BY DEF CallPop, smsVars
<1>8. /\ Src(s) \in HWSource /\ Src(s).seq \in Seq(Entry)
  BY <1>2, SrcTyped
<1>9. /\ new \in HWSource /\ new.smsId = Src(s).smsId
      /\ new.seq = Front(Src(s).seq)
  <2>1. Front(Src(s).seq) \in Seq(Entry)
    <3> DEFINE q == Src(s).seq
    <3>1. \A k \in 1 .. Len(q) - 1 : q[k] \in Entry
      BY <1>8, ElementOfSeq, LenProperties
    <3> HIDE DEF q
    <3>2. Len(q) \in Nat BY <1>8, LenProperties DEF q
    <3> QED BY <3>1, <3>2, SubSeqProperties DEF Front, q
  <2> DEFINE x == Src(s)
  <2> HIDE DEF x
  <2>2. x \in HWSource => [x EXCEPT !.seq = Front(@)] =
           [smsId |-> x.smsId, intermittent |-> x.intermittent, recover |-> x.recover,
            noData |-> x.noData, seq |-> Front(x.seq)]
    BY DEF HWSource
  <2> QED BY <1>8, <2>1, <2>2 DEF HWSource, x
<1>10. HasPulse(new, a.arg.id, a.arg.shape)
  <2> DEFINE q == Src(s).seq
  <2>1. Len(q) > 1 /\ q[1].id = a.arg.id /\ q[1].shape = a.arg.shape
    BY <1>3 DEF Newest
  <2>2. q \in Seq(Entry) BY <1>8
  <2> HIDE DEF q
  <2>3. 1 \in DOMAIN Front(q) /\ Front(q)[1] = q[1]
    BY <2>1, <2>2 DEF Front
  <2> QED BY <1>9, <2>1, <2>3 DEF HasPulse, q
<1> HIDE DEF new
<1>11. /\ HwTyped(hw')
       /\ \A d \in Sources : \A h \in HwIds :
             /\ h \in DOMAIN hw'[d] <=> h \in DOMAIN hw[d]
             /\ h \in DOMAIN hw'[d] =>
                   hw'[d][h] = IF <<d, h>> = s THEN new ELSE hw[d][h]
  BY <1>2, <1>4, <1>7, <1>9, SetHwHolds DEF Here, Srcs
<1>12. \A x \in Sources, g \in HwIds, j \in SmsIds :
          Holds(hw', x, g, j) <=> Holds(hw, x, g, j)
  <2> SUFFICES ASSUME NEW x \in Sources, NEW g \in HwIds, NEW j \in SmsIds
               PROVE  Holds(hw', x, g, j) <=> Holds(hw, x, g, j)
    OBVIOUS
  <2>1. CASE <<x, g>> = s BY <1>9, <1>11, <2>1 DEF Holds, Src
  <2>2. CASE <<x, g>> # s BY <1>11, <2>2 DEF Holds
  <2> QED BY <2>1, <2>2
<1>13. BitsOwned(owner', eventSources', hw') BY <1>4, <1>7, <1>12, BitsSame
<1>14. Here(hw', s) /\ hw'[s[1]][s[2]] = new
  <2>1. PICK d \in Sources, h \in HwIds : s = <<d, h>> BY <1>2 DEF Srcs
  <2>2. h \in DOMAIN hw'[d] BY <1>2, <1>11, <2>1 DEF Here
  <2> QED BY <1>11, <2>1, <2>2 DEF Here
<1>15. CallsValid(hw', todo')
  BY <1>3, <1>6, <1>10, <1>14 DEF CallsValid, CallHere, CallListed
<1>16. Ordered(todo') /\ PopKeepsNewest(hw', todo')
  BY <1>3, <1>6 DEF Ordered, NoneAfterLeaving, AcceptLast, PopBeforeAccept,
                    PopKeepsNewest, Leaving
<1>17. LeavingAll(conn', hw', todo')
  <2>1. \A k \in DOMAIN todo : todo[k].op \notin Leaving
    BY <1>1, <1>3, <1>4 DEF Leaving
  <2>2. \A d \in Sources : conn[d] \notin {"ACTIVE", "FAULT"} => DOMAIN hw[d] = {}
    BY <2>1 DEF CoreInv, TodoOK, LeavingAll
  <2>3. \A d \in Sources : DOMAIN hw'[d] = DOMAIN hw[d]
    BY <1>4, <1>11 DEF HwTyped
  <2> QED BY <1>7, <2>2, <2>3 DEF LeavingAll
<1> QED BY <1>4, <1>6, <1>7, <1>11, <1>13, <1>15, <1>16, <1>17
        DEF CoreInv, Typed, RegistryTyped, TodoOK

(* Lists of calls, one for each entry of a list of pulses, and one more.     *)
LEMMA ReverseIn ==
  ASSUME NEW T, NEW q \in Seq(T)
  PROVE  /\ Reverse(q) \in Seq(T)
         /\ \A k \in DOMAIN Reverse(q) : \E j \in DOMAIN q : Reverse(q)[k] = q[j]
<1>1. Len(q) \in Nat /\ DOMAIN q = 1 .. Len(q) BY LenProperties
<1>2. \A k \in 1 .. Len(q) : /\ (Len(q) - k) + 1 \in 1 .. Len(q)
                             /\ q[(Len(q) - k) + 1] \in T
  BY <1>1, ElementOfSeq
<1>3. Reverse(q) = [k \in 1 .. Len(q) |-> q[(Len(q) - k) + 1]] BY DEF Reverse
<1>4. Reverse(q) \in [1 .. Len(q) -> T] BY <1>2, <1>3
<1>5. Reverse(q) \in Seq(T) BY <1>1, <1>4
<1> QED BY <1>1, <1>2, <1>3, <1>5

LEMMA SomeIn ==
  ASSUME NEW T, NEW q \in Seq(T), NEW k \in Int, k > 0
  PROVE  /\ SubSeq(q, k, Len(q)) \in Seq(T)
         /\ \A i \in DOMAIN SubSeq(q, k, Len(q)) :
                \E j \in DOMAIN q : SubSeq(q, k, Len(q))[i] = q[j]
<1>1. Len(q) \in Nat /\ DOMAIN q = 1 .. Len(q) BY LenProperties
<1>2. \A i \in k .. Len(q) : q[i] \in T BY <1>1, ElementOfSeq
<1> DEFINE r == SubSeq(q, k, Len(q))
<1>3. /\ r \in Seq(T) /\ Len(r) = IF k <= Len(q) THEN Len(q) - k + 1 ELSE 0
      /\ \A i \in 1 .. Len(q) - k + 1 : r[i] = q[k + i - 1]
  BY <1>1, <1>2, SubSeqProperties
<1> HIDE DEF r
<1>4. DOMAIN r = 1 .. Len(r) BY <1>3, LenProperties
<1>5. ASSUME NEW i \in DOMAIN r PROVE \E j \in DOMAIN q : r[i] = q[j]
  <2>1. i \in 1 .. Len(q) - k + 1 /\ k + i - 1 \in DOMAIN q BY <1>1, <1>3, <1>4
  <2> QED BY <1>3, <2>1
<1> QED BY <1>3, <1>5 DEF r

LEMMA DropCalls ==
  ASSUME CoreInv, NEW s \in Srcs, Here(hw, s), NEW t \in Seq(Entry),
         \A k \in DOMAIN t : \E j \in DOMAIN Src(s).seq : t[k] = Src(s).seq[j],
         NEW D, D = [k \in DOMAIN t |-> Call("drop", s, t[k])]
  PROVE  /\ D \in Seq(Calls)
         /\ \A k \in DOMAIN D : /\ D[k].op = "drop" /\ D[k].src = s
                                /\ CallHere(hw, D[k]) /\ CallListed(hw, D[k])
<1>1. Len(t) \in Nat /\ DOMAIN t = 1 .. Len(t) /\ \A k \in 1 .. Len(t) : t[k] \in Entry
  BY LenProperties, ElementOfSeq
<1>2. \A k \in 1 .. Len(t) : D[k] = Call("drop", s, t[k]) /\ D[k] \in Calls
  BY <1>1, CallsIn
<1>3. D \in [1 .. Len(t) -> Calls] BY <1>1, <1>2
<1>4. D \in Seq(Calls) BY <1>1, <1>3
<1>5. ASSUME NEW k \in DOMAIN D
      PROVE  /\ D[k].op = "drop" /\ D[k].src = s
             /\ CallHere(hw, D[k]) /\ CallListed(hw, D[k])
  <2>1. k \in DOMAIN t /\ D[k] = Call("drop", s, t[k]) BY <1>5
  <2>2. D[k].op = "drop" /\ D[k].src = s /\ D[k].arg = t[k] BY <2>1 DEF Call
  <2>3. PICK j \in DOMAIN Src(s).seq : t[k] = Src(s).seq[j] BY <2>1
  <2>4. HasPulse(Src(s), t[k].id, t[k].shape) BY <2>3 DEF HasPulse
  <2> QED BY <2>2, <2>4 DEF CallHere, CallListed, Src
<1> QED BY <1>4, <1>5

LEMMA EndsWith ==
  ASSUME NEW A \in Seq(Calls), NEW x \in Calls, NEW new, new = A \o <<x>>
  PROVE  /\ new \in Seq(Calls) /\ Len(new) \in DOMAIN new /\ new[Len(new)] = x
         /\ \A k \in DOMAIN new : \/ k \in DOMAIN A /\ new[k] = A[k]
                                  \/ k = Len(new) /\ new[k] = x
<1> DEFINE X == <<x>>
<1>1. X \in Seq(Calls) /\ Len(X) = 1 /\ X[1] = x OBVIOUS
<1> HIDE DEF X
<1>2. /\ new \in Seq(Calls) /\ Len(new) = Len(A) + 1
      /\ \A k \in 1 .. Len(A) + 1 : new[k] = IF k <= Len(A) THEN A[k] ELSE X[k - Len(A)]
  BY <1>1, ConcatProperties DEF X
<1>3. Len(A) \in Nat /\ DOMAIN A = 1 .. Len(A) /\ DOMAIN new = 1 .. Len(A) + 1
  BY <1>2, LenProperties
<1>4. ASSUME NEW k \in DOMAIN new, k \notin DOMAIN A PROVE k = Len(new) /\ new[k] = x
  <2>1. k = Len(A) + 1 /\ k - Len(A) = 1 /\ ~(k <= Len(A)) BY <1>3, <1>4
  <2> QED BY <1>1, <1>2, <1>3, <2>1
<1>5. Len(new) \in DOMAIN new /\ Len(new) \notin DOMAIN A BY <1>2, <1>3
<1>6. \A k \in DOMAIN A : new[k] = A[k] BY <1>2, <1>3
<1> QED BY <1>2, <1>4, <1>5, <1>6

(* A source that is let go: its pulses are finished, then it is forgotten.  *)
LEMMA LeaveCore ==
  ASSUME CoreInv, todo # <<>>, CallLeave(Head(todo), Tail(todo))
  PROVE  CoreInv'
<1> DEFINE c == Head(todo)
           s == c.src
           t == Reverse(Src(s).seq)
           D == [k \in DOMAIN t |-> Call("drop", s, t[k])]
           A == IF Src(s).smsId = NoSms THEN <<>> ELSE D
           x == Call("unregister", s, None)
           new == A \o <<x>>
<1>1. c \in Calls /\ CallHere(hw, c) /\ c.op = "leave"
  BY HeadCall DEF CallLeave
<1>2. s \in Srcs /\ s # None /\ Here(hw, s) BY <1>1, CallTypes DEF CallHere
<1>3. todo' = new \o Tail(todo) BY DEF CallLeave
<1>4. t \in Seq(Entry) /\ \A k \in DOMAIN t : \E j \in DOMAIN Src(s).seq : t[k] = Src(s).seq[j]
  BY <1>2, SrcTyped, ReverseIn
<1>5. x \in Calls /\ x.op = "unregister" /\ x.src = s BY <1>2, CallsIn DEF Call
<1> HIDE DEF t, x
<1>6. /\ D \in Seq(Calls)
      /\ \A k \in DOMAIN D : /\ D[k].op = "drop" /\ D[k].src = s
                             /\ CallHere(hw, D[k]) /\ CallListed(hw, D[k])
  BY <1>2, <1>4, DropCalls
<1> HIDE DEF D
<1>7. /\ A \in Seq(Calls)
      /\ \A k \in DOMAIN A : /\ A[k].op = "drop" /\ A[k].src = s
                             /\ CallHere(hw, A[k]) /\ CallListed(hw, A[k])
  <2>1. CASE Src(s).smsId = NoSms
    <3>1. A = <<>> /\ DOMAIN A = {} BY <2>1
    <3> QED BY <3>1, EmptySeq
  <2>2. CASE Src(s).smsId # NoSms BY <1>6, <2>2
  <2> QED BY <2>1, <2>2
<1> HIDE DEF A
<1>8. /\ new \in Seq(Calls) /\ Len(new) \in DOMAIN new /\ new[Len(new)] = x
      /\ \A k \in DOMAIN new : \/ k \in DOMAIN A /\ new[k] = A[k]
                               \/ k = Len(new) /\ new[k] = x
  BY <1>5, <1>7, EndsWith
<1> HIDE DEF new
<1>9. Made(todo, new) BY <1>1, <1>5, <1>7, <1>8 DEF Made
<1>10. CallsValid(hw, new)
  <2>1. CallHere(hw, x) /\ CallListed(hw, x) BY <1>2, <1>5 DEF CallHere, CallListed
  <2> QED BY <1>7, <1>8, <2>1 DEF CallsValid
<1>11. \E k \in DOMAIN new : new[k].op \in Leaving /\ new[k].src = s
  BY <1>5, <1>8 DEF Leaving
<1>12. UNCHANGED <<pulses, eventSources, owner, hw, conn>>
  BY DEF CallLeave, smsVars, dsVars
<1>13. /\ HwTyped(hw') /\ SameLists(hw, hw') /\ RegistryTyped'
       /\ BitsOwned(owner', eventSources', hw') /\ MapOK(pulses', eventSources')
  BY <1>12, CoreSame
<1> QED BY <1>3, <1>8, <1>9, <1>10, <1>11, <1>12, <1>13, CoreKept

(* ... and forgotten: its bit is free, and no later call is about it.       *)
LEMMA RemovedHw ==
  ASSUME HwTyped(hw), NEW s \in Srcs, Here(hw, s),
         hw' = [hw EXCEPT ![s[1]] = Without(@, {s[2]})]
  PROVE  /\ HwTyped(hw')
         /\ \A d \in Sources : \A h \in HwIds :
               /\ h \in DOMAIN hw'[d] <=> (h \in DOMAIN hw[d] /\ <<d, h>> # s)
               /\ h \in DOMAIN hw'[d] => hw'[d][h] = hw[d][h]
<1> PICK e \in Sources, g \in HwIds : s = <<e, g>> BY DEF Srcs
<1>1. hw' = [hw EXCEPT ![e] = Without(hw[e], {g})] OBVIOUS
<1>2. DOMAIN hw' = Sources BY <1>1 DEF HwTyped
<1>3. ASSUME NEW d \in Sources
      PROVE  /\ DOMAIN hw'[d] = IF d = e THEN DOMAIN hw[d] \ {g} ELSE DOMAIN hw[d]
             /\ \A h \in DOMAIN hw'[d] : hw'[d][h] = hw[d][h]
  <2>1. hw'[d] = IF d = e THEN Without(hw[d], {g}) ELSE hw[d] BY <1>1 DEF HwTyped
  <2> QED BY <2>1 DEF Without
<1>4. HwTyped(hw')
  <2> SUFFICES ASSUME NEW d \in Sources
               PROVE  /\ DOMAIN hw'[d] \subseteq HwIds
                      /\ \A h \in DOMAIN hw'[d] : hw'[d][h] \in HWSource
    BY <1>2 DEF HwTyped
  <2>1. DOMAIN hw[d] \subseteq HwIds /\ \A h \in DOMAIN hw[d] : hw[d][h] \in HWSource
    BY DEF HwTyped
  <2>2. DOMAIN hw'[d] \subseteq DOMAIN hw[d]
    <3>1. CASE d = e
      <4>1. DOMAIN hw'[d] = DOMAIN hw[d] \ {g} BY <1>3, <3>1
      <4> QED BY <4>1
    <3>2. CASE d # e
      <4>1. DOMAIN hw'[d] = DOMAIN hw[d] BY <1>3, <3>2
      <4> QED BY <4>1
    <3> QED BY <3>1, <3>2
  <2>3. \A h \in DOMAIN hw'[d] : hw'[d][h] = hw[d][h] BY <1>3
  <2> QED BY <2>1, <2>2, <2>3
<1>5. ASSUME NEW d \in Sources, NEW h \in HwIds
      PROVE  /\ h \in DOMAIN hw'[d] <=> (h \in DOMAIN hw[d] /\ <<d, h>> # s)
             /\ h \in DOMAIN hw'[d] => hw'[d][h] = hw[d][h]
  <2>1. <<d, h>> # s <=> ~(d = e /\ h = g) OBVIOUS
  <2>2. DOMAIN hw'[d] = IF d = e THEN DOMAIN hw[d] \ {g} ELSE DOMAIN hw[d] BY <1>3
  <2>3. h \in DOMAIN hw'[d] => hw'[d][h] = hw[d][h] BY <1>3
  <2> QED BY <2>1, <2>2, <2>3
<1> QED BY <1>4, <1>5

LEMMA UnregisterCore ==
  ASSUME CoreInv, todo # <<>>, CallUnregister(Head(todo), Tail(todo))
  PROVE  CoreInv'
<1> DEFINE c == Head(todo)
           s == c.src
<1>1. c \in Calls /\ CallHere(hw, c) /\ c.op = "unregister" /\ c = todo[1] /\ 1 \in DOMAIN todo
  BY HeadCall DEF CallUnregister
<1>2. s \in Srcs /\ s # None /\ Here(hw, s) BY <1>1, CallTypes DEF CallHere
<1>3. /\ RegistryTyped /\ HwTyped(hw) /\ MapOK(pulses, eventSources)
      /\ BitsOwned(owner, eventSources, hw) /\ todo \in Seq(Calls)
      /\ TodoOK(conn, hw, todo)
  BY DEF CoreInv, Typed
<1>4. /\ hw' = [hw EXCEPT ![s[1]] = Without(@, {s[2]})]
      /\ todo' = Tail(todo) /\ conn' = conn
  BY DEF CallUnregister
<1>5. /\ HwTyped(hw')
      /\ \A d \in Sources : \A h \in HwIds :
            /\ h \in DOMAIN hw'[d] <=> (h \in DOMAIN hw[d] /\ <<d, h>> # s)
            /\ h \in DOMAIN hw'[d] => hw'[d][h] = hw[d][h]
  BY <1>2, <1>3, <1>4, RemovedHw
<1>6. \A x \in Sources, g \in HwIds, j \in SmsIds :
         Holds(hw', x, g, j) <=> Holds(hw, x, g, j) /\ <<x, g>> # s
  BY <1>5 DEF Holds
<1>7. PICK d \in Sources, h \in HwIds : s = <<d, h>> BY <1>2 DEF Srcs
<1>8. h \in DOMAIN hw[d] /\ Src(s) = hw[d][h] /\ Src(s).smsId \in SmsIds \union {NoSms}
  BY <1>2, <1>3, <1>7, SrcTyped DEF Here, Src, HWSource
<1>9. BitsOwned(owner', eventSources', hw') /\ RegistryTyped' /\ MapOK(pulses', eventSources')
  <2>1. CASE Src(s).smsId = NoSms
    <3>1. UNCHANGED <<pulses, eventSources, owner>> BY <2>1 DEF CallUnregister
    <3>2. \A j \in SmsIds : ~Holds(hw, d, h, j)
      BY <1>8, <2>1, PulseAssumption DEF Holds, NoSms
    <3>3. \A x \in Sources, g \in HwIds, j \in SmsIds :
             Holds(hw', x, g, j) <=> Holds(hw, x, g, j)
      BY <1>6, <1>7, <3>2
    <3>4. BitsOwned(owner, eventSources, hw') BY <1>3, <3>3, BitsSame
    <3> QED BY <1>3, <3>1, <3>4 DEF RegistryTyped
  <2>2. CASE Src(s).smsId # NoSms
    <3> DEFINE i == Src(s).smsId
    <3>1. i \in SmsIds /\ Holds(hw, d, h, i) BY <1>8, <2>2 DEF Holds
    <3>2. unregisterEventSource(i) BY <2>2 DEF CallUnregister
    <3>3. \A j \in SmsIds : Holds(hw, d, h, j) => j = i BY <1>8 DEF Holds
    <3> HIDE DEF i
    <3>4. owner[i] = d /\ i \in eventSources
      BY <1>3, <3>1, PulseAssumption DEF BitsOwned
    <3>5. \A x \in Sources, g \in HwIds, j \in SmsIds :
             Holds(hw', x, g, j) <=> Holds(hw, x, g, j) /\ j # i
      <4> SUFFICES ASSUME NEW x \in Sources, NEW g \in HwIds, NEW j \in SmsIds,
                          Holds(hw, x, g, j)
                   PROVE  <<x, g>> # s <=> j # i
        BY <1>6
      <4>1. j = i => x = d /\ g = h
        BY <1>3, <3>1 DEF BitsOwned
      <4> QED BY <1>7, <3>3, <4>1
    <3>6. BitsOwned(owner', eventSources', hw') /\ RegistryTyped'
      BY <1>3, <3>2, <3>4, <3>5, UnregisterBits
    <3> QED BY <1>3, <3>2, <3>6, UnregisterMap
  <2> QED BY <2>1, <2>2
<1> DEFINE q == todo
           r == Tail(q)
<1>10. /\ r \in Seq(Calls) /\ DOMAIN r = 1 .. Len(r) /\ DOMAIN q = 1 .. Len(q)
       /\ Len(r) = Len(q) - 1 /\ Len(q) \in Nat \ {0}
       /\ \A k \in DOMAIN r : r[k] = q[k + 1]
       /\ \A k \in DOMAIN q : k > 1 => k - 1 \in DOMAIN r /\ r[k - 1] = q[k]
  <2>1. /\ r \in Seq(Calls) /\ Len(r) = Len(q) - 1
        /\ \A k \in 1 .. Len(r) : r[k] = q[k + 1]
    BY <1>3, HeadTailProperties
  <2>2. DOMAIN r = 1 .. Len(r) /\ DOMAIN q = 1 .. Len(q) /\ Len(q) \in Nat \ {0}
    BY <1>3, <2>1, LenProperties, EmptySeq
  <2>3. ASSUME NEW k \in DOMAIN q, k > 1 PROVE k - 1 \in DOMAIN r /\ r[k - 1] = q[k]
    <3>1. k - 1 \in DOMAIN r /\ (k - 1) + 1 = k BY <2>1, <2>2, <2>3
    <3> QED BY <2>1, <2>2, <3>1
  <2> QED BY <2>1, <2>2, <2>3
<1>11. Ordered(r)
  <2>1. <<>> \in Seq(Calls) /\ Made(q, <<>>) BY EmptySeq DEF Made
  <2>2. r = <<>> \o Tail(q) BY <1>10, ConcatEmptySeq
  <2> QED BY <1>3, <2>1, <2>2, OrderedStep DEF TodoOK
<1>12. \A k \in DOMAIN r : r[k].src # s /\ k + 1 \in DOMAIN q /\ r[k] \in Calls
  <2> SUFFICES ASSUME NEW k \in DOMAIN r
               PROVE  r[k].src # s /\ k + 1 \in DOMAIN q /\ r[k] \in Calls
    OBVIOUS
  <2>1. k + 1 \in DOMAIN q /\ 1 < k + 1 BY <1>10
  <2>2. r[k] \in Calls BY <1>10, ElementOfSeq
  <2>3. q[1].op \in Leaving BY <1>1 DEF Leaving
  <2>4. q[k + 1].src # q[1].src
    BY <1>1, <1>3, <2>1, <2>3 DEF TodoOK, Ordered, NoneAfterLeaving
  <2> QED BY <1>1, <1>10, <2>1, <2>2, <2>4
<1>13. \A x \in Srcs : x # s /\ Here(hw, x) =>
          Here(hw', x) /\ hw'[x[1]][x[2]] = hw[x[1]][x[2]]
  <2> SUFFICES ASSUME NEW x \in Srcs, x # s, Here(hw, x)
               PROVE  Here(hw', x) /\ hw'[x[1]][x[2]] = hw[x[1]][x[2]]
    OBVIOUS
  <2>1. PICK y \in Sources, z \in HwIds : x = <<y, z>> BY DEF Srcs
  <2>2. z \in DOMAIN hw'[y] BY <1>5, <2>1 DEF Here
  <2> QED BY <1>5, <2>1, <2>2 DEF Here
<1>14. CallsValid(hw', r)
  <2> SUFFICES ASSUME NEW k \in DOMAIN r
               PROVE  CallHere(hw', r[k]) /\ CallListed(hw', r[k])
    BY DEF CallsValid
  <2>1. CallHere(hw, r[k]) /\ CallListed(hw, r[k])
    BY <1>3, <1>10, <1>12 DEF TodoOK, CallsValid
  <2> DEFINE y == r[k]
  <2>2. y \in Calls /\ y.src # s BY <1>12
  <2>3. CallHere(hw, y) /\ CallListed(hw, y) BY <2>1
  <2> HIDE DEF y
  <2>4. y.src # None => y.src \in Srcs /\ Here(hw, y.src)
    BY <2>2, <2>3, CallTypes DEF CallHere
  <2>5. y.op \in {"drop", "end", "accept"} => y.src # None BY <2>2, CallTypes
  <2>6. CallHere(hw', y) BY <1>13, <2>2, <2>4 DEF CallHere
  <2>7. CallListed(hw', y)
    BY <1>13, <2>2, <2>3, <2>4, <2>5 DEF CallListed
  <2> QED BY <2>6, <2>7 DEF y
<1>15. PopKeepsNewest(hw', r)
  <2> SUFFICES ASSUME NEW k \in DOMAIN r, r[k].op = "pop"
               PROVE  Newest(hw'[r[k].src[1]][r[k].src[2]].seq, r[k + 1].arg)
    BY DEF PopKeepsNewest
  <2>1. k + 1 = Len(r) BY <1>11 DEF Ordered, PopBeforeAccept
  <2>2. k + 1 \in DOMAIN r BY <1>10, <2>1
  <2>3. r[k + 1] = q[(k + 1) + 1] /\ r[k] = q[k + 1] BY <1>10, <2>2
  <2>4. Newest(hw[q[k + 1].src[1]][q[k + 1].src[2]].seq, q[(k + 1) + 1].arg)
    BY <1>3, <1>12, <2>3 DEF TodoOK, PopKeepsNewest
  <2>5. CallHere(hw, r[k]) BY <1>3, <1>10, <1>12 DEF TodoOK, CallsValid
  <2> DEFINE y == r[k].src
  <2>6. y \in Srcs /\ y # s /\ Here(hw, y)
    BY <1>12, <2>5, CallTypes DEF CallHere
  <2>7. hw'[y[1]][y[2]] = hw[y[1]][y[2]] BY <1>13, <2>6
  <2> QED BY <2>3, <2>4, <2>7
<1>16. LeavingAll(conn, hw', r)
  <2> SUFFICES ASSUME NEW x \in Sources, conn[x] \notin {"ACTIVE", "FAULT"},
                      NEW g \in DOMAIN hw'[x]
               PROVE  \E k \in DOMAIN r : r[k].op \in Leaving /\ r[k].src = <<x, g>>
    BY DEF LeavingAll
  <2>1. g \in DOMAIN hw[x] /\ <<x, g>> # s BY <1>5 DEF HwTyped
  <2>2. PICK k \in DOMAIN q : q[k].op \in Leaving /\ q[k].src = <<x, g>>
    BY <1>3, <2>1 DEF TodoOK, LeavingAll
  <2>3. k > 1 BY <1>1, <1>10, <2>1, <2>2
  <2> QED BY <1>10, <2>2, <2>3
<1>17. TodoOK(conn, hw', r) BY <1>11, <1>14, <1>15, <1>16 DEF TodoOK
<1> QED BY <1>4, <1>5, <1>9, <1>10, <1>17 DEF CoreInv, Typed

(* A connection whose hardware sources are all let go.  The others that are *)
(* down have none.                                                          *)
LEMMA LeaveAllOK ==
  ASSUME Typed, NEW d \in Sources, NEW C,
         \A x \in Sources : x # d /\ C[x] \notin {"ACTIVE", "FAULT"} => DOMAIN hw[x] = {}
  PROVE  LeaveAll(d) \in Seq(Calls) /\ TodoOK(C, hw, LeaveAll(d))
<1> DEFINE q == LeaveAll(d)
<1>1. /\ q \in Seq(Calls)
      /\ \A k \in DOMAIN q : \E h \in DOMAIN hw[d] : q[k] = Call("leave", <<d, h>>, None)
      /\ \A h \in DOMAIN hw[d] : \E k \in DOMAIN q : q[k] = Call("leave", <<d, h>>, None)
      /\ \A j, k \in DOMAIN q : q[j] = q[k] => j = k
  BY LeaveAllCalls
<1>2. DOMAIN q = 1 .. Len(q) /\ Len(q) \in Nat BY <1>1, LenProperties
<1> HIDE DEF q
<1>3. \A k \in DOMAIN q : \E h \in DOMAIN hw[d] :
         q[k].op = "leave" /\ q[k].src = <<d, h>> /\ q[k] = Call("leave", <<d, h>>, None)
  BY <1>1 DEF Call
<1>4. ASSUME NEW j \in DOMAIN q, NEW k \in DOMAIN q, j < k PROVE q[k].src # q[j].src
  <2>1. PICK g \in DOMAIN hw[d] : q[j].src = <<d, g>> /\ q[j] = Call("leave", <<d, g>>, None)
    BY <1>3
  <2>2. PICK h \in DOMAIN hw[d] : q[k].src = <<d, h>> /\ q[k] = Call("leave", <<d, h>>, None)
    BY <1>3
  <2>3. q[j] # q[k]
    <3>1. j # k BY <1>2, <1>4
    <3> QED BY <1>1, <3>1
  <2>4. g # h BY <2>1, <2>2, <2>3
  <2> QED BY <2>1, <2>2, <2>4
<1>5. \A k \in DOMAIN q : q[k].op = "leave" BY <1>3
<1>6. Ordered(q)
  BY <1>4, <1>5 DEF Ordered, NoneAfterLeaving, AcceptLast, PopBeforeAccept
<1>7. CallsValid(hw, q)
  <2> SUFFICES ASSUME NEW k \in DOMAIN q PROVE CallHere(hw, q[k]) /\ CallListed(hw, q[k])
    BY DEF CallsValid
  <2>1. PICK h \in DOMAIN hw[d] : q[k].op = "leave" /\ q[k].src = <<d, h>> BY <1>3
  <2> QED BY <2>1 DEF CallHere, CallListed, Here
<1>8. PopKeepsNewest(hw, q) BY <1>5 DEF PopKeepsNewest
<1>9. LeavingAll(C, hw, q)
  <2> SUFFICES ASSUME NEW x \in Sources, C[x] \notin {"ACTIVE", "FAULT"},
                      NEW h \in DOMAIN hw[x]
               PROVE  \E k \in DOMAIN q : q[k].op \in Leaving /\ q[k].src = <<x, h>>
    BY DEF LeavingAll
  <2>1. x = d OBVIOUS
  <2>2. PICK k \in DOMAIN q : q[k] = Call("leave", <<d, h>>, None) BY <1>1, <2>1
  <2> QED BY <2>1, <2>2 DEF Call, Leaving
<1> QED BY <1>1, <1>6, <1>7, <1>8, <1>9 DEF TodoOK, q

DownEmpty == \A x \in Sources : conn[x] \notin {"ACTIVE", "FAULT"} => DOMAIN hw[x] = {}

LEMMA FailedCore ==
  ASSUME CoreInv, conn \in [Sources -> ConnStates], DownEmpty, NEW d \in Sources, NEW state,
         connectionFailed(d, state)
  PROVE  CoreInv'
<1>1. /\ conn' = [conn EXCEPT ![d] = state] /\ todo' = LeaveAll(d)
      /\ UNCHANGED <<pulses, eventSources, owner, hw>>
  BY DEF connectionFailed, smsVars
<1>2. \A x \in Sources : x # d /\ conn'[x] \notin {"ACTIVE", "FAULT"} => DOMAIN hw[x] = {}
  BY <1>1 DEF DownEmpty
<1>3. LeaveAll(d) \in Seq(Calls) /\ TodoOK(conn', hw, LeaveAll(d))
  <2> DEFINE C == conn'
  <2>1. \A x \in Sources : x # d /\ C[x] \notin {"ACTIVE", "FAULT"} => DOMAIN hw[x] = {}
    BY <1>2
  <2> HIDE DEF C
  <2>2. LeaveAll(d) \in Seq(Calls) /\ TodoOK(C, hw, LeaveAll(d))
    BY <2>1, LeaveAllOK DEF CoreInv
  <2> QED BY <2>2 DEF C
<1> QED BY <1>1, <1>3 DEF CoreInv, Typed, RegistryTyped

\* Between handlers, and while a packet is dealt with, no call lets anything go.
LEMMA NoLeaving ==
  ASSUME CoreInv, \A k \in DOMAIN todo : todo[k].op \notin Leaving
  PROVE  DownEmpty
BY DEF CoreInv, TodoOK, LeavingAll, DownEmpty

(* The calls a packet is dealt with in.                                     *)
Mine(s, q) == \A k \in DOMAIN q : /\ q[k].op \in {"events", "drop", "end"} /\ q[k].src = s
                                  /\ CallHere(hw, q[k]) /\ CallListed(hw, q[k])

LEMMA MineBoth ==
  ASSUME NEW s, NEW A \in Seq(Calls), NEW B \in Seq(Calls), Mine(s, A), Mine(s, B)
  PROVE  A \o B \in Seq(Calls) /\ Mine(s, A \o B)
<1> DEFINE r == A \o B
<1>1. /\ r \in Seq(Calls) /\ Len(r) = Len(A) + Len(B)
      /\ \A k \in 1 .. Len(A) + Len(B) : r[k] = IF k <= Len(A) THEN A[k] ELSE B[k - Len(A)]
  BY ConcatProperties
<1>2. /\ Len(A) \in Nat /\ Len(B) \in Nat /\ DOMAIN A = 1 .. Len(A)
      /\ DOMAIN B = 1 .. Len(B) /\ DOMAIN r = 1 .. Len(A) + Len(B)
  BY <1>1, LenProperties
<1> HIDE DEF r
<1>3. ASSUME NEW k \in DOMAIN r
      PROVE  (\E j \in DOMAIN A : r[k] = A[j]) \/ (\E j \in DOMAIN B : r[k] = B[j])
  <2>1. CASE k <= Len(A)
    <3>1. k \in DOMAIN A /\ r[k] = A[k] BY <1>1, <1>2, <1>3, <2>1
    <3> QED BY <3>1
  <2>2. CASE ~(k <= Len(A))
    <3>1. k - Len(A) \in DOMAIN B /\ r[k] = B[k - Len(A)] BY <1>1, <1>2, <1>3, <2>2
    <3> QED BY <3>1
  <2> QED BY <2>1, <2>2
<1>4. Mine(s, r) BY <1>3 DEF Mine
<1> QED BY <1>1, <1>4 DEF r

LEMMA MineOne ==
  ASSUME NEW s, NEW x \in Calls, x.op \in {"events", "drop", "end"}, x.src = s,
         CallHere(hw, x), CallListed(hw, x)
  PROVE  <<x>> \in Seq(Calls) /\ Mine(s, <<x>>)
<1> DEFINE q == <<x>>
<1>1. q \in Seq(Calls) /\ DOMAIN q = {1} /\ q[1] = x OBVIOUS
<1> HIDE DEF q
<1>2. Mine(s, q) BY <1>1 DEF Mine
<1> QED BY <1>1, <1>2 DEF q

LEMMA MineNone == \A s : <<>> \in Seq(Calls) /\ Mine(s, <<>>)
BY EmptySeq DEF Mine

LEMMA OlderDrops ==
  ASSUME CoreInv, NEW s \in Srcs, Here(hw, s), NEW k \in DOMAIN Src(s).seq,
         NEW t, t = Reverse(SubSeq(Src(s).seq, k + 1, Len(Src(s).seq))),
         NEW D, D = [j \in DOMAIN t |-> Call("drop", s, t[j])]
  PROVE  D \in Seq(Calls) /\ Mine(s, D)
<1> DEFINE seq == Src(s).seq
           r == SubSeq(seq, k + 1, Len(seq))
<1>1. seq \in Seq(Entry) BY SrcTyped
<1>2. k + 1 \in Int /\ k + 1 > 0 BY <1>1, LenProperties
<1>3. r \in Seq(Entry) /\ \A i \in DOMAIN r : \E j \in DOMAIN seq : r[i] = seq[j]
  <2> HIDE DEF seq
  <2> QED BY <1>1, <1>2, SomeIn
<1>4. t = Reverse(r) OBVIOUS
<1> HIDE DEF r
<1>5. t \in Seq(Entry) /\ \A i \in DOMAIN t : \E j \in DOMAIN r : t[i] = r[j]
  BY <1>3, <1>4, ReverseIn
<1>6. \A i \in DOMAIN t : \E j \in DOMAIN Src(s).seq : t[i] = Src(s).seq[j]
  <2> SUFFICES ASSUME NEW i \in DOMAIN t PROVE \E j \in DOMAIN seq : t[i] = seq[j]
    OBVIOUS
  <2>1. PICK j \in DOMAIN r : t[i] = r[j] BY <1>5
  <2> QED BY <1>3, <2>1
<1>7. /\ D \in Seq(Calls)
      /\ \A j \in DOMAIN D : /\ D[j].op = "drop" /\ D[j].src = s
                             /\ CallHere(hw, D[j]) /\ CallListed(hw, D[j])
  BY <1>5, <1>6, DropCalls
<1> QED BY <1>7 DEF Mine

LEMMA AcceptCalls ==
  ASSUME CoreInv, NEW s \in Srcs, Here(hw, s), NEW a \in DataArg,
         HasPulse(Src(s), a.id, a.shape), NEW good \in BOOLEAN,
         NEW E, E = (IF ~good THEN <<>>
                     ELSE <<Call("events", s,
                                 [pid |-> Pid(a.id, Src(s).seq[At(s, a)].dup), lost |-> a.lost,
                                  empty |-> a.empty, batch |-> a.batch])>>),
         NEW t, t = Reverse(SubSeq(Src(s).seq, At(s, a) + 1, Len(Src(s).seq))),
         NEW F, F = (IF a.eop
                     THEN [j \in DOMAIN t |-> Call("drop", s, t[j])] \o <<Call("end", s, a)>>
                     ELSE <<>>)
  PROVE  E \o F \in Seq(Calls) /\ Mine(s, E \o F)
<1> DEFINE k == At(s, a)
           seq == Src(s).seq
<1>1. seq \in Seq(Entry) /\ k \in DOMAIN seq /\ seq[k] \in Entry
  BY SrcTyped, AtListed
<1>2. E \in Seq(Calls) /\ Mine(s, E)
  <2>1. CASE ~good BY <2>1, MineNone
  <2>2. CASE good
    <3> DEFINE e == [pid |-> Pid(a.id, seq[k].dup), lost |-> a.lost,
                     empty |-> a.empty, batch |-> a.batch]
               x == Call("events", s, e)
    <3>1. Pid(a.id, seq[k].dup) \in Pids
      <4>1. a.id \in PulseIds /\ seq[k].dup \in 0 .. MaxDup BY <1>1 DEF DataArg, Entry
      <4> QED BY <4>1, PidIn
    <3>2. e \in EventArg BY <3>1 DEF EventArg, DataArg
    <3> HIDE DEF e
    <3>3. x \in Calls /\ x.op = "events" /\ x.src = s BY <3>2, CallsIn DEF Call
    <3>4. E = <<x>> BY <2>2 DEF e
    <3> HIDE DEF x
    <3>5. CallHere(hw, x) /\ CallListed(hw, x) BY <3>3 DEF CallHere, CallListed
    <3> QED BY <3>3, <3>4, <3>5, MineOne
  <2> QED BY <2>1, <2>2
<1>4. F \in Seq(Calls) /\ Mine(s, F)
  <2>1. CASE ~a.eop BY <2>1, MineNone
  <2>2. CASE a.eop
    <3> DEFINE D == [j \in DOMAIN t |-> Call("drop", s, t[j])]
               x == Call("end", s, a)
    <3>1. F = D \o <<x>> BY <2>2
    <3>2. D \in Seq(Calls) /\ Mine(s, D)
      <4>1. D = [j \in DOMAIN t |-> Call("drop", s, t[j])] OBVIOUS
      <4> HIDE DEF D
      <4>2. At(s, a) \in DOMAIN Src(s).seq BY <1>1
      <4> QED BY <4>1, <4>2, OlderDrops
    <3>3. x \in Calls /\ x.op = "end" /\ x.src = s /\ x.arg = a BY CallsIn DEF Call
    <3> HIDE DEF D, x
    <3>4. CallHere(hw, x) /\ CallListed(hw, x)
      BY <3>3 DEF CallHere, CallListed, Src
    <3>5. <<x>> \in Seq(Calls) /\ Mine(s, <<x>>) BY <3>3, <3>4, MineOne
    <3>6. D \o <<x>> \in Seq(Calls) /\ Mine(s, D \o <<x>>)
      BY <3>2, <3>5, MineBoth, Zenon
    <3> QED BY <3>1, <3>6, Zenon
  <2> QED BY <2>1, <2>2
<1> QED BY <1>2, <1>4, MineBoth

\* One source changes, and its list is the same but for the marks.
LEMMA ListsKept ==
  ASSUME HwTyped(hw), HwTyped(hw'), NEW s \in Srcs, Here(hw, s), NEW x,
         SameList(Src(s).seq, x.seq),
         \A d \in Sources : \A h \in HwIds :
            /\ h \in DOMAIN hw'[d] <=> (h \in DOMAIN hw[d] \/ <<d, h>> = s)
            /\ h \in DOMAIN hw'[d] => hw'[d][h] = IF <<d, h>> = s THEN x ELSE hw[d][h]
  PROVE  SameLists(hw, hw')
<1> SUFFICES ASSUME NEW d \in Sources
             PROVE  /\ DOMAIN hw'[d] = DOMAIN hw[d]
                    /\ \A h \in DOMAIN hw[d] : SameList(hw[d][h].seq, hw'[d][h].seq)
  BY DEF SameLists
<1>1. DOMAIN hw[d] \subseteq HwIds /\ DOMAIN hw'[d] \subseteq HwIds BY DEF HwTyped
<1>2. \A h \in HwIds : h \in DOMAIN hw'[d] <=> h \in DOMAIN hw[d]
  BY DEF Here, Srcs
<1>3. ASSUME NEW h \in DOMAIN hw[d] PROVE SameList(hw[d][h].seq, hw'[d][h].seq)
  <2>1. h \in HwIds /\ h \in DOMAIN hw'[d] BY <1>1, <1>2
  <2>2. CASE <<d, h>> = s BY <2>1, <2>2 DEF Src
  <2>3. CASE <<d, h>> # s
    <3>1. hw'[d][h] = hw[d][h] BY <2>1, <2>3
    <3> QED BY <3>1 DEF SameList
  <2> QED BY <2>2, <2>3
<1> QED BY <1>1, <1>2, <1>3

(* A packet is dealt with: its source keeps its bit, or has one again after *)
(* enough packets.                                                          *)
Accepted(s, a, good) ==
    [WithGood(s, a, good) EXCEPT
        !.noData = 0,
        !.smsId = IF Recovers(Src(s), a) THEN Min(FreeBits) ELSE @,
        !.intermittent = @ /\ ~Recovers(Src(s), a),
        !.recover = IF Recovers(Src(s), a) THEN 0
                    ELSE IF Recovering(Src(s), a) THEN @ + 1 ELSE @]

LEMMA AcceptedTyped ==
  ASSUME CoreInv, NEW s \in Srcs, Here(hw, s), NEW a, NEW good \in BOOLEAN,
         Recovers(Src(s), a) => FreeBits # {}
  PROVE  /\ Accepted(s, a, good) \in HWSource
         /\ SameList(Src(s).seq, Accepted(s, a, good).seq)
         /\ Accepted(s, a, good).smsId =
               IF Recovers(Src(s), a) THEN Min(FreeBits) ELSE Src(s).smsId
<1> DEFINE w == WithGood(s, a, good)
           n == Accepted(s, a, good)
<1>1. w \in HWSource /\ w.smsId = Src(s).smsId /\ SameList(Src(s).seq, w.seq)
  BY WithGoodTyped DEF CoreInv, Typed
<1>2. w.intermittent = Src(s).intermittent
  <2>1. Src(s) \in HWSource BY SrcTyped
  <2> QED BY <2>1 DEF WithGood, HWSource
<1>3. CASE Recovers(Src(s), a)
  <2>1. n = [w EXCEPT !.noData = 0, !.smsId = Min(FreeBits), !.intermittent = FALSE,
                      !.recover = 0]
    BY <1>1, <1>3 DEF Accepted, HWSource
  <2>2. Min(FreeBits) \in SmsIds BY <1>3, FreeBit
  <2> HIDE DEF w, n
  <2>3. n = [smsId |-> Min(FreeBits), intermittent |-> FALSE, recover |-> 0,
             noData |-> 0, seq |-> w.seq]
    BY <1>1, <2>1 DEF HWSource
  <2>4. n \in HWSource BY <1>1, <2>2, <2>3 DEF HWSource
  <2>5. n.seq = w.seq /\ n.smsId = Min(FreeBits) BY <2>3
  <2> QED BY <1>1, <1>3, <2>4, <2>5 DEF n
<1>4. CASE ~Recovers(Src(s), a)
  <2>1. w.recover \in Nat /\ w.recover + 1 \in Nat /\ 0 \in Nat
    BY <1>1 DEF HWSource
  <2>2. PICK r \in Nat : n = [w EXCEPT !.noData = 0, !.recover = r]
    <3>1. CASE Recovering(Src(s), a)
      <4>1. n = [w EXCEPT !.noData = 0, !.recover = w.recover + 1]
        BY <1>1, <1>4, <3>1 DEF Accepted, HWSource
      <4> QED BY <2>1, <4>1, Zenon
    <3>2. CASE ~Recovering(Src(s), a)
      <4>1. n = [w EXCEPT !.noData = 0, !.recover = w.recover]
        BY <1>1, <1>4, <3>2 DEF Accepted, HWSource
      <4> QED BY <2>1, <4>1, Zenon
    <3> QED BY <3>1, <3>2
  <2> HIDE DEF w, n
  <2>3. n = [smsId |-> w.smsId, intermittent |-> w.intermittent, recover |-> r,
             noData |-> 0, seq |-> w.seq]
    BY <1>1, <2>2 DEF HWSource
  <2>4. /\ w \in [smsId : SmsIds \union {NoSms}, intermittent : BOOLEAN,
                  recover : Nat, noData : Nat, seq : Seq(Entry)]
        /\ w.intermittent => w.smsId = NoSms
    BY <1>1, Zenon DEF HWSource
  <2>5. n \in [smsId : SmsIds \union {NoSms}, intermittent : BOOLEAN,
               recover : Nat, noData : Nat, seq : Seq(Entry)]
        /\ n.intermittent = w.intermittent /\ n.smsId = w.smsId
    BY <2>1, <2>3, <2>4
  <2>7. n \in HWSource BY <2>4, <2>5, Zenon DEF HWSource
  <2>6. n.seq = w.seq /\ n.smsId = w.smsId BY <2>3
  <2> QED BY <1>1, <1>4, <2>6, <2>7 DEF n
<1> QED BY <1>3, <1>4

LEMMA AcceptCore ==
  ASSUME CoreInv, conn \in [Sources -> ConnStates], todo # <<>>,
         CallAccept(Head(todo), Tail(todo))
  PROVE  CoreInv'
<1> DEFINE c == Head(todo)
           s == c.src
           a == c.arg
           src == Src(s)
           good == IF a.new THEN newPulse(a.id) ELSE src.seq[At(s, a)].good
<1>1. c \in Calls /\ CallHere(hw, c) /\ CallListed(hw, c) /\ c.op = "accept"
      /\ c = todo[1] /\ 1 \in DOMAIN todo
  BY HeadCall DEF CallAccept
<1>2. s \in Srcs /\ s # None /\ Here(hw, s) /\ a \in DataArg
  BY <1>1, CallTypes DEF CallHere
<1>3. /\ RegistryTyped /\ HwTyped(hw) /\ MapOK(pulses, eventSources)
      /\ BitsOwned(owner, eventSources, hw) /\ todo \in Seq(Calls)
  BY DEF CoreInv, Typed
<1>4. HasPulse(Src(s), a.id, a.shape) BY <1>1 DEF CallListed, Src
<1>5. pulses' = pulses BY DEF CallAccept, connectionFailed, smsVars
<1>6. CASE src.intermittent /\ ~Recovering(src, a)
  <2> DEFINE new == WithGood(s, a, FALSE)
  <2>1. /\ SetHw(s, new) /\ todo' = Tail(todo) /\ UNCHANGED <<eventSources, owner, conn>>
    BY <1>6 DEF CallAccept
  <2>2. /\ new \in HWSource /\ new.smsId = Src(s).smsId
        /\ SameList(Src(s).seq, new.seq)
    BY <1>2, <1>3, WithGoodTyped
  <2> HIDE DEF new
  <2>3. HwTyped(hw') BY <1>2, <1>3, <2>1, <2>2, SetHwHolds
  <2>4. /\ SameLists(hw, hw')
        /\ \A x \in Sources, g \in HwIds, j \in SmsIds :
              Holds(hw', x, g, j) <=> Holds(hw, x, g, j)
    BY <1>2, <1>3, <2>1, <2>2, SetHwSame
  <2>5. BitsOwned(owner, eventSources, hw') BY <1>3, <2>4, BitsSame
  <2>6. RegistryTyped' BY <1>3, <2>1 DEF RegistryTyped
  <2> QED BY <1>1, <1>3, <1>5, <2>1, <2>3, <2>4, <2>5, <2>6, CoreNone DEF Leaving
<1>7. CASE ~(src.intermittent /\ ~Recovering(src, a)) /\ Recovers(src, a) /\ FreeBits = {}
  <2>1. connectionFailed(s[1], "IDLE") BY <1>7 DEF CallAccept
  <2>2. \A k \in DOMAIN todo : todo[k].op \notin Leaving
    <3>1. 1 = Len(todo) BY <1>1 DEF CoreInv, TodoOK, Ordered, AcceptLast
    <3>2. DOMAIN todo = {1} BY <1>3, <3>1
    <3> QED BY <1>1, <3>2 DEF Leaving
  <2>3. DownEmpty BY <2>2, NoLeaving
  <2>4. s[1] \in Sources BY <1>2 DEF Srcs
  <2> QED BY <2>1, <2>3, <2>4, FailedCore
<1>8. CASE /\ ~(src.intermittent /\ ~Recovering(src, a))
           /\ ~(Recovers(src, a) /\ FreeBits = {})
  <2> DEFINE x == Accepted(s, a, good)
             E == IF ~good THEN <<>>
                  ELSE <<Call("events", s,
                              [pid |-> Pid(a.id, src.seq[At(s, a)].dup), lost |-> a.lost,
                               empty |-> a.empty, batch |-> a.batch])>>
             t == Reverse(SubSeq(src.seq, At(s, a) + 1, Len(src.seq)))
             F == IF a.eop
                  THEN [j \in DOMAIN t |-> Call("drop", s, t[j])] \o <<Call("end", s, a)>>
                  ELSE <<>>
             new == E \o F
  <2>1. /\ IF Recovers(src, a) THEN registerEventSource(s[1])
           ELSE UNCHANGED <<eventSources, owner>>
        /\ SetHw(s, x) /\ todo' = new \o Tail(todo) /\ conn' = conn
    BY <1>8 DEF CallAccept, Accepted
  <2>2. good \in BOOLEAN
    <3>1. src.seq[At(s, a)] \in Entry BY <1>2, <1>4, AtListed
    <3> QED BY <3>1 DEF newPulse, Entry
  <2>3. new \in Seq(Calls) /\ Mine(s, new)
    <3>1. ASSUME NEW g \in BOOLEAN, g = good PROVE new \in Seq(Calls) /\ Mine(s, new)
      <4>1. /\ E = IF ~g THEN <<>>
                   ELSE <<Call("events", s,
                               [pid |-> Pid(a.id, Src(s).seq[At(s, a)].dup), lost |-> a.lost,
                                empty |-> a.empty, batch |-> a.batch])>>
            /\ t = Reverse(SubSeq(Src(s).seq, At(s, a) + 1, Len(Src(s).seq)))
            /\ F = IF a.eop
                   THEN [j \in DOMAIN t |-> Call("drop", s, t[j])] \o <<Call("end", s, a)>>
                   ELSE <<>>
        BY <3>1
      <4> HIDE DEF E, t, F, a, s
      <4> QED BY <1>2, <1>4, <4>1, AcceptCalls
    <3> QED BY <2>2, <3>1
  <2> HIDE DEF new
  <2>4. /\ x \in HWSource /\ SameList(src.seq, x.seq)
        /\ x.smsId = IF Recovers(src, a) THEN Min(FreeBits) ELSE src.smsId
    <3> HIDE DEF good
    <3> QED BY <1>2, <1>8, <2>2, AcceptedTyped
  <2> HIDE DEF x
  <2>5. /\ HwTyped(hw')
        /\ \A d \in Sources : \A h \in HwIds :
              /\ h \in DOMAIN hw'[d] <=> (h \in DOMAIN hw[d] \/ <<d, h>> = s)
              /\ h \in DOMAIN hw'[d] =>
                    hw'[d][h] = IF <<d, h>> = s THEN x ELSE hw[d][h]
    BY <1>2, <1>3, <2>1, <2>4, SetHwHolds
  <2>6. SameLists(hw, hw')
    <3>1. SameList(Src(s).seq, x.seq) /\ s \in Srcs /\ Here(hw, s) BY <1>2, <2>4
    <3> HIDE DEF s
    <3> QED BY <1>3, <2>5, <3>1, ListsKept
  <2>7. BitsOwned(owner', eventSources', hw') /\ RegistryTyped'
        /\ MapOK(pulses', eventSources')
    <3>1. CASE ~Recovers(src, a)
      <4>1. UNCHANGED <<eventSources, owner>> /\ x.smsId = Src(s).smsId BY <2>1, <2>4, <3>1
      <4> HIDE DEF src, s
      <4>2. \A y \in Sources, g \in HwIds, j \in SmsIds :
               Holds(hw', y, g, j) <=> Holds(hw, y, g, j)
        <5>1. x \in HWSource /\ SetHw(s, x) /\ SameList(Src(s).seq, x.seq)
          BY <2>1, <2>4 DEF src
        <5> QED BY <1>2, <1>3, <4>1, <5>1, SetHwSame
      <4>3. BitsOwned(owner, eventSources, hw') BY <1>3, <4>2, BitsSame
      <4> QED BY <1>3, <1>5, <4>1, <4>3 DEF RegistryTyped
    <3>2. CASE Recovers(src, a)
      <4>1. /\ registerEventSource(s[1]) /\ x.smsId = Min(FreeBits)
            /\ FreeBits # {} /\ src.intermittent
        BY <1>8, <2>1, <2>4, <3>2 DEF Recovers, Recovering
      <4>2. src.smsId = NoSms BY <1>2, <4>1, SrcTyped DEF HWSource
      <4>3. PICK d \in Sources, h \in HwIds : s = <<d, h>> BY <1>2 DEF Srcs
      <4>4. src = hw[d][h] /\ h \in DOMAIN hw[d] BY <1>2, <4>3 DEF Src, Here
      <4>5. \A j \in SmsIds : ~Holds(hw, d, h, j)
        BY <4>2, <4>4, PulseAssumption DEF Holds, NoSms
      <4>6. \A y \in Sources, g \in HwIds, j \in SmsIds :
               Holds(hw', y, g, j) <=> \/ Holds(hw, y, g, j)
                                       \/ y = d /\ g = h /\ j = Min(FreeBits)
        <5> SUFFICES ASSUME NEW y \in Sources, NEW g \in HwIds, NEW j \in SmsIds
                     PROVE  Holds(hw', y, g, j) <=> \/ Holds(hw, y, g, j)
                                                    \/ y = d /\ g = h /\ j = Min(FreeBits)
          OBVIOUS
        <5>1. CASE y = d /\ g = h
          <6>1. h \in DOMAIN hw'[d] /\ hw'[d][h] = x BY <2>5, <4>3
          <6> QED BY <4>1, <4>5, <5>1, <6>1 DEF Holds
        <5>2. CASE ~(y = d /\ g = h)
          <6>1. <<y, g>> # s BY <4>3, <5>2
          <6> QED BY <2>5, <5>2, <6>1 DEF Holds
        <5> QED BY <5>1, <5>2
      <4>7. registerEventSource(d) BY <4>1, <4>3
      <4>8. BitsOwned(owner', eventSources', hw') /\ RegistryTyped'
        BY <1>3, <4>1, <4>5, <4>6, <4>7, RegisterBits
      <4>9. MapOK(pulses', eventSources')
        BY <1>3, <1>5, <4>7 DEF registerEventSource, MapOK
      <4> QED BY <4>8, <4>9
    <3> QED BY <3>1, <3>2
  <2>8. Made(todo, new) /\ CallsValid(hw, new)
    BY <2>3 DEF Made, Mine, CallsValid
  <2> QED BY <1>1, <2>1, <2>3, <2>5, <2>6, <2>7, <2>8, CoreKept DEF Leaving
<1> QED BY <1>6, <1>7, <1>8

LEMMA HandlerCore ==
  ASSUME CoreInv, conn \in [Sources -> ConnStates], HandlerStep
  PROVE  CoreInv'
<1>1. todo # <<>> BY DEF HandlerStep
<1>2. CASE CallGet(Head(todo)) BY <1>1, <1>2, CallGetCore
<1>3. CASE Ready(Head(todo)) /\ Handle(Head(todo), Tail(todo))
  BY <1>1, <1>3, DropCore, PartialCore, EndCore, CallSettleCore, CompleteCore, PopCore,
     LeaveCore, UnregisterCore, AcceptCore, EventsCore, RTDLCore DEF Handle
<1> QED BY <1>2, <1>3 DEF HandlerStep

-----------------------------------------------------------------------------
(* Packets.                                                                 *)

LEMMA SourceTyped ==
  ASSUME CoreInv, NEW s \in Srcs, Here(hw, s) \/ FreeBits # {}
  PROVE  /\ Source(s) \in HWSource
         /\ Source(s).seq \in Seq(Entry)
         /\ Here(hw, s) => Source(s) = Src(s)
         /\ ~Here(hw, s) => Source(s).smsId = Min(FreeBits)
<1>1. CASE Here(hw, s)
  <2>1. Source(s) = Src(s) BY <1>1 DEF Source, Here
  <2> QED BY <1>1, <2>1, SrcTyped
<1>2. CASE ~Here(hw, s)
  <2>1. Source(s) = NewHWSource(Min(FreeBits)) BY <1>2 DEF Source, Here
  <2>2. Min(FreeBits) \in SmsIds BY <1>2, FreeBit
  <2>3. <<>> \in Seq(Entry) BY EmptySeq
  <2> QED BY <1>2, <2>1, <2>2, <2>3 DEF NewHWSource, HWSource
<1> QED BY <1>1, <1>2

(* A source that speaks has a bit, or gets one the first time.              *)
LEMMA SpeakCore ==
  ASSUME CoreInv, NEW s \in Srcs, Here(hw, s) \/ FreeBits # {}, getHWSource(s),
         NEW x \in HWSource, x.smsId = Source(s).smsId, SetHw(s, x)
  PROVE  /\ HwTyped(hw') /\ BitsOwned(owner', eventSources', hw') /\ RegistryTyped'
         /\ MapOK(pulses, eventSources')
         /\ \A d \in Sources : d # s[1] => DOMAIN hw'[d] = DOMAIN hw[d]
         /\ Here(hw', s) /\ hw'[s[1]][s[2]] = x
<1>1. /\ RegistryTyped /\ HwTyped(hw) /\ MapOK(pulses, eventSources)
      /\ BitsOwned(owner, eventSources, hw)
  BY DEF CoreInv, Typed
<1>2. /\ HwTyped(hw')
      /\ \A d \in Sources : \A h \in HwIds :
            /\ h \in DOMAIN hw'[d] <=> (h \in DOMAIN hw[d] \/ <<d, h>> = s)
            /\ h \in DOMAIN hw'[d] =>
                  hw'[d][h] = IF <<d, h>> = s THEN x ELSE hw[d][h]
  BY <1>1, SetHwHolds
<1>3. PICK d \in Sources, h \in HwIds : s = <<d, h>> BY DEF Srcs
<1>4. Here(hw', s) /\ hw'[s[1]][s[2]] = x BY <1>2, <1>3 DEF Here
<1>5. ASSUME NEW y \in Sources, y # s[1] PROVE DOMAIN hw'[y] = DOMAIN hw[y]
  <2>1. \A g \in HwIds : g \in DOMAIN hw'[y] <=> g \in DOMAIN hw[y] BY <1>2, <1>3, <1>5
  <2>2. DOMAIN hw'[y] \subseteq HwIds /\ DOMAIN hw[y] \subseteq HwIds
    BY <1>1, <1>2 DEF HwTyped
  <2> QED BY <2>1, <2>2
<1>6. CASE Here(hw, s)
  <2>1. Source(s) = Src(s) /\ Src(s) = hw[d][h] /\ h \in DOMAIN hw[d]
    BY <1>3, <1>6, SourceTyped DEF Src, Here
  <2>2. UNCHANGED <<eventSources, owner>> BY <1>6 DEF getHWSource, Here
  <2>3. ASSUME NEW y \in Sources, NEW g \in HwIds, NEW j \in SmsIds
        PROVE  Holds(hw', y, g, j) <=> Holds(hw, y, g, j)
    <3>1. CASE y = d /\ g = h
      <4>1. h \in DOMAIN hw'[d] /\ hw'[d][h] = x BY <1>3, <1>4 DEF Here
      <4> QED BY <2>1, <3>1, <4>1 DEF Holds
    <3>2. CASE ~(y = d /\ g = h)
      <4>1. <<y, g>> # s BY <1>3, <3>2
      <4> QED BY <1>2, <4>1 DEF Holds
    <3> QED BY <3>1, <3>2
  <2>4. BitsOwned(owner, eventSources, hw') BY <1>1, <2>3, BitsSame
  <2> QED BY <1>1, <1>2, <1>4, <1>5, <2>2, <2>4 DEF RegistryTyped
<1>7. CASE ~Here(hw, s)
  <2>1. h \notin DOMAIN hw[d] /\ x.smsId = Min(FreeBits) /\ registerEventSource(d)
        /\ FreeBits # {}
    BY <1>3, <1>7, SourceTyped DEF getHWSource, Here
  <2>2. \A j \in SmsIds : ~Holds(hw, d, h, j) BY <2>1 DEF Holds
  <2>3. ASSUME NEW y \in Sources, NEW g \in HwIds, NEW j \in SmsIds
        PROVE  Holds(hw', y, g, j) <=> \/ Holds(hw, y, g, j)
                                       \/ y = d /\ g = h /\ j = Min(FreeBits)
    <3>1. CASE y = d /\ g = h
      <4>1. h \in DOMAIN hw'[d] /\ hw'[d][h] = x BY <1>3, <1>4 DEF Here
      <4> QED BY <2>1, <2>2, <3>1, <4>1 DEF Holds
    <3>2. CASE ~(y = d /\ g = h)
      <4>1. <<y, g>> # s BY <1>3, <3>2
      <4> QED BY <1>2, <3>2, <4>1 DEF Holds
    <3> QED BY <3>1, <3>2
  <2>4. BitsOwned(owner', eventSources', hw') /\ RegistryTyped'
    BY <1>1, <2>1, <2>2, <2>3, RegisterBits
  <2>5. MapOK(pulses, eventSources')
    BY <1>1, <2>1 DEF registerEventSource, MapOK
  <2> QED BY <1>2, <1>4, <1>5, <2>4, <2>5
<1> QED BY <1>6, <1>7

(* The packet's pulse goes in front of the list of its source.              *)
PutFirst(x, src, entry) ==
    /\ x \in HWSource /\ x.smsId = src.smsId
    /\ Len(x.seq) = Len(src.seq) + 1 /\ Len(src.seq) \in Nat
    /\ 1 \in DOMAIN x.seq /\ x.seq[1] = entry
    /\ \A k \in DOMAIN src.seq : k + 1 \in DOMAIN x.seq /\ x.seq[k + 1] = src.seq[k]

LEMMA ListedPulse ==
  ASSUME NEW src \in HWSource, NEW entry \in Entry
  PROVE  PutFirst([src EXCEPT !.seq = <<entry>> \o @], src, entry)
<1> DEFINE x == [src EXCEPT !.seq = <<entry>> \o @]
           q == src.seq
           X == <<entry>>
           r == X \o q
<1>1. /\ src \in [smsId : SmsIds \union {NoSms}, intermittent : BOOLEAN,
                  recover : Nat, noData : Nat, seq : Seq(Entry)]
      /\ src.intermittent => src.smsId = NoSms
  BY Zenon DEF HWSource
<1>2. q \in Seq(Entry) BY <1>1
<1>3. X \in Seq(Entry) /\ Len(X) = 1 /\ X[1] = entry OBVIOUS
<1>4. x = [src EXCEPT !.seq = r] OBVIOUS
<1> HIDE DEF X, q, x
<1>5. /\ r \in Seq(Entry) /\ Len(r) = Len(X) + Len(q)
      /\ \A k \in 1 .. Len(X) + Len(q) : r[k] = IF k <= Len(X) THEN X[k] ELSE q[k - Len(X)]
  BY <1>2, <1>3, ConcatProperties
<1>6. Len(q) \in Nat /\ DOMAIN q = 1 .. Len(q) /\ DOMAIN r = 1 .. Len(r)
  BY <1>2, <1>5, LenProperties
<1> HIDE DEF r
<1>7. /\ 1 \in DOMAIN r /\ r[1] = entry /\ Len(r) = Len(q) + 1
      /\ \A k \in DOMAIN q : k + 1 \in DOMAIN r /\ r[k + 1] = q[k]
  <2>1. 1 \in DOMAIN r /\ Len(r) = Len(q) + 1 BY <1>3, <1>5, <1>6
  <2>2. r[1] = entry BY <1>3, <1>5, <1>6
  <2>3. ASSUME NEW k \in DOMAIN q PROVE k + 1 \in DOMAIN r /\ r[k + 1] = q[k]
    <3>1. /\ k + 1 \in 1 .. Len(X) + Len(q) /\ ~(k + 1 <= Len(X))
          /\ (k + 1) - Len(X) = k /\ k + 1 \in DOMAIN r
      BY <1>3, <1>5, <1>6
    <3> QED BY <1>5, <3>1
  <2> QED BY <2>1, <2>2, <2>3
<1>8. x \in [smsId : SmsIds \union {NoSms}, intermittent : BOOLEAN,
             recover : Nat, noData : Nat, seq : Seq(Entry)]
      /\ x.intermittent = src.intermittent /\ x.smsId = src.smsId /\ x.seq = r
  BY <1>1, <1>4, <1>5
<1>9. x \in HWSource BY <1>1, <1>8, Zenon DEF HWSource
<1>10. PutFirst(x, src, entry) BY <1>6, <1>7, <1>8, <1>9 DEF q, PutFirst
<1> QED BY <1>10 DEF x

LEMMA DupsNat ==
  ASSUME NEW src, src.seq \in Seq(Entry), NEW id
  PROVE  Dups(src, id) \in Nat
<1> DEFINE S == {k \in DOMAIN src.seq : src.seq[k].id = id}
<1>1. DOMAIN src.seq = 1 .. Len(src.seq) /\ Len(src.seq) \in Nat BY LenProperties
<1>2. IsFiniteSet(1 .. Len(src.seq)) BY <1>1, FS_Interval
<1>3. IsFiniteSet(S) BY <1>1, <1>2, FS_Subset
<1> QED BY <1>3, FS_CardinalityType DEF Dups

(* What the packet's handler is to do: a full list loses its oldest pulse   *)
(* before the packet is dealt with.                                         *)
LEMMA DataTodo ==
  ASSUME NEW H, HwTyped(H), NEW C, NEW s \in Srcs, C[s[1]] = "ACTIVE",
         \A d \in Sources : C[d] \notin {"ACTIVE", "FAULT"} => DOMAIN H[d] = {},
         Here(H, s), NEW a \in DataArg, HasPulse(H[s[1]][s[2]], a.id, a.shape),
         NEW e, NEW q,
         \/ q = <<Call("accept", s, a)>>
         \/ /\ q = <<Call("drop", s, e), Call("pop", s, None), Call("accept", s, a)>>
            /\ e \in Entry /\ Newest(H[s[1]][s[2]].seq, a)
            /\ HasPulse(H[s[1]][s[2]], e.id, e.shape)
  PROVE  q \in Seq(Calls) /\ TodoOK(C, H, q)
<1> DEFINE x == Call("drop", s, e)
           y == Call("pop", s, None)
           z == Call("accept", s, a)
<1>1. /\ e \in Entry => x \in Calls
      /\ x.op = "drop" /\ x.src = s /\ x.arg = e
      /\ y \in Calls /\ y.op = "pop" /\ y.src = s
      /\ z \in Calls /\ z.op = "accept" /\ z.src = s /\ z.arg = a
  BY DEF Call, Calls
<1>2. \/ q = <<z>>
      \/ /\ q = <<x, y, z>> /\ e \in Entry /\ Newest(H[s[1]][s[2]].seq, a)
         /\ HasPulse(H[s[1]][s[2]], e.id, e.shape)
  OBVIOUS
<1> HIDE DEF x, y, z
<1>3. /\ CallHere(H, x) /\ CallHere(H, y) /\ CallHere(H, z)
      /\ HasPulse(H[s[1]][s[2]], e.id, e.shape) => CallListed(H, x)
      /\ CallListed(H, y) /\ CallListed(H, z)
  BY <1>1 DEF CallHere, CallListed
<1>4. LeavingAll(C, H, q)
  <2> SUFFICES ASSUME NEW d \in Sources, C[d] \notin {"ACTIVE", "FAULT"},
                      NEW h \in DOMAIN H[d]
               PROVE  FALSE
    BY DEF LeavingAll
  <2> QED OBVIOUS
<1>5. CASE /\ q = <<x, y, z>> /\ e \in Entry /\ Newest(H[s[1]][s[2]].seq, a)
           /\ HasPulse(H[s[1]][s[2]], e.id, e.shape)
  <2>1. x \in Calls /\ CallListed(H, x) BY <1>1, <1>3, <1>5
  <2>2. /\ q \in Seq(Calls) /\ Len(q) = 3 /\ DOMAIN q = 1 .. 3
        /\ q[1] = x /\ q[2] = y /\ q[3] = z
    BY <1>1, <1>5, <2>1
  <2>3. /\ q[1].op = "drop" /\ q[2].op = "pop" /\ q[3].op = "accept"
        /\ q[2].src = s /\ q[3].src = s /\ q[3].arg = a
    BY <1>1, <2>2
  <2>4. \A k \in DOMAIN q : k = 1 \/ k = 2 \/ k = 3 BY <2>2
  <2>5. NoneAfterLeaving(q) BY <2>3, <2>4 DEF NoneAfterLeaving, Leaving
  <2>6. AcceptLast(q) BY <2>2, <2>3, <2>4 DEF AcceptLast
  <2>7. PopBeforeAccept(q)
    <3> SUFFICES ASSUME NEW k \in DOMAIN q, q[k].op = "pop"
                 PROVE  k + 1 = Len(q) /\ q[k + 1].op = "accept" /\ q[k + 1].src = q[k].src
      BY DEF PopBeforeAccept
    <3>1. k = 2 /\ k + 1 = 3 BY <2>3, <2>4
    <3> QED BY <2>2, <2>3, <3>1
  <2>8. CallsValid(H, q) BY <1>3, <2>1, <2>2, <2>4 DEF CallsValid
  <2>9. PopKeepsNewest(H, q)
    <3> SUFFICES ASSUME NEW k \in DOMAIN q, q[k].op = "pop"
                 PROVE  Newest(H[q[k].src[1]][q[k].src[2]].seq, q[k + 1].arg)
      BY DEF PopKeepsNewest
    <3>1. k = 2 /\ k + 1 = 3 BY <2>3, <2>4
    <3> QED BY <1>5, <2>3, <3>1
  <2> QED BY <1>4, <2>2, <2>5, <2>6, <2>7, <2>8, <2>9 DEF TodoOK, Ordered
<1>6. CASE q = <<z>>
  <2>2. q \in Seq(Calls) /\ Len(q) = 1 /\ DOMAIN q = {1} /\ q[1] = z
    BY <1>1, <1>6
  <2>3. Ordered(q) /\ PopKeepsNewest(H, q)
    BY <1>1, <2>2 DEF Ordered, NoneAfterLeaving, AcceptLast, PopBeforeAccept,
                      PopKeepsNewest, Leaving
  <2>4. CallsValid(H, q) BY <1>3, <2>2 DEF CallsValid
  <2> QED BY <1>4, <2>2, <2>3, <2>4 DEF TodoOK
<1> QED BY <1>2, <1>5, <1>6

LEMMA IdleDown ==
  ASSUME CoreInv, todo = <<>>
  PROVE  DownEmpty
BY NoLeaving

LEMMA PairAndOne == \A x, y, z : <<x, y>> \o <<z>> = <<x, y, z>>
<1> SUFFICES ASSUME NEW x, NEW y, NEW z PROVE <<x, y>> \o <<z>> = <<x, y, z>>
  OBVIOUS
<1> DEFINE T == {x, y, z}
           A == <<x, y>>
           B == <<z>>
           r == A \o B
           t == <<x, y, z>>
<1>1. /\ A \in Seq(T) /\ Len(A) = 2 /\ A[1] = x /\ A[2] = y
      /\ B \in Seq(T) /\ Len(B) = 1 /\ B[1] = z
      /\ t \in Seq(T) /\ Len(t) = 3 /\ t[1] = x /\ t[2] = y /\ t[3] = z
  OBVIOUS
<1> HIDE DEF A, B, t, T
<1>2. /\ r \in Seq(T) /\ Len(r) = Len(A) + Len(B)
      /\ \A i \in 1 .. Len(A) + Len(B) : r[i] = IF i <= Len(A) THEN A[i] ELSE B[i - Len(A)]
  BY <1>1, ConcatProperties
<1> HIDE DEF r
<1>3. /\ r[1] = x /\ r[2] = y /\ r[3] = z
  BY <1>1, <1>2
<1>4. \A i \in 1 .. Len(r) : r[i] = t[i] BY <1>1, <1>2, <1>3
<1>5. r = t BY <1>1, <1>2, <1>4, SeqEqual
<1> QED BY <1>5 DEF r, t, A, B

LEMMA DataPktCore ==
  ASSUME CoreInv, OthersTyped, NEW s \in Srcs, NEW id \in PulseIds, NEW shape \in Shapes,
         NEW eop \in BOOLEAN, NEW empty \in BOOLEAN, NEW lost \in BOOLEAN,
         DataPkt(s, id, shape, eop, empty, lost)
  PROVE  CoreInv'
<1> DEFINE src == Source(s)
           new == ~HasPulse(src, id, shape)
           entry == [id |-> id, shape |-> shape, dup |-> Dups(src, id), good |-> FALSE]
           full == new /\ Len(src.seq) >= MaxPulseSeqList
           a == [id |-> id, shape |-> shape, eop |-> eop, new |-> new, empty |-> empty,
                 lost |-> lost, batch |-> used.packets + 1]
           x == IF new THEN [src EXCEPT !.seq = <<entry>> \o @] ELSE src
           e == Last(src.seq)
<1>1. /\ Active(s[1]) /\ used.packets < MaxPackets
      /\ Here(hw, s) \/ FreeBits # {}
      /\ new => entry.dup <= MaxDup
      /\ SetHw(s, x) /\ getHWSource(s)
      /\ todo' = (IF full THEN <<Call("drop", s, e), Call("pop", s, None)>> ELSE <<>>)
                 \o <<Call("accept", s, a)>>
      /\ UNCHANGED <<pulses, conn>>
  BY DEF DataPkt, Here
<1>2. src \in HWSource /\ src.seq \in Seq(Entry) BY <1>1, SourceTyped
<1>3. a \in DataArg
  <2>1. used.packets + 1 \in Batches
    <3>1. used.packets < MaxPackets BY DEF DataPkt
    <3>2. used.packets \in 0 .. MaxPackets BY DEF OthersTyped
    <3>3. MaxPackets \in Nat BY PulseAssumption
    <3> QED BY <3>1, <3>2, <3>3 DEF Batches
  <2>2. new \in BOOLEAN OBVIOUS
  <2> HIDE DEF new, src
  <2>3. a = [id |-> id, shape |-> shape, eop |-> eop, new |-> new, empty |-> empty,
             lost |-> lost, batch |-> used.packets + 1]
    OBVIOUS
  <2> HIDE DEF a
  <2> DEFINE b == used.packets + 1
  <2> HIDE DEF b
  <2>4. b \in Batches /\ a = [id |-> id, shape |-> shape, eop |-> eop, new |-> new,
                              empty |-> empty, lost |-> lost, batch |-> b]
    BY <2>1, <2>3 DEF b
  <2> QED BY <2>2, <2>4, Zenon DEF DataArg
<1>4. a.id = id /\ a.shape = shape OBVIOUS
<1> HIDE DEF a
<1>5. /\ x \in HWSource /\ x.smsId = src.smsId
      /\ HasPulse(x, id, shape)
      /\ full => Newest(x.seq, a) /\ e \in Entry /\ HasPulse(x, e.id, e.shape)
  <2>1. CASE new
    <3>1. entry \in Entry
      <4>1. Dups(src, id) \in 0 .. MaxDup
        BY <1>1, <1>2, <2>1, DupsNat, PulseAssumption
      <4> QED BY <4>1 DEF Entry
    <3>2. entry.id = id /\ entry.shape = shape OBVIOUS
    <3>3. PutFirst([src EXCEPT !.seq = <<entry>> \o @], src, entry)
      BY <1>2, <3>1, ListedPulse
    <3>7. PutFirst(x, src, entry) BY <2>1, <3>3
    <3> HIDE DEF entry, x, src
    <3>4. /\ x \in HWSource /\ x.smsId = src.smsId
          /\ Len(x.seq) = Len(src.seq) + 1 /\ Len(src.seq) \in Nat
          /\ 1 \in DOMAIN x.seq /\ x.seq[1] = entry
          /\ \A k \in DOMAIN src.seq : k + 1 \in DOMAIN x.seq /\ x.seq[k + 1] = src.seq[k]
      BY <3>7, Zenon DEF PutFirst
    <3>5. HasPulse(x, id, shape) BY <3>2, <3>4 DEF HasPulse
    <3>6. ASSUME Len(src.seq) >= MaxPulseSeqList
          PROVE  Newest(x.seq, a) /\ e \in Entry /\ HasPulse(x, e.id, e.shape)
      <4>0. MaxPulseSeqList \in Nat \ {0} /\ Len(src.seq) \in Nat
            /\ Len(x.seq) = Len(src.seq) + 1 /\ Len(src.seq) >= MaxPulseSeqList
        BY <3>4, <3>6, PulseAssumption, Zenon
      <4>1. Len(src.seq) > 0 /\ Len(x.seq) > 1 BY <4>0
      <4>2. Newest(x.seq, a) BY <1>4, <3>2, <3>4, <4>1 DEF Newest
      <4>3. Len(src.seq) \in DOMAIN src.seq /\ e = src.seq[Len(src.seq)] /\ e \in Entry
        BY <1>2, <4>1, LenProperties, ElementOfSeq DEF Last
      <4>4. Len(src.seq) + 1 \in DOMAIN x.seq /\ x.seq[Len(src.seq) + 1] = e
        BY <3>4, <4>3
      <4>5. HasPulse(x, e.id, e.shape) BY <4>4 DEF HasPulse
      <4> QED BY <4>2, <4>3, <4>5
    <3> QED BY <3>4, <3>5, <3>6
  <2>2. CASE ~new
    <3>1. x = src BY <2>2
    <3> QED BY <1>2, <2>2, <3>1
  <2> QED BY <2>1, <2>2
<1> HIDE DEF x, e
<1>6. /\ HwTyped(hw') /\ BitsOwned(owner', eventSources', hw') /\ RegistryTyped'
      /\ MapOK(pulses, eventSources')
      /\ \A d \in Sources : d # s[1] => DOMAIN hw'[d] = DOMAIN hw[d]
      /\ Here(hw', s) /\ hw'[s[1]][s[2]] = x
  BY <1>1, <1>5, SpeakCore
<1>7. conn[s[1]] = "ACTIVE" /\ todo = <<>> BY <1>1 DEF Active, Idle
<1>8. DownEmpty BY <1>7, IdleDown
<1>9. todo' \in Seq(Calls) /\ TodoOK(conn, hw', todo')
  <2> DEFINE H == hw'
             q == todo'
  <2>1. \/ q = <<Call("accept", s, a)>>
        \/ /\ q = <<Call("drop", s, e), Call("pop", s, None), Call("accept", s, a)>>
           /\ e \in Entry /\ Newest(H[s[1]][s[2]].seq, a)
           /\ HasPulse(H[s[1]][s[2]], e.id, e.shape)
    <3>1. CASE full
      <4> DEFINE y == Call("drop", s, e)
                 z == Call("pop", s, None)
                 w == Call("accept", s, a)
      <4>1. Newest(x.seq, a) /\ e \in Entry /\ HasPulse(x, e.id, e.shape)
        BY <1>5, <3>1, Zenon
      <4> HIDE DEF full
      <4>2. q = <<y, z>> \o <<w>> BY <1>1, <3>1
      <4> HIDE DEF y, z, w, q
      <4>3. q = <<y, z, w>> BY <4>2, PairAndOne, Zenon
      <4>4. q = <<Call("drop", s, e), Call("pop", s, None), Call("accept", s, a)>>
        BY <4>3 DEF y, z, w
      <4>5. H[s[1]][s[2]] = x BY <1>6
      <4> HIDE DEF H
      <4> QED BY <4>1, <4>4, <4>5
    <3>2. CASE ~full
      <4> DEFINE w == Call("accept", s, a)
      <4> HIDE DEF full
      <4>1. q = <<>> \o <<w>> BY <1>1, <3>2
      <4> HIDE DEF w, q
      <4>2. q = <<w>> BY <4>1
      <4> QED BY <4>2 DEF w
    <3> QED BY <3>1, <3>2
  <2>2. \A d \in Sources : conn[d] \notin {"ACTIVE", "FAULT"} => DOMAIN H[d] = {}
    BY <1>6, <1>7, <1>8 DEF DownEmpty
  <2>3. HwTyped(H) /\ Here(H, s) /\ HasPulse(H[s[1]][s[2]], a.id, a.shape)
    BY <1>4, <1>5, <1>6
  <2> HIDE DEF H, q
  <2>4. q \in Seq(Calls) /\ TodoOK(conn, H, q)
    BY <1>3, <1>7, <2>1, <2>2, <2>3, DataTodo
  <2> QED BY <2>4 DEF H, q
<1> QED BY <1>1, <1>6, <1>9 DEF CoreInv, Typed

(* A source list packet says nothing of a pulse yet.                        *)
LEMMA EmptyTodoOK ==
  ASSUME NEW C, NEW H, \A d \in Sources : C[d] \notin {"ACTIVE", "FAULT"} => DOMAIN H[d] = {}
  PROVE  <<>> \in Seq(Calls) /\ TodoOK(C, H, <<>>)
<1> DEFINE q == <<>>
<1>1. q \in Seq(Calls) /\ DOMAIN q = {} BY EmptySeq
<1> HIDE DEF q
<1>2. Ordered(q) /\ CallsValid(H, q) /\ PopKeepsNewest(H, q)
  BY <1>1 DEF Ordered, NoneAfterLeaving, AcceptLast, PopBeforeAccept, CallsValid,
              PopKeepsNewest
<1>3. LeavingAll(C, H, q)
  <2> SUFFICES ASSUME NEW d \in Sources, C[d] \notin {"ACTIVE", "FAULT"},
                      NEW h \in DOMAIN H[d]
               PROVE  FALSE
    BY DEF LeavingAll
  <2> QED OBVIOUS
<1> QED BY <1>1, <1>2, <1>3 DEF TodoOK, q

LEMMA SourceListCore ==
  ASSUME CoreInv, NEW s \in Srcs, SourceListPkt(s)
  PROVE  CoreInv'
<1>1. /\ Active(s[1]) /\ FreeBits # {} /\ SetHw(s, Source(s)) /\ getHWSource(s)
      /\ UNCHANGED <<pulses, conn, todo>>
  BY DEF SourceListPkt
<1>2. Source(s) \in HWSource BY <1>1, SourceTyped
<1>3. /\ HwTyped(hw') /\ BitsOwned(owner', eventSources', hw') /\ RegistryTyped'
      /\ MapOK(pulses, eventSources')
      /\ \A d \in Sources : d # s[1] => DOMAIN hw'[d] = DOMAIN hw[d]
  BY <1>1, <1>2, SpeakCore
<1>4. conn[s[1]] = "ACTIVE" /\ todo = <<>> BY <1>1 DEF Active, Idle
<1>5. DownEmpty BY <1>4, IdleDown
<1>6. <<>> \in Seq(Calls) /\ TodoOK(conn, hw', <<>>)
  <2> DEFINE H == hw'
  <2>1. \A d \in Sources : conn[d] \notin {"ACTIVE", "FAULT"} => DOMAIN H[d] = {}
    BY <1>3, <1>4, <1>5 DEF DownEmpty
  <2> HIDE DEF H
  <2>2. <<>> \in Seq(Calls) /\ TodoOK(conn, H, <<>>) BY <2>1, EmptyTodoOK
  <2> QED BY <2>2 DEF H
<1>7. todo' = <<>> BY <1>1, <1>4
<1> QED BY <1>1, <1>3, <1>6, <1>7 DEF CoreInv, Typed

LEMMA HeartbeatCore ==
  ASSUME CoreInv, NEW d \in Sources, HeartbeatPkt(d)
  PROVE  CoreInv'
<1>1. /\ Active(d) /\ todo' = LeaveAll(d)
      /\ UNCHANGED <<pulses, eventSources, owner, hw, conn>>
  BY DEF HeartbeatPkt, smsVars
<1>2. DownEmpty BY <1>1, IdleDown DEF Active, Idle
<1>3. LeaveAll(d) \in Seq(Calls) /\ TodoOK(conn, hw, LeaveAll(d))
  BY <1>2, LeaveAllOK DEF DownEmpty, CoreInv
<1> QED BY <1>1, <1>3 DEF CoreInv, Typed, RegistryTyped

(* The calls an RTDL packet is dealt with in: the pulse, then the sources   *)
(* that were silent for too long are let go.                                *)
LEMMA RTDLTodo ==
  ASSUME NEW H, HwTyped(H), NEW d \in Sources, NEW C, C[d] = "ACTIVE",
         \A x \in Sources : C[x] \notin {"ACTIVE", "FAULT"} => DOMAIN H[x] = {},
         NEW T \in SUBSET (DOMAIN H[d]), NEW pid \in Pids,
         NEW A, A = <<>> \/ A = <<Call("rtdl", None, [pid |-> pid])>>,
         NEW B, \/ B = SetToSeq({Call("unregister", <<d, h>>, None) : h \in T})
                \/ B = <<>>,
         NEW q, q = A \o B
  PROVE  q \in Seq(Calls) /\ TodoOK(C, H, q)
<1> DEFINE S == {Call("unregister", <<d, h>>, None) : h \in T}
<1>1. IsFiniteSet(T)
  BY FS_Subset, PulseAssumption DEF HwTyped
<1>2. IsFiniteSet(S)
  <2> DEFINE f == [h \in T |-> Call("unregister", <<d, h>>, None)]
  <2>1. f \in Surjection(T, S) BY DEF Surjection
  <2> QED BY <1>1, <2>1, FS_Surjection
<1>3. S \subseteq Calls BY DEF HwTyped, Calls, Call, Srcs
<1>4. \A y \in S : y.op = "unregister" /\ \E h \in T : y.src = <<d, h>> /\
                   y = Call("unregister", <<d, h>>, None)
  BY DEF Call
<1>5. /\ B \in Seq(Calls)
      /\ \A k \in DOMAIN B : B[k] \in S
      /\ \A j, k \in DOMAIN B : B[j] = B[k] => j = k
  <2>1. CASE B = <<>> BY <2>1, EmptySeq
  <2>2. CASE B = SetToSeq(S)
    <3> HIDE DEF S
    <3>1. /\ B \in Seq(S) /\ \A j, k \in DOMAIN B : B[j] = B[k] => j = k
      BY <1>2, <2>2, SetToSeqLists
    <3>2. B \in Seq(Calls) BY <1>3, <3>1, SeqMonotonic
    <3>3. \A k \in DOMAIN B : B[k] \in S BY <3>1, ElementOfSeq, LenProperties
    <3> QED BY <3>1, <3>2, <3>3
  <2> QED BY <2>1, <2>2
<1>6. /\ A \in Seq(Calls) /\ \A k \in DOMAIN A : A[k].op = "rtdl" /\ A[k].src = None
  <2>1. CASE A = <<>> BY <2>1, EmptySeq
  <2>2. CASE A = <<Call("rtdl", None, [pid |-> pid])>>
    <3> DEFINE y == Call("rtdl", None, [pid |-> pid])
    <3>1. y \in Calls /\ y.op = "rtdl" /\ y.src = None BY DEF Calls, Call
    <3> HIDE DEF y
    <3>2. A \in Seq(Calls) /\ DOMAIN A = {1} /\ A[1] = y BY <2>2, <3>1 DEF y
    <3> QED BY <3>1, <3>2
  <2> QED BY <2>1, <2>2
<1> HIDE DEF S
<1>7. /\ q \in Seq(Calls) /\ Len(q) = Len(A) + Len(B)
      /\ \A k \in 1 .. Len(A) + Len(B) : q[k] = IF k <= Len(A) THEN A[k] ELSE B[k - Len(A)]
  BY <1>5, <1>6, ConcatProperties
<1>8. /\ Len(A) \in Nat /\ Len(B) \in Nat /\ DOMAIN q = 1 .. Len(A) + Len(B)
      /\ DOMAIN A = 1 .. Len(A) /\ DOMAIN B = 1 .. Len(B)
  BY <1>5, <1>6, <1>7, LenProperties
<1>9. ASSUME NEW k \in DOMAIN q
      PROVE  /\ k <= Len(A) => q[k].op = "rtdl" /\ q[k].src = None
             /\ k > Len(A) => /\ k - Len(A) \in DOMAIN B /\ q[k] = B[k - Len(A)]
                              /\ q[k] \in S
  <2>1. CASE k <= Len(A)
    <3>1. k \in DOMAIN A /\ q[k] = A[k] /\ ~(k > Len(A)) BY <1>7, <1>8, <1>9, <2>1
    <3> QED BY <1>6, <3>1
  <2>2. CASE k > Len(A)
    <3>1. k - Len(A) \in DOMAIN B /\ q[k] = B[k - Len(A)] /\ ~(k <= Len(A))
      BY <1>7, <1>8, <1>9, <2>2
    <3> QED BY <1>5, <3>1
  <2> QED BY <1>8, <2>1, <2>2
<1>10. \A k \in DOMAIN q : \/ q[k].op = "rtdl" /\ q[k].src = None
                           \/ q[k].op = "unregister" /\ \E h \in T : q[k].src = <<d, h>>
  <2> SUFFICES ASSUME NEW k \in DOMAIN q
               PROVE  \/ q[k].op = "rtdl" /\ q[k].src = None
                      \/ q[k].op = "unregister" /\ \E h \in T : q[k].src = <<d, h>>
    OBVIOUS
  <2>1. k <= Len(A) \/ k > Len(A) BY <1>8
  <2> QED BY <1>4, <1>9, <2>1
<1>11. NoneAfterLeaving(q)
  <2> SUFFICES ASSUME NEW j \in DOMAIN q, NEW k \in DOMAIN q, j < k, q[j].op \in Leaving
               PROVE  q[k].src # q[j].src
    BY DEF NoneAfterLeaving
  <2>1. j > Len(A) /\ k > Len(A) BY <1>8, <1>9 DEF Leaving
  <2>2. /\ j - Len(A) \in DOMAIN B /\ q[j] = B[j - Len(A)] /\ q[j] \in S
        /\ k - Len(A) \in DOMAIN B /\ q[k] = B[k - Len(A)] /\ q[k] \in S
    BY <1>9, <2>1
  <2>3. j - Len(A) # k - Len(A) BY <1>8
  <2>4. q[j] # q[k] BY <1>5, <2>2, <2>3
  <2>5. PICK g \in T : q[j].src = <<d, g>> /\ q[j] = Call("unregister", <<d, g>>, None)
    BY <1>4, <2>2
  <2>6. PICK h \in T : q[k].src = <<d, h>> /\ q[k] = Call("unregister", <<d, h>>, None)
    BY <1>4, <2>2
  <2>7. g # h BY <2>4, <2>5, <2>6
  <2> QED BY <2>5, <2>6, <2>7
<1>12. AcceptLast(q) /\ PopBeforeAccept(q) /\ PopKeepsNewest(H, q)
  <2>1. \A k \in DOMAIN q : q[k].op \notin {"accept", "pop"} BY <1>10
  <2> QED BY <2>1 DEF AcceptLast, PopBeforeAccept, PopKeepsNewest
<1>13. CallsValid(H, q)
  <2> SUFFICES ASSUME NEW k \in DOMAIN q PROVE CallHere(H, q[k]) /\ CallListed(H, q[k])
    BY DEF CallsValid
  <2> QED BY <1>10 DEF CallHere, CallListed, Here
<1>14. LeavingAll(C, H, q)
  <2> SUFFICES ASSUME NEW x \in Sources, C[x] \notin {"ACTIVE", "FAULT"},
                      NEW h \in DOMAIN H[x]
               PROVE  FALSE
    BY DEF LeavingAll
  <2> QED OBVIOUS
<1> QED BY <1>7, <1>11, <1>12, <1>13, <1>14 DEF TodoOK, Ordered

LEMMA CountedHw ==
  ASSUME HwTyped(hw), NEW d \in Sources, NEW n \in Nat,
         hw' = [hw EXCEPT ![d] = [h \in DOMAIN hw[d] |-> [hw[d][h] EXCEPT !.noData = @ + n]]]
  PROVE  /\ HwTyped(hw')
         /\ \A x \in Sources : DOMAIN hw'[x] = DOMAIN hw[x]
         /\ \A x \in Sources, h \in HwIds, j \in SmsIds :
                Holds(hw', x, h, j) <=> Holds(hw, x, h, j)
<1>1. /\ DOMAIN hw' = Sources /\ DOMAIN hw'[d] = DOMAIN hw[d]
      /\ \A x \in Sources : x # d => hw'[x] = hw[x]
      /\ \A h \in DOMAIN hw[d] : hw'[d][h] = [hw[d][h] EXCEPT !.noData = @ + n]
  BY DEF HwTyped
<1>2. ASSUME NEW h \in DOMAIN hw[d]
      PROVE  hw'[d][h] \in HWSource /\ hw'[d][h].smsId = hw[d][h].smsId
  <2> DEFINE w == hw[d][h]
             x == hw'[d][h]
  <2>1. /\ w \in [smsId : SmsIds \union {NoSms}, intermittent : BOOLEAN,
                  recover : Nat, noData : Nat, seq : Seq(Entry)]
        /\ w.intermittent => w.smsId = NoSms
    <3>1. w \in HWSource BY DEF HwTyped
    <3> HIDE DEF w
    <3> QED BY <3>1, Zenon DEF HWSource
  <2>2. x = [w EXCEPT !.noData = @ + n] BY <1>1
  <2> HIDE DEF w, x
  <2>3. x \in [smsId : SmsIds \union {NoSms}, intermittent : BOOLEAN,
               recover : Nat, noData : Nat, seq : Seq(Entry)]
        /\ x.intermittent = w.intermittent /\ x.smsId = w.smsId
    BY <2>1, <2>2
  <2>4. x \in HWSource BY <2>1, <2>3, Zenon DEF HWSource
  <2> QED BY <2>3, <2>4 DEF x, w
<1>3. HwTyped(hw') BY <1>1, <1>2 DEF HwTyped
<1>4. \A x \in Sources : DOMAIN hw'[x] = DOMAIN hw[x] BY <1>1
<1>5. ASSUME NEW x \in Sources, NEW h \in HwIds, NEW j \in SmsIds
      PROVE  Holds(hw', x, h, j) <=> Holds(hw, x, h, j)
  <2>1. CASE x = d BY <1>1, <1>2, <2>1 DEF Holds
  <2>2. CASE x # d BY <1>1, <2>2 DEF Holds
  <2> QED BY <2>1, <2>2
<1> QED BY <1>3, <1>4, <1>5

RtdlTyped == rtdl \in [Sources -> [last : Nat, dup : 0 .. MaxDup]]

LEMMA RTDLPktCore ==
  ASSUME CoreInv, RtdlTyped, NEW d \in Sources, NEW id \in PulseIds, RTDLPkt(d, id)
  PROVE  CoreInv' /\ RtdlTyped'
<1> DEFINE dup == IF id = rtdl[d].last THEN rtdl[d].dup + 1 ELSE 0
           pid == Pid(id, dup)
           checks == (rtdlCount + 1) % RTDLFreq = 0
           T == {h \in DOMAIN hw[d] : hw[d][h].noData + RTDLFreq > RTDLNoDataThresh}
           A == IF id \in BadTimes THEN <<>> ELSE <<Call("rtdl", None, [pid |-> pid])>>
           B == IF checks THEN SetToSeq({Call("unregister", <<d, h>>, None) : h \in T})
                ELSE <<>>
<1>1. Active(d) /\ UNCHANGED <<pulses, eventSources, owner, conn>>
  BY DEF RTDLPkt, smsVars
<1>2. dup <= MaxDup /\ rtdl' = [rtdl EXCEPT ![d] = [last |-> id, dup |-> dup]]
  BY DEF RTDLPkt
<1>3. hw' = IF checks
            THEN [hw EXCEPT ![d] = [h \in DOMAIN hw[d] |->
                                       [hw[d][h] EXCEPT !.noData = @ + RTDLFreq]]]
            ELSE hw
  BY DEF RTDLPkt
<1>4. todo' = A \o B BY DEF RTDLPkt
<1>5. dup \in 0 .. MaxDup
  <2>1. rtdl[d].dup \in Nat BY PulseAssumption DEF RtdlTyped
  <2> QED BY <1>2, <2>1, PulseAssumption
<1>6. pid \in Pids BY <1>5, PidIn
<1>7. id \in Nat BY PulseAssumption
<1> HIDE DEF dup
<1>8. RtdlTyped' BY <1>2, <1>5, <1>7 DEF RtdlTyped
<1>9. CoreInv => /\ RegistryTyped /\ HwTyped(hw) /\ MapOK(pulses, eventSources)
                 /\ BitsOwned(owner, eventSources, hw)
  BY DEF CoreInv, Typed
<1>10. /\ HwTyped(hw')
       /\ \A x \in Sources : DOMAIN hw'[x] = DOMAIN hw[x]
       /\ \A x \in Sources, h \in HwIds, j \in SmsIds :
              Holds(hw', x, h, j) <=> Holds(hw, x, h, j)
  <2>1. CASE checks
    <3>1. RTDLFreq \in Nat BY PulseAssumption
    <3>2. hw' = [hw EXCEPT ![d] = [h \in DOMAIN hw[d] |->
                                      [hw[d][h] EXCEPT !.noData = @ + RTDLFreq]]]
      BY <1>3, <2>1
    <3> QED BY <1>9, <3>1, <3>2, CountedHw
  <2>2. CASE ~checks
    <3>1. hw' = hw BY <1>3, <2>2
    <3> QED BY <1>9, <3>1
  <2> QED BY <2>1, <2>2
<1>11. BitsOwned(owner, eventSources, hw') BY <1>9, <1>10, BitsSame
<1>12. conn[d] = "ACTIVE" /\ todo = <<>> BY <1>1 DEF Active, Idle
<1>13. DownEmpty BY <1>12, IdleDown
<1>14. todo' \in Seq(Calls) /\ TodoOK(conn, hw', todo')
  <2> DEFINE H == hw'
             q == todo'
  <2>1. \A x \in Sources : conn[x] \notin {"ACTIVE", "FAULT"} => DOMAIN H[x] = {}
    BY <1>10, <1>13 DEF DownEmpty
  <2>2. T \in SUBSET (DOMAIN H[d]) /\ HwTyped(H) BY <1>10
  <2>3. A = <<>> \/ A = <<Call("rtdl", None, [pid |-> pid])>> OBVIOUS
  <2>4. B = SetToSeq({Call("unregister", <<d, h>>, None) : h \in T}) \/ B = <<>>
    OBVIOUS
  <2>5. q = A \o B BY <1>4
  <2> HIDE DEF H, q, A, B, T, pid
  <2>6. q \in Seq(Calls) /\ TodoOK(conn, H, q)
    BY <1>6, <1>12, <2>1, <2>2, <2>3, <2>4, <2>5, RTDLTodo
  <2> QED BY <2>6 DEF H, q
<1> QED BY <1>1, <1>8, <1>9, <1>10, <1>11, <1>14 DEF CoreInv, Typed, RegistryTyped

-----------------------------------------------------------------------------
(* Connections, and the operator.                                           *)

LEMMA ConnCore ==
  ASSUME CoreInv, UNCHANGED <<pulses, eventSources, owner, hw, todo>>, todo = <<>>,
         \A d \in Sources : conn'[d] = conn[d] \/ conn'[d] \in {"ACTIVE", "FAULT"}
                            \/ conn[d] \notin {"ACTIVE", "FAULT"}
  PROVE  CoreInv'
<1>1. DownEmpty BY IdleDown
<1> DEFINE C == conn'
<1>2. \A d \in Sources : C[d] \notin {"ACTIVE", "FAULT"} => DOMAIN hw[d] = {}
  BY <1>1 DEF DownEmpty
<1> HIDE DEF C
<1>3. <<>> \in Seq(Calls) /\ TodoOK(C, hw, <<>>) BY <1>2, EmptyTodoOK
<1>4. TodoOK(conn', hw', todo') BY <1>3 DEF C
<1> QED BY <1>3, <1>4 DEF CoreInv, Typed, RegistryTyped

LEMMA ConnectionCore ==
  ASSUME CoreInv, conn \in [Sources -> ConnStates], Connection
  PROVE  CoreInv'
<1>1. PICK d \in Sources :
        \/ Enable(d) \/ Disable(d) \/ TimerDelayed(d) \/ RetryTimer(d)
        \/ ConnectTimer(d) \/ DataTimer(d) \/ ConnectComplete(d)
        \/ FdReadyIdle(d) \/ Disconnect(d) \/ SlowRead(d)
  BY DEF Connection
<1>2. todo = <<>>
  BY <1>1 DEF Enable, Disable, TimerDelayed, RetryTimer, ConnectTimer, DataTimer,
              ConnectComplete, FdReadyIdle, Disconnect, SlowRead, Active, Idle
<1>3. DownEmpty BY <1>2, IdleDown
<1>4. CASE \E state : connectionFailed(d, state) BY <1>3, <1>4, FailedCore
<1>5. CASE UNCHANGED <<smsVars, conn, hw, todo>>
  BY <1>2, <1>5, ConnCore DEF smsVars
<1>6. CASE /\ conn[d] \in {"DISABLED", "IDLE", "CONNECTING"}
           /\ \E state : conn' = [conn EXCEPT ![d] = state]
           /\ UNCHANGED <<smsVars, hw, todo>>
  <2>1. \A x \in Sources : conn'[x] = conn[x] \/ conn[x] \notin {"ACTIVE", "FAULT"}
    BY <1>6
  <2> QED BY <1>2, <1>6, <2>1, ConnCore DEF smsVars
<1>7. CASE Enable(d) \/ RetryTimer(d)
  <2>1. PICK answer \in ConnectAnswers : startConnect(d, answer)
    BY <1>7 DEF Enable, RetryTimer, Connects
  <2>2. conn[d] \in {"DISABLED", "IDLE", "CONNECTING"} BY <1>7 DEF Enable, RetryTimer
  <2> QED BY <1>4, <1>6, <2>1, <2>2 DEF startConnect
<1>8. CASE ConnectComplete(d) BY <1>4, <1>6, <1>8 DEF ConnectComplete
<1>9. CASE FdReadyIdle(d) BY <1>6, <1>9 DEF FdReadyIdle
<1>10. CASE TimerDelayed(d) \/ DataTimer(d) \/ SlowRead(d)
  BY <1>4, <1>5, <1>10 DEF TimerDelayed, DataTimer, SlowRead
<1> QED BY <1>1, <1>4, <1>7, <1>8, <1>9, <1>10 DEF Disable, ConnectTimer, Disconnect

LEMMA PopPulseCore ==
  ASSUME CoreInv, NEW pid, PopPulseBuffer(pid)
  PROVE  CoreInv'
<1>1. /\ pulses' = Without(pulses, {pid})
      /\ UNCHANGED <<eventSources, owner, conn, hw, todo>>
  BY DEF PopPulseBuffer, dsVars
<1>2. MapOK(pulses', eventSources') BY <1>1 DEF CoreInv, Typed, MapOK, Without
<1> QED BY <1>1, <1>2 DEF CoreInv, Typed, RegistryTyped

-----------------------------------------------------------------------------
(* Every step.                                                              *)

UsedTyped == used \in [packets : 0 .. MaxPackets, extras : Nat]

LEMMA ResetRtdl ==
  ASSUME RtdlTyped, NEW d, rtdl' = [rtdl EXCEPT ![d].last = 0]
  PROVE  RtdlTyped'
<1>1. CASE d \in Sources
  <2> DEFINE x == [rtdl[d] EXCEPT !.last = 0]
  <2>1. rtdl[d] \in [last : Nat, dup : 0 .. MaxDup] BY <1>1 DEF RtdlTyped
  <2>2. x \in [last : Nat, dup : 0 .. MaxDup] BY <2>1
  <2>3. rtdl' = [rtdl EXCEPT ![d] = x] OBVIOUS
  <2> HIDE DEF x
  <2> QED BY <2>2, <2>3 DEF RtdlTyped
<1>2. CASE d \notin Sources
  <2>1. rtdl' = rtdl BY <1>2 DEF RtdlTyped
  <2> QED BY <2>1 DEF RtdlTyped
<1> QED BY <1>1, <1>2

LEMMA MoreUsed ==
  ASSUME UsedTyped, Extra
  PROVE  UsedTyped'
<1>1. used' = [used EXCEPT !.extras = @ + 1] BY DEF Extra
<1> QED BY <1>1 DEF UsedTyped

LEMMA HandlerOthers ==
  ASSUME RtdlTyped, UsedTyped, HandlerStep
  PROVE  RtdlTyped' /\ UsedTyped'
<1>1. UNCHANGED used
  BY DEF HandlerStep, CallGet, Handle, CallDrop, CallPartial, CallEnd, CallSettle,
     CallComplete, CallPop, CallLeave, CallUnregister, CallAccept, CallEvents, CallRTDL
<1>2. UsedTyped' BY <1>1 DEF UsedTyped
<1>3. CASE UNCHANGED rtdl BY <1>2, <1>3 DEF RtdlTyped
<1>4. CASE \E d : connectionFailed(d, "IDLE")
  BY <1>2, <1>4, ResetRtdl DEF connectionFailed
<1>5. CASE CallGet(Head(todo)) BY <1>3, <1>5 DEF CallGet, dsVars
<1>6. CASE Handle(Head(todo), Tail(todo))
  <2>1. CASE CallAccept(Head(todo), Tail(todo)) BY <1>3, <1>4, <2>1 DEF CallAccept
  <2>2. CASE ~CallAccept(Head(todo), Tail(todo))
    BY <1>3, <1>6, <2>2 DEF Handle, CallDrop, CallPartial, CallEnd, CallSettle,
       CallComplete, CallPop, CallLeave, CallUnregister, CallEvents, CallRTDL, dsVars
  <2> QED BY <2>1, <2>2
<1> QED BY <1>5, <1>6 DEF HandlerStep

LEMMA ConnectionOthers ==
  ASSUME RtdlTyped, UsedTyped, Connection
  PROVE  RtdlTyped' /\ UsedTyped'
<1>1. PICK d \in Sources :
        \/ Enable(d) \/ Disable(d) \/ TimerDelayed(d) \/ RetryTimer(d)
        \/ ConnectTimer(d) \/ DataTimer(d) \/ ConnectComplete(d)
        \/ FdReadyIdle(d) \/ Disconnect(d) \/ SlowRead(d)
  BY DEF Connection
<1>2. UNCHANGED rtdl \/ rtdl' = [rtdl EXCEPT ![d].last = 0]
  BY <1>1 DEF Enable, Disable, TimerDelayed, RetryTimer, ConnectTimer, DataTimer,
              ConnectComplete, FdReadyIdle, Disconnect, SlowRead, Connects, startConnect,
              connectionFailed
<1>3. RtdlTyped' BY <1>2, ResetRtdl DEF RtdlTyped
<1>4. UNCHANGED used \/ Extra
  BY <1>1 DEF Enable, Disable, TimerDelayed, RetryTimer, ConnectTimer, DataTimer,
              ConnectComplete, FdReadyIdle, Disconnect, SlowRead, Connects
<1>5. UsedTyped' BY <1>4, MoreUsed DEF UsedTyped
<1> QED BY <1>3, <1>5

LEMMA DataOthers ==
  ASSUME RtdlTyped, UsedTyped, NEW s \in Srcs, NEW id, NEW shape, NEW eop, NEW empty,
         NEW lost, DataPkt(s, id, shape, eop, empty, lost)
  PROVE  RtdlTyped' /\ UsedTyped'
<1>1. UNCHANGED rtdl /\ used.packets < MaxPackets
      /\ used' = [used EXCEPT !.packets = @ + 1, !.extras = IF lost THEN @ + 1 ELSE @]
  BY DEF DataPkt
<1>2. PICK n \in Nat : used' = [used EXCEPT !.packets = @ + 1, !.extras = n]
  <2>1. used.extras \in Nat /\ used.extras + 1 \in Nat BY DEF UsedTyped
  <2>2. CASE lost
    <3>1. used' = [used EXCEPT !.packets = @ + 1, !.extras = used.extras + 1]
      BY <1>1, <2>2
    <3> QED BY <2>1, <3>1
  <2>3. CASE ~lost
    <3>1. used' = [used EXCEPT !.packets = @ + 1, !.extras = used.extras]
      BY <1>1, <2>3
    <3> QED BY <2>1, <3>1
  <2> QED BY <2>2, <2>3
<1>3. used.packets < MaxPackets BY <1>1
<1>4. UsedTyped'
  <2>1. used.packets + 1 \in 0 .. MaxPackets
    BY <1>3, PulseAssumption DEF UsedTyped
  <2> QED BY <1>2, <2>1 DEF UsedTyped
<1> QED BY <1>1, <1>4 DEF RtdlTyped

(* Every step keeps the sources, their bits and the calls in order.         *)
LEMMA NextPulse == PulseInv /\ [Next]_vars => PulseInv'
<1> SUFFICES ASSUME PulseInv, [Next]_vars PROVE PulseInv' OBVIOUS
<1>0. /\ CoreInv /\ OthersTyped /\ RtdlTyped /\ UsedTyped
      /\ TimerInv /\ conn \in [Sources -> ConnStates]
  BY DEF PulseInv, OthersTyped, RtdlTyped, UsedTyped, TimerInv, LinksTyped
<1>2. TimerInv' BY <1>0, NextTimer
<1>3. CoreInv' /\ RtdlTyped' /\ UsedTyped'
  <2>1. CASE HandlerStep BY <1>0, <2>1, HandlerCore, HandlerOthers
  <2>2. CASE \E s \in Sources \X HwIds, id \in PulseIds, shape \in Shapes,
               eop, empty, lost \in BOOLEAN :
                   DataPkt(s, id, shape, eop, empty, lost)
    BY <1>0, <2>2, DataPktCore, DataOthers DEF Srcs
  <2>3. CASE \E s \in Sources \X HwIds : SourceListPkt(s)
    <3>1. PICK s \in Srcs : SourceListPkt(s) BY <2>3 DEF Srcs
    <3>2. CoreInv' BY <1>0, <3>1, SourceListCore
    <3>3. Extra /\ UNCHANGED rtdl BY <3>1 DEF SourceListPkt
    <3> QED BY <1>0, <3>2, <3>3, MoreUsed DEF RtdlTyped
  <2>4. CASE \E d \in Sources, id \in PulseIds : RTDLPkt(d, id)
    <3>1. PICK d \in Sources, id \in PulseIds : RTDLPkt(d, id) BY <2>4
    <3>2. CoreInv' /\ RtdlTyped' BY <1>0, <3>1, RTDLPktCore
    <3>3. Extra BY <3>1 DEF RTDLPkt
    <3> QED BY <1>0, <3>2, <3>3, MoreUsed
  <2>5. CASE \E d \in Sources : HeartbeatPkt(d)
    <3>1. PICK d \in Sources : HeartbeatPkt(d) BY <2>5
    <3>2. CoreInv' BY <1>0, <3>1, HeartbeatCore
    <3>3. Extra /\ rtdl' = [rtdl EXCEPT ![d].last = 0] BY <3>1 DEF HeartbeatPkt
    <3> QED BY <1>0, <3>2, <3>3, MoreUsed, ResetRtdl
  <2>6. CASE Connection BY <1>0, <2>6, ConnectionCore, ConnectionOthers
  <2>7. CASE \E pid \in Pids : PopPulseBuffer(pid)
    <3>1. PICK pid \in Pids : PopPulseBuffer(pid) BY <2>7
    <3>2. CoreInv' BY <1>0, <3>1, PopPulseCore
    <3>3. Extra /\ UNCHANGED rtdl BY <3>1 DEF PopPulseBuffer, dsVars
    <3> QED BY <1>0, <3>2, <3>3, MoreUsed DEF RtdlTyped
  <2>8. CASE UNCHANGED vars
    BY <1>0, <2>8 DEF vars, smsVars, dsVars, CoreInv, Typed, RegistryTyped, RtdlTyped,
                      UsedTyped
  <2> QED BY <2>1, <2>2, <2>3, <2>4, <2>5, <2>6, <2>7, <2>8 DEF Next, Packet
<1> QED BY <1>2, <1>3 DEF PulseInv, OthersTyped, RtdlTyped, UsedTyped

LEMMA InitPulse == Init => PulseInv
<1> SUFFICES ASSUME Init PROVE PulseInv OBVIOUS
<1>1. MapOK(pulses, eventSources) /\ RegistryTyped
  BY DEF Init, MapOK, RegistryTyped
<1>2. hw = [d \in Sources |-> <<>>] /\ DOMAIN <<>> = {}
  <2>1. <<>> \in Seq({}) /\ Len(<<>>) = 0 BY EmptySeq
  <2> QED BY DEF Init
<1>3. \A d \in Sources : DOMAIN hw[d] = {} BY <1>2
<1>4. HwTyped(hw) BY <1>2, <1>3 DEF HwTyped
<1>5. BitsOwned(owner, eventSources, hw)
  BY <1>3 DEF Init, BitsOwned, Holds
<1>6. todo \in Seq(Calls) /\ TodoOK(conn, hw, todo)
  BY <1>3, EmptyTodoOK DEF Init
<1>7. OthersTyped
  BY PulseAssumption DEF Init, OthersTyped, TimerInv, LinksTyped, TimerRunning, ConnStates, Links
<1> QED BY <1>1, <1>4, <1>5, <1>6, <1>7 DEF PulseInv, CoreInv, Typed

LEMMA PulseInvSays == PulseInv => NoWaitOnDeparted
<1> SUFFICES ASSUME PulseInv PROVE NoWaitOnDeparted OBVIOUS
<1>1. /\ CoreInv /\ MapOK(pulses, eventSources) /\ RegistryTyped /\ HwTyped(hw)
      /\ BitsOwned(owner, eventSources, hw)
  BY DEF PulseInv, CoreInv, Typed
<1>2. \A p \in DOMAIN pulses : pulses[p].pending \subseteq eventSources
  BY <1>1 DEF MapOK
<1>3. ASSUME todo = <<>>, NEW i \in SmsIds
      PROVE  /\ i \in eventSources <=> owner[i] # None
             /\ i \in eventSources =>
                   /\ conn[owner[i]] \in {"ACTIVE", "FAULT"}
                   /\ Cardinality({h \in DOMAIN hw[owner[i]] :
                                      hw[owner[i]][h].smsId = i}) = 1
  <2>1. i \in eventSources <=> owner[i] # None BY <1>1 DEF BitsOwned
  <2> SUFFICES ASSUME i \in eventSources
               PROVE  /\ conn[owner[i]] \in {"ACTIVE", "FAULT"}
                      /\ Cardinality({h \in DOMAIN hw[owner[i]] :
                                         hw[owner[i]][h].smsId = i}) = 1
    BY <2>1
  <2> DEFINE d == owner[i]
             S == {h \in DOMAIN hw[d] : hw[d][h].smsId = i}
  <2>2. d \in Sources BY <1>1, <2>1 DEF RegistryTyped
  <2>3. PICK h \in HwIds : Holds(hw, d, h, i) BY <1>1 DEF BitsOwned
  <2>4. \A g \in HwIds : Holds(hw, d, g, i) => g = h
    BY <1>1, <2>2, <2>3 DEF BitsOwned
  <2>5. S = {h}
    BY <1>1, <2>2, <2>3, <2>4 DEF Holds, HwTyped
  <2>6. Cardinality(S) = 1 BY <2>5, FS_Singleton
  <2>7. DownEmpty BY <1>1, <1>3, IdleDown
  <2>8. conn[d] \in {"ACTIVE", "FAULT"}
    BY <2>2, <2>3, <2>7 DEF DownEmpty, Holds
  <2> QED BY <2>6, <2>8
<1> QED BY <1>2, <1>3 DEF NoWaitOnDeparted

(* Nobody waits for a source that has gone: whatever packets come, whichever *)
(* connections fail and whenever a source is given up on or given a bit     *)
(* again, the bits that pulses wait for are those of the hardware sources   *)
(* that are there, one each.                                                *)
THEOREM NobodyWaitsForDeparted == Spec => []NoWaitOnDeparted
BY InitPulse, NextPulse, PulseInvSays, PTL DEF Spec

-----------------------------------------------------------------------------
(***************************************************************************)
(* The pulse map implements PulseStream: whatever order packets, timers,   *)
(* lost connections and operators come in, the pulses are recorded in      *)
(* order, with the events they were given.                                 *)
(***************************************************************************)

(* Finite sets of numbers.                                                  *)

LEMMA NatLeast ==
  ASSUME NEW T \in SUBSET Nat, T # {}
  PROVE  \E x \in T : \A y \in T : x <= y
<1>1. \E x \in T : \A y \in T : ~(<<y, x>> \in OpToRel(<, Nat))
  BY NatLessThanWellFounded, WFMin
<1>2. \A x, y \in Nat : y < x => <<y, x>> \in OpToRel(<, Nat)
  <2>1. \A x, y \in Nat : y < x => <<y, x>> \in {r \in Nat \X Nat : r[1] < r[2]}
    OBVIOUS
  <2> QED BY <2>1, Zenon DEF OpToRel
<1>3. \E x \in T : \A y \in T : ~(y < x)
  BY <1>1, <1>2, Zenon
<1> QED BY <1>3

\* A set of numbers that contains 0 and, with a number, the next.
LEMMA NatInduct ==
  ASSUME NEW T \in SUBSET Nat, 0 \in T, \A n \in T : n + 1 \in T
  PROVE  T = Nat
<1> SUFFICES ASSUME Nat \ T # {} PROVE FALSE OBVIOUS
<1>1. PICK x \in Nat \ T : \A y \in Nat \ T : x <= y
  <2>1. (Nat \ T) \in SUBSET Nat OBVIOUS
  <2> DEFINE U == Nat \ T
  <2>2. U \in SUBSET Nat /\ U # {} BY <2>1
  <2> HIDE DEF U
  <2>3. \E x \in U : \A y \in U : x <= y BY <2>2, NatLeast
  <2> QED BY <2>3 DEF U
<1>2. x # 0 /\ x - 1 \in Nat BY <1>1
<1>3. x - 1 \in T BY <1>1, <1>2
<1>4. (x - 1) + 1 = x BY <1>1
<1> QED BY <1>1, <1>3, <1>4

\* A finite set of numbers has a greatest one and can be put in order.
Increasing(q, S) ==
  /\ q \in [1 .. Cardinality(S) -> S]
  /\ \A i, j \in 1 .. Cardinality(S) : i < j => q[i] < q[j]

Sortable(n) == \A S \in SUBSET Nat : IsFiniteSet(S) /\ Cardinality(S) = n =>
    /\ \E q : Increasing(q, S)
    /\ S # {} => \E x \in S : \A y \in S : y <= x

LEMMA SortMore ==
  ASSUME NEW n \in Nat, Sortable(n)
  PROVE  Sortable(n + 1)
<1> SUFFICES ASSUME NEW S \in SUBSET Nat, IsFiniteSet(S), Cardinality(S) = n + 1
             PROVE  /\ \E q : Increasing(q, S)
                    /\ \E x \in S : \A y \in S : y <= x
  BY DEF Sortable
<1>1. S # {} BY FS_EmptySet
<1>2. ASSUME NEW z \in S
      PROVE  /\ IsFiniteSet(S \ {z}) /\ Cardinality(S \ {z}) = n
             /\ S \ {z} \in SUBSET Nat
  BY FS_RemoveElement
<1>3. PICK x \in S : \A y \in S : y <= x
  <2>1. PICK z \in S : TRUE BY <1>1
  <2>2. CASE S \ {z} = {}
    BY <2>1, <2>2
  <2>3. CASE S \ {z} # {}
    <3>1. PICK w \in S \ {z} : \A y \in S \ {z} : y <= w
      BY <1>2, <2>3 DEF Sortable
    <3>2. CASE z <= w BY <3>1, <3>2
    <3>3. CASE ~(z <= w) BY <3>1, <3>3
    <3> QED BY <3>2, <3>3
  <2> QED BY <2>2, <2>3
<1>4. PICK q : Increasing(q, S \ {x})
  BY <1>2 DEF Sortable
<1> DEFINE r == [i \in 1 .. n + 1 |-> IF i = n + 1 THEN x ELSE q[i]]
<1>5. q \in [1 .. n -> S \ {x}] /\ \A i, j \in 1 .. n : i < j => q[i] < q[j]
  BY <1>2, <1>4 DEF Increasing
<1>6. r \in [1 .. n + 1 -> S]
  <2>1. \A i \in 1 .. n + 1 : i # n + 1 => i \in 1 .. n OBVIOUS
  <2> QED BY <1>5, <2>1
<1>7. ASSUME NEW i \in 1 .. n + 1, NEW j \in 1 .. n + 1, i < j PROVE r[i] < r[j]
  <2>1. i \in 1 .. n /\ r[i] = q[i] BY <1>7
  <2>2. CASE j = n + 1
    <3>1. q[i] \in S \ {x} BY <1>5, <2>1
    <3>2. q[i] <= x /\ q[i] # x /\ q[i] \in Nat /\ x \in Nat BY <1>3, <3>1
    <3>3. r[j] = x BY <2>2
    <3> HIDE DEF r
    <3> QED BY <2>1, <3>2, <3>3
  <2>3. CASE j # n + 1
    <3>1. j \in 1 .. n /\ r[j] = q[j] BY <2>3
    <3> QED BY <1>5, <1>7, <2>1, <3>1
  <2> QED BY <2>2, <2>3
<1> HIDE DEF r
<1>8. Increasing(r, S) BY <1>6, <1>7 DEF Increasing
<1> QED BY <1>3, <1>8

LEMMA AllSortable == \A n \in Nat : Sortable(n)
<1> DEFINE T == {n \in Nat : Sortable(n)}
<1>1. Sortable(0)
  <2> SUFFICES ASSUME NEW S \in SUBSET Nat, IsFiniteSet(S), Cardinality(S) = 0
               PROVE  S = {} /\ \E q : Increasing(q, S)
    BY DEF Sortable
  <2>1. S = {} BY FS_EmptySet
  <2>2. [i \in 1 .. 0 |-> 0] \in [1 .. 0 -> S] OBVIOUS
  <2>3. Increasing([i \in 1 .. 0 |-> 0], S) BY <2>2 DEF Increasing
  <2> QED BY <2>1, <2>3
<1>2. 0 \in T BY <1>1
<1>3. \A n \in T : n + 1 \in T BY SortMore
<1>4. T \in SUBSET Nat OBVIOUS
<1> HIDE DEF T
<1>5. T = Nat BY <1>2, <1>3, <1>4, NatInduct
<1> QED BY <1>5 DEF T

LEMMA MaxIn ==
  ASSUME NEW S \in SUBSET Nat, IsFiniteSet(S), S # {}
  PROVE  Max(S) \in S /\ \A y \in S : y <= Max(S)
<1>1. \E x \in S : \A y \in S : y <= x
  BY AllSortable, FS_CardinalityType DEF Sortable
<1>2. \E x \in S : \A y \in S : x >= y
  BY <1>1
<1>3. Max(S) \in S /\ \A y \in S : Max(S) >= y
  BY <1>2, Zenon DEF Max
<1> QED BY <1>3

LEMMA SortedIs ==
  ASSUME NEW S \in SUBSET Nat, IsFiniteSet(S)
  PROVE  /\ Sorted(S) \in [1 .. Cardinality(S) -> S]
         /\ Cardinality(S) \in Nat
         /\ Sorted(S) \in Seq(S) /\ Len(Sorted(S)) = Cardinality(S)
         /\ DOMAIN Sorted(S) = 1 .. Cardinality(S)
         /\ \A i, j \in 1 .. Cardinality(S) : i < j => Sorted(S)[i] < Sorted(S)[j]
         /\ \A x \in S : \E i \in 1 .. Cardinality(S) : Sorted(S)[i] = x
<1> DEFINE n == Cardinality(S)
           q == Sorted(S)
<1>1. n \in Nat /\ IsFiniteSet(1 .. n) /\ Cardinality(1 .. n) = n
  BY FS_CardinalityType, FS_Interval
<1>2. \E f \in [1 .. n -> S] : \A i, j \in DOMAIN f : i < j => f[i] < f[j]
  <2>1. PICK f : Increasing(f, S) BY <1>1, AllSortable DEF Sortable
  <2> QED BY <2>1 DEF Increasing
<1>3. q \in [1 .. n -> S] /\ \A i, j \in DOMAIN q : i < j => q[i] < q[j]
  BY <1>2 DEF Sorted
<1> HIDE DEF q, n
<1>4. \A i, j \in 1 .. n : i < j => q[i] < q[j] BY <1>3
<1>5. q \in Injection(1 .. n, S)
  <2>1. ASSUME NEW i \in 1 .. n, NEW j \in 1 .. n, q[i] = q[j] PROVE i = j
    <3>1. q[i] \in S /\ q[j] \in S BY <1>3
    <3>0. n \in Nat => i \in Nat /\ j \in Nat OBVIOUS
    <3>2. i \in Nat /\ j \in Nat /\ q[i] \in Nat /\ q[j] \in Nat
      BY <1>1, <3>0, <3>1, Zenon
    <3>3. ~(i < j) /\ ~(j < i)
      <4>1. \A x, y \in Nat : x = y => ~(x < y) /\ ~(y < x) OBVIOUS
      <4>2. ~(q[i] < q[j]) /\ ~(q[j] < q[i]) BY <2>1, <3>2, <4>1
      <4> QED BY <1>4, <4>2
    <3> QED BY <3>2, <3>3
  <2> QED BY <1>3, <2>1 DEF Injection, IsInjective
<1>6. q \in Surjection(1 .. n, S)
  <2>1. Cardinality(1 .. n) = Cardinality(S) BY <1>1 DEF n
  <2> QED BY <1>5, <2>1, FS_Injection
<1>7. \A x \in S : \E i \in 1 .. n : q[i] = x
  BY <1>6 DEF Surjection
<1>8. q \in Seq(S) /\ Len(q) = n
  BY <1>1, <1>3
<1>9. DOMAIN q = 1 .. n BY <1>3
<1> QED BY <1>1, <1>3, <1>4, <1>7, <1>8, <1>9 DEF q, n

-----------------------------------------------------------------------------
(* Recording.                                                               *)

IsSeq(s) == \E T : s \in Seq(T)
Follows(r, s, q) ==
  /\ IsSeq(r) /\ Len(s) \in Nat /\ DOMAIN s = 1 .. Len(s) /\ DOMAIN r = 1 .. Len(r)
  /\ Len(r) = Len(s) + Len(q)
  /\ SubSeq(r, 1, Len(s)) = s /\ SubSeq(r, Len(s) + 1, Len(r)) = q
  /\ \A i \in DOMAIN r : \/ i \in DOMAIN s /\ r[i] = s[i]
                         \/ i - Len(s) \in DOMAIN q /\ r[i] = q[i - Len(s)]

LEMMA AppendedIs ==
  ASSUME NEW s, NEW q, IsSeq(s), IsSeq(q), NEW r, r = s \o q
  PROVE  Follows(r, s, q)
<1>1. PICK T : s \in Seq(T) /\ q \in Seq(T)
  <2>1. PICK A : s \in Seq(A) BY DEF IsSeq
  <2>2. PICK B : q \in Seq(B) BY DEF IsSeq
  <2>3. A \subseteq A \union B /\ B \subseteq A \union B OBVIOUS
  <2>4. s \in Seq(A \union B) /\ q \in Seq(A \union B) BY <2>1, <2>2, <2>3, SeqMonotonic
  <2> QED BY <2>4
<1>2. /\ r \in Seq(T) /\ Len(r) = Len(s) + Len(q)
      /\ \A i \in 1 .. Len(s) + Len(q) :
            r[i] = IF i <= Len(s) THEN s[i] ELSE q[i - Len(s)]
  BY <1>1, ConcatProperties
<1>3. /\ Len(s) \in Nat /\ Len(q) \in Nat /\ DOMAIN s = 1 .. Len(s)
      /\ DOMAIN q = 1 .. Len(q) /\ DOMAIN r = 1 .. Len(r)
  BY <1>1, <1>2, LenProperties
<1>4. \A i \in 1 .. Len(r) : r[i] \in T BY <1>2, <1>3, ElementOfSeq
<1>5. SubSeq(r, 1, Len(s)) = s
  <2> DEFINE x == SubSeq(r, 1, Len(s))
  <2>1. \A i \in 1 .. Len(s) : r[i] \in T BY <1>2, <1>3, <1>4
  <2>2. /\ x \in Seq(T) /\ Len(x) = IF 1 <= Len(s) THEN Len(s) - 1 + 1 ELSE 0
        /\ \A i \in 1 .. Len(s) - 1 + 1 : x[i] = r[1 + i - 1]
    BY <1>2, <1>3, <2>1, SubSeqProperties
  <2> HIDE DEF x
  <2>3. Len(x) = Len(s) BY <1>3, <2>2
  <2>4. ASSUME NEW i \in 1 .. Len(s) PROVE x[i] = s[i]
    <3>1. i \in 1 .. Len(s) - 1 + 1 /\ 1 + i - 1 = i BY <1>3
    <3>2. x[i] = r[i] BY <2>2, <3>1
    <3> QED BY <1>2, <1>3, <3>2
  <2>5. x = s BY <1>1, <2>2, <2>3, <2>4, SeqEqual
  <2> QED BY <2>5 DEF x
<1>6. SubSeq(r, Len(s) + 1, Len(r)) = q
  <2> DEFINE k == Len(s) + 1
             x == SubSeq(r, k, Len(r))
  <2>1. k \in Int /\ k > 0 BY <1>3
  <2>2. \A i \in k .. Len(r) : r[i] \in T BY <1>2, <1>3, <1>4
  <2>3. Len(r) \in Int BY <1>2, <1>3
  <2>4. /\ x \in Seq(T) /\ Len(x) = IF k <= Len(r) THEN Len(r) - k + 1 ELSE 0
        /\ \A i \in 1 .. Len(r) - k + 1 : x[i] = r[k + i - 1]
    <3> HIDE DEF k
    <3> QED BY <1>2, <2>1, <2>2, <2>3, SubSeqProperties
  <2> HIDE DEF x
  <2>5. Len(x) = Len(q) BY <1>2, <1>3, <2>4
  <2>6. ASSUME NEW i \in 1 .. Len(q) PROVE x[i] = q[i]
    <3>1. i \in 1 .. Len(r) - k + 1 /\ k + i - 1 = Len(s) + i
      BY <1>2, <1>3
    <3>2. x[i] = r[Len(s) + i] BY <2>4, <3>1
    <3>3. Len(s) + i \in 1 .. Len(s) + Len(q) /\ ~(Len(s) + i <= Len(s))
          /\ Len(s) + i - Len(s) = i
      BY <1>3
    <3> QED BY <1>2, <3>2, <3>3
  <2>7. x = q BY <1>1, <2>4, <2>5, <2>6, SeqEqual
  <2> QED BY <2>7 DEF x, k
<1>7. ASSUME NEW i \in DOMAIN r
      PROVE  \/ i \in DOMAIN s /\ r[i] = s[i]
             \/ i - Len(s) \in DOMAIN q /\ r[i] = q[i - Len(s)]
  <2>1. CASE i <= Len(s) BY <1>2, <1>3, <1>7, <2>1
  <2>2. CASE ~(i <= Len(s))
    <3>1. i - Len(s) \in DOMAIN q BY <1>2, <1>3, <1>7, <2>2
    <3>2. r[i] = q[i - Len(s)] BY <1>2, <1>3, <1>7, <2>2
    <3> QED BY <3>1, <3>2
  <2> QED BY <2>1, <2>2
<1>8. IsSeq(r) BY <1>2 DEF IsSeq
<1> QED BY <1>2, <1>3, <1>5, <1>6, <1>7, <1>8 DEF Follows

LEMMA SameCardinality == \A S : PS!Cardinality(S) = Cardinality(S)
BY DEF PS!Cardinality, Cardinality

LEMMA RecordPulseIs ==
  ASSUME NEW p, NEW P
  PROVE  recordPulse(p, P).pid = p /\ recordPulse(p, P).batches = P[p].batches
BY DEF recordPulse

(* The pulses of S, oldest first, each with the events it was given.        *)
RecordedAs(q, S, P, h) ==
  /\ IsSeq(q) /\ PS!InOrder(q, h, S)
  /\ Len(q) = Cardinality(S) /\ Cardinality(S) \in Nat
  /\ DOMAIN q = 1 .. Cardinality(S)
  /\ \A i \in DOMAIN q : \E p \in S : q[i].batches = P[p].batches

LEMMA RecordedIs ==
  ASSUME NEW P, DOMAIN P \in SUBSET Nat, NEW S \in SUBSET DOMAIN P, IsFiniteSet(S),
         NEW h, \A p \in S : h[p] = P[p].batches
  PROVE  RecordedAs(Recorded(S, P), S, P, h)
<1> DEFINE n == Cardinality(S)
           order == Sorted(S)
           q == Recorded(S, P)
<1>1. S \in SUBSET Nat OBVIOUS
<1>2. /\ order \in [1 .. n -> S] /\ n \in Nat /\ DOMAIN order = 1 .. n
      /\ \A i, j \in 1 .. n : i < j => order[i] < order[j]
      /\ \A x \in S : \E i \in 1 .. n : order[i] = x
  BY <1>1, SortedIs
<1>3. q = [i \in DOMAIN order |-> recordPulse(order[i], P)] BY DEF Recorded
<1> HIDE DEF order, q, n
<1>4. DOMAIN q = 1 .. n BY <1>2, <1>3
<1>5. ASSUME NEW i \in 1 .. n
      PROVE  q[i].pid = order[i] /\ q[i].batches = P[order[i]].batches /\ order[i] \in S
  <2>1. q[i] = recordPulse(order[i], P) BY <1>2, <1>3
  <2> QED BY <1>2, <2>1, RecordPulseIs
<1>6. IsSeq(q) /\ Len(q) = n
  <2> DEFINE T == {q[i] : i \in 1 .. n}
  <2>1. q \in [1 .. n -> T] BY <1>2, <1>3, <1>4
  <2> HIDE DEF T
  <2>2. q \in Seq(T) /\ Len(q) = n BY <1>2, <2>1
  <2> QED BY <2>2 DEF IsSeq
<1>7. {q[i].pid : i \in DOMAIN q} = S BY <1>2, <1>4, <1>5
<1>8. \A i \in DOMAIN q : q[i].batches = h[q[i].pid] BY <1>4, <1>5
<1>9. \A i, j \in DOMAIN q : i < j => q[i].pid < q[j].pid BY <1>2, <1>4, <1>5
<1>10. PS!InOrder(q, h, S) BY <1>6, <1>7, <1>8, <1>9, SameCardinality DEF PS!InOrder, n
<1>11. \A i \in DOMAIN q : \E p \in S : q[i].batches = P[p].batches BY <1>4, <1>5
<1>12. RecordedAs(q, S, P, h) BY <1>2, <1>4, <1>6, <1>10, <1>11 DEF n, RecordedAs
<1> QED BY <1>12 DEF q

-----------------------------------------------------------------------------
(* What every step keeps: the map is finite, what was recorded is a list,   *)
(* and events come from a packet.                                           *)

Store(P, st) == DOMAIN P \subseteq Pids /\ IsFiniteSet(DOMAIN P) /\ IsSeq(st)
Unseen(P, st, b) == /\ \A p \in DOMAIN P : b \notin P[p].batches
                    /\ \A i \in DOMAIN st : b \notin st[i].batches
Onwards == Store(pulses', stream')
           /\ \A b : Unseen(pulses, stream, b) => Unseen(pulses', stream', b)
SameBatches(P) == /\ DOMAIN P = DOMAIN pulses
                  /\ \A p \in DOMAIN pulses : P[p].batches = pulses[p].batches
Stutter == Onwards /\ UNCHANGED PS!svars
Records == Onwards /\ (PS!Record \/ UNCHANGED PS!svars)

LEMMA Stutters ==
  ASSUME Store(pulses, stream), SameBatches(pulses'), UNCHANGED stream
  PROVE  Stutter
<1>1. DOMAIN pulses' = DOMAIN pulses
      /\ \A p \in DOMAIN pulses : pulses'[p].batches = pulses[p].batches
  BY DEF SameBatches
<1>2. Held' = Held BY <1>1 DEF Held
<1>3. UNCHANGED PS!svars BY <1>2 DEF PS!svars
<1>4. Onwards BY <1>1 DEF Onwards, Store, Unseen
<1> QED BY <1>3, <1>4 DEF Stutter

LEMMA Emits ==
  ASSUME Store(pulses, stream), NEW P, SameBatches(P), NEW S \in SUBSET DOMAIN pulses,
         \A p \in S : \A q \in DOMAIN pulses \ S : p < q,
         stream' = stream \o Recorded(S, P)
  PROVE  /\ PS!Emit(Held, S) /\ IsSeq(stream')
         /\ \A b : Unseen(pulses, stream, b) =>
                \A i \in DOMAIN stream' : b \notin stream'[i].batches
<1> DEFINE q == Recorded(S, P)
           r == stream'
           h == Held
<1>1. DOMAIN P \in SUBSET Nat /\ S \in SUBSET DOMAIN P /\ IsFiniteSet(S)
  BY PidsNat, FS_Subset DEF Store, SameBatches
<1>2. DOMAIN h = DOMAIN pulses /\ \A p \in S : h[p] = P[p].batches
  BY DEF Held, SameBatches
<1>4. r = stream \o q OBVIOUS
<1> HIDE DEF h, r
<1>3. /\ IsSeq(q) /\ PS!InOrder(q, h, S) /\ Len(q) = Cardinality(S)
      /\ \A i \in DOMAIN q : \E p \in S : q[i].batches = P[p].batches
  <2>1. RecordedAs(q, S, P, h) BY <1>1, <1>2, RecordedIs, Zenon
  <2> HIDE DEF q
  <2> QED BY <2>1 DEF RecordedAs
<1> HIDE DEF q
<1>5. Follows(r, stream, q) BY <1>3, <1>4, AppendedIs DEF Store
<1>6. PS!IsOldest(S, DOMAIN h) BY <1>2 DEF PS!IsOldest
<1>7. PS!Emit(Held, S)
  <2>1. /\ Len(r) = Len(stream) + PS!Cardinality(S)
        /\ SubSeq(r, 1, Len(stream)) = stream
        /\ PS!InOrder(SubSeq(r, Len(stream) + 1, Len(r)), h, S)
    BY <1>3, <1>5, SameCardinality DEF Follows
  <2> QED BY <1>6, <2>1 DEF PS!Emit, r, h
<1>8. ASSUME NEW b, Unseen(pulses, stream, b), NEW i \in DOMAIN r
      PROVE  b \notin r[i].batches
  <2>1. CASE i \in DOMAIN stream /\ r[i] = stream[i] BY <1>8, <2>1 DEF Unseen
  <2>2. CASE \E j \in DOMAIN q : r[i] = q[j]
    <3>1. PICK p \in S : r[i].batches = P[p].batches BY <1>3, <2>2
    <3>2. P[p].batches = pulses[p].batches BY DEF SameBatches
    <3> QED BY <1>8, <3>1, <3>2 DEF Unseen
  <2> QED
    <3>1. \/ i \in DOMAIN stream /\ r[i] = stream[i]
          \/ \E j \in DOMAIN q : r[i] = q[j]
      BY <1>5, <1>8 DEF Follows
    <3> QED BY <2>1, <2>2, <3>1
<1>9. IsSeq(r) BY <1>5 DEF Follows
<1> QED BY <1>7, <1>8, <1>9 DEF r

LEMMA Flushes ==
  ASSUME Store(pulses, stream), NEW P, SameBatches(P), NEW to \in Nat, NEW cached,
         Flush(P, to, cached)
  PROVE  Records
<1> DEFINE S == UpTo(P, to)
<1>1. stream' = stream \o Recorded(S, P) /\ pulses' = Without(P, S)
  BY DEF Flush
<1>2. DOMAIN P = DOMAIN pulses BY DEF SameBatches
<1>3. S = {p \in DOMAIN pulses : p <= to} BY <1>2 DEF UpTo
<1>4. DOMAIN pulses \subseteq Nat BY PidsNat DEF Store
<1>5. \A p \in S : \A q \in DOMAIN pulses \ S : p < q BY <1>3, <1>4
<1>6. S \in SUBSET DOMAIN pulses BY <1>3
<1> HIDE DEF S
<1>7. /\ PS!Emit(Held, S) /\ IsSeq(stream')
      /\ \A b : Unseen(pulses, stream, b) =>
             \A i \in DOMAIN stream' : b \notin stream'[i].batches
  BY <1>1, <1>5, <1>6, Emits
<1>8. /\ DOMAIN pulses' = DOMAIN pulses \ S
      /\ \A p \in DOMAIN pulses' : pulses'[p].batches = pulses[p].batches
  BY <1>1, <1>2 DEF Without, SameBatches
<1>9. IsFiniteSet(DOMAIN pulses') BY <1>8, FS_Subset DEF Store
<1>10. Onwards
  <2>1. Store(pulses', stream') BY <1>7, <1>8, <1>9 DEF Store
  <2>2. ASSUME NEW b, Unseen(pulses, stream, b) PROVE Unseen(pulses', stream', b)
    BY <1>7, <1>8, <2>2 DEF Unseen
  <2> QED BY <2>1, <2>2 DEF Onwards
<1>11. Held' = PS!Keep(Held, DOMAIN Held \ S) BY <1>8 DEF Held, PS!Keep
<1>12. S \in SUBSET DOMAIN Held BY <1>6 DEF Held
<1>13. PS!Record BY <1>7, <1>11, <1>12 DEF PS!Record
<1> QED BY <1>10, <1>13 DEF Records

LEMMA HoldsAll ==
  ASSUME Store(pulses, stream), NEW P, SameBatches(P), NEW cached, HoldAll(P, cached)
  PROVE  Records
<1>1. SameBatches(pulses') /\ UNCHANGED stream BY DEF HoldAll
<1> QED BY <1>1, Stutters DEF Stutter, Records

LEMMA GivesUp ==
  ASSUME NEW i, NEW S, NEW P, SameBatches(P), \A p \in DOMAIN P : P[p] \in Pulse
  PROVE  SameBatches(GiveUpOn(i, S, P))
<1> DEFINE G == GiveUpOn(i, S, P)
<1>1. DOMAIN G = DOMAIN P BY DEF GiveUpOn
<1>2. ASSUME NEW p \in DOMAIN P PROVE G[p].batches = P[p].batches
  <2>1. P[p] \in Pulse OBVIOUS
  <2>2. G[p] = P[p] \/ G[p] = [P[p] EXCEPT !.pending = @ \ {i}, !.partial = TRUE]
    BY DEF GiveUpOn
  <2> HIDE DEF G
  <2> QED BY <2>1, <2>2 DEF Pulse
<1> HIDE DEF G
<1> QED BY <1>1, <1>2 DEF SameBatches, G

LEMMA BufferedTo ==
  ASSUME NEW P, DOMAIN P \in SUBSET Nat, IsFiniteSet(DOMAIN P), NEW last \in DOMAIN P
  PROVE  LastMinusBuffer(last, P) \in Nat \union {NoPid}
<1> DEFINE n == Cardinality(DOMAIN P)
           order == Sorted(DOMAIN P)
           kept == Len(order) - NoEoPPulseBufferSize
           at == CHOOSE i \in DOMAIN order : order[i] = last
<1>1. /\ order \in [1 .. n -> DOMAIN P] /\ n \in Nat /\ Len(order) = n
      /\ DOMAIN order = 1 .. n /\ \E i \in 1 .. n : order[i] = last
  BY SortedIs
<1>2. LastMinusBuffer(last, P) = IF kept <= 0 THEN NoPid ELSE order[Min({at, kept})]
  BY DEF LastMinusBuffer
<1> HIDE DEF order, n
<1>3. at \in 1 .. n BY <1>1
<1>4. NoEoPPulseBufferSize \in Nat BY PulseAssumption
<1>5. CASE kept <= 0 BY <1>2, <1>5
<1>6. CASE ~(kept <= 0)
  <2>1. kept \in 1 .. n /\ {at, kept} \in SUBSET Nat /\ {at, kept} # {}
    BY <1>1, <1>3, <1>4, <1>6
  <2> HIDE DEF at, kept
  <2>2. Min({at, kept}) \in {at, kept} BY <2>1, MinIn
  <2>3. Min({at, kept}) \in 1 .. n BY <1>3, <2>1, <2>2
  <2> QED BY <1>1, <1>2, <1>6, <2>3
<1> QED BY <1>5, <1>6

LEMMA LatestDone ==
  ASSUME NEW P, DOMAIN P \in SUBSET Nat, IsFiniteSet(DOMAIN P),
         NEW S \in SUBSET DOMAIN P, Complete(P, S) # {}
  PROVE  Max(Complete(P, S)) \in DOMAIN P
<1> DEFINE done == Complete(P, S)
<1>1. done \in SUBSET S BY DEF Complete
<1>2. done \in SUBSET Nat /\ IsFiniteSet(done) BY <1>1, FS_Subset
<1> HIDE DEF done
<1>3. done # {} BY DEF done
<1>4. Max(done) \in done BY <1>2, <1>3, MaxIn
<1> QED BY <1>1, <1>4 DEF done

LEMMA UnregisterRecords ==
  ASSUME Store(pulses, stream), MapOK(pulses, eventSources), NEW i,
         unregisterEventSource(i)
  PROVE  Records
<1> DEFINE P == GiveUpOn(i, DOMAIN pulses, pulses)
           done == Complete(P, DOMAIN P)
           to == IF Cardinality(eventSources) > 1
                 THEN LastMinusBuffer(Max(done), P) ELSE Max(done)
<1>1. IF done # {} /\ to # NoPid THEN Flush(P, to, lastPid) ELSE HoldAll(P, lastPid)
  BY DEF unregisterEventSource
<1>2. SameBatches(P)
  <2>1. SameBatches(pulses) /\ \A p \in DOMAIN pulses : pulses[p] \in Pulse
    BY DEF SameBatches, MapOK
  <2> QED BY <2>1, GivesUp
<1>3. DOMAIN P \in SUBSET Nat /\ IsFiniteSet(DOMAIN P)
  BY <1>2, PidsNat DEF Store, SameBatches
<1> HIDE DEF P
<1>4. CASE done # {} /\ to # NoPid
  <2>1. Max(done) \in DOMAIN P BY <1>3, <1>4, LatestDone
  <2>2. LastMinusBuffer(Max(done), P) \in Nat \union {NoPid} BY <1>3, <2>1, BufferedTo
  <2>3. to \in Nat BY <1>3, <1>4, <2>1, <2>2
  <2> HIDE DEF to, done
  <2>4. Flush(P, to, lastPid) BY <1>1, <1>4
  <2> QED BY <1>2, <2>3, <2>4, Flushes
<1>5. CASE ~(done # {} /\ to # NoPid)
  <2> HIDE DEF to, done
  <2>1. HoldAll(P, lastPid) BY <1>1, <1>5
  <2> QED BY <1>2, <2>1, HoldsAll
<1> QED BY <1>4, <1>5

LEMMA CompleteRecords ==
  ASSUME Store(pulses, stream), MapOK(pulses, eventSources),
         NEW pid \in DOMAIN pulses, NEW i, markComplete(pid, i)
  PROVE  Records
<1> DEFINE P1 == IF i = NoSms THEN pulses
                 ELSE GiveUpOn(i, {q \in DOMAIN pulses : q < pid}, pulses)
           P == IF i = NoSms THEN P1 ELSE [P1 EXCEPT ![pid].pending = @ \ {i}]
           S == IF i = NoSms THEN {pid} ELSE UpTo(P, pid)
           done == Complete(P, S)
           to == LastMinusBuffer(Max(done), P)
<1>1. IF done # {} /\ to # NoPid THEN Flush(P, to, pid) ELSE HoldAll(P, pid)
  BY DEF markComplete
<1>2. SameBatches(P1) /\ \A p \in DOMAIN P1 : P1[p] \in Pulse
  <2>1. SameBatches(pulses) /\ \A p \in DOMAIN pulses : pulses[p] \in Pulse
    BY DEF SameBatches, MapOK
  <2>2. MapOK(P1, eventSources) BY GiveUpMap
  <2> QED BY <2>1, <2>2, GivesUp DEF MapOK
<1> HIDE DEF P1
<1>3. SameBatches(P)
  <2> DEFINE x == [P1[pid] EXCEPT !.pending = @ \ {i}]
  <2>1. P1[pid] \in Pulse BY <1>2 DEF SameBatches
  <2>2. x.batches = P1[pid].batches BY <2>1 DEF Pulse
  <2>3. P = P1 \/ P = [P1 EXCEPT ![pid] = x] OBVIOUS
  <2> HIDE DEF x, P
  <2> QED BY <1>2, <2>2, <2>3 DEF SameBatches
<1>4. DOMAIN P \in SUBSET Nat /\ IsFiniteSet(DOMAIN P) /\ pid \in DOMAIN P
  BY <1>3, PidsNat DEF Store, SameBatches
<1> HIDE DEF P
<1>5. S \in SUBSET DOMAIN P BY <1>4 DEF UpTo
<1> HIDE DEF S
<1>6. CASE done # {} /\ to # NoPid
  <2>1. Max(done) \in DOMAIN P BY <1>4, <1>5, <1>6, LatestDone
  <2>2. to \in Nat \union {NoPid} BY <1>4, <2>1, BufferedTo
  <2> HIDE DEF to, done
  <2>3. Flush(P, to, pid) BY <1>1, <1>6
  <2> QED BY <1>3, <1>6, <2>2, <2>3, Flushes
<1>7. CASE ~(done # {} /\ to # NoPid)
  <2> HIDE DEF to, done
  <2>1. HoldAll(P, pid) BY <1>1, <1>7
  <2> QED BY <1>3, <2>1, HoldsAll
<1> QED BY <1>6, <1>7

(* The first pulses of a sorted list are older than the rest.               *)
LEMMA FirstAreOldest ==
  ASSUME NEW T \in SUBSET Nat, IsFiniteSet(T), NEW m \in Nat, m <= Cardinality(T)
  PROVE  LET out == ToSet(SubSeq(Sorted(T), 1, m))
         IN  out \in SUBSET T /\ \A p \in out : \A q \in T \ out : p < q
<1> DEFINE n == Cardinality(T)
           order == Sorted(T)
           r == SubSeq(order, 1, m)
           out == ToSet(r)
<1>1. /\ order \in [1 .. n -> T] /\ n \in Nat /\ DOMAIN order = 1 .. n
      /\ \A i, j \in 1 .. n : i < j => order[i] < order[j]
      /\ \A x \in T : \E i \in 1 .. n : order[i] = x
  BY SortedIs
<1>2. m <= n OBVIOUS
<1> HIDE DEF order, n
<1>3. \A i \in 1 .. m : order[i] \in T BY <1>1, <1>2
<1>4. /\ r \in Seq(T) /\ Len(r) = IF 1 <= m THEN m - 1 + 1 ELSE 0
      /\ \A i \in 1 .. m - 1 + 1 : r[i] = order[1 + i - 1]
  BY <1>3, SubSeqProperties
<1> HIDE DEF r
<1>5. DOMAIN r = 1 .. m
  <2>1. DOMAIN r = 1 .. Len(r) BY <1>4, LenProperties
  <2> QED BY <1>4, <2>1
<1>6. \A i \in 1 .. m : r[i] = order[i]
  <2>1. \A i \in 1 .. m : i \in 1 .. m - 1 + 1 /\ 1 + i - 1 = i OBVIOUS
  <2> QED BY <1>4, <2>1
<1>7. out = {order[i] : i \in 1 .. m}
  BY <1>5, <1>6 DEF ToSet
<1> HIDE DEF out
<1>8. out \in SUBSET T BY <1>3, <1>7
<1>9. ASSUME NEW p \in out, NEW q \in T \ out PROVE p < q
  <2>1. PICK i \in 1 .. m : p = order[i] BY <1>7
  <2>2. PICK j \in 1 .. n : q = order[j] BY <1>1
  <2>3. j \notin 1 .. m BY <1>7, <2>2
  <2>4. i < j /\ i \in 1 .. n BY <1>1, <1>2, <2>3
  <2> QED BY <1>1, <2>1, <2>2, <2>4
<1> QED BY <1>8, <1>9 DEF out, r, order

LEMMA GetPulseOpens ==
  ASSUME Store(pulses, stream), MapOK(pulses, eventSources),
         NEW pid \in Pids, pid \notin DOMAIN pulses, getPulse(pid)
  PROVE  Onwards /\ PS!Open(pid)
<1> DEFINE over == Cardinality(DOMAIN pulses) - MaxPulseBufferSize
           order == Sorted(DOMAIN pulses)
           m == Min({over + 1, Len(order)})
           checks == (newPulses + 1) % OverflowFreq = 0
           out == IF checks /\ over > 0 THEN ToSet(SubSeq(order, 1, m)) ELSE {}
           P == [p \in DOMAIN pulses |->
                    IF p \in out /\ pulses[p].pending # {}
                    THEN [pulses[p] EXCEPT !.partial = TRUE] ELSE pulses[p]]
<1>1. /\ stream' = stream \o Recorded(out, P)
      /\ pulses' = Put(Without(P, out), pid, NewPulse)
  BY DEF getPulse
<1>2. DOMAIN pulses \in SUBSET Nat /\ IsFiniteSet(DOMAIN pulses)
  BY PidsNat DEF Store
<1>3. out \in SUBSET DOMAIN pulses /\ \A p \in out : \A q \in DOMAIN pulses \ out : p < q
  <2>1. CASE checks /\ over > 0
    <3>1. /\ Cardinality(DOMAIN pulses) \in Nat /\ Len(order) = Cardinality(DOMAIN pulses)
          /\ MaxPulseBufferSize \in Nat
      BY <1>2, SortedIs, FS_CardinalityType, PulseAssumption
    <3>2. {over + 1, Len(order)} \in SUBSET Nat BY <2>1, <3>1
    <3>3. m \in {over + 1, Len(order)} /\ m <= Len(order)
      <4> DEFINE T == {over + 1, Len(order)}
      <4>1. T \in SUBSET Nat /\ T # {} BY <3>2
      <4>2. m \in T /\ \A y \in T : m <= y
        <5>1. \E x \in T : \A y \in T : x <= y
          <6> HIDE DEF T
          <6> QED BY <4>1, NatLeast
        <5>2. m = Min(T) OBVIOUS
        <5> HIDE DEF T, m
        <5> QED BY <5>1, <5>2, Zenon DEF Min
      <4> HIDE DEF m
      <4> QED BY <4>2
    <3>4. m \in Nat /\ m <= Cardinality(DOMAIN pulses) BY <3>1, <3>2, <3>3
    <3>5. out = ToSet(SubSeq(Sorted(DOMAIN pulses), 1, m)) BY <2>1
    <3> HIDE DEF m, out
    <3> QED BY <1>2, <3>4, <3>5, FirstAreOldest
  <2>2. CASE ~(checks /\ over > 0)
    <3>1. out = {} BY <2>2
    <3> QED BY <3>1
  <2> QED BY <2>1, <2>2
<1> HIDE DEF out
<1>4. SameBatches(P)
  <2> SUFFICES ASSUME NEW p \in DOMAIN pulses PROVE P[p].batches = pulses[p].batches
    BY DEF SameBatches
  <2>1. pulses[p] \in Pulse BY DEF MapOK
  <2>2. P[p] = [pulses[p] EXCEPT !.partial = TRUE] \/ P[p] = pulses[p] OBVIOUS
  <2> HIDE DEF P
  <2> QED BY <2>1, <2>2 DEF Pulse
<1> HIDE DEF P
<1>5. /\ PS!Emit(Held, out) /\ IsSeq(stream')
      /\ \A b : Unseen(pulses, stream, b) =>
             \A i \in DOMAIN stream' : b \notin stream'[i].batches
  BY <1>1, <1>3, <1>4, Emits
<1>6. /\ DOMAIN pulses' = (DOMAIN pulses \ out) \union {pid}
      /\ \A p \in DOMAIN pulses' : pulses'[p].batches =
             IF p = pid THEN {} ELSE pulses[p].batches
  <2>1. DOMAIN Without(P, out) = DOMAIN pulses \ out
        /\ \A p \in DOMAIN pulses \ out : Without(P, out)[p].batches = pulses[p].batches
    BY <1>4 DEF Without, SameBatches
  <2>2. NewPulse.batches = {} BY DEF NewPulse
  <2> QED BY <1>1, <2>1, <2>2 DEF Put
<1>7. Onwards
  <2>1. DOMAIN pulses \ out \in SUBSET DOMAIN pulses OBVIOUS
  <2>2. IsFiniteSet(DOMAIN pulses \ out) BY <1>2, <2>1, FS_Subset
  <2>3. IsFiniteSet(DOMAIN pulses') BY <1>6, <2>2, FS_AddElement
  <2>4. Store(pulses', stream') BY <1>5, <1>6, <2>3 DEF Store
  <2>5. ASSUME NEW b, Unseen(pulses, stream, b) PROVE Unseen(pulses', stream', b)
    BY <1>5, <1>6, <2>5 DEF Unseen
  <2> QED BY <2>4, <2>5 DEF Onwards
<1>8. Held' = [q \in (DOMAIN Held \ out) \union {pid} |-> IF q = pid THEN {} ELSE Held[q]]
  <2>1. DOMAIN Held = DOMAIN pulses /\ \A p \in DOMAIN pulses : Held[p] = pulses[p].batches
    BY DEF Held
  <2>2. Held' = [p \in DOMAIN pulses' |-> pulses'[p].batches] BY DEF Held
  <2> QED BY <1>6, <2>1, <2>2
<1>9. pid \notin DOMAIN Held /\ out \in SUBSET DOMAIN Held BY <1>3 DEF Held
<1>10. PS!Open(pid) BY <1>5, <1>8, <1>9 DEF PS!Open
<1> QED BY <1>7, <1>10

-----------------------------------------------------------------------------
(* The calls of a handler hand on the events of one packet.                 *)

Carries(c) == c.op \in {"accept", "events"}
NoPacket(q) == \A k \in DOMAIN q : ~Carries(q[k])
OnePacket(q, n) ==
  \A k \in DOMAIN q : Carries(q[k]) =>
      q[k].arg.batch = n /\ \A j \in DOMAIN q : Carries(q[j]) => j = k

LEMMA NoneThen ==
  ASSUME NEW A, NEW B, IsSeq(A), IsSeq(B), NoPacket(A), NEW n, OnePacket(B, n)
  PROVE  /\ OnePacket(A \o B, n)
         /\ NoPacket(B) => NoPacket(A \o B)
<1> DEFINE r == A \o B
<1>1. Follows(r, A, B) BY AppendedIs
<1> HIDE DEF r
<1>2. ASSUME NEW i \in DOMAIN r, Carries(r[i])
      PROVE  i \in Int /\ i - Len(A) \in DOMAIN B /\ r[i] = B[i - Len(A)]
  BY <1>1, <1>2 DEF Follows, NoPacket
<1>3. ASSUME NEW k \in DOMAIN r, Carries(r[k])
      PROVE  r[k].arg.batch = n /\ \A j \in DOMAIN r : Carries(r[j]) => j = k
  <2>1. k \in Int /\ k - Len(A) \in DOMAIN B /\ r[k] = B[k - Len(A)] BY <1>2, <1>3
  <2>2. ASSUME NEW j \in DOMAIN r, Carries(r[j]) PROVE j = k
    <3>1. j \in Int /\ j - Len(A) \in DOMAIN B /\ r[j] = B[j - Len(A)] BY <1>2, <2>2
    <3>2. j - Len(A) = k - Len(A) BY <1>3, <2>1, <2>2, <3>1 DEF OnePacket
    <3>3. Len(A) \in Int BY <1>1 DEF Follows
    <3> QED BY <2>1, <3>1, <3>2, <3>3
  <2> QED BY <1>3, <2>1, <2>2 DEF OnePacket
<1>4. NoPacket(B) => NoPacket(r) BY <1>2 DEF NoPacket
<1>5. OnePacket(r, n) BY <1>3 DEF OnePacket
<1> QED BY <1>4, <1>5 DEF r

LEMMA OneThen ==
  ASSUME NEW A, NEW B, IsSeq(A), IsSeq(B), NoPacket(B), NEW n, OnePacket(A, n)
  PROVE  OnePacket(A \o B, n)
<1> DEFINE r == A \o B
<1>1. Follows(r, A, B) BY AppendedIs
<1> HIDE DEF r
<1>2. ASSUME NEW i \in DOMAIN r, Carries(r[i])
      PROVE  i \in DOMAIN A /\ r[i] = A[i]
  BY <1>1, <1>2 DEF Follows, NoPacket
<1>3. OnePacket(r, n) BY <1>2 DEF OnePacket
<1> QED BY <1>3 DEF r

LEMMA TailPacket ==
  ASSUME NEW q \in Seq(Calls), q # <<>>, NEW n, OnePacket(q, n)
  PROVE  /\ IsSeq(Tail(q)) /\ OnePacket(Tail(q), n)
         /\ Carries(Head(q)) => NoPacket(Tail(q))
         /\ NoPacket(q) => NoPacket(Tail(q))
<1> DEFINE t == Tail(q)
<1>1. /\ t \in Seq(Calls) /\ Len(t) = Len(q) - 1 /\ Head(q) = q[1]
      /\ \A k \in 1 .. Len(t) : t[k] = q[k + 1]
  BY HeadTailProperties
<1>2. Len(q) \in Nat \ {0} /\ DOMAIN q = 1 .. Len(q) /\ DOMAIN t = 1 .. Len(t)
  BY <1>1, EmptySeq, LenProperties
<1> HIDE DEF t
<1>3. ASSUME NEW k \in DOMAIN t
      PROVE  k \in Int /\ k + 1 # 1 /\ k + 1 \in DOMAIN q /\ t[k] = q[k + 1]
  BY <1>1, <1>2
<1>4. OnePacket(t, n)
  <2> SUFFICES ASSUME NEW k \in DOMAIN t, Carries(t[k])
               PROVE  t[k].arg.batch = n /\ \A j \in DOMAIN t : Carries(t[j]) => j = k
    BY DEF OnePacket
  <2>1. k \in Int /\ k + 1 \in DOMAIN q /\ t[k] = q[k + 1] BY <1>3
  <2>2. ASSUME NEW j \in DOMAIN t, Carries(t[j]) PROVE j = k
    <3>1. j \in Int /\ j + 1 \in DOMAIN q /\ t[j] = q[j + 1] BY <1>3
    <3>2. j + 1 = k + 1 BY <2>1, <2>2, <3>1 DEF OnePacket
    <3> QED BY <2>1, <3>1, <3>2
  <2> QED BY <2>1, <2>2 DEF OnePacket
<1>5. Carries(Head(q)) => NoPacket(t)
  <2> SUFFICES ASSUME Carries(q[1]), NEW k \in DOMAIN t, Carries(t[k]) PROVE FALSE
    BY <1>1 DEF NoPacket
  <2>1. k + 1 # 1 /\ k + 1 \in DOMAIN q /\ t[k] = q[k + 1] /\ 1 \in DOMAIN q
    BY <1>2, <1>3
  <2> QED BY <2>1 DEF OnePacket
<1>6. NoPacket(q) => NoPacket(t) BY <1>3 DEF NoPacket
<1>7. IsSeq(t) BY <1>1 DEF IsSeq
<1> QED BY <1>4, <1>5, <1>6, <1>7 DEF t

(* The first call is replaced by those it makes.                            *)
LEMMA PassedOn ==
  ASSUME NEW q \in Seq(Calls), q # <<>>, NEW n, OnePacket(q, n), NEW new, IsSeq(new),
         NoPacket(new) \/ (OnePacket(new, n) /\ Carries(Head(q)))
  PROVE  /\ OnePacket(new \o Tail(q), n)
         /\ NoPacket(q) => NoPacket(new \o Tail(q))
         /\ Carries(Head(q)) /\ NoPacket(new) => NoPacket(new \o Tail(q))
<1>1. /\ IsSeq(Tail(q)) /\ OnePacket(Tail(q), n)
      /\ Carries(Head(q)) => NoPacket(Tail(q))
      /\ NoPacket(q) => NoPacket(Tail(q))
  BY TailPacket
<1>2. CASE NoPacket(new) BY <1>1, <1>2, NoneThen
<1>3. CASE ~NoPacket(new)
  <2>1. ~NoPacket(q)
    <3>1. Head(q) = q[1] /\ 1 \in DOMAIN q
      BY EmptySeq, LenProperties, HeadTailProperties
    <3> QED BY <1>3, <3>1 DEF NoPacket
  <2> QED BY <1>1, <1>3, <2>1, OneThen
<1> QED BY <1>2, <1>3

LEMMA NoCall == IsSeq(<<>>) /\ NoPacket(<<>>) /\ \A q \in Seq(Calls) : <<>> \o q = q
BY EmptySeq, ConcatEmptySeq DEF IsSeq, NoPacket

LEMMA OneCall ==
  ASSUME NEW x
  PROVE  /\ IsSeq(<<x>>)
         /\ ~Carries(x) => NoPacket(<<x>>)
         /\ \A n : x.arg.batch = n => OnePacket(<<x>>, n)
<1> DEFINE q == <<x>>
<1>1. q \in Seq({x}) /\ DOMAIN q = {1} /\ q[1] = x OBVIOUS
<1> HIDE DEF q
<1>2. IsSeq(q) BY <1>1 DEF IsSeq
<1>3. ~Carries(x) => NoPacket(q) BY <1>1 DEF NoPacket
<1>4. \A n : x.arg.batch = n => OnePacket(q, n) BY <1>1 DEF OnePacket
<1> QED BY <1>2, <1>3, <1>4 DEF q

LEMMA NoOne == \A q, n : NoPacket(q) => OnePacket(q, n)
BY DEF NoPacket, OnePacket

LEMMA BothNone ==
  ASSUME NEW A, NEW B, IsSeq(A), IsSeq(B), NoPacket(A), NoPacket(B)
  PROVE  IsSeq(A \o B) /\ NoPacket(A \o B)
<1> DEFINE r == A \o B
<1>1. r = A \o B OBVIOUS
<1> HIDE DEF r
<1>2. Follows(r, A, B) BY <1>1, AppendedIs
<1>3. IsSeq(r) BY <1>2 DEF Follows
<1>4. \A n : OnePacket(B, n) BY NoOne
<1>5. NoPacket(A \o B) BY <1>4, NoneThen
<1> QED BY <1>1, <1>3, <1>5

-----------------------------------------------------------------------------
(* Events are given to a pulse once: a packet that was not dealt with yet   *)
(* has left no events in the map or in what was recorded.                   *)

FreshInv == /\ Store(pulses, stream)
            /\ \A b \in Batches : b > used.packets => Unseen(pulses, stream, b)
            /\ OnePacket(todo, used.packets)
            /\ ~NoPacket(todo) => Unseen(pulses, stream, used.packets)
StreamInv == PulseInv /\ FreshInv
Implements == FreshInv' /\ [PS!Next]_(PS!svars)

LEMMA FreshKept ==
  ASSUME FreshInv, UNCHANGED used, Onwards, OnePacket(todo', used.packets),
         NoPacket(todo) => NoPacket(todo')
  PROVE  FreshInv'
<1>1. Store(pulses', stream') BY DEF Onwards
<1>2. ASSUME NEW b \in Batches, b > used.packets PROVE Unseen(pulses', stream', b)
  BY <1>2 DEF FreshInv, Onwards
<1>3. ~NoPacket(todo') => Unseen(pulses', stream', used.packets)
  BY DEF FreshInv, Onwards
<1> QED BY <1>1, <1>2, <1>3 DEF FreshInv

LEMMA FreshGoes ==
  ASSUME StreamInv, todo # <<>>, NEW new, IsSeq(new),
         NoPacket(new) \/ (OnePacket(new, used.packets) /\ Carries(Head(todo))),
         todo' = new \o Tail(todo), UNCHANGED used, Onwards
  PROVE  FreshInv'
<1>1. todo \in Seq(Calls) /\ OnePacket(todo, used.packets)
  BY DEF StreamInv, PulseInv, CoreInv, Typed, FreshInv
<1>2. OnePacket(todo', used.packets) /\ (NoPacket(todo) => NoPacket(todo'))
  BY <1>1, PassedOn
<1> QED BY <1>2, FreshKept DEF StreamInv

LEMMA TailOnly ==
  ASSUME StreamInv, todo # <<>>, todo' = Tail(todo)
  PROVE  todo' = <<>> \o Tail(todo)
<1>1. todo \in Seq(Calls) BY DEF StreamInv, PulseInv, CoreInv, Typed
<1>2. Tail(todo) \in Seq(Calls) BY <1>1, HeadTailProperties
<1> QED BY <1>2, NoCall

\* Handlers that only replace their first call by others, none of them with
\* events, and record pulses or do not.
LEMMA RecordsOn ==
  ASSUME StreamInv, todo # <<>>, Records, UNCHANGED used, NEW new,
         todo' = new \o Tail(todo), IsSeq(new), NoPacket(new)
  PROVE  Implements
<1>1. Onwards BY DEF Records
<1>2. FreshInv' BY <1>1, FreshGoes
<1>3. [PS!Next]_(PS!svars) BY DEF Records, PS!Next
<1> QED BY <1>2, <1>3 DEF Implements

LEMMA RecordsTail ==
  ASSUME StreamInv, todo # <<>>, Records, UNCHANGED used, todo' = Tail(todo)
  PROVE  Implements
BY TailOnly, NoCall, RecordsOn

LEMMA RecordsOne ==
  ASSUME StreamInv, todo # <<>>, Records, UNCHANGED used, NEW x, ~Carries(x),
         todo' = <<x>> \o Tail(todo)
  PROVE  Implements
BY OneCall, RecordsOn

LEMMA StutterRecords ==
  ASSUME StreamInv, SameBatches(pulses'), UNCHANGED stream
  PROVE  Records
BY Stutters DEF StreamInv, FreshInv, Stutter, Records

LEMMA StillHeld ==
  ASSUME StreamInv, UNCHANGED <<pulses, stream>>
  PROVE  Records
<1>1. SameBatches(pulses') BY DEF SameBatches
<1> QED BY <1>1, StutterRecords

\* A pulse is marked, its events stay what they are.
LEMMA MarkRecords ==
  ASSUME StreamInv, NEW p \in DOMAIN pulses, NEW x, x.batches = pulses[p].batches,
         pulses' = [pulses EXCEPT ![p] = x], UNCHANGED stream
  PROVE  Records
<1>1. SameBatches(pulses') BY DEF SameBatches
<1> QED BY <1>1, StutterRecords

LEMMA HeldPulse ==
  ASSUME StreamInv, NEW p \in DOMAIN pulses
  PROVE  pulses[p] \in Pulse
BY DEF StreamInv, PulseInv, CoreInv, Typed, MapOK

LEMMA FollowsDrop ==
  ASSUME StreamInv, todo # <<>>, Ready(Head(todo)), CallDrop(Head(todo), Tail(todo))
  PROVE  Implements
<1> DEFINE c == Head(todo)
<1>1. c \in Calls BY HeadCall DEF StreamInv, PulseInv
<1>2. UNCHANGED <<stream, used>> BY DEF CallDrop
<1>3. CASE Wants(c) = NoPid
  <2>1. UNCHANGED pulses /\ todo' = Tail(todo) BY <1>3 DEF CallDrop
  <2> QED BY <1>2, <2>1, StillHeld, RecordsTail
<1>4. CASE Wants(c) # NoPid
  <2> DEFINE p == Wants(c)
             x == [pulses[p] EXCEPT !.partial = TRUE]
             y == Call("end", c.src, c.arg)
  <2>1. p \in DOMAIN pulses /\ pulses' = [pulses EXCEPT ![p] = x]
    BY <1>4 DEF CallDrop, Ready
  <2>2. todo' = <<y>> \o Tail(todo) BY <1>1, <1>4, CallWith DEF CallDrop
  <2>3. x.batches = pulses[p].batches BY <2>1, HeldPulse DEF Pulse
  <2>4. ~Carries(y) BY DEF Carries, Call
  <2> HIDE DEF p, x, y
  <2>5. Records BY <1>2, <2>1, <2>3, MarkRecords
  <2> QED BY <1>2, <2>2, <2>4, <2>5, RecordsOne
<1> QED BY <1>3, <1>4

LEMMA FollowsPartial ==
  ASSUME StreamInv, todo # <<>>, Ready(Head(todo)), CallPartial(Head(todo), Tail(todo))
  PROVE  Implements
<1> DEFINE c == Head(todo)
           p == c.arg.pid
           x == [pulses[p] EXCEPT !.partial = TRUE]
<1>1. c \in Calls /\ c.op = "partial" BY HeadCall DEF StreamInv, PulseInv, CallPartial
<1>2. p \in DOMAIN pulses
  <2>1. p \in Pids BY <1>1, CallTypes DEF EventArg
  <2> QED BY <1>1, <2>1, PidsNat DEF Ready, Wants, PulseOps
<1>3. /\ pulses' = [pulses EXCEPT ![p] = x] /\ todo' = Tail(todo)
      /\ UNCHANGED <<stream, used>>
  BY DEF CallPartial
<1>4. x.batches = pulses[p].batches BY <1>2, HeldPulse DEF Pulse
<1> HIDE DEF p, x
<1>5. Records BY <1>2, <1>3, <1>4, MarkRecords
<1> QED BY <1>3, <1>5, RecordsTail

LEMMA FollowsSettle ==
  ASSUME StreamInv, todo # <<>>, NEW src, NEW arg, Settle(src, arg, Tail(todo)),
         UNCHANGED used
  PROVE  Implements
<1> DEFINE x == Call("complete", src, arg)
<1>1. todo' = <<x>> \o Tail(todo) BY DEF Settle
<1>2. ~Carries(x) BY DEF Carries, Call
<1> HIDE DEF x
<1>3. Records
  <2>1. CASE UNCHANGED <<pulses, stream>> BY <2>1, StillHeld
  <2>2. CASE unregisterEventSource(IntermittentBit)
    BY <2>2, UnregisterRecords DEF StreamInv, FreshInv, PulseInv, CoreInv, Typed
  <2> QED BY <2>1, <2>2 DEF Settle
<1> QED BY <1>1, <1>2, <1>3, RecordsOne

LEMMA FollowsEnd ==
  ASSUME StreamInv, todo # <<>>, CallEnd(Head(todo), Tail(todo))
  PROVE  Implements
<1>1. UNCHANGED used BY DEF CallEnd
<1>2. CASE todo' = Tail(todo) /\ UNCHANGED <<pulses, stream>>
  BY <1>1, <1>2, StillHeld, RecordsTail
<1>3. CASE \E src, arg : Settle(src, arg, Tail(todo)) BY <1>1, <1>3, FollowsSettle
<1> QED BY <1>2, <1>3 DEF CallEnd

LEMMA FollowsCallSettle ==
  ASSUME StreamInv, todo # <<>>, CallSettle(Head(todo), Tail(todo))
  PROVE  Implements
BY FollowsSettle DEF CallSettle

LEMMA FollowsComplete ==
  ASSUME StreamInv, todo # <<>>, Ready(Head(todo)), CallComplete(Head(todo), Tail(todo))
  PROVE  Implements
<1> DEFINE c == Head(todo)
<1>1. c \in Calls /\ c.op = "complete" BY HeadCall DEF StreamInv, PulseInv, CallComplete
<1>2. c.arg.pid \in DOMAIN pulses
  <2>1. c.arg.pid \in Pids BY <1>1, CallTypes DEF EndArg, RTDLArg
  <2> QED BY <1>1, <2>1, PidsNat DEF Ready, Wants, PulseOps
<1>3. /\ markComplete(c.arg.pid, c.arg.smsId) /\ todo' = Tail(todo) /\ UNCHANGED used
  BY DEF CallComplete
<1>4. Records
  BY <1>2, <1>3, CompleteRecords DEF StreamInv, FreshInv, PulseInv, CoreInv, Typed
<1> QED BY <1>3, <1>4, RecordsTail

LEMMA FollowsPop ==
  ASSUME StreamInv, todo # <<>>, CallPop(Head(todo), Tail(todo))
  PROVE  Implements
<1>1. UNCHANGED <<pulses, stream, used>> /\ todo' = Tail(todo) BY DEF CallPop, smsVars
<1> QED BY <1>1, StillHeld, RecordsTail

LEMMA FollowsUnregister ==
  ASSUME StreamInv, todo # <<>>, CallUnregister(Head(todo), Tail(todo))
  PROVE  Implements
<1>1. UNCHANGED used /\ todo' = Tail(todo) BY DEF CallUnregister
<1>2. CASE UNCHANGED <<pulses, stream>> BY <1>1, <1>2, StillHeld, RecordsTail
<1>3. CASE \E i : unregisterEventSource(i)
  <2>1. Records
    BY <1>3, UnregisterRecords DEF StreamInv, FreshInv, PulseInv, CoreInv, Typed
  <2> QED BY <1>1, <2>1, RecordsTail
<1> QED BY <1>2, <1>3 DEF CallUnregister

LEMMA FollowsRTDL ==
  ASSUME StreamInv, todo # <<>>, Ready(Head(todo)), CallRTDL(Head(todo), Tail(todo))
  PROVE  Implements
<1> DEFINE c == Head(todo)
           p == c.arg.pid
           over == pulses[p].pending = {}
           x == [pulses[p] EXCEPT !.rtdl = TRUE, !.partial = @ \/ over]
           y == Call("settle", None, [pid |-> p, smsId |-> NoSms])
           new == IF over THEN <<y>> ELSE <<>>
<1>1. c \in Calls /\ c.op = "rtdl" BY HeadCall DEF StreamInv, PulseInv, CallRTDL
<1>2. p \in DOMAIN pulses
  <2>1. p \in Pids BY <1>1, CallTypes
  <2> QED BY <1>1, <2>1, PidsNat DEF Ready, Wants, PulseOps
<1>3. UNCHANGED <<stream, used>> BY DEF CallRTDL
<1>4. CASE pulses[p].rtdl
  <2>1. todo' = Tail(todo) /\ UNCHANGED pulses BY <1>4 DEF CallRTDL
  <2> QED BY <1>3, <2>1, StillHeld, RecordsTail
<1>5. CASE ~pulses[p].rtdl
  <2>1. pulses' = [pulses EXCEPT ![p] = x]
    <3>1. pulses' = [pulses EXCEPT ![p].rtdl = TRUE, ![p].partial = @ \/ over]
      BY <1>5 DEF CallRTDL
    <3>2. pulses[p] \in Pulse BY <1>2, HeldPulse
    <3> HIDE DEF over
    <3> QED BY <1>2, <3>1, <3>2 DEF Pulse
  <2>2. todo' = new \o Tail(todo) BY <1>5 DEF CallRTDL
  <2>3. x.batches = pulses[p].batches BY <1>2, HeldPulse DEF Pulse
  <2>4. ~Carries(y) BY DEF Carries, Call
  <2> HIDE DEF x, y, over
  <2>5. IsSeq(new) /\ NoPacket(new)
    <3>1. CASE over BY <2>4, <3>1, OneCall
    <3>2. CASE ~over BY <3>2, NoCall
    <3> QED BY <3>1, <3>2
  <2> HIDE DEF new, p
  <2>6. Records BY <1>2, <1>3, <2>1, <2>3, MarkRecords
  <2> QED BY <1>3, <2>2, <2>5, <2>6, RecordsOn
<1> QED BY <1>4, <1>5

\* Drops of what a source lists carry no events.
LEMMA DropsNone ==
  ASSUME NEW s, NEW T, NEW t \in Seq(T), NEW D, D = [k \in DOMAIN t |-> Call("drop", s, t[k])]
  PROVE  IsSeq(D) /\ NoPacket(D)
<1>1. Len(t) \in Nat /\ DOMAIN t = 1 .. Len(t) BY LenProperties
<1>2. \A k \in DOMAIN D : ~Carries(D[k]) BY DEF Carries, Call
<1> DEFINE U == {D[k] : k \in 1 .. Len(t)}
<1>3. D \in [1 .. Len(t) -> U] BY <1>1
<1> HIDE DEF U
<1>4. D \in Seq(U) BY <1>1, <1>3
<1> QED BY <1>2, <1>4 DEF IsSeq, NoPacket

LEMMA FollowsLeave ==
  ASSUME StreamInv, todo # <<>>, CallLeave(Head(todo), Tail(todo))
  PROVE  Implements
<1> DEFINE c == Head(todo)
           s == c.src
           t == Reverse(Src(s).seq)
           D == [k \in DOMAIN t |-> Call("drop", s, t[k])]
           A == IF Src(s).smsId = NoSms THEN <<>> ELSE D
           x == Call("unregister", s, None)
           new == A \o <<x>>
<1>1. c \in Calls /\ CallHere(hw, c) /\ c.op = "leave" /\ CoreInv
  BY HeadCall DEF StreamInv, PulseInv, CallLeave
<1>2. s \in Srcs /\ Here(hw, s) BY <1>1, CallTypes DEF CallHere
<1>3. todo' = new \o Tail(todo) /\ UNCHANGED <<pulses, stream, used>>
  BY DEF CallLeave, smsVars
<1>4. t \in Seq(Entry) BY <1>1, <1>2, SrcTyped, ReverseIn
<1> HIDE DEF t
<1>5. IsSeq(D) /\ NoPacket(D) BY <1>4, DropsNone
<1> HIDE DEF D
<1>6. IsSeq(A) /\ NoPacket(A) BY <1>5, NoCall
<1>7. ~Carries(x) BY DEF Carries, Call
<1> HIDE DEF A, x
<1>8. IsSeq(new) /\ NoPacket(new) BY <1>6, <1>7, OneCall, BothNone
<1> HIDE DEF new
<1> QED BY <1>3, <1>8, StillHeld, RecordsOn

LEMMA LeaveAllNone ==
  ASSUME Typed, NEW d \in Sources
  PROVE  NoPacket(LeaveAll(d))
BY LeaveAllCalls DEF NoPacket, Carries, Call

LEMMA FollowsFailed ==
  ASSUME StreamInv, NEW d \in Sources, NEW state, connectionFailed(d, state),
         UNCHANGED used
  PROVE  Implements
<1>1. Typed BY DEF StreamInv, PulseInv, CoreInv
<1>2. NoPacket(todo') BY <1>1, LeaveAllNone DEF connectionFailed
<1>3. UNCHANGED <<pulses, stream>> BY DEF connectionFailed, smsVars
<1>4. Records BY <1>3, StillHeld
<1>5. FreshInv' BY <1>2, <1>4, NoOne, FreshKept DEF Records, StreamInv
<1> QED BY <1>4, <1>5 DEF Implements, Records, PS!Next

LEMMA FollowsAccept ==
  ASSUME StreamInv, todo # <<>>, CallAccept(Head(todo), Tail(todo))
  PROVE  Implements
<1> DEFINE c == Head(todo)
           s == c.src
           a == c.arg
           src == Src(s)
           good == IF a.new THEN newPulse(a.id) ELSE src.seq[At(s, a)].good
<1>1. /\ c \in Calls /\ CallHere(hw, c) /\ CallListed(hw, c) /\ c.op = "accept"
      /\ CoreInv /\ c = todo[1] /\ 1 \in DOMAIN todo
  BY HeadCall DEF StreamInv, PulseInv, CallAccept
<1>2. s \in Srcs /\ Here(hw, s) /\ a \in DataArg /\ HasPulse(Src(s), a.id, a.shape)
  BY <1>1, CallTypes DEF CallHere, CallListed, Src
<1>3. UNCHANGED <<pulses, stream, used>>
  BY DEF CallAccept, connectionFailed, smsVars
<1>4. Records BY <1>3, StillHeld
<1>5. Carries(c) /\ a.batch = used.packets
  BY <1>1 DEF Carries, StreamInv, FreshInv, OnePacket
<1>6. CASE src.intermittent /\ ~Recovering(src, a)
  <2>1. todo' = Tail(todo) BY <1>6 DEF CallAccept
  <2> QED BY <1>3, <1>4, <2>1, RecordsTail
<1>7. CASE ~(src.intermittent /\ ~Recovering(src, a)) /\ Recovers(src, a) /\ FreeBits = {}
  <2>1. connectionFailed(s[1], "IDLE") BY <1>7 DEF CallAccept
  <2>2. s[1] \in Sources BY <1>2 DEF Srcs
  <2> QED BY <1>3, <2>1, <2>2, FollowsFailed
<1>8. CASE /\ ~(src.intermittent /\ ~Recovering(src, a))
           /\ ~(Recovers(src, a) /\ FreeBits = {})
  <2> DEFINE y == Call("events", s, [pid |-> Pid(a.id, src.seq[At(s, a)].dup),
                                     lost |-> a.lost, empty |-> a.empty,
                                     batch |-> a.batch])
             E == IF ~good THEN <<>> ELSE <<y>>
             r == SubSeq(src.seq, At(s, a) + 1, Len(src.seq))
             t == Reverse(r)
             D == [j \in DOMAIN t |-> Call("drop", s, t[j])]
             x == Call("end", s, a)
             F == IF a.eop THEN D \o <<x>> ELSE <<>>
             new == E \o F
  <2>1. todo' = new \o Tail(todo) BY <1>8 DEF CallAccept
  <2>2. y.arg.batch = used.packets /\ ~Carries(x) BY <1>5 DEF Carries, Call
  <2>3. t \in Seq(Entry)
    <3> DEFINE seq == src.seq
               k == At(s, a) + 1
    <3>1. seq \in Seq(Entry) /\ At(s, a) \in DOMAIN seq
      BY <1>1, <1>2, SrcTyped, AtListed
    <3>2. k \in Int /\ k > 0 BY <3>1, LenProperties
    <3> HIDE DEF seq, k
    <3>3. SubSeq(seq, k, Len(seq)) \in Seq(Entry) BY <3>1, <3>2, SomeIn
    <3>4. r \in Seq(Entry) BY <3>3 DEF seq, k
    <3> HIDE DEF r
    <3> QED BY <3>4, ReverseIn
  <2> HIDE DEF t, y, x, good
  <2>4. IsSeq(D) /\ NoPacket(D) BY <2>3, DropsNone
  <2> HIDE DEF D
  <2>5. IsSeq(F) /\ NoPacket(F)
    <3>1. IsSeq(D \o <<x>>) /\ NoPacket(D \o <<x>>) BY <2>2, <2>4, OneCall, BothNone
    <3> QED BY <3>1, NoCall
  <2>6. IsSeq(E) /\ OnePacket(E, used.packets)
    <3>1. CASE good BY <2>2, <3>1, OneCall
    <3>2. CASE ~good BY <3>2, NoCall, NoOne
    <3> QED BY <3>1, <3>2
  <2> HIDE DEF E, F
  <2>7. IsSeq(new) /\ OnePacket(new, used.packets)
    <3>1. Follows(new, E, F) BY <2>5, <2>6, AppendedIs
    <3> QED BY <2>5, <2>6, <3>1, OneThen DEF Follows
  <2> HIDE DEF new
  <2>8. FreshInv' BY <1>3, <1>4, <1>5, <2>1, <2>7, FreshGoes DEF Records
  <2> QED BY <1>4, <2>8 DEF Implements, Records, PS!Next
<1> QED BY <1>6, <1>7, <1>8

LEMMA FollowsEvents ==
  ASSUME StreamInv, todo # <<>>, Ready(Head(todo)), CallEvents(Head(todo), Tail(todo))
  PROVE  Implements
<1> DEFINE c == Head(todo)
           p == c.arg.pid
           b == c.arg.batch
           e == c.arg.empty
           x == [pulses[p] EXCEPT !.batches = IF e THEN @ ELSE @ \union {b}]
           y == Call("partial", c.src, c.arg)
           new == IF c.arg.lost THEN <<y>> ELSE <<>>
<1>1. c \in Calls /\ c.op = "events" /\ c = todo[1] /\ 1 \in DOMAIN todo
  BY HeadCall DEF StreamInv, PulseInv, CallEvents
<1>2. c.arg \in EventArg BY <1>1, CallTypes
<1>3. p \in Pids /\ b \in Batches /\ p \in DOMAIN pulses
  <2>1. p \in Pids /\ b \in Batches BY <1>2 DEF EventArg
  <2> QED BY <1>1, <2>1, PidsNat DEF Ready, Wants, PulseOps
<1>4. todo' = new \o Tail(todo) /\ UNCHANGED <<stream, used>>
  BY <1>1, CallWith DEF CallEvents
<1>5. pulses' = [pulses EXCEPT ![p] = x]
  <2>1. pulses' = [pulses EXCEPT ![p].batches = IF e THEN @ ELSE @ \union {b}]
    BY DEF CallEvents
  <2> QED BY <2>1
<1>6. x.batches = IF e THEN pulses[p].batches ELSE pulses[p].batches \union {b}
  BY <1>3, HeldPulse DEF Pulse
<1>7. ~Carries(y) BY DEF Carries, Call
<1>8. Carries(c) /\ b = used.packets /\ Unseen(pulses, stream, used.packets)
  BY <1>1 DEF Carries, StreamInv, FreshInv, OnePacket, NoPacket
<1>9. Store(pulses, stream) /\ todo \in Seq(Calls) /\ OnePacket(todo, used.packets)
  BY DEF StreamInv, FreshInv, PulseInv, CoreInv, Typed
<1> HIDE DEF x, y
<1>10. IsSeq(new) /\ NoPacket(new)
  <2>1. CASE c.arg.lost BY <1>7, <2>1, OneCall
  <2>2. CASE ~c.arg.lost BY <2>2, NoCall
  <2> QED BY <2>1, <2>2
<1> HIDE DEF new
<1>11. NoPacket(todo')
  <2> HIDE DEF c
  <2> QED BY <1>4, <1>8, <1>9, <1>10, PassedOn DEF c
<1> HIDE DEF p, b, e, c
<1>12. CASE e
  <2>1. Records BY <1>3, <1>4, <1>5, <1>6, <1>12, MarkRecords
  <2>2. FreshInv' BY <1>4, <1>11, <2>1, NoOne, FreshKept DEF StreamInv, Records
  <2> QED BY <2>1, <2>2 DEF Implements, Records, PS!Next
<1>13. CASE ~e
  <2>1. x.batches = pulses[p].batches \union {b} BY <1>6, <1>13
  <2>2. /\ DOMAIN pulses' = DOMAIN pulses
        /\ \A q \in DOMAIN pulses : pulses'[q].batches =
               IF q = p THEN pulses[p].batches \union {b} ELSE pulses[q].batches
    BY <1>3, <1>5, <2>1
  <2>3. Held' = [Held EXCEPT ![p] = @ \union {b}]
    <3>1. Held' = [q \in DOMAIN pulses |->
                      IF q = p THEN pulses[p].batches \union {b} ELSE pulses[q].batches]
      BY <2>2 DEF Held
    <3> QED BY <1>3, <3>1 DEF Held
  <2>4. PS!Accept(p, b)
    <3>1. p \in DOMAIN Held /\ \A q \in DOMAIN Held : b \notin Held[q]
      BY <1>3, <1>8 DEF Held, Unseen
    <3>2. \A i \in DOMAIN stream : b \notin stream[i].batches BY <1>8 DEF Unseen
    <3> QED BY <1>4, <2>3, <3>1, <3>2 DEF PS!Accept
  <2>5. Store(pulses', stream') BY <1>4, <1>9, <2>2 DEF Store
  <2>6. ASSUME NEW d \in Batches, d > used.packets PROVE Unseen(pulses', stream', d)
    <3>1. Unseen(pulses, stream, d) /\ d # b
      <4>1. d # used.packets BY <2>6, PulseAssumption DEF Batches
      <4> QED BY <1>8, <2>6, <4>1 DEF StreamInv, FreshInv
    <3> QED BY <1>4, <2>2, <3>1 DEF Unseen
  <2>7. FreshInv' BY <1>4, <1>11, <2>5, <2>6, NoOne DEF FreshInv
  <2> QED BY <1>3, <2>4, <2>7 DEF Implements, PS!Next
<1> QED BY <1>12, <1>13

\* The pulse a call wants is opened first.
LEMMA WantedPid ==
  ASSUME CoreInv, NEW c \in Calls, Wants(c) # NoPid
  PROVE  Wants(c) \in Pids
<1>1. CASE c.op = "drop"
  <2>1. c.arg \in Entry BY <1>1, CallTypes
  <2> QED BY <1>1, <2>1, PidIn DEF Wants, PulseOps, Entry
<1>2. CASE c.op \in PulseOps \ {"drop"}
  <2>1. c.arg.pid \in Pids
    BY <1>2, CallTypes DEF PulseOps, EndArg, RTDLArg, EventArg
  <2> QED BY <1>2, <2>1 DEF Wants, PulseOps
<1> QED BY <1>1, <1>2 DEF Wants

LEMMA FollowsGet ==
  ASSUME StreamInv, todo # <<>>, CallGet(Head(todo))
  PROVE  Implements
<1> DEFINE p == Wants(Head(todo))
<1>1. CoreInv /\ Head(todo) \in Calls BY HeadCall DEF StreamInv, PulseInv
<1>2. p # NoPid /\ p \notin DOMAIN pulses /\ getPulse(p) /\ UNCHANGED <<todo, used>>
  BY DEF CallGet, Ready
<1>3. p \in Pids BY <1>1, <1>2, WantedPid
<1> HIDE DEF p
<1>4. Onwards /\ PS!Open(p)
  BY <1>2, <1>3, GetPulseOpens DEF StreamInv, FreshInv, PulseInv, CoreInv, Typed
<1>5. OnePacket(todo', used.packets) /\ (NoPacket(todo) => NoPacket(todo'))
  BY <1>2 DEF StreamInv, FreshInv
<1>6. FreshInv' BY <1>2, <1>4, <1>5, FreshKept DEF StreamInv
<1> QED BY <1>3, <1>4, <1>6 DEF Implements, PS!Next

LEMMA HandlerFollows ==
  ASSUME StreamInv, HandlerStep
  PROVE  Implements
<1> DEFINE c == Head(todo)
           rest == Tail(todo)
<1>1. todo # <<>> BY DEF HandlerStep
<1>2. CASE CallGet(c) BY <1>1, <1>2, FollowsGet
<1>3. CASE Ready(c) /\ Handle(c, rest)
  <2> USE <1>1, <1>3
  <2>1. CASE CallDrop(c, rest) BY <2>1, FollowsDrop
  <2>2. CASE CallPartial(c, rest) BY <2>2, FollowsPartial
  <2>3. CASE CallEnd(c, rest) BY <2>3, FollowsEnd
  <2>4. CASE CallSettle(c, rest) BY <2>4, FollowsCallSettle
  <2>5. CASE CallComplete(c, rest) BY <2>5, FollowsComplete
  <2>6. CASE CallPop(c, rest) BY <2>6, FollowsPop
  <2>7. CASE CallLeave(c, rest) BY <2>7, FollowsLeave
  <2>8. CASE CallUnregister(c, rest) BY <2>8, FollowsUnregister
  <2>9. CASE CallAccept(c, rest) BY <2>9, FollowsAccept
  <2>10. CASE CallEvents(c, rest) BY <2>10, FollowsEvents
  <2>11. CASE CallRTDL(c, rest) BY <2>11, FollowsRTDL
  <2> QED BY <2>1, <2>2, <2>3, <2>4, <2>5, <2>6, <2>7, <2>8, <2>9, <2>10, <2>11 DEF Handle
<1> QED BY <1>2, <1>3 DEF HandlerStep

-----------------------------------------------------------------------------
(* Packets, connections and the operator.                                   *)

LEMMA DataFollows ==
  ASSUME StreamInv, NEW s \in Srcs, NEW id, NEW shape, NEW eop, NEW empty, NEW lost,
         DataPkt(s, id, shape, eop, empty, lost)
  PROVE  Implements
<1> DEFINE src == Source(s)
           new == ~HasPulse(src, id, shape)
           n == used.packets + 1
           x == Call("accept", s, [id |-> id, shape |-> shape, eop |-> eop, new |-> new,
                                   empty |-> empty, lost |-> lost, batch |-> n])
           y == Call("drop", s, Last(src.seq))
           z == Call("pop", s, None)
           A == IF new /\ Len(src.seq) >= MaxPulseSeqList THEN <<y, z>> ELSE <<>>
<1>1. /\ todo' = A \o <<x>> /\ used.packets < MaxPackets
      /\ used' = [used EXCEPT !.packets = @ + 1, !.extras = IF lost THEN @ + 1 ELSE @]
      /\ UNCHANGED <<pulses, stream>>
  BY DEF DataPkt
<1>2. used'.packets = n /\ used.packets \in Nat
  <2>1. used \in [packets : 0 .. MaxPackets, extras : Nat]
    BY DEF StreamInv, PulseInv, OthersTyped
  <2>2. used.packets \in 0 .. MaxPackets /\ "packets" \in DOMAIN used BY <2>1
  <2>3. used'.packets = used.packets + 1 BY <1>1, <2>1, <2>2
  <2> QED BY <2>2, <2>3
<1>3. x.arg.batch = n /\ ~Carries(y) /\ ~Carries(z) BY DEF Carries, Call
<1> HIDE DEF x, y, z
<1>4. IsSeq(A) /\ NoPacket(A)
  <2>1. CASE A = <<y, z>>
    <3> HIDE DEF A
    <3>1. A \in Seq({y, z}) /\ DOMAIN A = {1, 2} /\ A[1] = y /\ A[2] = z BY <2>1
    <3> QED BY <1>3, <3>1 DEF IsSeq, NoPacket
  <2>2. CASE A = <<>> BY <2>2, NoCall
  <2> QED BY <2>1, <2>2
<1> HIDE DEF A, n
<1>5. OnePacket(todo', n)
  <2>1. IsSeq(<<x>>) /\ OnePacket(<<x>>, n) BY <1>3, OneCall
  <2> QED BY <1>1, <1>4, <2>1, NoneThen
<1>6. Onwards
  <2>1. Records BY <1>1, StillHeld
  <2> QED BY <2>1 DEF Records
<1>7. n \in Batches /\ n > used.packets
  <2>1. used.packets < MaxPackets BY <1>1
  <2>2. MaxPackets \in Nat BY PulseAssumption
  <2> QED BY <1>2, <2>1, <2>2 DEF n, Batches
<1>8. Unseen(pulses', stream', n)
  BY <1>6, <1>7 DEF StreamInv, FreshInv, Onwards
<1>9. ASSUME NEW b \in Batches, b > n PROVE Unseen(pulses', stream', b)
  <2>1. b > used.packets BY <1>2, <1>9 DEF n, Batches
  <2> QED BY <1>6, <2>1 DEF StreamInv, FreshInv, Onwards
<1>10. FreshInv' BY <1>2, <1>5, <1>6, <1>8, <1>9 DEF FreshInv, Onwards
<1>11. [PS!Next]_(PS!svars)
  <2>1. Records BY <1>1, StillHeld
  <2> QED BY <2>1 DEF Records, PS!Next
<1> QED BY <1>10, <1>11 DEF Implements

\* Actions that leave the pulses and the packets alone, and whose calls, if
\* they make any, carry no events.
LEMMA ApartFollows ==
  ASSUME StreamInv, UNCHANGED <<pulses, stream>>, used'.packets = used.packets,
         todo' = todo \/ NoPacket(todo')
  PROVE  Implements
<1>1. Records BY StillHeld
<1>2. OnePacket(todo', used.packets) /\ (NoPacket(todo) => NoPacket(todo'))
  BY NoOne DEF StreamInv, FreshInv
<1>3. Store(pulses', stream') BY <1>1 DEF Records, Onwards
<1>4. \A b \in Batches : b > used.packets => Unseen(pulses', stream', b)
  BY <1>1 DEF Records, Onwards, StreamInv, FreshInv
<1>5. ~NoPacket(todo') => Unseen(pulses', stream', used.packets)
  BY <1>1, <1>2 DEF Records, Onwards, StreamInv, FreshInv
<1>6. FreshInv' BY <1>2, <1>3, <1>4, <1>5 DEF FreshInv
<1> QED BY <1>1, <1>6 DEF Implements, Records, PS!Next

LEMMA ExtraPackets ==
  ASSUME StreamInv, Extra \/ UNCHANGED used
  PROVE  used'.packets = used.packets
<1>1. used \in [packets : 0 .. MaxPackets, extras : Nat]
  BY DEF StreamInv, PulseInv, OthersTyped
<1> QED BY <1>1 DEF Extra

LEMMA RTDLFollows ==
  ASSUME StreamInv, NEW d \in Sources, NEW id, RTDLPkt(d, id)
  PROVE  Implements
<1> DEFINE dup == IF id = rtdl[d].last THEN rtdl[d].dup + 1 ELSE 0
           pid == Pid(id, dup)
           T == {h \in DOMAIN hw[d] : hw[d][h].noData + RTDLFreq > RTDLNoDataThresh}
           A == IF id \in BadTimes THEN <<>> ELSE <<Call("rtdl", None, [pid |-> pid])>>
           B == IF (rtdlCount + 1) % RTDLFreq = 0
                THEN SetToSeq({Call("unregister", <<d, h>>, None) : h \in T}) ELSE <<>>
<1>0. todo' = A \o B BY DEF RTDLPkt
<1>1. /\ A = <<>> \/ A = <<Call("rtdl", None, [pid |-> pid])>>
      /\ B = SetToSeq({Call("unregister", <<d, h>>, None) : h \in T}) \/ B = <<>>
      /\ T \in SUBSET (DOMAIN hw[d])
  OBVIOUS
<1> HIDE DEF A, B, T, pid
<1>2. IsSeq(A) /\ NoPacket(A)
  <2> DEFINE x == Call("rtdl", None, [pid |-> pid])
  <2>1. ~Carries(x) BY DEF Carries, Call
  <2>2. A = <<>> \/ A = <<x>> BY <1>1
  <2> HIDE DEF x
  <2> QED BY <2>1, <2>2, OneCall, NoCall
<1>3. IsSeq(B) /\ NoPacket(B)
  <2> DEFINE S == {Call("unregister", <<d, h>>, None) : h \in T}
  <2>1. IsFiniteSet(T)
    BY <1>1, FS_Subset, PulseAssumption DEF StreamInv, PulseInv, CoreInv, Typed, HwTyped
  <2>2. IsFiniteSet(S)
    <3> DEFINE f == [h \in T |-> Call("unregister", <<d, h>>, None)]
    <3>1. f \in Surjection(T, S) BY DEF Surjection
    <3> QED BY <2>1, <3>1, FS_Surjection
  <2>3. \A x \in S : ~Carries(x) BY DEF Carries, Call
  <2>4. B = SetToSeq(S) \/ B = <<>> BY <1>1
  <2> HIDE DEF S
  <2>5. CASE B = SetToSeq(S)
    <3>1. B \in Seq(S) BY <2>2, <2>5, SetToSeqLists
    <3>2. \A k \in DOMAIN B : B[k] \in S BY <3>1, ElementOfSeq, LenProperties
    <3> QED BY <2>3, <3>1, <3>2 DEF IsSeq, NoPacket
  <2>6. CASE B = <<>> BY <2>6, NoCall
  <2> QED BY <2>4, <2>5, <2>6
<1>4. NoPacket(todo') BY <1>0, <1>2, <1>3, BothNone
<1>5. UNCHANGED <<pulses, stream>> /\ Extra BY DEF RTDLPkt, smsVars
<1> QED BY <1>4, <1>5, ExtraPackets, ApartFollows

LEMMA ConnectionFollows ==
  ASSUME StreamInv, Connection
  PROVE  Implements
<1>1. PICK d \in Sources :
        \/ Enable(d) \/ Disable(d) \/ TimerDelayed(d) \/ RetryTimer(d)
        \/ ConnectTimer(d) \/ DataTimer(d) \/ ConnectComplete(d)
        \/ FdReadyIdle(d) \/ Disconnect(d) \/ SlowRead(d)
  BY DEF Connection
<1>2. Extra \/ UNCHANGED used
  BY <1>1 DEF Enable, Disable, TimerDelayed, RetryTimer, ConnectTimer, DataTimer,
              ConnectComplete, FdReadyIdle, Disconnect, SlowRead, Connects
<1>3. UNCHANGED smsVars /\ (UNCHANGED todo \/ todo' = LeaveAll(d))
  BY <1>1 DEF Enable, Disable, TimerDelayed, RetryTimer, ConnectTimer, DataTimer,
              ConnectComplete, FdReadyIdle, Disconnect, SlowRead, Connects, startConnect,
              connectionFailed
<1>4. todo' = todo \/ NoPacket(todo')
  BY <1>3, LeaveAllNone DEF StreamInv, PulseInv, CoreInv
<1> QED BY <1>2, <1>3, <1>4, ExtraPackets, ApartFollows DEF smsVars

LEMMA PopPulseFollows ==
  ASSUME StreamInv, NEW p \in Pids, PopPulseBuffer(p)
  PROVE  Implements
<1>1. /\ p \in DOMAIN pulses /\ pulses' = Without(pulses, {p})
      /\ UNCHANGED <<stream, todo>> /\ Extra
  BY DEF PopPulseBuffer
<1>2. used'.packets = used.packets BY <1>1, ExtraPackets
<1>3. /\ DOMAIN pulses' = DOMAIN pulses \ {p}
      /\ \A q \in DOMAIN pulses' : pulses'[q] = pulses[q]
  BY <1>1 DEF Without
<1>4. /\ Store(pulses, stream) /\ OnePacket(todo, used.packets)
      /\ \A b \in Batches : b > used.packets => Unseen(pulses, stream, b)
      /\ ~NoPacket(todo) => Unseen(pulses, stream, used.packets)
  BY DEF StreamInv, FreshInv
<1>5. Store(pulses', stream')
  <2>1. IsFiniteSet(DOMAIN pulses') BY <1>3, <1>4, FS_Subset DEF Store
  <2> QED BY <1>1, <1>3, <1>4, <2>1 DEF Store
<1>6. \A b : Unseen(pulses, stream, b) => Unseen(pulses', stream', b)
  BY <1>1, <1>3 DEF Unseen
<1>7. FreshInv' BY <1>1, <1>2, <1>4, <1>5, <1>6 DEF FreshInv
<1>8. Held' = PS!Keep(Held, DOMAIN Held \ {p}) BY <1>3 DEF Held, PS!Keep
<1>9. PS!Discard(p)
  <2>1. p \in DOMAIN Held BY <1>1 DEF Held
  <2> QED BY <1>1, <1>8, <2>1 DEF PS!Discard
<1> QED BY <1>7, <1>9 DEF Implements, PS!Next

(* Every step of the assembly is one of the stream, or none.                *)
LEMMA NextFollows == StreamInv /\ [Next]_vars => Implements
<1> SUFFICES ASSUME StreamInv, [Next]_vars PROVE Implements OBVIOUS
<1>1. CASE HandlerStep BY <1>1, HandlerFollows
<1>2. CASE \E s \in Sources \X HwIds, id \in PulseIds, shape \in Shapes,
             eop, empty, lost \in BOOLEAN :
                 DataPkt(s, id, shape, eop, empty, lost)
  BY <1>2, DataFollows DEF Srcs
<1>3. CASE \E s \in Sources \X HwIds : SourceListPkt(s)
  <2>1. UNCHANGED <<pulses, stream, todo>> /\ Extra BY <1>3 DEF SourceListPkt
  <2> QED BY <2>1, ExtraPackets, ApartFollows
<1>4. CASE \E d \in Sources, id \in PulseIds : RTDLPkt(d, id) BY <1>4, RTDLFollows
<1>5. CASE \E d \in Sources : HeartbeatPkt(d)
  <2>1. PICK d \in Sources : HeartbeatPkt(d) BY <1>5
  <2>2. UNCHANGED <<pulses, stream>> /\ todo' = LeaveAll(d) /\ Extra
    BY <2>1 DEF HeartbeatPkt, smsVars
  <2>3. NoPacket(todo') BY <2>2, LeaveAllNone DEF StreamInv, PulseInv, CoreInv
  <2> QED BY <2>2, <2>3, ExtraPackets, ApartFollows
<1>6. CASE Connection BY <1>6, ConnectionFollows
<1>7. CASE \E pid \in Pids : PopPulseBuffer(pid) BY <1>7, PopPulseFollows
<1>8. CASE UNCHANGED vars
  <2>1. UNCHANGED <<pulses, stream, todo, used>> BY <1>8 DEF vars, smsVars
  <2> QED BY <2>1, ApartFollows
<1> QED BY <1>1, <1>2, <1>3, <1>4, <1>5, <1>6, <1>7, <1>8 DEF Next, Packet

LEMMA InitStream == Init => StreamInv /\ PS!Init
<1> SUFFICES ASSUME Init PROVE StreamInv /\ PS!Init OBVIOUS
<1>1. PulseInv BY InitPulse
<1>2. pulses = <<>> /\ stream = <<>> /\ todo = <<>> BY DEF Init
<1>3. DOMAIN pulses = {} /\ DOMAIN stream = {} BY <1>2
<1>4. Store(pulses, stream) BY <1>2, <1>3, FS_EmptySet, NoCall DEF Store
<1>5. \A b : Unseen(pulses, stream, b) BY <1>3 DEF Unseen
<1>6. NoPacket(todo) BY <1>2, NoCall
<1>7. StreamInv BY <1>1, <1>4, <1>5, <1>6, NoOne DEF StreamInv, FreshInv
<1>8. Held = <<>>
  <2>1. Held = [p \in {} |-> pulses[p].batches] BY <1>3 DEF Held
  <2> QED BY <2>1
<1> QED BY <1>2, <1>7, <1>8 DEF PS!Init

(* The pulses recorded follow PulseStream, whatever packets come, in what    *)
(* order sources complete, leave and return, and whichever limit makes the  *)
(* service give up on a pulse: recorded oldest first, each with exactly the *)
(* events it was given, and nothing given or recorded twice.                *)
THEOREM PulsesFollowStream == Spec => RecordsPulseStream
<1>1. StreamInv /\ [Next]_vars => StreamInv' /\ [PS!Next]_(PS!svars)
  BY NextPulse, NextFollows DEF StreamInv, Implements
<1> QED BY <1>1, InitStream, PTL DEF Spec, RecordsPulseStream, PS!Spec
=============================================================================
