--------------------------- MODULE PulseAssembly ---------------------------
(***************************************************************************)
(* How the stream management service puts the raw event packets of its     *)
(* data sources together into pulses: sms/SMSControl.cc (the pulse map) and *)
(* sms/DataSource.cc (one connection to a pre-processor, with the hardware *)
(* sources that speak through it).                                         *)
(*                                                                         *)
(* The service runs one event loop, so one packet, timer or command is     *)
(* handled at a time.  A handler calls the pulse map several times, and    *)
(* one of these calls (markComplete) may change the very source that makes *)
(* it; `todo' is the rest of the running handler, one entry per call, and  *)
(* the next event is taken only when it is empty.                          *)
(***************************************************************************)
EXTENDS Integers, Sequences, FiniteSets, SequencesExt, FiniteSetsExt

CONSTANTS Sources,            \* the configured data sources
          HwIds,              \* hardware source ids used behind each of them
          SmsIds,             \* bits of m_eventSources, 0 .. SOURCE_SET_SIZE-1
          PulseIds,           \* pulse ids (time stamps) that occur
          BadTimes,           \* those before the facility or a week ahead
          Shapes,             \* values of the pulse invariants of a packet
          MaxDup,             \* bound on duplicates of one pulse id
          MaxPackets,         \* bound on event packets in a behaviour
          MaxEvents,          \* bound on these, RTDLs, lost packets, outages ...
          Pixel,              \* batch -> top nibble and state of its pixels
          NoEoPPulseBufferSize, IntermittentDataThreshold,
          MaxPulseBufferSize, OverflowFreq,
          MaxPulseSeqList, RTDLNoDataThresh, RTDLFreq,
          DataTimeoutRetry

None == "none"

ASSUME PulseAssumption ==
    /\ None \notin Sources /\ \A s \in Sources \X HwIds : s # None
    /\ IsFiniteSet(HwIds)
    /\ SmsIds \subseteq Nat /\ IsFiniteSet(SmsIds)
    /\ PulseIds \subseteq Nat \ {0} /\ BadTimes \subseteq PulseIds
    /\ {MaxDup, MaxPackets, MaxEvents} \subseteq Nat
    /\ {NoEoPPulseBufferSize, IntermittentDataThreshold,
        MaxPulseBufferSize, RTDLNoDataThresh, DataTimeoutRetry} \subseteq Nat
    /\ {OverflowFreq, MaxPulseSeqList, RTDLFreq} \subseteq Nat \ {0}

VARIABLES
    pulses,        \* m_pulses: pulse identifier -> pulse, an ordered map
    eventSources,  \* m_eventSources, the registered source bits
    owner,         \* m_eventSourcesIndex: bit -> data source, or None
    lastPid,       \* m_lastPid, the key of the cached map iterator, or -1
    newPulses,     \* getPulse()'s static counter, modulo OverflowFreq
    stream,        \* the pulses given to recordPulse(), in order
    popped,        \* the batches the operator threw away
    conn,          \* m_state of each data source
    link,          \* its fdreg, timer, data_timeout_retry_count, readDelay
    hw,            \* m_hwSources: data source -> hardware id -> HWSource
    rtdl,          \* m_lastRTDLPulseId and m_dupRTDL of each data source
    rtdlCount,     \* rxPacket(RTDLPkt)'s static counter, modulo RTDLFreq
    todo,          \* the calls the running handler still makes
    used           \* event packets and extras so far (the bounds above)

smsVars == <<pulses, eventSources, owner, lastPid, newPulses, stream, popped>>
dsVars == <<conn, link, hw, rtdl, rtdlCount>>
vars == <<smsVars, dsVars, todo, used>>

NoPid == -1
NoSms == -1                          \* (uint32_t) -1
Batches == 1 .. MaxPackets
Pid(id, dup) == id * (MaxDup + 1) + dup      \* ordered as std::pair orders it
IdOf(pid) == pid \div (MaxDup + 1)
Pids == {Pid(id, dup) : id \in PulseIds, dup \in 0 .. MaxDup}

\* A map with key k bound to v, and one without the keys of S.
Put(f, k, v) == [x \in DOMAIN f \union {k} |-> IF x = k THEN v ELSE f[x]]
Without(f, S) == [x \in DOMAIN f \ S |-> f[x]]
\* The keys of an ordered map, in their order.
Sorted(S) == CHOOSE q \in [1 .. Cardinality(S) -> S] :
                 \A i, j \in DOMAIN q : i < j => q[i] < q[j]

----------------------------------------------------------------------------
(* Recording.                                                              *)

(* Charge and veto of a pulse come from the pulse that follows it, when     *)
(* the two are one accelerator period apart.                               *)
correctPChargeVeto(pid, next) ==
    next # NoPid /\ IdOf(next) - IdOf(pid) = 1

(* Where pulseEvents() puts an event, by the top nibble of its pixel.       *)
Kind(b) == CASE Pixel[b].nibble = 4 -> "monitor"
             [] Pixel[b].nibble = 7 -> "chopper"
             [] Pixel[b].nibble = 0 -> "detector"
             [] Pixel[b].nibble \in {5, 6} -> "fastmeta"
             [] OTHER -> "error"
HasStates(p) == \E b \in p.batches : Kind(b) = "detector" /\ Pixel[b].state > 0

(* The packets recordPulse() gives to the container, with the event batches *)
(* each one carries.                                                       *)
Carrying(type, p, K) == <<[type |-> type,
                           of |-> {b \in p.batches : Kind(b) \in K}]>>
IfAny(q) == IF q[1].of = {} THEN <<>> ELSE q
buildMonitorPacket(p) == Carrying("BEAM_MONITOR_EVENT", p, {"monitor"})

buildBankedPacket(p) == Carrying("BANKED_EVENT", p, {"detector", "error"})
buildBankedStatePacket(p) ==
    Carrying("BANKED_EVENT_STATE", p, {"detector", "error"})
buildChopperPackets(p) == IfAny(Carrying("VAR_VALUE_U32", p, {"chopper"}))
buildFastMetaPackets(p) == IfAny(Carrying("FAST_META", p, {"fastmeta"}))
Packets(p) ==
    (IF p.rtdl THEN Carrying("RTDL", p, {}) ELSE <<>>)
    \o buildMonitorPacket(p)
    \o (IF HasStates(p) THEN buildBankedStatePacket(p) ELSE buildBankedPacket(p))
    \o buildChopperPackets(p) \o buildFastMetaPackets(p)

recordPulse(pid, P) ==
    LET later == {q \in DOMAIN P : q > pid}
        next == IF later = {} THEN NoPid ELSE Min(later)
    IN  [pid |-> pid, batches |-> P[pid].batches, partial |-> P[pid].partial,
         missing |-> P[pid].pending, missingRTDL |-> ~P[pid].rtdl,
         corrected |-> correctPChargeVeto(pid, next),
         packets |-> Packets(P[pid])]

Recorded(S, P) ==
    LET order == Sorted(S) IN [i \in DOMAIN order |-> recordPulse(order[i], P)]

(* The pulse up to which a flush records when `last' is complete: the       *)
(* newest NoEoPPulseBufferSize pulses are held back.  NoPid when nothing    *)
(* may be recorded.                                                        *)
LastMinusBuffer(last, P) ==
    LET order == Sorted(DOMAIN P)
        kept == Len(order) - NoEoPPulseBufferSize
        at == CHOOSE i \in DOMAIN order : order[i] = last
    IN  IF kept <= 0 THEN NoPid ELSE order[Min({at, kept})]

UpTo(P, pid) == {q \in DOMAIN P : q <= pid}

(* Mutants of Flush: the cached iterator is kept, and the older pulses are  *)
(* skipped.                                                                *)
FlushKeepsCache(P, to, cached) ==
    /\ stream' = stream \o Recorded(UpTo(P, to), P)
    /\ pulses' = Without(P, UpTo(P, to))
    /\ lastPid' = cached
FlushOnlyLast(P, to, cached) ==
    /\ stream' = stream \o Recorded({to}, P)
    /\ pulses' = Without(P, {to})
    /\ lastPid' = IF cached = to THEN NoPid ELSE cached

(* Record and erase the pulses up to `to'; the cached iterator goes with    *)
(* the pulse it points at.                                                 *)
Flush(P, to, cached) ==
    /\ stream' = stream \o Recorded(UpTo(P, to), P)
    /\ pulses' = Without(P, UpTo(P, to))
    /\ lastPid' = IF cached \in UpTo(P, to) THEN NoPid ELSE cached

HoldAll(P, cached) == pulses' = P /\ lastPid' = cached /\ UNCHANGED stream

----------------------------------------------------------------------------
(* The pulse map.                                                          *)

(* Mark the pulses of S that still wait for bit i partial, and stop them    *)
(* waiting for it.                                                         *)
GiveUpOn(i, S, P) ==
    [p \in DOMAIN P |->
        IF p \in S /\ i \in P[p].pending
        THEN [P[p] EXCEPT !.pending = @ \ {i}, !.partial = TRUE] ELSE P[p]]

Complete(P, S) == {p \in S : P[p].pending = {}}

(* Mutant: the pulses in the map go on waiting for the bit.                 *)
UnregisterKeepsPending(i) ==
    /\ eventSources' = eventSources \ {i}
    /\ owner' = [owner EXCEPT ![i] = None]
    /\ UNCHANGED <<pulses, stream, lastPid>>

(* unregisterEventSource(): the data of bit i is not going to come.         *)
unregisterEventSource(i) ==
    LET P == GiveUpOn(i, DOMAIN pulses, pulses)
        done == Complete(P, DOMAIN P)
        to == IF Cardinality(eventSources) > 1
              THEN LastMinusBuffer(Max(done), P) ELSE Max(done)
    IN  /\ IF done # {} /\ to # NoPid
           THEN Flush(P, to, lastPid) ELSE HoldAll(P, lastPid)
        /\ eventSources' = eventSources \ {i}
        /\ owner' = [owner EXCEPT ![i] = None]

NewPulse == [pending |-> eventSources, partial |-> FALSE, rtdl |-> FALSE,
             batches |-> {}]

(* getPulse() for a pulse that is not in the map: a new one.  Every          *)
(* OverflowFreq-th new pulse looks whether the buffer is over its limit    *)
(* and records the oldest pulses, whatever they wait for.                  *)
getPulse(pid) ==
    LET over == Cardinality(DOMAIN pulses) - MaxPulseBufferSize
        checks == (newPulses + 1) % OverflowFreq = 0
        order == Sorted(DOMAIN pulses)
        out == IF checks /\ over > 0
               THEN ToSet(SubSeq(order, 1, Min({over + 1, Len(order)}))) ELSE {}
        P == [p \in DOMAIN pulses |->
                 IF p \in out /\ pulses[p].pending # {}
                 THEN [pulses[p] EXCEPT !.partial = TRUE] ELSE pulses[p]]
    IN  /\ newPulses' = (newPulses + 1) % OverflowFreq
        /\ stream' = stream \o Recorded(out, P)
        /\ pulses' = Put(Without(P, out), pid, NewPulse)
        /\ lastPid' = pid

(* The bit markComplete() finds intermittent: walking the pulses oldest     *)
(* first and the bits of each in order, the first one that holds up        *)
(* IntermittentDataThreshold pulses.                                       *)
HeldUp(i, p) == Cardinality({q \in UpTo(pulses, p) : i \in pulses[q].pending})
IntermittentAt ==
    IF /\ IntermittentDataThreshold > 0
       /\ Cardinality(DOMAIN pulses) > IntermittentDataThreshold
       /\ Cardinality(eventSources) > 1
    THEN {x \in (DOMAIN pulses) \X SmsIds :
             /\ x[2] \in pulses[x[1]].pending
             /\ HeldUp(x[2], x[1]) >= IntermittentDataThreshold}
    ELSE {}
IntermittentBit ==
    LET first == Min({x[1] : x \in IntermittentAt})
    IN  Min({x[2] : x \in {y \in IntermittentAt : y[1] = first}})

(* The last part of markComplete(), for a pulse that is in the map.         *)
markComplete(pid, i) ==
    LET earlier == {q \in DOMAIN pulses : q < pid}
        P1 == IF i = NoSms THEN pulses ELSE GiveUpOn(i, earlier, pulses)
        P == IF i = NoSms THEN P1 ELSE [P1 EXCEPT ![pid].pending = @ \ {i}]
        done == Complete(P, IF i = NoSms THEN {pid} ELSE UpTo(P, pid))
        to == LastMinusBuffer(Max(done), P)
    IN  IF done # {} /\ to # NoPid THEN Flush(P, to, pid) ELSE HoldAll(P, pid)

----------------------------------------------------------------------------
(* The calls of a handler.  `src' is the hardware source <<d, h>> that     *)
(* makes them, None for the handlers of a whole connection.                *)

Room(n) == used.packets + used.extras + n <= MaxEvents
Extra == Room(1) /\ used' = [used EXCEPT !.extras = @ + 1]
Call(op, src, arg) == [op |-> op, src |-> src, arg |-> arg]
Src(s) == hw[s[1]][s[2]]
At(s, e) == CHOOSE k \in DOMAIN Src(s).seq :
                Src(s).seq[k].id = e.id /\ Src(s).seq[k].shape = e.shape
SetHw(s, new) == hw' = [hw EXCEPT ![s[1]] = Put(@, s[2], new)]
WithGood(s, e, good) == [Src(s) EXCEPT !.seq[At(s, e)].good = good]

(* A call on a pulse that is not in the map opens it first.                 *)
PulseOps == {"drop", "partial", "complete", "events", "rtdl"}
Wants(c) == CASE c.op = "drop" /\ Src(c.src).seq[At(c.src, c.arg)].good ->
                    Pid(c.arg.id, c.arg.dup)
              [] c.op \in PulseOps \ {"drop"} -> c.arg.pid
              [] OTHER -> NoPid
Ready(c) == Wants(c) \in DOMAIN pulses \union {NoPid}

CallGet(c) ==
    /\ ~Ready(c)
    /\ getPulse(Wants(c))
    /\ UNCHANGED <<eventSources, owner, popped, dsVars, todo, used>>

Touch(c) == lastPid' = Wants(c)      \* getPulse() caches what it found

(* endPulse() for a pulse whose end was missed: it is partial, then ended.  *)
CallDrop(c, rest) ==
    /\ c.op = "drop"
    /\ IF Wants(c) = NoPid
       THEN todo' = rest /\ UNCHANGED <<pulses, lastPid>>
       ELSE /\ pulses' = [pulses EXCEPT ![Wants(c)].partial = TRUE]
            /\ Touch(c)
            /\ todo' = <<[c EXCEPT !.op = "end"]>> \o rest
    /\ UNCHANGED <<eventSources, owner, newPulses, stream, popped, dsVars, used>>

CallPartial(c, rest) ==
    /\ c.op = "partial"
    /\ pulses' = [pulses EXCEPT ![c.arg.pid].partial = TRUE]
    /\ Touch(c)
    /\ todo' = rest
    /\ UNCHANGED <<eventSources, owner, newPulses, stream, popped, dsVars, used>>

(* setIntermittent(i, true) on the owner of the bit: its pulses are no      *)
(* longer completed, and it has no bit until it recovers.                  *)
setIntermittent(d, i) ==
    hw' = [hw EXCEPT ![d] = [h \in DOMAIN hw[d] |->
              LET x == hw[d][h] IN
              IF x.smsId # i THEN x
              ELSE [x EXCEPT !.smsId = NoSms, !.intermittent = TRUE,
                             !.seq = [k \in DOMAIN x.seq |->
                                         [x.seq[k] EXCEPT !.good = FALSE]]]]]

(* The first part of markComplete(): give up on an intermittent source.     *)
Settle(src, arg, rest) ==
    /\ IF IntermittentAt = {}
       THEN UNCHANGED <<pulses, stream, lastPid, eventSources, owner, hw>>
       ELSE /\ setIntermittent(owner[IntermittentBit], IntermittentBit)
            /\ unregisterEventSource(IntermittentBit)
    /\ todo' = <<Call("complete", src, arg)>> \o rest

(* endPulse().  The bit is an argument of the call of markComplete(), so it *)
(* is the one the source has at this moment.                               *)
CallEnd(c, rest) ==
    /\ c.op = "end"
    /\ LET e == Src(c.src).seq[At(c.src, c.arg)]
       IN  IF ~e.good
           THEN /\ todo' = rest
                /\ UNCHANGED <<pulses, stream, lastPid, eventSources, owner, hw>>
           ELSE Settle(c.src, [id |-> e.id, shape |-> e.shape,
                               pid |-> Pid(e.id, e.dup),
                               smsId |-> Src(c.src).smsId], rest)
    /\ UNCHANGED <<newPulses, popped, conn, link, rtdl, rtdlCount, used>>

CallSettle(c, rest) ==
    /\ c.op = "settle"
    /\ Settle(None, c.arg, rest)
    /\ UNCHANGED <<newPulses, popped, conn, link, rtdl, rtdlCount, used>>

CallComplete(c, rest) ==
    /\ c.op = "complete"
    /\ markComplete(c.arg.pid, c.arg.smsId)
    /\ IF c.src = None THEN UNCHANGED hw
       ELSE SetHw(c.src, WithGood(c.src, c.arg, FALSE))
    /\ todo' = rest
    /\ UNCHANGED <<eventSources, owner, newPulses, popped, conn, link, rtdl,
                   rtdlCount, used>>

(* The oldest entry of a full pulse list is dropped.                        *)
CallPop(c, rest) ==
    /\ c.op = "pop"
    /\ SetHw(c.src, [Src(c.src) EXCEPT !.seq = Front(@)])
    /\ todo' = rest
    /\ UNCHANGED <<smsVars, conn, link, rtdl, rtdlCount, used>>

(* unregisterHWSources(), for one hardware source: finish its pulses,       *)
(* oldest first.                                                           *)
CallLeave(c, rest) ==
    /\ c.op = "leave"
    /\ LET seq == Reverse(Src(c.src).seq)
       IN  todo' = (IF Src(c.src).smsId = NoSms THEN <<>>
                    ELSE [k \in DOMAIN seq |-> Call("drop", c.src, seq[k])])
                   \o <<Call("unregister", c.src, None)>> \o rest
    /\ UNCHANGED <<smsVars, dsVars, used>>

(* Release the bit a source still has, and forget the source.               *)
CallUnregister(c, rest) ==
    /\ c.op = "unregister"
    /\ IF Src(c.src).smsId = NoSms
       THEN UNCHANGED <<pulses, stream, lastPid, eventSources, owner>>
       ELSE unregisterEventSource(Src(c.src).smsId)
    /\ hw' = [hw EXCEPT ![c.src[1]] = Without(@, {c.src[2]})]
    /\ todo' = rest
    /\ UNCHANGED <<newPulses, popped, conn, link, rtdl, rtdlCount, used>>

LeaveAll(d) == SetToSeq({Call("leave", <<d, h>>, None) : h \in DOMAIN hw[d]})

(* Mutant: the retry timer is not started.                                  *)
FailedWithoutRetry(d, state) ==
    /\ conn' = [conn EXCEPT ![d] = state]
    /\ link' = [link EXCEPT ![d].fdreg = None, ![d].timer = FALSE]
    /\ rtdl' = [rtdl EXCEPT ![d].last = 0]
    /\ todo' = LeaveAll(d)
    /\ UNCHANGED <<smsVars, hw, rtdlCount>>

(* connectionFailed(): the state is set first, then the hardware sources    *)
(* of the connection are let go.                                           *)
connectionFailed(d, state) ==
    /\ conn' = [conn EXCEPT ![d] = state]
    /\ link' = [link EXCEPT ![d].fdreg = None, ![d].timer = (state # "DISABLED")]
    /\ rtdl' = [rtdl EXCEPT ![d].last = 0]
    /\ todo' = LeaveAll(d)
    /\ UNCHANGED <<smsVars, hw, rtdlCount>>

----------------------------------------------------------------------------
(* Event packets.                                                          *)

Idle == todo = <<>> /\ \A d \in Sources : conn[d] # "FAULT"
Active(d) == Idle /\ conn[d] = "ACTIVE"

(* dataReady(): the data timer starts again and every source is told that   *)
(* no read is late.                                                        *)
Restarted(d) ==
    [x \in Sources |-> [link[x] EXCEPT !.delay = FALSE,
                           !.timer = IF x = d THEN TRUE ELSE @,
                           !.retries = IF x = d THEN 0 ELSE @]]
dataReady(d) == link' = Restarted(d)

FreeBits == SmsIds \ eventSources
registerEventSource(d) ==
    /\ eventSources' = eventSources \union {Min(FreeBits)}
    /\ owner' = [owner EXCEPT ![Min(FreeBits)] = d]

NewHWSource(bit) == [smsId |-> bit, intermittent |-> FALSE, recover |-> 0,
                     noData |-> 0, seq |-> <<>>]

(* getHWSource(): a source that speaks for the first time gets a bit.       *)
getHWSource(s) ==
    IF s[2] \in DOMAIN hw[s[1]] THEN UNCHANGED <<eventSources, owner>>
    ELSE registerEventSource(s[1])
Source(s) == IF s[2] \in DOMAIN hw[s[1]] THEN Src(s)
             ELSE NewHWSource(Min(FreeBits))

HasPulse(src, id, shape) ==
    \E k \in DOMAIN src.seq : src.seq[k].id = id /\ src.seq[k].shape = shape
Dups(src, id) == Cardinality({k \in DOMAIN src.seq : src.seq[k].id = id})

(* handleDataPkt(), to the point where the pulse of the packet is known in  *)
(* the source's own list (HWSource::getPulse()).                           *)
DataPkt(s, id, shape, eop, empty, lost) ==
    /\ Active(s[1]) /\ used.packets < MaxPackets
    /\ s[2] \in DOMAIN hw[s[1]] \/ FreeBits # {}
    /\ LET src == Source(s)
           new == ~HasPulse(src, id, shape)
           entry == [id |-> id, shape |-> shape, dup |-> Dups(src, id),
                     good |-> FALSE]
           full == new /\ Len(src.seq) >= MaxPulseSeqList
       IN  /\ new => entry.dup <= MaxDup
           /\ SetHw(s, IF new THEN [src EXCEPT !.seq = <<entry>> \o @] ELSE src)
           /\ todo' = (IF full THEN <<Call("drop", s, Last(src.seq)),
                                      Call("pop", s, None)>> ELSE <<>>)
                      \o <<Call("accept", s,
                                [id |-> id, shape |-> shape, eop |-> eop,
                                 new |-> new, empty |-> empty, lost |-> lost,
                                 batch |-> used.packets + 1])>>
    /\ getHWSource(s)
    /\ dataReady(s[1])
    /\ (empty => eop) /\ Room(IF lost THEN 2 ELSE 1)
    /\ used' = [used EXCEPT !.packets = @ + 1, !.extras = IF lost THEN @ + 1 ELSE @]
    /\ UNCHANGED <<pulses, lastPid, newPulses, stream, popped, conn, rtdl,
                   rtdlCount>>

(* The rest of handleDataPkt().  A source that was found intermittent gets  *)
(* a bit again after IntermittentDataThreshold packets; when no bit is left *)
(* registerEventSource() throws, and the connection is given up.           *)
Recovering(src, a) == src.intermittent /\ (a.new \/ ~a.empty)
Recovers(src, a) == Recovering(src, a)
                    /\ src.recover + 1 >= IntermittentDataThreshold
newPulse(id) == id \notin BadTimes

CallAccept(c, rest) ==
    /\ c.op = "accept"
    /\ LET s == c.src
           a == c.arg
           k == At(s, a)
           src == Src(s)
           good == IF a.new THEN newPulse(a.id) ELSE src.seq[k].good
           pid == Pid(a.id, src.seq[k].dup)
           older == Reverse(SubSeq(src.seq, k + 1, Len(src.seq)))
           noBit == Recovers(src, a) /\ FreeBits = {}
       IN  IF src.intermittent /\ ~Recovering(src, a)
           THEN /\ SetHw(s, WithGood(s, a, FALSE))
                /\ todo' = rest
                /\ UNCHANGED <<eventSources, owner, conn, link, rtdl>>
           ELSE IF noBit THEN connectionFailed(s[1], "IDLE")
           ELSE /\ IF Recovers(src, a)
                   THEN registerEventSource(s[1])
                   ELSE UNCHANGED <<eventSources, owner>>
                /\ SetHw(s, [WithGood(s, a, good) EXCEPT
                     !.noData = 0,
                     !.smsId = IF Recovers(src, a) THEN Min(FreeBits) ELSE @,
                     !.intermittent = @ /\ ~Recovers(src, a),
                     !.recover = IF Recovers(src, a) THEN 0
                                 ELSE IF Recovering(src, a) THEN @ + 1 ELSE @])
                /\ todo' = (IF ~good THEN <<>>
                            ELSE <<Call("events", s, [pid |-> pid, lost |-> a.lost,
                                       empty |-> a.empty, batch |-> a.batch])>>)
                           \o (IF a.eop
                               THEN [j \in DOMAIN older |->
                                        Call("drop", s, older[j])]
                                    \o <<Call("end", s, a)>>
                               ELSE <<>>)
                           \o rest
                /\ UNCHANGED <<conn, link, rtdl>>
    /\ UNCHANGED <<pulses, lastPid, newPulses, stream, popped, rtdlCount, used>>

(* pulseEvents(): the events of the packet join the pulse.                  *)
CallEvents(c, rest) ==
    /\ c.op = "events"
    /\ pulses' = [pulses EXCEPT
                     ![c.arg.pid].batches = IF c.arg.empty THEN @
                                            ELSE @ \union {c.arg.batch}]
    /\ Touch(c)
    /\ todo' = (IF c.arg.lost THEN <<[c EXCEPT !.op = "partial"]>> ELSE <<>>) \o rest
    /\ UNCHANGED <<eventSources, owner, newPulses, stream, popped,
                   dsVars, used>>

(* A source list packet introduces the hardware sources before their data. *)
SourceListPkt(s) ==
    /\ Active(s[1]) /\ s[2] \notin DOMAIN hw[s[1]] /\ FreeBits # {}
    /\ SetHw(s, Source(s)) /\ getHWSource(s) /\ dataReady(s[1])
    /\ Extra
    /\ UNCHANGED <<pulses, lastPid, newPulses, stream, popped, conn, rtdl,
                   rtdlCount, todo>>

----------------------------------------------------------------------------
(* RTDL packets: the accelerator's word on a pulse, from every source.      *)

RTDLPkt(d, id) ==
    LET dup == IF id = rtdl[d].last THEN rtdl[d].dup + 1 ELSE 0
        pid == Pid(id, dup)
        checks == (rtdlCount + 1) % RTDLFreq = 0
        silent == {h \in DOMAIN hw[d] :
                      hw[d][h].noData + RTDLFreq > RTDLNoDataThresh}
    IN  /\ Active(d) /\ dup <= MaxDup
        /\ rtdl' = [rtdl EXCEPT ![d] = [last |-> id, dup |-> dup]]
        /\ rtdlCount' = (rtdlCount + 1) % RTDLFreq
        /\ hw' = IF checks
                 THEN [hw EXCEPT ![d] = [h \in DOMAIN hw[d] |->
                          [hw[d][h] EXCEPT !.noData = @ + RTDLFreq]]]
                 ELSE hw
        /\ todo' = (IF id \in BadTimes THEN <<>>
                    ELSE <<Call("rtdl", None, [pid |-> pid])>>)
                   \o (IF checks
                       THEN SetToSeq({Call("unregister", <<d, h>>, None) :
                                        h \in silent})
                       ELSE <<>>)
        /\ dataReady(d)
        /\ Extra
        /\ UNCHANGED <<smsVars, conn>>

(* pulseRTDL(): a pulse nobody is waited for any more is finished here.     *)
CallRTDL(c, rest) ==
    /\ c.op = "rtdl"
    /\ LET pid == c.arg.pid
           over == pulses[pid].pending = {}
       IN  IF pulses[pid].rtdl THEN todo' = rest /\ UNCHANGED pulses
           ELSE /\ pulses' = [pulses EXCEPT ![pid].rtdl = TRUE,
                                            ![pid].partial = @ \/ over]
                /\ todo' = (IF over THEN <<Call("settle", None,
                                            [pid |-> pid, smsId |-> NoSms])>>
                            ELSE <<>>) \o rest
    /\ Touch(c)
    /\ UNCHANGED <<eventSources, owner, newPulses, stream, popped, dsVars, used>>

----------------------------------------------------------------------------
(* Connections.                                                            *)

(* What connect() may answer, and what startConnect() makes of it.          *)
ConnectAnswers == {"refused", "inprogress", "done", "error"}
startConnect(d, answer) ==
    IF answer = "refused" THEN connectionFailed(d, "IDLE")
    ELSE /\ conn' = [conn EXCEPT ![d] = CASE answer = "inprogress" -> "CONNECTING"
                                          [] answer = "done" -> "ACTIVE"
                                          [] OTHER -> "IDLE"]
         /\ link' = [link EXCEPT
                ![d].fdreg = IF answer = "inprogress" THEN "write" ELSE "read",
                ![d].timer = TRUE]
         /\ UNCHANGED <<smsVars, hw, rtdl, rtdlCount, todo>>

Connects(d, answer) ==
    startConnect(d, answer)
    /\ IF answer \in {"refused", "error"} THEN Extra ELSE UNCHANGED used

Enable(d) ==
    /\ Idle /\ conn[d] = "DISABLED"
    /\ \E answer \in ConnectAnswers : Connects(d, answer)

Disable(d) == Idle /\ conn[d] # "DISABLED" /\ connectionFailed(d, "DISABLED")
              /\ Extra

(* timerExpired(), with the timer of each state.  A timer that ran out      *)
(* while the service itself was late in reading is started again.          *)
TimerDelayed(d) ==
    /\ Idle /\ link[d].timer /\ link[d].delay
    /\ link' = [link EXCEPT ![d].delay = FALSE,
                   ![d].retries = IF conn[d] = "ACTIVE" THEN 0 ELSE @]
    /\ UNCHANGED <<smsVars, conn, hw, rtdl, rtdlCount, todo, used>>

RetryTimer(d) ==
    /\ Idle /\ link[d].timer /\ ~link[d].delay /\ conn[d] = "IDLE"
    /\ \E answer \in ConnectAnswers : Connects(d, answer)

ConnectTimer(d) ==
    /\ Idle /\ link[d].timer /\ ~link[d].delay /\ conn[d] = "CONNECTING"
    /\ connectionFailed(d, "IDLE") /\ Extra

DataTimer(d) ==
    /\ Idle /\ link[d].timer /\ ~link[d].delay /\ conn[d] = "ACTIVE"
    /\ IF link[d].retries + 1 > DataTimeoutRetry
       THEN connectionFailed(d, "IDLE") /\ Extra
       ELSE /\ link' = [link EXCEPT ![d].retries = @ + 1]
            /\ UNCHANGED <<smsVars, conn, hw, rtdl, rtdlCount, todo, used>>

(* fdReady() before the connection is known to stand.                       *)
ConnectComplete(d) ==
    /\ Idle /\ conn[d] = "CONNECTING" /\ link[d].fdreg # None
    /\ \/ /\ conn' = [conn EXCEPT ![d] = "ACTIVE"]
          /\ link' = [link EXCEPT ![d] = [@ EXCEPT !.fdreg = "read",
                                             !.timer = TRUE, !.retries = 0]]
          /\ UNCHANGED <<smsVars, hw, rtdl, rtdlCount, todo, used>>
       \/ connectionFailed(d, "IDLE") /\ Extra

(* fdReady() in state IDLE throws, and nothing catches it but main().       *)
FdReadyIdle(d) ==
    /\ Idle /\ conn[d] = "IDLE" /\ link[d].fdreg # None
    /\ conn' = [conn EXCEPT ![d] = "FAULT"]
    /\ UNCHANGED <<smsVars, link, hw, rtdl, rtdlCount, todo, used>>

(* The peer closes the connection, or a packet cannot be read.              *)
Disconnect(d) == Active(d) /\ connectionFailed(d, "IDLE") /\ Extra

(* A read that took so long that the other timers may be out of date.       *)
SlowRead(d) ==
    /\ Active(d)
    /\ link' = [x \in Sources |-> [Restarted(d)[x] EXCEPT !.delay = TRUE]]
    /\ Extra
    /\ UNCHANGED <<smsVars, conn, hw, rtdl, rtdlCount, todo>>

(* A heartbeat says that the source has nothing to send: its hardware       *)
(* sources are let go, the connection stays.                               *)
HeartbeatPkt(d) ==
    /\ Active(d) /\ hw[d] # <<>>
    /\ rtdl' = [rtdl EXCEPT ![d].last = 0]
    /\ todo' = LeaveAll(d)
    /\ dataReady(d) /\ Extra
    /\ UNCHANGED <<smsVars, conn, hw, rtdlCount>>

(* popPulseBuffer(): the operator throws a pulse away.                      *)
PopPulseBuffer(pid) ==
    /\ Idle /\ pid \in DOMAIN pulses
    /\ popped' = popped \union pulses[pid].batches
    /\ pulses' = Without(pulses, {pid})
    /\ lastPid' = IF lastPid = pid THEN NoPid ELSE lastPid
    /\ Extra
    /\ UNCHANGED <<eventSources, owner, newPulses, stream, dsVars, todo>>

----------------------------------------------------------------------------
Init ==
    /\ pulses = <<>> /\ eventSources = {} /\ owner = [i \in SmsIds |-> None]
    /\ lastPid = NoPid /\ newPulses = 0 /\ stream = <<>> /\ popped = {}
    /\ conn = [d \in Sources |-> "DISABLED"]
    /\ link = [d \in Sources |-> [fdreg |-> None, timer |-> FALSE, retries |-> 0,
                                  delay |-> FALSE]]
    /\ hw = [d \in Sources |-> <<>>]
    /\ rtdl = [d \in Sources |-> [last |-> 0, dup |-> 0]]
    /\ rtdlCount = 0 /\ todo = <<>>
    /\ used = [packets |-> 0, extras |-> 0]

Handle(c, rest) ==
    \/ CallDrop(c, rest) \/ CallPartial(c, rest) \/ CallEnd(c, rest)
    \/ CallSettle(c, rest) \/ CallComplete(c, rest) \/ CallPop(c, rest)
    \/ CallLeave(c, rest) \/ CallUnregister(c, rest) \/ CallAccept(c, rest)
    \/ CallEvents(c, rest) \/ CallRTDL(c, rest)

HandlerStep ==
    /\ todo # <<>>
    /\ \/ CallGet(Head(todo))
       \/ Ready(Head(todo)) /\ Handle(Head(todo), Tail(todo))

Packet ==
    \/ \E s \in Sources \X HwIds, id \in PulseIds, shape \in Shapes,
          eop, empty, lost \in BOOLEAN :
              DataPkt(s, id, shape, eop, empty, lost)
    \/ \E s \in Sources \X HwIds : SourceListPkt(s)
    \/ \E d \in Sources, id \in PulseIds : RTDLPkt(d, id)
    \/ \E d \in Sources : HeartbeatPkt(d)

Connection ==
    \E d \in Sources :
        \/ Enable(d) \/ Disable(d) \/ TimerDelayed(d) \/ RetryTimer(d)
        \/ ConnectTimer(d) \/ DataTimer(d) \/ ConnectComplete(d)
        \/ FdReadyIdle(d) \/ Disconnect(d) \/ SlowRead(d)

Next == HandlerStep \/ Packet \/ Connection
        \/ \E pid \in Pids : PopPulseBuffer(pid)

Spec == Init /\ [][Next]_vars

----------------------------------------------------------------------------
Pulse == [pending : SUBSET SmsIds, partial : BOOLEAN, rtdl : BOOLEAN,
          batches : SUBSET Batches]

(* The variables keep their types, for every packet, timer and command.    *)
TypeOK ==
    /\ DOMAIN pulses \subseteq Pids /\ \A p \in DOMAIN pulses : pulses[p] \in Pulse
    /\ eventSources \subseteq SmsIds
    /\ owner \in [SmsIds -> Sources \union {None}]
    /\ lastPid \in Pids \union {NoPid} /\ newPulses \in 0 .. OverflowFreq - 1
    /\ popped \subseteq Batches
    /\ conn \in [Sources -> {"DISABLED", "IDLE", "CONNECTING", "ACTIVE", "FAULT"}]
    /\ \A d \in Sources : DOMAIN hw[d] \subseteq HwIds

(* The map iterator getPulse() caches never outlives its pulse: every path *)
(* that erases pulses (completion, departure, overflow, the operator)      *)
(* leaves the cache empty or pointing at a pulse that is still in the map. *)
CacheValid == lastPid \in DOMAIN pulses \union {NoPid}

(* Nobody waits for a source that has gone: the bits a pulse waits for are *)
(* registered, and between handlers every registered bit belongs to one    *)
(* hardware source of the connection that owns it.  A stray bit would hold *)
(* back every later pulse until the buffer overflows.                      *)
NoWaitOnDeparted ==
    /\ \A p \in DOMAIN pulses : pulses[p].pending \subseteq eventSources
    /\ todo = <<>> =>
        \A i \in SmsIds :
            /\ i \in eventSources <=> owner[i] # None
            /\ i \in eventSources =>
                /\ conn[owner[i]] \in {"ACTIVE", "FAULT"}
                /\ Cardinality({h \in DOMAIN hw[owner[i]] :
                                   hw[owner[i]][h].smsId = i}) = 1

(* A source that is enabled is never forgotten: some timer is running that  *)
(* retries the connection, gives up on it or notices its silence.          *)
TimerRunning == \A d \in Sources :
                    conn[d] \notin {"DISABLED", "FAULT"} => link[d].timer

(* The pulses recorded follow PulseStream: oldest first, each with exactly *)
(* the events it was given, nothing taken back.                            *)
Held == [p \in DOMAIN pulses |-> pulses[p].batches]
PS == INSTANCE PulseStream WITH held <- Held
RecordsPulseStream == PS!Spec

=============================================================================
