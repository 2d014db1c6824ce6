----------------------------- MODULE PVStreamer -----------------------------
(***************************************************************************)
(* The input half of the PV streamer: the agents of                        *)
(* PVStreamer/epics/EPICS_DeviceAgent.cpp, one for each device, and the    *)
(* thread of PVStreamer/epics/EPICS_InputAdapter.cpp that follows the      *)
(* configuration file.  An agent has a channel for every variable, a       *)
(* control thread that defines the device once all of them are ready, and  *)
(* a monitor thread that gives the device up after a while.  Callbacks of  *)
(* EPICS come from other threads; the agent's lock is free again when its  *)
(* outbox is empty.                                                        *)
(*                                                                         *)
(* A memory error of the program (a null or freed descriptor is used) is   *)
(* the end of the behaviour: crashed.                                      *)
(***************************************************************************)
EXTENDS PVOutput

CONSTANTS
    Files,      \* the contents the configuration file may have
    Metas,      \* metadata of a channel: [type, units]
    Vals,       \* values a variable may have; 0 means not active
    MaxReads,   \* bound on changes of the file
    MaxEvents   \* bound on what EPICS, timers and lost clients do

ASSUME StreamerAssumption ==
    /\ {MaxReads, MaxEvents} \subseteq Nat /\ 0 \in Vals
    /\ \A f \in Files : f \in Seq([dev : Devices, on : BOOLEAN, pvs : Seq(Conns),
                                  act : Conns \cup {None}])

VARIABLES
    agent,      \* m_dev_agents and m_garbage: device -> agent
    chan,       \* m_chan_info: device -> variable -> channel
    file,       \* m_config_buffer
    todo,       \* what the file thread has yet to do for the new contents
    crashed,
    events, reads   \* used of their bounds

agentVars == <<agent, chan, file, todo, crashed, events, reads>>
vars == <<agentVars, known, outbox, outVars, lastVer, dropped>>

NoAgent == [on |-> FALSE, garbage |-> FALSE, desc |-> None, rec |-> None,
            defined |-> FALSE, changed |-> FALSE, mon |-> "ready"]

(* PV_INT is the type a variable has before its channel is known. *)
NoMeta == [type |-> "int", units |-> "none"]

Init ==
    /\ OutputInit
    /\ agent = [d \in Devices |-> NoAgent]
    /\ chan = [d \in Devices |-> Empty]
    /\ file = <<>> /\ todo = <<>> /\ crashed = FALSE /\ events = 0 /\ reads = 0

Up == ~crashed
Locked(d) == outbox[d] # <<>>
Event == events < MaxEvents /\ events' = events + 1 /\ UNCHANGED reads
NoEvent == UNCHANGED <<events, reads>>

(* An agent handles a stimulus when its lock is free. *)
Runs(d) == Up /\ agent[d].on /\ ~Locked(d)

(* The transient descriptor first, the record second. *)
Current(a) == IF a.desc # None THEN a.desc ELSE a.rec
get_desc(d) == Current(agent[d])

------------------------------------------------------------------------------
(* Sending values. *)

(* The descriptor a channel's variable belongs to. *)
PvOwner(a, ch) == CASE ch.pv = "desc" -> a.desc
                    [] ch.pv # "desc" /\ a.rec # None -> a.rec
                    [] OTHER -> ch.dev
Ignored(a, ch, c) == LET D == PvOwner(a, ch) IN D # None /\ D.act = c /\ D.ign

(* Every channel's value but that of an active variable that is left out. *)
sendCurrentValues(a, ch) ==
    LET cs == SetToSeq({c \in DOMAIN ch : ~Ignored(a, ch[c], c)})
    IN  [i \in DOMAIN cs |-> ValuePacket(ch[cs[i]].dev, cs[i], ch[cs[i]].val)]

(* A step of agent d that sends packets and may change the record the       *)
(* configuration manager keeps.                                             *)
Send(d, pkts) == outbox' = [outbox EXCEPT ![d] = pkts]

(* The active variable of the record is read and written in place; the      *)
(* configuration manager keeps the same object.                             *)
Shared(d, rec) == [known EXCEPT ![d] = IF @ # None /\ rec # None /\ @.ver = rec.ver
                                       THEN rec ELSE @]

------------------------------------------------------------------------------
(* Channels. *)

NewChan == [st |-> "uninitialized", up |-> FALSE, ca |-> NoMeta, ioc |-> NoMeta,
            got |-> FALSE, dev |-> None, pv |-> "desc", val |-> Unread]

(* A channel that stays when the device is updated: everything is asked for *)
(* again, unless it has never been connected.                               *)
Reused(ch) == [ch EXCEPT !.pv = "desc", !.dev = None,
                         !.st = IF @ # "uninitialized" THEN "needed" ELSE @]

(* CA_OP_CONN_UP: the type of the channel is known now, its units are not,  *)
(* and the units of a string are not asked for.                             *)
ConnectionUp(d, c) ==
    /\ Runs(d) /\ Event
    /\ c \in DOMAIN chan[d] /\ ~chan[d][c].up
    /\ \E m \in Metas :
         LET D == PvOwner(agent[d], chan[d][c])
             type == IF D = None THEN "int" ELSE D.meta[c].type
         IN  chan' = [chan EXCEPT ![d][c].up = TRUE, ![d][c].ioc = m,
                                  ![d][c].ca.type = m.type, ![d][c].got = FALSE,
                                  ![d][c].st = IF type = "string" THEN "available"
                                               ELSE "needed"]
    /\ agent' = [agent EXCEPT ![d].changed = TRUE]
    /\ UNCHANGED <<file, todo, crashed, known, outbox, outVars, lastVer, dropped>>

(* The active variable a channel's descriptor has, and how sure it is. *)
SetActive(a, ch, c, x) ==
    IF ch.pv = "desc" /\ a.desc # None /\ a.desc.act = c THEN [a EXCEPT !.desc.isact = x]
    ELSE IF ch.pv = "rec" /\ a.rec # None /\ a.rec.act = c THEN [a EXCEPT !.rec.isact = x]
    ELSE a

(* CA_OP_CONN_DOWN: the value no longer counts; the state of the channel    *)
(* stays what it was.                                                       *)
ConnectionDown(d, c) ==
    /\ Runs(d) /\ Event
    /\ c \in DOMAIN chan[d] /\ chan[d][c].up
    /\ LET val == [chan[d][c].val EXCEPT !.st = "comm"]
           a == SetActive(agent[d], chan[d][c], c, "unknown")
       IN  /\ chan' = [chan EXCEPT ![d][c].up = FALSE, ![d][c].got = FALSE,
                                   ![d][c].val = val]
           /\ agent' = [agent EXCEPT ![d] = a]
           /\ known' = Shared(d, a.rec)
           /\ Send(d, IF Ignored(a, chan[d][c], c) \/ ~a.defined THEN <<>>
                      ELSE <<ValuePacket(chan[d][c].dev, c, val)>>)
    /\ UNCHANGED <<file, todo, crashed, outVars, lastVer, dropped>>

(* The value in a time record, whatever its type. *)
updateState(v) == [v |-> v, st |-> "ok"]

(* A time record: a new value.  That of the active variable decides whether *)
(* the device is active; the values follow when it is, and the variables    *)
(* are undefined when it is not.                                            *)
TimeRecord(d, c) ==
    /\ Runs(d) /\ Event
    /\ c \in DOMAIN chan[d] /\ chan[d][c].up
    /\ \E v \in Vals :
         LET val == updateState(v)
             on == v # 0
             ch == [chan[d] EXCEPT ![c].val = val]
             a0 == SetActive(agent[d], ch[c], c, IF on THEN "active" ELSE "inactive")
             D == PvOwner(a0, ch[c])
             isActivePv == D # None /\ D.act = c
             a == IF isActivePv /\ ch[c].dev # None /\ a0.rec # None
                  THEN [a0 EXCEPT !.rec.active = on] ELSE a0
             follow == IF ~isActivePv \/ ch[c].dev = None THEN <<>>
                       ELSE IF on THEN sendCurrentValues(a, ch)
                       ELSE IF a.rec # None THEN undefineDevice(d, FALSE)
                       ELSE <<>>
         IN  /\ chan' = [chan EXCEPT ![d] = ch]
             /\ agent' = [agent EXCEPT ![d] = a]
             /\ known' = Shared(d, a.rec)
             /\ Send(d, follow \o (IF Ignored(a, ch[c], c) \/ ~a.defined THEN <<>>
                                   ELSE <<ValuePacket(ch[c].dev, c, val)>>))
    /\ UNCHANGED <<file, todo, crashed, outVars, lastVer, dropped>>

(* A control record: the answer to ca_get_callback(). *)
CtrlRecord(d, c) ==
    /\ Runs(d)
    /\ c \in DOMAIN chan[d] /\ chan[d][c].up /\ chan[d][c].got
    /\ LET pending == chan[d][c].st = "pending" IN
         /\ chan' = [chan EXCEPT ![d][c].got = FALSE,
                                 ![d][c].ca.units = chan[d][c].ioc.units,
                                 ![d][c].st = IF pending THEN "available" ELSE @]
         /\ agent' = [agent EXCEPT ![d].changed = @ \/ pending]
    /\ UNCHANGED <<file, todo, crashed, events, reads, known, outbox, outVars, lastVer, dropped>>

------------------------------------------------------------------------------
(* The control thread. *)

(* The metadata of channels S become those of their variables. *)
setMetadata(D, ch, S) == [D EXCEPT !.meta = With(@, [c \in S |-> ch[c].ca])]

PvMeta(a, ch, c) == IF ch[c].pv = "desc" THEN a.desc.meta[c] ELSE ch[c].dev.meta[c]

In(ch, S) == {c \in DOMAIN ch : ch[c].st \in S}

(* Channels of a defined device whose metadata are not what was defined. *)
Unequal(a, ch) == {c \in In(ch, {"available"}) : a.defined /\ PvMeta(a, ch, c) # ch[c].ca}

(* The scan of channels S: the metadata of one that is connected are asked  *)
(* for, those that are available are taken.                                 *)
Scanned(ch, S) ==
    [c \in DOMAIN ch |->
       IF c \in S /\ ch[c].st = "needed" /\ ch[c].up
       THEN [ch[c] EXCEPT !.st = "pending", !.got = TRUE]
       ELSE IF c \in S /\ ch[c].st = "available" THEN [ch[c] EXCEPT !.st = "ready"]
       ELSE ch[c]]

(* The device is to be redefined: a copy of the record becomes the          *)
(* transient descriptor, and the metadata of every channel are fetched anew *)
(* but those that just came.                                                *)
Transient(rec) == [id |-> rec.id, pvs |-> rec.pvs, act |-> rec.act, ign |-> rec.ign,
                   meta |-> rec.meta, isact |-> rec.isact, active |-> rec.active]

metadataUpdated(ch) ==
    [c \in DOMAIN ch |->
       [ch[c] EXCEPT !.dev = None, !.pv = "desc",
                     !.st = CASE @ = "available" -> "ready"
                              [] @ = "ready" -> "needed"
                              [] OTHER -> @]]

(* The scan stops at the first channel whose metadata changed. *)
MetadataChanged(d) ==
    /\ Runs(d) /\ agent[d].changed
    /\ agent[d].rec # None
    /\ Unequal(agent[d], chan[d]) # {}
    /\ \E S \in SUBSET (DOMAIN chan[d] \ Unequal(agent[d], chan[d])) :
         LET ch == Scanned(chan[d], S) IN
           /\ chan' = [chan EXCEPT ![d] = metadataUpdated(ch)]
           /\ agent' = [agent EXCEPT ![d].defined = FALSE,
                          ![d].desc = setMetadata(Transient(agent[d].rec), ch,
                                                  In(ch, {"available"}))]
    /\ UNCHANGED <<file, todo, crashed, events, reads, known, outbox, outVars, lastVer, dropped>>

(* There is no record to copy when the agent is being stopped. *)
MetadataWithoutRecord(d) ==
    /\ Runs(d) /\ agent[d].changed
    /\ agent[d].rec = None /\ Unequal(agent[d], chan[d]) # {}
    /\ crashed' = TRUE
    /\ UNCHANGED <<agent, chan, file, todo, events, reads, known, outbox, outVars, lastVer, dropped>>

(* The scan of all channels, with the descriptor they fill in. *)
AfterScan(d) ==
    LET a == agent[d]
        S == {c \in In(chan[d], {"available"}) : chan[d][c].pv = "desc"}
    IN  [a EXCEPT !.changed = FALSE,
                  !.desc = IF @ = None THEN None ELSE setMetadata(@, chan[d], S)]

(* All variables are ready: more than none, and as many as the device has. *)
AllReady(a, ch) == LET ready == Cardinality(In(ch, {"ready"})) IN
                     ready > 0 /\ ready = Cardinality(Members(a.desc))

ScanOnly(d) ==
    /\ Runs(d) /\ agent[d].changed /\ Unequal(agent[d], chan[d]) = {}
    /\ LET ch == Scanned(chan[d], DOMAIN chan[d])
           a == AfterScan(d)
       IN  /\ ~(a.desc # None /\ ~a.defined /\ AllReady(a, ch))
           /\ chan' = [chan EXCEPT ![d] = ch]
           /\ agent' = [agent EXCEPT ![d] = a]
    /\ UNCHANGED <<file, todo, crashed, events, reads, known, outbox, outVars, lastVer, dropped>>

(* The channels' variables become those of the record. *)
Bound(ch, rec) == [c \in DOMAIN ch |-> IF c \in Members(rec)
                                       THEN [ch[c] EXCEPT !.dev = rec, !.pv = "rec"]
                                       ELSE ch[c]]

(* What the active variable says after the device is defined: the state of  *)
(* the device and the packets it takes.                                     *)
Activated(rec) == CASE rec.act # None /\ rec.isact = "active" -> TRUE
                    [] rec.act # None /\ rec.isact = "inactive" -> FALSE
                    [] OTHER -> rec.active

ActivePackets(rec, changed, values) ==
    CASE rec.act = None -> <<>>
      [] rec.act # None /\ rec.isact = "active" -> IF changed THEN <<>> ELSE values
      [] rec.act # None /\ rec.isact = "unknown" ->
           IF rec.active /\ ~changed THEN values ELSE <<>>
      [] OTHER -> sendPvUndefined(rec, rec.pvs)

Define(d) ==
    /\ Runs(d) /\ agent[d].changed /\ Unequal(agent[d], chan[d]) = {}
    /\ LET ch == Scanned(chan[d], DOMAIN chan[d])
           a == AfterScan(d)
           r == defineDevice(d, a.desc)
           rec == [r.rec EXCEPT !.active = Activated(r.rec)]
           bound == Bound(ch, r.rec)
           defd == [a EXCEPT !.rec = rec, !.desc = None, !.defined = TRUE]
           values == sendCurrentValues(defd, bound)
       IN  /\ a.desc # None /\ ~a.defined /\ AllReady(a, ch)
           /\ agent' = [agent EXCEPT ![d] = defd]
           /\ chan' = [chan EXCEPT ![d] = bound]
           /\ known' = [known EXCEPT ![d] = rec]
           /\ lastVer' = IF r.changed THEN lastVer + 1 ELSE lastVer
           /\ crashed' = Dangling(a.desc, known[d])
           /\ Send(d, r.pkts \o (IF r.changed THEN values ELSE <<>>)
                        \o ActivePackets(r.rec, r.changed, values))
    /\ UNCHANGED <<file, todo, events, reads, outVars, dropped>>

------------------------------------------------------------------------------
(* The monitor thread, once a second. *)

MonitorReady(d) ==
    /\ Runs(d) /\ agent[d].mon = "ready" /\ ~agent[d].defined
    /\ agent' = [agent EXCEPT ![d].mon = "initializing"]
    /\ UNCHANGED <<chan, file, todo, crashed, events, reads, known, outbox, outVars, lastVer, dropped>>

MonitorDefined(d) ==
    /\ Runs(d) /\ agent[d].mon \in {"initializing", "fault"} /\ agent[d].defined
    /\ agent' = [agent EXCEPT ![d].mon = "ready"]
    /\ UNCHANGED <<chan, file, todo, crashed, events, reads, known, outbox, outVars, lastVer, dropped>>

(* The device is not defined when the timer runs out: the signal is         *)
(* asserted and the record, if there is one, undefined.                     *)
MonitorHung(d) ==
    /\ Runs(d) /\ Event
    /\ agent[d].mon = "initializing" /\ ~agent[d].defined
    /\ IF agent[d].desc = None
       THEN crashed' = TRUE /\ UNCHANGED <<agent, known, outbox>>
       ELSE /\ LET act == agent[d].desc.isact IN
                 agent' = [agent EXCEPT
                   ![d].mon = "fault", ![d].rec = None,
                   ![d].desc.active = IF agent[d].desc.act = None \/ act = "unknown"
                                      THEN @ ELSE act = "active"]
            /\ known' = [known EXCEPT ![d] = IF agent[d].rec = None THEN @ ELSE None]
            /\ Send(d, IF agent[d].rec = None THEN <<>> ELSE undefineDevice(d, TRUE))
            /\ UNCHANGED crashed
    /\ UNCHANGED <<chan, file, todo, outVars, lastVer, dropped>>

------------------------------------------------------------------------------
(* The configuration file: a sequence of [dev, on, pvs, act]. *)

(* Every device counts in the numbers, whether it is used or not. *)
Descriptor(f, i) ==
    [id |-> i, pvs |-> Besides(f[i].pvs, {f[i].act}), act |-> f[i].act,
     ign |-> f[i].act \notin ToSet(f[i].pvs), meta |-> [c \in Conns |-> NoMeta],
     isact |-> "inactive", active |-> f[i].act = None]

Used(f) == Sorted({i \in DOMAIN f : f[i].on /\ f[i].pvs # <<>>})
Unused(f) == Sorted({i \in DOMAIN f : ~f[i].on})
Names(f) == {f[i].dev : i \in ToSet(Used(f))}

(* A device twice, a variable twice in a device, or nothing at all is an    *)
(* error, and nothing changes.                                              *)
parseConfigBuffer(f) ==
    /\ f # <<>>
    /\ \A i, j \in ToSet(Used(f)) : f[i].dev = f[j].dev => i = j
    /\ \A i \in ToSet(Used(f)) : IsInjective(f[i].pvs)

Op(kind, d, D, id) == [op |-> kind, dev |-> d, desc |-> D, id |-> id, disc |-> <<>>,
                       had |-> FALSE, old |-> None]

(* Devices that are no longer listed are stopped, those at the place of an  *)
(* inactive one undefined, and all others started or updated.               *)
configFileMonitor ==
    /\ Up /\ todo = <<>> /\ reads < MaxReads /\ reads' = reads + 1
    /\ \A d \in Devices : ~agent[d].garbage
    /\ \E f \in Files \ {file} :
         /\ parseConfigBuffer(f)
         /\ file' = f
         /\ LET gone == SetToSeq(Names(file) \ Names(f)) IN
              todo' = [i \in DOMAIN gone |-> Op("stop", gone[i], None, 0)]
                        \o [i \in DOMAIN Unused(f) |-> Op("undefine", None, None, Unused(f)[i])]
                        \o [i \in DOMAIN Used(f) |-> Op("update", f[Used(f)[i]].dev,
                                                        Descriptor(f, Used(f)[i]), 0)]
    /\ UNCHANGED <<agent, chan, crashed, events, known, outbox, outVars, lastVer, dropped>>

Doing(k) == Up /\ todo # <<>> /\ Head(todo).op = k

(* stop(): the record is undefined, then the lock is given up to clear the  *)
(* channels.                                                                *)
StopUndefine ==
    /\ Doing("stop") /\ ~Locked(Head(todo).dev)
    /\ LET d == Head(todo).dev IN
         /\ Send(d, IF agent[d].rec = None THEN <<>> ELSE undefineDevice(d, TRUE))
         /\ known' = [known EXCEPT ![d] = IF agent[d].rec = None THEN @ ELSE None]
         /\ agent' = [agent EXCEPT ![d].rec = None]
    /\ todo' = <<[Head(todo) EXCEPT !.op = "stopping"]>> \o Tail(todo)
    /\ UNCHANGED <<chan, file, crashed, events, reads, outVars, lastVer, dropped>>

StopClear ==
    /\ Doing("stopping") /\ ~Locked(Head(todo).dev)
    /\ chan' = [chan EXCEPT ![Head(todo).dev] = Empty]
    /\ agent' = [agent EXCEPT ![Head(todo).dev].garbage = TRUE]
    /\ todo' = Tail(todo)
    /\ UNCHANGED <<file, crashed, events, reads, known, outbox, outVars, lastVer, dropped>>

(* The agent that has the number of an inactive device. *)
Holder(id) == {d \in Devices : agent[d].on /\ ~agent[d].garbage
                                 /\ get_desc(d) # None /\ get_desc(d).id = id}

undefine ==
    /\ Doing("undefine")
    /\ LET ds == Holder(Head(todo).id)
           there == {d \in ds : agent[d].rec # None}
       IN  /\ \A d \in ds : ~Locked(d)
           /\ outbox' = [d \in Devices |-> IF d \in there THEN undefineDevice(d, TRUE)
                                           ELSE outbox[d]]
           /\ known' = [d \in Devices |-> IF d \in there THEN None ELSE known[d]]
    /\ todo' = Tail(todo)
    /\ UNCHANGED <<agent, chan, file, crashed, events, reads, outVars, lastVer, dropped>>

(* The channels that update() clears: an active variable that changed and   *)
(* variables that are no longer listed.                                     *)
ToDisconnect(old, D) ==
    (IF old.act # None /\ old.act # D.act THEN <<old.act>> ELSE <<>>)
      \o Besides(old.pvs, ToSet(D.pvs))

(* update() of an agent, or of one that is new, until it first gives up the *)
(* lock.                                                                    *)
UpdateStart ==
    /\ Doing("update") /\ ~Locked(Head(todo).dev)
    /\ LET d == Head(todo).dev
           a == IF agent[d].on THEN agent[d] ELSE [NoAgent EXCEPT !.on = TRUE]
           old == Current(a)
       IN  /\ agent' = [agent EXCEPT ![d] = [a EXCEPT !.defined = FALSE]]
           /\ todo' = <<[Head(todo) EXCEPT
                           !.op = "updating", !.had = a.desc # None, !.old = old,
                           !.disc = IF old = None THEN <<>>
                                    ELSE ToDisconnect(old, Head(todo).desc)]>>
                        \o Tail(todo)
    /\ UNCHANGED <<chan, file, crashed, events, reads, known, outbox, outVars, lastVer, dropped>>

(* The old descriptor was deleted while the lock was free. *)
OldDeleted == Head(todo).had /\ agent[Head(todo).dev].desc = None

disconnectPV ==
    /\ Doing("updating") /\ ~Locked(Head(todo).dev) /\ Head(todo).disc # <<>>
    /\ chan' = [chan EXCEPT ![Head(todo).dev] = Without(@, {Head(Head(todo).disc)})]
    /\ todo' = <<[Head(todo) EXCEPT !.disc = Tail(@)]>> \o Tail(todo)
    /\ crashed' = OldDeleted
    /\ UNCHANGED <<agent, file, events, reads, known, outbox, outVars, lastVer, dropped>>

(* The new descriptor takes over the channels that stay and opens others. *)
connectPV(D, ch) == [c \in Members(D) |-> IF c \in DOMAIN ch THEN Reused(ch[c]) ELSE NewChan]

UpdateFinish ==
    /\ Doing("updating") /\ ~Locked(Head(todo).dev) /\ Head(todo).disc = <<>>
    /\ LET d == Head(todo).dev
           D == Head(todo).desc
           old == Head(todo).old
           same == old # None /\ D.act # None /\ old.act = D.act
           now == IF Head(todo).had THEN agent[d].desc ELSE agent[d].rec
       IN  /\ chan' = [chan EXCEPT ![d] = connectPV(D, @)]
           /\ agent' = [agent EXCEPT ![d].changed = TRUE,
                          ![d].desc = IF same /\ now # None THEN [D EXCEPT !.isact = now.isact]
                                      ELSE D]
    /\ crashed' = OldDeleted
    /\ todo' = Tail(todo)
    /\ UNCHANGED <<file, events, reads, known, outbox, outVars, lastVer, dropped>>

(* The garbage collector deletes an agent that is stopped; a record that    *)
(* was defined in between is undefined.                                     *)
gcThread(d) ==
    /\ Up /\ agent[d].garbage /\ todo = <<>> /\ ~Locked(d)
    /\ Send(d, IF agent[d].rec = None THEN <<>> ELSE undefineDevice(d, TRUE))
    /\ known' = [known EXCEPT ![d] = IF agent[d].rec = None THEN @ ELSE None]
    /\ agent' = [agent EXCEPT ![d] = NoAgent]
    /\ UNCHANGED <<chan, file, todo, crashed, events, reads, outVars, lastVer, dropped>>

------------------------------------------------------------------------------
AgentNext(d) ==
    \/ \E c \in Conns : \/ ConnectionUp(d, c) \/ ConnectionDown(d, c)
                        \/ TimeRecord(d, c) \/ CtrlRecord(d, c)
    \/ MetadataChanged(d) \/ MetadataWithoutRecord(d) \/ ScanOnly(d) \/ Define(d)
    \/ MonitorReady(d) \/ MonitorDefined(d) \/ MonitorHung(d)
    \/ gcThread(d)

FileNext == configFileMonitor \/ StopUndefine \/ StopClear \/ undefine
              \/ UpdateStart \/ disconnectPV \/ UpdateFinish

OutputNext ==
    /\ Up /\ UNCHANGED <<agent, chan, file, todo, crashed>>
    /\ \/ /\ NoEvent
          /\ \/ \E d \in Devices : PutPacket(d)
             \/ TakePacket \/ SendPacket
             \/ \E c \in Clients : Accept(c)
       \/ Event /\ \/ Heartbeat
                   \/ \E c \in Clients : Disconnect(c)
                   \/ \E d \in Devices : GiveUpPacket(d)

Next == (\E d \in Devices : AgentNext(d)) \/ FileNext \/ OutputNext

Spec == Init /\ [][Next]_vars

------------------------------------------------------------------------------
Quiet == hand = None /\ queue = <<>> /\ (\A d \in Devices : outbox[d] = <<>>) /\ ~crashed

(* OutputAdapter sends a new client all it has with its lock held and then  *)
(* every packet: whenever nothing is under way, and no packet was given up  *)
(* for want of a free one, each client knows every device with its          *)
(* variables' numbers, and has of each variable the value the server keeps  *)
(* (one never read is not sent to clients that were there already).         *)
ClientView ==
    Quiet /\ ~dropped =>
      \A c \in Clients : client[c].on =>
        \A rec \in devs :
          /\ rec.id \in DOMAIN client[c].dev /\ client[c].dev[rec.id] = buildDDP(rec)
          /\ \A k \in Keys(rec) :
               state[k].st \notin {"unread", "notreported"} =>
                 /\ <<rec.id, rec.var[k[2]]>> \in DOMAIN client[c].val
                 /\ client[c].val[<<rec.id, rec.var[k[2]]>>] = [pv |-> k[2], val |-> state[k]]

(* Numbers of variables are used again when a device is redefined           *)
(* (ConfigManager::defineDevice()): a client never holds, under a number    *)
(* that its description gives to one variable, the live value of another.   *)
ValuesDescribed ==
    ~dropped => \A c \in Clients : \A k \in DOMAIN client[c].val :
      LET dev == client[c].dev  v == client[c].val[k] IN
        (k[1] \in DOMAIN dev /\ k[2] \in DOMAIN dev[k[1]] /\ v.val.st # "disconnected")
          => dev[k[1]][k[2]] = v.pv

(* The variables of a record have numbers of their own, through any         *)
(* sequence of redefinitions.                                               *)
VarIdsUnique == \A d \in Devices : known[d] # None =>
    /\ DOMAIN known[d].var = ToSet(Order(known[d]))
    /\ IsInjective(known[d].var)
=============================================================================
