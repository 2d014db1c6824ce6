------------------------------ MODULE PVOutput ------------------------------
(***************************************************************************)
(* The output half of the PV streamer: the device records of               *)
(* PVStreamer/common/ConfigManager.cpp, the packet pool of                 *)
(* PVStreamer/common/StreamService.cpp and the server of                   *)
(* PVStreamer/adara/ADARA_OutputAdapter.cpp, which keeps the devices and   *)
(* the last value of every variable and passes both on to its SMS clients. *)
(*                                                                         *)
(* A process variable is named by its connection.  A descriptor is a       *)
(* record [id, pvs, act, ign, meta, isact, active]: its variables in their *)
(* order, the variable that says whether the device is active (None when   *)
(* there is none), whether that one is left out of the stream, and the     *)
(* metadata of each variable.  A device record has also the numbers of its *)
(* variables, var, and ver, which stands for its address.                  *)
(***************************************************************************)
EXTENDS Integers, Sequences, FiniteSets, SequencesExt, FiniteSetsExt

CONSTANTS
    Devices,    \* names of devices
    Conns,      \* connections of process variables
    Clients,    \* the SMS connections
    Pool,       \* packets of the stream
    None        \* no variable, record, channel or packet

ASSUME OutputAssumption == Pool \in Nat \ {0, 1} /\ None \notin Conns \cup Devices

VARIABLES
    known,      \* ConfigManager's m_devices: device -> record
    outbox,     \* device -> packets the holder of the agent's lock has yet to put
    queue,      \* m_fill_que
    hand,       \* the packet of the stream processing thread
    devs,       \* OutputAdapter's m_devices: its records
    state,      \* m_pv_state: <<address of the record, variable>> -> value
    client,     \* m_client_info, and what each client was sent
    beat,       \* m_heartbeat_pv_value
    lastVer,    \* the last address given to a record
    dropped     \* history: a packet was given up because the pool was empty

outVars == <<queue, hand, devs, state, client, beat>>

Empty == [x \in {} |-> None]
Without(f, S) == [x \in DOMAIN f \ S |-> f[x]]
With(f, g) == [x \in DOMAIN f \cup DOMAIN g |-> IF x \in DOMAIN g THEN g[x] ELSE f[x]]

(* A finite set of numbers in order, and what is in s and not in S in its   *)
(* order.                                                                   *)
Sorted(S) == [n \in 1 .. Cardinality(S) |->
                CHOOSE i \in S : Cardinality({j \in S : j <= i}) = n]
Besides(s, S) == LET at == Sorted({i \in DOMAIN s : s[i] \notin S})
                 IN  [n \in DOMAIN at |-> s[at[n]]]

------------------------------------------------------------------------------
(* Values and descriptors. *)

(* A value of a channel: what was read, and whether it counts.  A record    *)
(* starts with Unread, one that is redefined with a new variable with       *)
(* NotReported, and a variable that goes away has Gone.                     *)
Unread == [v |-> 0, st |-> "unread"]
NotReported == [v |-> 0, st |-> "notreported"]
Gone == [v |-> 0, st |-> "disconnected"]

(* The variable that says whether the device is active is in the stream     *)
(* when the configuration lists it among the variables too.                 *)
Streamed(D) == D.act # None /\ ~D.ign

(* Every variable for which the device has a channel. *)
Members(D) == ToSet(D.pvs) \cup ({D.act} \ {None})

(* The variables with a value in the stream, in the order of their numbers. *)
Order(D) == (IF Streamed(D) THEN <<D.act>> ELSE <<>>) \o D.pvs

(* The order and the metadata of the variables may differ: operator== looks *)
(* for each by name, and ignores the active variable when it is not in the  *)
(* stream.                                                                  *)
SameDevice(D, E) ==
    /\ Len(D.pvs) = Len(E.pvs) /\ ToSet(D.pvs) = ToSet(E.pvs)
    /\ \A c \in ToSet(D.pvs) : D.meta[c] = E.meta[c]
    /\ Streamed(D) => D.act = E.act /\ D.ign = E.ign /\ D.meta[D.act] = E.meta[E.act]
    /\ Streamed(E) => E.act = D.act /\ E.ign = D.ign /\ D.meta[D.act] = E.meta[E.act]

------------------------------------------------------------------------------
(* ConfigManager. *)

(* A new device numbers its variables in their order. *)
NewVars(D) == [c \in ToSet(Order(D)) |-> CHOOSE i \in DOMAIN Order(D) : Order(D)[i] = c]

(* Variables a redefined device keeps, with the numbers they have. *)
KeptVars(D, old) ==
    LET kept == (ToSet(D.pvs) \cap ToSet(old.pvs))
                  \cup (IF Streamed(D) /\ Streamed(old) /\ D.act = old.act
                        THEN {D.act} ELSE {})
    IN  [c \in kept |-> old.var[c]]

(* Mutant: the variables that are new are counted from one. *)
VarsFromOne(D, old) ==
    LET new == Besides(Order(D), DOMAIN KeptVars(D, old))
    IN  With(KeptVars(D, old), [c \in ToSet(new) |-> CHOOSE i \in DOMAIN new : new[i] = c])

(* The variables that are new take the smallest numbers that are free. *)
RedefinedVars(D, old) ==
    LET kept == KeptVars(D, old)
        new == Besides(Order(D), DOMAIN kept)
        used == {kept[c] : c \in DOMAIN kept}
        free == Sorted((1 .. (Len(Order(D)) + Cardinality(used))) \ used)
    IN  With(kept, [c \in ToSet(new) |->
                      free[CHOOSE i \in DOMAIN new : new[i] = c]])

(* Mutant: nothing is said of the variables that go. *)
LostSilently(D, old) == <<>>

(* Variables the old record has and the new device does not. *)
LostVars(D, old) == Besides(Order(old), DOMAIN KeptVars(D, old))

(* What the output adapter looks at in a record. *)
Shown(rec) == IF rec = None THEN None
              ELSE [id |-> rec.id, pvs |-> rec.pvs, act |-> rec.act, ign |-> rec.ign,
                    ver |-> rec.ver, var |-> rec.var]

ValuePacket(rec, c, val) ==
    [kind |-> "value", rec |-> Shown(rec), old |-> None, pv |-> c, val |-> val]
DevicePacket(kind, rec, old) ==
    [kind |-> kind, rec |-> Shown(rec), old |-> Shown(old), pv |-> None, val |-> Unread]

sendPvUndefined(rec, pvs) == [i \in DOMAIN pvs |-> ValuePacket(rec, pvs[i], Gone)]
sendDeviceDefined(rec) == <<DevicePacket("defined", rec, None)>>
sendDeviceRedefined(rec, old) == <<DevicePacket("redefined", rec, old)>>
sendDeviceUndefined(rec) == <<DevicePacket("undefined", rec, None)>>

Record(D, ver, vars) == [id |-> D.id, pvs |-> D.pvs, act |-> D.act, ign |-> D.ign,
                         meta |-> D.meta, isact |-> D.isact, active |-> D.active,
                         ver |-> ver, var |-> vars]

(* The active variable of an unchanged device is replaced when the          *)
(* configuration names another one.                                         *)
Reactivated(D, rec) ==
    IF D.act # None /\ D.act # rec.act
    THEN [rec EXCEPT !.act = D.act, !.ign = D.ign, !.isact = D.isact, !.active = D.active,
                     !.meta = [@ EXCEPT ![D.act] = D.meta[D.act]]]
    ELSE rec

(* An active variable the configuration no longer names is deleted, and the *)
(* record keeps pointing at it.                                             *)
Dangling(D, old) == old # None /\ SameDevice(D, old) /\ D.act = None /\ old.act # None

(* The record that stands for D after defineDevice(), the packets it sends  *)
(* and whether the device counts as changed.                                *)
defineDevice(d, D) ==
    LET old == known[d]
        ver == lastVer + 1
        new == Record(D, ver, IF old = None THEN NewVars(D) ELSE RedefinedVars(D, old))
        moved == [old EXCEPT !.id = D.id, !.ver = ver]
    IN  CASE old = None ->
               [rec |-> new, pkts |-> sendDeviceDefined(new), changed |-> TRUE]
          [] old # None /\ SameDevice(D, old) /\ D.id = old.id ->
               [rec |-> Reactivated(D, old), pkts |-> <<>>, changed |-> FALSE]
          [] old # None /\ SameDevice(D, old) /\ D.id # old.id ->
               [rec |-> Reactivated(D, moved), pkts |-> sendDeviceRedefined(moved, old),
                changed |-> TRUE]
          [] OTHER ->
               [rec |-> new, changed |-> TRUE,
                pkts |-> sendPvUndefined(old, LostVars(D, old))
                           \o sendDeviceRedefined(new, old)]

(* Undefining a device, or only its variables while it is inactive. *)
undefineDevice(d, delete) ==
    IF known[d] = None THEN <<>>
    ELSE sendPvUndefined(known[d], known[d].pvs)
           \o (IF delete THEN sendDeviceUndefined(known[d]) ELSE <<>>)

------------------------------------------------------------------------------
(* StreamService. *)

Free == Pool - Len(queue) - (IF hand \in {None} \/ hand.kind = "beat" THEN 0 ELSE 1)

(* The holder of an agent's lock puts its packets one at a time, and waits  *)
(* for a free one up to five seconds.                                       *)
PutPacket(d) ==
    /\ outbox[d] # <<>> /\ Free > 0
    /\ queue' = Append(queue, Head(outbox[d]))
    /\ outbox' = [outbox EXCEPT ![d] = Tail(@)]
    /\ UNCHANGED <<known, hand, devs, state, client, beat, lastVer, dropped>>

GiveUpPacket(d) ==
    /\ outbox[d] # <<>> /\ Free = 0
    /\ outbox' = [outbox EXCEPT ![d] = Tail(@)]
    /\ dropped' = TRUE
    /\ UNCHANGED <<known, outVars, lastVer>>

------------------------------------------------------------------------------
(* OutputAdapter. *)

Keys(rec) == {<<rec.ver, c>> : c \in ToSet(Order(rec))}

(* What the server keeps after a packet of each kind. *)
defineState(rec) == With(state, [k \in Keys(rec) |-> Unread])
undefineState(f, rec) == Without(f, Keys(rec))

(* A variable of the same name keeps its value, the active variable when    *)
(* both devices stream it.                                                  *)
Carried(rec, old, c) ==
    LET kept == IF c = rec.act THEN Streamed(old) /\ old.act = c ELSE c \in ToSet(old.pvs)
    IN  IF kept /\ <<old.ver, c>> \in DOMAIN state THEN state[<<old.ver, c>>]
        ELSE NotReported

redefineState(rec, old) ==
    undefineState(With(state, [k \in Keys(rec) |-> Carried(rec, old, k[2])]), old)

updatePV(rec, c, val) ==
    IF rec # None /\ <<rec.ver, c>> \in DOMAIN state
    THEN [state EXCEPT ![<<rec.ver, c>>] = val] ELSE state

(* The records at other addresses. *)
Others(S, rec) == {r \in S : r.ver # rec.ver}

(* The stream processing thread takes a packet and changes its own tables;  *)
(* the clients get it in a step of its own.                                 *)
TakePacket ==
    /\ hand = None /\ queue # <<>>
    /\ hand' = Head(queue) /\ queue' = Tail(queue)
    /\ LET p == Head(queue) IN
         CASE p.kind = "defined" -> devs' = devs \cup {p.rec} /\ state' = defineState(p.rec)
           [] p.kind = "redefined" -> /\ devs' = Others(devs, p.old) \cup {p.rec}
                                      /\ state' = redefineState(p.rec, p.old)
           [] p.kind = "undefined" -> devs' = Others(devs, p.rec) /\ state' = undefineState(state, p.rec)
           [] p.kind = "value" -> devs' = devs /\ state' = updatePV(p.rec, p.pv, p.val)
    /\ UNCHANGED <<known, outbox, client, beat, lastVer, dropped>>

(* A description maps the numbers of the variables to the variables. *)
buildDDP(rec) == [i \in {rec.var[c] : c \in DOMAIN rec.var} |->
                    CHOOSE c \in DOMAIN rec.var : rec.var[c] = i]

Described(cl, rec) == [cl EXCEPT !.dev = With(@, rec.id :> buildDDP(rec))]
Forgotten(cl, rec) == [cl EXCEPT !.dev = Without(@, {rec.id})]

buildVVP(cl, rec, c, val) ==
    [cl EXCEPT !.val = With(@, <<rec.id, rec.var[c]>> :> [pv |-> c, val |-> val])]

(* Every packet is about a device: without one the code would use a null    *)
(* pointer, and TLC would stop here.                                        *)
translate(p, cl) ==
    CASE p.kind \in {"defined", "redefined"} -> Described(cl, p.rec)
      [] p.kind = "undefined" -> Forgotten(cl, p.rec)
      [] p.kind = "value" -> buildVVP(cl, p.rec, p.pv, p.val)

(* sendPacket() to every client, and the packet back to the pool. *)
SendPacket ==
    /\ hand # None
    /\ client' = [c \in Clients |-> IF client[c].on
                                    THEN IF hand.kind = "beat"
                                         THEN [client[c] EXCEPT !.beat = beat]
                                         ELSE translate(hand, client[c])
                                    ELSE client[c]]
    /\ hand' = None
    /\ UNCHANGED <<known, outbox, queue, devs, state, beat, lastVer, dropped>>

(* With nothing to send the thread counts the heartbeat variable. *)
Heartbeat ==
    /\ hand = None /\ queue = <<>> /\ \E c \in Clients : client[c].on
    /\ beat' = 1 - beat
    /\ hand' = [kind |-> "beat", rec |-> None, old |-> None, pv |-> None, val |-> Unread]
    /\ UNCHANGED <<known, outbox, queue, devs, state, client, lastVer, dropped>>

NoClient == [on |-> FALSE, dev |-> Empty, val |-> Empty, beat |-> 0]

(* Mutant: a new client gets the devices without their values. *)
CurrentDevicesOnly ==
    [FoldSet(LAMBDA rec, cl : Described(cl, rec), NoClient, devs) EXCEPT !.on = TRUE, !.beat = beat]

(* A new client is told every device and then every value, with the lock    *)
(* that the processing thread needs held.                                   *)
sendCurrentData ==
    LET told == FoldSet(LAMBDA rec, cl : Described(cl, rec), NoClient, devs)
        owner(k) == CHOOSE rec \in devs : rec.ver = k[1]
        all == FoldSet(LAMBDA k, cl : buildVVP(cl, owner(k), k[2], state[k]),
                       told, {k \in DOMAIN state : \E rec \in devs : rec.ver = k[1]})
    IN  [all EXCEPT !.on = TRUE, !.beat = beat]

Accept(c) ==
    /\ ~client[c].on
    /\ client' = [client EXCEPT ![c] = sendCurrentData]
    /\ UNCHANGED <<known, outbox, queue, hand, devs, state, beat, lastVer, dropped>>

(* A send that fails takes the client off the list. *)
Disconnect(c) ==
    /\ client[c].on
    /\ client' = [client EXCEPT ![c] = NoClient]
    /\ UNCHANGED <<known, outbox, queue, hand, devs, state, beat, lastVer, dropped>>

OutputInit ==
    /\ known = [d \in Devices |-> None] /\ outbox = [d \in Devices |-> <<>>]
    /\ queue = <<>> /\ hand = None /\ devs = {} /\ state = Empty
    /\ client = [c \in Clients |-> NoClient] /\ beat = 0
    /\ lastVer = 0 /\ dropped = FALSE
=============================================================================
