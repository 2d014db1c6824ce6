---------------------------- MODULE LiveListener ----------------------------
(***************************************************************************)
(* A live listener of the stream management service (sms/LiveServer.cc,    *)
(* sms/LiveClient.cc).  It joins at any time, is handed the past it asks   *)
(* for from the index of state snapshots (sms/StorageManager.cc), and then *)
(* follows the containers and their files as they are announced.           *)
(*                                                                         *)
(* The containers are those of ContainerStack and their pause modes those  *)
(* of RunStream, without the time stamps that select them.  A container    *)
(* operation leaves in todo what a listener can see of it, and Deliver     *)
(* performs one entry together with the listener's callback.               *)
(***************************************************************************)
EXTENDS Naturals, Sequences, FiniteSets, SequencesExt

CONSTANTS
    MaxFiles,      \* bound on the files
    MaxConts,      \* bound on the containers
    MaxModes,      \* bound on the pause modes of a container at one time
    MaxPackets,    \* a file is oversize when it holds so many packets
    MaxTime,       \* bound on the seconds of the pulses
    IndexPeriod,   \* m_indexPeriod
    Starts,        \* start times a listener may ask for; 0 is none
    Flags,         \* its flags: "none", "SEND_PAUSE_DATA", "NO_PAUSE_DATA"
    MaxToggles     \* bound on changes of SendPausedData

ASSUME LiveAssumption ==
    /\ {MaxFiles, MaxConts, MaxModes, MaxPackets, MaxTime, IndexPeriod, MaxToggles}
         \subseteq Nat
    /\ MaxFiles >= 1 \* there is a container, and it has a file
    /\ Starts \subseteq Nat
    /\ Flags \subseteq {"none", "SEND_PAUSE_DATA", "NO_PAUSE_DATA"}

VARIABLES
    file,       \* every StorageFile: [cont, paused, active, size, seen]
    stack,      \* m_containerStack, current first: [id, modes]
    list,       \* m_files of each container
    index,      \* m_stateIndex, newest first: [key, state, data, off]
    pulseTime, nextIndex,
    todo,       \* what is left of the container operation in progress
    listener,   \* LiveServer: listening, or waiting to retry
    sendPaused, \* the PV SendPausedData
    toggles,
    client,     \* the LiveClient; joined and known are history: the current
                \* container and the announced files when it joined
    got         \* history: what was sent, as [file, src, from, to]

storage == <<file, stack, list, index, pulseTime, nextIndex>>
server == <<listener, sendPaused, toggles>>
vars == <<storage, todo, server, client, got>>

NoFile == 0
NoCont == 0
StateFile == MaxFiles + 1     \* the transient file of a snapshot
Idle == todo = <<>>

Entry(f, off) == [file |-> f, off |-> off]

NoClient == [phase |-> "none", files |-> <<>>, conts |-> <<>>, sub |-> NoFile,
             contSub |-> NoCont, write |-> FALSE, fd |-> NoFile, flags |-> "none",
             sendPaused |-> FALSE, joined |-> NoCont, known |-> {}]

----------------------------------------------------------------------------
(* The storage manager.  An operation maps [file, stack, index, next, todo] *)
(* to a new value.                                                         *)

Now == [file |-> file, stack |-> stack, index |-> index, next |-> nextIndex, todo |-> todo]
Adds(c, fs) == [k \in 1 .. Len(fs) |-> [op |-> "add", cont |-> c, file |-> fs[k]]]
Close(f) == IF f = NoFile THEN <<>> ELSE <<[op |-> "close", file |-> f]>>

indexState(s, t, state, data, off) ==
    [s EXCEPT !.index = <<[key |-> t, state |-> state, data |-> data, off |-> off]>> \o @,
              !.next = t + IndexPeriod]

(* newFile(): announced if its mode is the oldest one, deferred otherwise.  *)
(* A mode that was superseded has a "last" prologue to copy; only the      *)
(* current file takes a snapshot, and enters the index.                    *)
newFile(s, k, i, paused) ==
    LET c == s.stack[k].id
        m == s.stack[k].modes[i]
        f == Len(s.file) + 1
        oldest == i = Len(s.stack[k].modes)
        made == [s EXCEPT
            !.file = Append(@, [cont |-> c, paused |-> paused, active |-> TRUE,
                                size |-> 1, seen |-> 0]),
            !.stack[k].modes[i] = [file |-> f, paused |-> paused,
                pending |-> IF oldest THEN <<>> ELSE Append(m.pending, f)],
            !.todo = IF oldest THEN @ \o Adds(c, Append(m.pending, f)) ELSE @]
    IN  IF k = 1 /\ i = 1 THEN indexState(made, pulseTime, FALSE, f, 0) ELSE made

NewMode(paused) == [file |-> NoFile, paused |-> paused, pending |-> <<>>]

Rolled(s, k, i) ==
    LET f == s.stack[k].modes[i].file
    IN  IF f # NoFile /\ s.file[f].size <= MaxPackets THEN s
        ELSE newFile([s EXCEPT !.todo = @ \o Close(f)], k, i, s.stack[k].modes[i].paused)

ShutMode(c, m) == Adds(c, m.pending) \o Close(m.file)
ShutModes(c, ms) ==
    FlattenSeq([n \in 1 .. Len(ms) |-> ShutMode(c, ms[Len(ms) - n + 1])])
ContChange(c, starting) == <<[op |-> "cont", cont |-> c, starting |-> starting]>>

(* A bound: nothing is recorded for a listener that has gone.               *)
Perform(s) ==
    /\ Idle /\ Len(s.file) <= MaxFiles /\ client.phase # "gone"
    /\ file' = s.file /\ stack' = s.stack /\ index' = s.index /\ nextIndex' = s.next
    /\ todo' = s.todo

(* addPacket(): the packet goes to the container and the mode its time      *)
(* stamp selects.  When a snapshot is due it is taken, and indexed with    *)
(* the current file of that container.                                     *)
addPacket(k, i, t, notify) ==
    LET r == Rolled(Now, k, i)
        w == [r EXCEPT !.todo = @ \o <<[op |-> "write", notify |-> notify,
                                         file |-> r.stack[k].modes[i].file]>>]
        cur == stack[k].modes[1].file
    IN  /\ k \in DOMAIN stack /\ i \in DOMAIN stack[k].modes
        /\ pulseTime' = t
        /\ Perform(IF t >= w.next /\ cur # NoFile
                   THEN indexState(w, t, TRUE, w.stack[k].modes[1].file, file[cur].size)
                   ELSE w)
        /\ UNCHANGED <<list, server, client, got>>

(* pause() and resume(): a new mode in front.                               *)
PushMode ==
    /\ Len(stack[1].modes) < MaxModes
    /\ LET s == [Now EXCEPT !.stack[1].modes = <<NewMode(~@[1].paused)>> \o @]
       IN  Perform(newFile(s, 1, 1, s.stack[1].modes[1].paused))
    /\ UNCHANGED <<list, pulseTime, server, client, got>>

(* A mode behind the first expires, whichever its time stamps select; what  *)
(* the oldest of the others has deferred is announced too.                 *)
ExpireMode(k, i) ==
    LET c == stack[k].id
        others == RemoveAt(stack[k].modes, i)
        n == Len(others)
    IN  /\ k \in DOMAIN stack /\ i \in DOMAIN stack[k].modes \ {1}
        /\ Perform([Now EXCEPT
             !.stack[k].modes = [others EXCEPT ![n].pending = <<>>],
             !.todo = @ \o ShutMode(c, stack[k].modes[i]) \o Adds(c, others[n].pending)])
        /\ UNCHANGED <<list, pulseTime, server, client, got>>

(* endCurrentContainer() and startContainer(): the index starts anew.       *)
NextContainer(keep) ==
    LET old == stack[1]
        id == Len(list) + 1
        s == [Now EXCEPT
                !.stack = <<[id |-> id, modes |-> <<NewMode(FALSE)>>]>>
                            \o (IF keep THEN @ ELSE Tail(@)),
                !.index = <<>>,
                !.todo = @ \o (IF keep THEN <<>>
                               ELSE ShutModes(old.id, old.modes) \o ContChange(old.id, FALSE))
                           \o ContChange(id, TRUE)]
    IN  /\ id <= MaxConts
        /\ Perform(newFile(s, 1, 1, FALSE))
        /\ list' = Append(list, <<>>)
        /\ UNCHANGED <<pulseTime, server, client, got>>

(* A container behind the first expires.                                    *)
ExpireContainer(k) ==
    LET c == stack[k]
    IN  /\ k \in DOMAIN stack \ {1}
        /\ Perform([Now EXCEPT
             !.stack = RemoveAt(@, k),
             !.todo = @ \o ShutModes(c.id, c.modes) \o ContChange(c.id, FALSE)])
        /\ UNCHANGED <<list, pulseTime, server, client, got>>

----------------------------------------------------------------------------
(* The client.  writable() gives the set of [c, got] it may leave behind:   *)
(* a sendfile() sends any number of packets.                               *)

SizeOf(f) == IF f = StateFile THEN 1 ELSE file'[f].size
ActiveFile(f) == f # StateFile /\ file'[f].active
PausedFile(f) == f # StateFile /\ file'[f].paused

(* A paused file is passed over, unless part of it has been sent.           *)
Skipped(c, j) ==
    /\ c.flags # "SEND_PAUSE_DATA"
    /\ PausedFile(c.files[j].file) /\ c.files[j].off = 0
    /\ ~c.sendPaused \/ c.flags = "NO_PAUSE_DATA"

Subscribe(f) == IF ActiveFile(f) THEN f ELSE NoFile

(* Mutant: the next file is not subscribed to.                              *)
EraseUnsubscribed(c, k) ==
    IF k = 0 THEN c ELSE [c EXCEPT !.files = SubSeq(@, k + 1, Len(@)), !.sub = NoFile]

(* The first k files are done with; the next one is subscribed to.          *)
Erase(c, k) ==
    IF k = 0 THEN c
    ELSE [c EXCEPT !.files = SubSeq(@, k + 1, Len(@)),
                   !.sub = IF k < Len(c.files) THEN Subscribe(c.files[k + 1].file) ELSE NoFile]

(* What is sent for entry j up to packet n.  A descriptor that is open is   *)
(* used; it belongs to the first entry, unless that one was passed over.   *)
Chunk(c, j, n) ==
    LET e == c.files[j]
        held == c.fd # NoFile /\ \A i \in 1 .. j - 1 : Skipped(c, i)
    IN  [file |-> e.file, src |-> IF held THEN c.fd ELSE e.file, from |-> e.off, to |-> n]

AddChunk(g, ch) ==
    IF g # <<>> /\ Last(g).file = ch.file /\ Last(g).src = ch.src /\ Last(g).to = ch.from
         /\ ch.from > 0
    THEN [g EXCEPT ![Len(g)].to = ch.to]
    ELSE IF ch.from = ch.to THEN g ELSE Append(g, ch)

(* The first k entries are sent to their end.                               *)
Sent(c, g, k) ==
    LET sent[j \in 0 .. k] ==
            IF j = 0 THEN g
            ELSE IF Skipped(c, j) THEN sent[j - 1]
            ELSE AddChunk(sent[j - 1], Chunk(c, j, SizeOf(c.files[j].file)))
    IN  sent[k]

(* A descriptor survives the files that were passed over only.              *)
FdAfter(c, k) == IF \A j \in 1 .. k : Skipped(c, j) THEN c.fd ELSE NoFile

Exhausted(c, g) ==
    LET n == Len(c.files)
    IN  { [c |-> [Erase(c, n) EXCEPT !.write = FALSE, !.fd = FdAfter(c, n)],
           got |-> Sent(c, g, n)] }

(* The loop stops at entry k + 1: there is more to send, or may be.         *)
Stopped(c, g, k) ==
    LET f == c.files[k + 1].file
        held == FdAfter(c, k)
    IN  { [c |-> [Erase(c, k) EXCEPT !.files[1].off = n, !.write = n < SizeOf(f),
                     !.fd = IF held = NoFile THEN f ELSE held],
           got |-> AddChunk(Sent(c, g, k), Chunk(c, k + 1, n))] :
          n \in { n \in c.files[k + 1].off .. SizeOf(f) : n = SizeOf(f) => ActiveFile(f) } }

Passable(c, j) == Skipped(c, j) \/ ~ActiveFile(c.files[j].file)

(* A failing sendfile(), or a file that cannot be opened, ends the client.  *)
Deleted(g) == {[c |-> [NoClient EXCEPT !.phase = "gone"], got |-> g]}

SendLoop(c, g) ==
    LET n == Len(c.files)
        reach == { k \in 0 .. n : \A j \in 1 .. k : Passable(c, j) }
        stops == { k \in reach \ {n} : ~Skipped(c, k + 1) }
    IN  (IF n \in reach THEN Exhausted(c, g) ELSE {})
          \union (UNION { Stopped(c, g, k) : k \in stops })
          \union (IF stops # {} THEN Deleted(g) ELSE {})

(* The copy of SendPausedData is read again once in a hundred calls.        *)
Writable(c, g) == SendLoop(c, g) \union SendLoop([c EXCEPT !.sendPaused = sendPaused], g)

TryToSend(c, g) == IF c.write THEN {[c |-> c, got |-> g]} ELSE Writable(c, g)

(* Files are put on the list; the one that comes first on an empty list is  *)
(* subscribed to.                                                          *)
PushFiles(c, es) ==
    [c EXCEPT !.files = @ \o es,
              !.sub = IF c.files = <<>> /\ @ = NoFile /\ es # <<>>
                      THEN Subscribe(es[1].file) ELSE @]

fileAdded(c, f) == TryToSend(PushFiles(c, <<Entry(f, 0)>>), got)

fileUpdated(c, f) ==
    TryToSend(IF ActiveFile(f) THEN c ELSE [c EXCEPT !.sub = NoFile], got)

(* The containers behind the front one that have ended are taken whole, up  *)
(* to and with the first that is still open, which is subscribed to.       *)
OpenOf(cs) == { n \in DOMAIN cs : cs[n].starting }
UptoOf(cs) == IF OpenOf(cs) = {} THEN Len(cs)
              ELSE CHOOSE n \in OpenOf(cs) : \A m \in OpenOf(cs) : n <= m

(* Mutant: the next container is followed, its past files are forgotten.    *)
TakeNextForgets(c) ==
    LET upto == UptoOf(c.conts)
    IN  IF OpenOf(c.conts) = {} THEN [c EXCEPT !.conts = <<>>, !.contSub = NoCont]
        ELSE [c EXCEPT !.conts = SubSeq(@, upto, Len(@)), !.contSub = c.conts[upto].cont]

TakeNext(c) ==
    LET upto == UptoOf(c.conts)
        fs == FlattenSeq([n \in 1 .. upto |-> list'[c.conts[n].cont]])
        d == PushFiles(c, [k \in DOMAIN fs |-> Entry(fs[k], 0)])
    IN  IF OpenOf(c.conts) = {} THEN [d EXCEPT !.conts = <<>>, !.contSub = NoCont]
        ELSE [d EXCEPT !.conts = SubSeq(@, upto, Len(@)), !.contSub = d.conts[upto].cont]

(* A container that starts is subscribed to when no other is.               *)
ConnectCont(c, id) == IF c.contSub = NoCont THEN id ELSE c.contSub

Same(c) == {[c |-> c, got |-> got]}

containerChange(c, id, starting) ==
    IF starting
    THEN Same([c EXCEPT !.conts = Append(@, [cont |-> id, starting |-> TRUE]),
                        !.contSub = ConnectCont(c, id)])
    ELSE LET at == { n \in DOMAIN c.conts : c.conts[n].cont = id }
             d == [c EXCEPT !.conts = [n \in DOMAIN c.conts |->
                       IF n \in at THEN [c.conts[n] EXCEPT !.starting = FALSE] ELSE c.conts[n]]]
         IN  IF 1 \notin at THEN Same(d)
             ELSE LET e == [d EXCEPT !.conts = Tail(@), !.contSub = NoCont]
                  IN  IF e.conts = <<>> THEN Same(e) ELSE TryToSend(TakeNext(e), got)

(* iterateHistory(): the entries of the index from the newest one that is   *)
(* older than the start; of the later ones those that begin a file.        *)
StartAt(start) ==
    LET older == { n \in 1 .. Len(index) - 1 : index[n].key < start }
    IN  IF older = {} THEN Len(index) ELSE CHOOSE n \in older : \A m \in older : n <= m

State(e) == IF e.state THEN <<Entry(StateFile, 0)>> ELSE <<>>

iterateHistory(start) ==
    IF start = 0
    THEN <<Entry(StateFile, 0),
           Entry(stack[1].modes[1].file, file[stack[1].modes[1].file].size)>>
    ELSE LET n == StartAt(start)
             later(e) == IF e.off = 0 THEN <<Entry(e.data, 0)>> ELSE <<>>
         IN  State(index[n]) \o <<Entry(index[n].data, index[n].off)>>
               \o FlattenSeq([m \in 1 .. n - 1 |-> later(index[n - m])])

----------------------------------------------------------------------------
(* Actions.                                                                *)

Init ==
    /\ file = <<[cont |-> 1, paused |-> FALSE, active |-> TRUE, size |-> 1, seen |-> 0]>>
    /\ stack = <<[id |-> 1, modes |-> <<[NewMode(FALSE) EXCEPT !.file = 1]>>]>>
    /\ list = <<<<1>>>>
    /\ index = <<[key |-> 1, state |-> FALSE, data |-> 1, off |-> 0]>>
    /\ pulseTime = 1 /\ nextIndex = 1 + IndexPeriod
    /\ todo = <<>> /\ listener = "retry" /\ sendPaused = TRUE /\ toggles = 0
    /\ client = NoClient /\ got = <<>>

(* setupListener(), at the start, when the URI is changed and on the timer: *)
(* the old socket is closed first, and a failure arms the timer again.  A  *)
(* connection that is made does not depend on it any more.                 *)
setupListener(ok) ==
    /\ Idle /\ client.phase = "none" /\ (ok = (listener = "retry"))
    /\ listener' = IF ok THEN "listening" ELSE "retry"
    /\ UNCHANGED <<storage, todo, sendPaused, toggles, client, got>>

newConnection ==
    /\ Idle /\ listener = "listening" /\ client.phase = "none"
    /\ client' = [NoClient EXCEPT !.phase = "hello", !.sendPaused = sendPaused]
    /\ UNCHANGED <<storage, todo, server, got>>

Toggle ==
    /\ Idle /\ toggles < MaxToggles
    /\ sendPaused' = ~sendPaused /\ toggles' = toggles + 1
    /\ UNCHANGED <<storage, todo, listener, client, got>>

(* The hello timer runs out, or the listener hangs up.                      *)
Disconnect ==
    /\ Idle /\ client.phase \in {"hello", "on"}
    /\ client' = [NoClient EXCEPT !.phase = "gone"]
    /\ UNCHANGED <<storage, todo, server, got>>

(* rxPacket(ClientHelloPkt).  What the calls of writable() from             *)
(* historicalFile() send may as well be sent by the first one after it.    *)
Hello(start, flags) ==
    /\ Idle /\ client.phase = "hello" /\ UNCHANGED storage
    /\ LET c == [client EXCEPT !.phase = "on", !.flags = flags, !.joined = stack[1].id,
                              !.known = UNION { ToSet(l) : l \in ToSet(list) }]
           d == PushFiles(c, iterateHistory(start))
       IN  client' = [d EXCEPT !.conts = <<[cont |-> stack[1].id, starting |-> TRUE]>>,
                               !.contSub = stack[1].id, !.write = TRUE]
    /\ UNCHANGED <<todo, server, got>>

SocketReady ==
    /\ Idle /\ client.phase = "on" /\ client.write /\ UNCHANGED <<storage, todo, server>>
    /\ \E r \in Writable(client, got) : client' = r.c /\ got' = r.got

(* One entry of the operation in progress, and the callback it makes.       *)
Callback(S) == \E r \in S : client' = r.c /\ got' = r.got
On == client.phase = "on"

DeliverAdd(e) ==
    /\ list' = [list EXCEPT ![e.cont] = Append(@, e.file)] /\ UNCHANGED file
    /\ IF On /\ client.contSub = e.cont THEN Callback(fileAdded(client, e.file))
       ELSE UNCHANGED <<client, got>>

(* write() and notify(): only growth since the last update is signalled.    *)
DeliverWrite(e) ==
    /\ file' = [file EXCEPT ![e.file].size = @ + 1,
                            ![e.file].seen = IF e.notify THEN file[e.file].size + 1 ELSE @]
    /\ UNCHANGED list
    /\ IF On /\ e.notify /\ client.sub = e.file THEN Callback(fileUpdated(client, e.file))
       ELSE UNCHANGED <<client, got>>

(* terminate() of a file: the status packet is its last.                    *)
DeliverClose(e) ==
    /\ file' = [file EXCEPT ![e.file].size = @ + 1, ![e.file].active = FALSE]
    /\ UNCHANGED list
    /\ IF On /\ client.sub = e.file THEN Callback(fileUpdated(client, e.file))
       ELSE UNCHANGED <<client, got>>

DeliverCont(e) ==
    /\ UNCHANGED <<file, list>>
    /\ IF On THEN Callback(containerChange(client, e.cont, e.starting))
       ELSE UNCHANGED <<client, got>>

Deliver ==
    /\ ~Idle /\ todo' = Tail(todo)
    /\ UNCHANGED <<stack, index, pulseTime, nextIndex, server>>
    /\ LET e == Head(todo)
       IN  \/ e.op = "add" /\ DeliverAdd(e)
           \/ e.op = "write" /\ DeliverWrite(e)
           \/ e.op = "close" /\ DeliverClose(e)
           \/ e.op = "cont" /\ DeliverCont(e)

Storage ==
    \/ \E k \in DOMAIN stack, i \in 1 .. MaxModes, t \in pulseTime .. MaxTime, n \in BOOLEAN :
         addPacket(k, i, t, n)
    \/ PushMode
    \/ \E k \in DOMAIN stack, i \in 1 .. MaxModes : ExpireMode(k, i)
    \/ \E k \in DOMAIN stack : ExpireContainer(k)
    \/ \E keep \in BOOLEAN : NextContainer(keep)

Live ==
    \/ \E ok \in BOOLEAN : setupListener(ok)
    \/ newConnection \/ Disconnect \/ Toggle \/ SocketReady
    \/ \E s \in Starts, fl \in Flags : Hello(s, fl)

Next == Storage \/ Deliver \/ Live

Spec == Init /\ [][Next]_vars

----------------------------------------------------------------------------
(* Properties.                                                             *)

(* An idle listener deletes its write adapter and relies on the signal of   *)
(* the file it waits on.  So whenever it is idle between two operations    *)
(* its list is empty, or it has sent all that was signalled of the first   *)
(* file, which is open and subscribed to.                                  *)
ListenerWoken ==
    (Idle /\ On /\ ~client.write) =>
        \/ client.files = <<>>
        \/ LET f == client.files[1].file
           IN  f # StateFile /\ file[f].active /\ client.sub = f
               /\ client.files[1].off >= file[f].seen

Listed == { client.files[k].file : k \in DOMAIN client.files }
Received == { got[k].file : k \in DOMAIN got }
Waiting == { client.conts[k].cont : k \in DOMAIN client.conts \ {1} }

(* No announced file is missed: a file without paused data that a container *)
(* announces after the listener joined, be it the container that was       *)
(* current then or a later one, has been sent, is in the list, or belongs  *)
(* to a container that waits for its turn.                                 *)
NothingMissed ==
    (Idle /\ On) =>
        \A c \in DOMAIN list : \A f \in ToSet(list[c]) :
            \/ c < client.joined \/ f \in client.known \/ file[f].paused
            \/ c \in Waiting \/ f \in Listed \union Received

(* The containers are streamed one after the other: in what was sent and    *)
(* what is listed no file comes after one of a container that started      *)
(* later.                                                                  *)
ContainersInOrder ==
    LET order == [k \in DOMAIN got |-> got[k].file]
                   \o [k \in DOMAIN client.files |-> client.files[k].file]
    IN  \A i, j \in DOMAIN order :
          (i < j /\ StateFile \notin {order[i], order[j]}) =>
              file[order[i]].cont <= file[order[j]].cont

(* A listener is streamed everything, container by container               *)
(* (containerChange(), fileAdded(), writable()).                           *)
StreamedInOrder == NothingMissed /\ ContainersInOrder
=============================================================================
