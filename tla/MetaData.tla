------------------------------ MODULE MetaData ------------------------------
(***************************************************************************)
(* The slow-control metadata of the stream management service:            *)
(* MetaDataMgr.cc keeps the descriptor and the last value of every         *)
(* variable, remaps the device identifiers of the sources to unique output *)
(* identifiers and repeats descriptors and values at the start of every    *)
(* data file (the prologue); FastMeta.cc and addChopperEvent() feed it the  *)
(* devices found in the event stream; DataSource.cc keeps the same for the  *)
(* saved input stream of one source.                                        *)
(*                                                                         *)
(* A value packet carries a sequence of update numbers (several for a       *)
(* MultVariable packet).  What a file holds is kept as what a client that   *)
(* reads it from its beginning knows: see Read.                            *)
(***************************************************************************)
EXTENDS Integers, Sequences, FiniteSets, SequencesExt, FiniteSetsExt

CONSTANTS
  Sources,        \* source tags (m_smsSourceId, never 0)
  Devs,           \* device identifiers a source uses
  Vars,           \* variable identifiers of a device
  Descs,          \* descriptions of devices
  NoDesc,         \* the empty description, which undefines a device
  FastKeys,       \* fast-metadata pixel keys
  Configured,     \* the keys smsd.conf configures: key :> "persist" flag
  Choppers,       \* chopper numbers
  SavedSources,   \* the sources whose SaveInputStream PV is set
  MultLimit,      \* buildFastMetaPackets(): 3 single updates at most
  ReservedId,     \* 0x80000000: the first identifier of SMS internal devices
  Budgets         \* bounds: [updates, fast, descs, downs, files], the variable
                  \* updates of sources and of fast metadata, the descriptors,
                  \* the lost connections, the files others force

ASSUME MetaDataAssumption ==
  /\ 0 \notin Sources /\ SavedSources \subseteq Sources
  /\ NoDesc \notin Descs
  /\ DOMAIN Configured \subseteq FastKeys
  /\ MultLimit \in Nat \ {0} /\ ReservedId \in Nat \ {0}

VARIABLES
  devices,        \* m_devices: output id -> [dev, src, desc, vals]
  oldDevices,     \* m_oldDevices, of the sources that are disconnected
  devIdMap,       \* m_devIdMap: <<src, dev>> -> output id
  oldDevIdMap,    \* m_oldDevIdMap
  activeDevId,    \* m_activeDevId
  nextMappedDevId, \* m_nextMappedDevId
  fastVars,       \* FastMeta::m_vars: key -> [dev, persist]
  file,           \* the file being written: [open, oversize, reader]
  own,            \* DataSource::m_devices of each source: dev -> [desc, vals]
  saved,          \* the saved input file of each source: [open, oversize, reader]
  last,           \* what was sent last: <<src, dev>> -> variable -> update number
  ownLast,        \* the same, over the reconnections of a source
  budget          \* what the environment may still do

metaVars == << devices, oldDevices, devIdMap, oldDevIdMap, activeDevId,
               nextMappedDevId, fastVars >>
vars == << metaVars, file, own, saved, last, ownLast, budget >>

Nothing == [x \in {} |-> x]
Put(f, k, e) == [x \in DOMAIN f \cup {k} |-> IF x = k THEN e ELSE f[x]]
Del(f, k) == [x \in DOMAIN f \ {k} |-> f[x]]
At(f, k, default) == IF k \in DOMAIN f THEN f[k] ELSE default

-----------------------------------------------------------------------------
(***************************************************************************)
(* What the reader of a file knows: descriptors, the values of a device     *)
(* since its descriptor, the updates it has seen, and whether it met a      *)
(* value of an undescribed device or one update twice.                     *)
(***************************************************************************)
NoReader == [desc |-> Nothing, vals |-> Nothing, got |-> {}, bad |-> FALSE]

Descriptor(m, desc) == [type |-> "desc", dev |-> m, desc |-> desc]
Value(m, v, ids) == [type |-> "value", dev |-> m, var |-> v, ids |-> ids, ok |-> TRUE]

Read(r, p) ==
  IF p.type = "desc"
  THEN [r EXCEPT !.desc = Put(@, p.dev, p.desc), !.vals = Put(@, p.dev, Nothing)]
  ELSE [r EXCEPT
    !.vals = Put(@, p.dev, Put(At(@, p.dev, Nothing), p.var,
                               [n |-> p.ids[Len(p.ids)], ok |-> p.ok])),
    !.got  = IF p.ok THEN @ \cup ToSet(p.ids) ELSE @,
    !.bad  = @ \/ p.dev \notin DOMAIN r.desc \/ (p.ok /\ ToSet(p.ids) \cap r.got # {})]

\* Mutant: the first value of a MultVariable packet is extracted.
extractLastValueFirst(ids) == << ids[1] >>

\* extractLastValue(), of five packet types: one single value, the last.
extractLastValue(ids) == << ids[Len(ids)] >>

\* A prologue leaves the last value of each MultVariable packet in the map.
Reduced(ds) ==
  [m \in DOMAIN ds |->
     [ds[m] EXCEPT !.vals = [v \in DOMAIN @ |-> extractLastValue(@[v])]]]

PrologueOf(m, d) ==
  << Descriptor(m, d.desc) >>
    \o [i \in 1..Cardinality(DOMAIN d.vals) |->
          LET v == SetToSeq(DOMAIN d.vals)[i] IN Value(m, v, d.vals[v])]

\* onPrologue(): the packets of each device in turn.
onPrologue(ds) ==
  FoldSet(LAMBDA m, r : FoldLeft(Read, r, PrologueOf(m, ds[m])), NoReader, DOMAIN ds)

(***************************************************************************)
(* addPacket(): a file that is over its size is closed first, and the new   *)
(* one starts with the prologue of the devices as they are at that moment.   *)
(* Only a notifying write finds the file too large.  s is a state           *)
(* [ds, file] of the manager and the current file.                         *)
(***************************************************************************)
NewFile(s) ==
  LET ds == Reduced(s.ds)
  IN [ds |-> ds, file |-> [open |-> TRUE, oversize |-> FALSE, reader |-> onPrologue(ds)]]

addPacket(s, p, notify, full) ==
  LET t == IF s.file.oversize THEN NewFile(s) ELSE s
  IN [t EXCEPT !.file.reader = Read(@, p), !.file.oversize = notify /\ full]

Now == [ds |-> devices, file |-> file]

-----------------------------------------------------------------------------
\* The saved input stream of one source: savePacket(), save(), onSavePrologue().
\* onSavePrologue(): the code leaves the reduced value in the map; reducing it
\* again at the next prologue is the same.
onSavePrologue(s) == onPrologue(Reduced(own[s]))

\* save(): a file over its size, found after every packet, is closed first.
save(f, s, p, full) ==
  [open |-> TRUE, oversize |-> full,
   reader |-> Read(IF f.open /\ ~f.oversize THEN f.reader ELSE onSavePrologue(s), p)]

savePacket(s, p) ==
  \E full \in IF s \in SavedSources THEN BOOLEAN ELSE {FALSE} :
    saved' = IF s \in SavedSources
             THEN [saved EXCEPT ![s] = save(@, s, p, full)] ELSE saved

\* rxPacket(DeviceDescriptorPkt): the source's own map.
OwnDescriptor(s, d, desc) ==
  own' = [own EXCEPT ![s] =
            IF desc = NoDesc THEN Del(@, d)
            ELSE Put(@, d, [desc |-> desc, vals |-> Nothing])]

\* The ten rxPacket(Variable...Pkt).
OwnValue(s, d, v, ids) ==
  own' = IF d \in DOMAIN own[s]
         THEN [own EXCEPT ![s][d].vals = Put(@, v, ids)] ELSE own

-----------------------------------------------------------------------------
\* allocDev(): the identifier of a known, of a returning or of a new device.
NextFree ==
  LET from == IF nextMappedDevId = 0 \/ nextMappedDevId >= ReservedId
              THEN 1 ELSE nextMappedDevId
  IN CHOOSE n \in from..(from + Cardinality(activeDevId)) :
       n \notin activeDevId /\ \A k \in from..(n - 1) : k \in activeDevId

allocDev(key) ==
  IF key \in DOMAIN devIdMap
  THEN [id |-> devIdMap[key], back |-> FALSE, new |-> FALSE]
  ELSE IF key \in DOMAIN oldDevIdMap /\ oldDevIdMap[key] \in DOMAIN oldDevices
  THEN [id |-> oldDevIdMap[key], back |-> TRUE, new |-> FALSE]     \* lookupOldMappedDeviceId()
  ELSE [id |-> NextFree, back |-> FALSE, new |-> TRUE]

\* Its effect on the maps; the devices are returned by DevicesAfter.
Allocated(a, key) ==
  /\ devIdMap' = Put(devIdMap, key, a.id)
  /\ oldDevIdMap' = Del(oldDevIdMap, key)
  /\ oldDevices' = IF a.back THEN Del(oldDevices, a.id) ELSE oldDevices
  /\ activeDevId' = activeDevId \cup {a.id}
  /\ nextMappedDevId' = IF a.new THEN a.id + 1 ELSE nextMappedDevId

DevicesAfter(a) == IF a.back THEN Put(devices, a.id, oldDevices[a.id]) ELSE devices

(***************************************************************************)
(* updateDescriptor(): an unchanged description is written again only for   *)
(* a device that returns; a changed one replaces the device and drops its   *)
(* values; an empty one removes it.                                        *)
(***************************************************************************)
updateDescriptor(s, d, desc, full) ==
  LET a == allocDev(<<s, d>>)
      ds == DevicesAfter(a)
      known == a.id \in DOMAIN ds
      same == known /\ ds[a.id].desc = desc
      described == addPacket([Now EXCEPT !.ds = Del(ds, a.id)], Descriptor(a.id, desc), TRUE, full)
      returned == addPacket([Now EXCEPT !.ds = ds], Descriptor(a.id, desc), TRUE, full)
  IN /\ Allocated(a, <<s, d>>)
     /\ IF known /\ ds[a.id].src # s
        THEN devices' = ds /\ file' = file
        ELSE IF same
        THEN IF a.back THEN devices' = returned.ds /\ file' = returned.file
             ELSE devices' = ds /\ file' = file
        ELSE IF known /\ desc = NoDesc
        THEN devices' = Del(ds, a.id) /\ file' = file
        ELSE /\ devices' = Put(described.ds, a.id,
                               [dev |-> d, src |-> s, desc |-> desc, vals |-> Nothing])
             /\ file' = described.file

\* updateVariable(): the old value is forgotten before the packet is written.
updateVariable(st, m, v, ids, src, full) ==
  IF m \notin DOMAIN st.ds \/ st.ds[m].src # src THEN st
  ELSE LET w == addPacket([st EXCEPT !.ds[m].vals = Del(@, v)], Value(m, v, ids), TRUE, full)
       IN [w EXCEPT !.ds[m].vals = Put(@, v, ids)]

\* updateValue() of the single packet types: an unmapped device's is dropped.
updateValue(s, d, v, ids, full) ==
  IF <<s, d>> \notin DOMAIN devIdMap THEN Now
  ELSE updateVariable(Now, devIdMap[<<s, d>>], v, ids, s, full)

\* updateValue() of the MultVariable packet types, of at least one value.
updateMultValue(s, d, v, ids, full) ==
  IF <<s, d>> \notin DOMAIN devIdMap THEN Now
  ELSE updateVariable(Now, devIdMap[<<s, d>>], v, ids, s, full)

\* Mutant: every notice tells the storage clients, so that a file may end.
upstreamDisconnectedNotify(st, m) ==
  FoldSet(LAMBDA v, t : addPacket(t, [Value(m, v, st.ds[m].vals[v]) EXCEPT !.ok = FALSE],
                                  TRUE, TRUE),
          st, DOMAIN st.ds[m].vals)

\* upstreamDisconnected(): the last packets again, marked invalid; the other
\* devices stay in the map, so that a roll in between would repeat them.
upstreamDisconnected(st, m) ==
  FoldSet(LAMBDA v, t : addPacket(t, [Value(m, v, st.ds[m].vals[v]) EXCEPT !.ok = FALSE],
                                  FALSE, FALSE),
          st, DOMAIN st.ds[m].vals)

\* dropSourceTag(): StorageManager::notify() once all of them are written.
DropDevice(m, t) ==
  LET u == upstreamDisconnected(t, m) IN [u EXCEPT !.ds = Del(@, m)]

dropSourceTag(s, full) ==
  LET dropped == {m \in DOMAIN devices : devices[m].src = s}
      keys == {k \in DOMAIN devIdMap : k[1] = s}
      st == FoldSet(DropDevice, Now, dropped)
  IN /\ devices' = st.ds
     /\ file' = IF dropped = {} THEN st.file
                ELSE [st.file EXCEPT !.oversize = @ \/ full]
     /\ oldDevices' = [m \in DOMAIN oldDevices \cup dropped |->
                         IF m \in dropped THEN [devices[m] EXCEPT !.vals = Nothing]
                         ELSE oldDevices[m]]
     /\ oldDevIdMap' = [k \in DOMAIN oldDevIdMap \cup {<<s, devices[m].dev>> : m \in dropped} |->
                         LET hit == {m \in dropped : <<s, devices[m].dev>> = k}
                         IN IF hit # {} THEN CHOOSE m \in hit : TRUE ELSE oldDevIdMap[k]]
     /\ activeDevId' = activeDevId \ {devIdMap[k] : k \in keys}
     /\ devIdMap' = [k \in DOMAIN devIdMap \ keys |-> devIdMap[k]]
     /\ UNCHANGED << nextMappedDevId, fastVars >>

-----------------------------------------------------------------------------
\* addFastMetaDDP(): written only when streaming; source tag 0.
addFastMetaDDP(st, m, desc, full) ==
  IF m \in DOMAIN st.ds THEN st
  ELSE LET w == IF st.file.open THEN addPacket(st, Descriptor(m, desc), TRUE, full) ELSE st
       IN [w EXCEPT !.ds = Put(@, m, [dev |-> -1, src |-> 0, desc |-> desc, vals |-> Nothing])]

\* sendUpdate() and sendMultUpdate(): a variable with "persist" is remembered.
SendFast(st, f, ids, full) ==
  IF f.persist
  THEN updateVariable(st, f.dev, 1, ids, 0, full)      \* updateMappedVariable()
  ELSE addPacket(st, Value(f.dev, 1, ids), TRUE, full)

\* buildFastMetaPackets(): more than three events of a pulse make one packet.
buildFastMetaPackets(st, f, ids, full) ==
  IF Len(ids) > MultLimit THEN SendFast(st, f, ids, 1 \in full)
  ELSE FoldLeft(LAMBDA t, i : SendFast(t, f, << ids[i] >>, i \in full), st,
                [i \in 1..Len(ids) |-> i])

-----------------------------------------------------------------------------
Ids(n) == [i \in 1..n |-> budget.used + i]
Spend(what, n) == budget' = [budget EXCEPT ![what] = @ - n]
SpendIds(what, n) == budget' = [budget EXCEPT ![what] = @ - n, !.used = @ + n]

Init ==
  /\ devices = Nothing /\ oldDevices = Nothing
  /\ devIdMap = Nothing /\ oldDevIdMap = Nothing
  /\ activeDevId = {} /\ nextMappedDevId = 1 /\ fastVars = Nothing
  /\ file = [open |-> FALSE, oversize |-> FALSE, reader |-> NoReader]
  /\ own = [s \in Sources |-> Nothing]
  /\ saved = [s \in Sources |-> file]
  /\ last = Nothing /\ ownLast = Nothing
  /\ \E b \in Budgets :
       budget = [updates |-> b.updates, fast |-> b.fast, descs |-> b.descs,
                 downs |-> b.downs, files |-> b.files, used |-> 0]

\* addDevice() from smsd.conf, and addGenericDevice() for an unknown pixel.
AddFast(key, persist, full) ==
  LET a == allocDev(<<0, key>>)
      st == addFastMetaDDP(Now, a.id, CHOOSE x \in Descs : TRUE, full)
  IN /\ key \notin DOMAIN fastVars
     /\ Allocated(a, <<0, key>>)
     /\ fastVars' = Put(fastVars, key, [dev |-> a.id, persist |-> persist])
     /\ devices' = st.ds /\ file' = st.file

addDevice(key) ==
  /\ ~file.open
  /\ AddFast(key, Configured[key], FALSE)
  /\ UNCHANGED << own, saved, last, ownLast, budget >>

addGenericDevice(key, full) ==
  /\ file.open /\ budget.fast > 0
  /\ AddFast(key, FALSE, full)
  /\ UNCHANGED << own, saved, last, ownLast, budget >>

\* The first container is opened once the configured devices are known.
StartStreaming ==
  /\ ~file.open
  /\ DOMAIN Configured \subseteq DOMAIN fastVars
  /\ devices' = NewFile(Now).ds /\ file' = NewFile(Now).file
  /\ UNCHANGED << oldDevices, devIdMap, oldDevIdMap, activeDevId, nextMappedDevId,
                  fastVars, own, saved, last, ownLast, budget >>

\* A container or file another part starts (a run, a pause), or a state
\* snapshot it takes; the saved input files belong to the container.
RollFile(what) ==
  /\ file.open /\ budget.files > 0
  /\ devices' = Reduced(devices)
  /\ file' = IF what = "snapshot" THEN file ELSE NewFile(Now).file
  /\ saved' = IF what = "container" THEN [s \in Sources |-> [saved[s] EXCEPT !.open = FALSE]]
              ELSE saved
  /\ Spend("files", 1)
  /\ UNCHANGED << oldDevices, devIdMap, oldDevIdMap, activeDevId, nextMappedDevId,
                  fastVars, own, last, ownLast >>

RxDescriptor(s, d, desc) ==
  /\ file.open /\ budget.descs > 0
  /\ savePacket(s, Descriptor(d, desc))
  /\ OwnDescriptor(s, d, desc)
  /\ \E full \in BOOLEAN : updateDescriptor(s, d, desc, full)
  /\ last' = IF desc = NoDesc \/ (<<s, d>> \in DOMAIN devIdMap
                                  /\ At(devices, devIdMap[<<s, d>>], [desc |-> desc]).desc # desc)
             THEN Del(last, <<s, d>>) ELSE last
  /\ ownLast' = Del(ownLast, <<s, d>>)
  /\ Spend("descs", 1)
  /\ UNCHANGED fastVars

\* What the source sent, for the properties; a value of an undescribed device
\* is not expected to be kept.
Sent(s, d, v, ids) ==
  /\ last' = IF <<s, d>> \in DOMAIN devIdMap /\ devIdMap[<<s, d>>] \in DOMAIN devices
             THEN Put(last, <<s, d>>, Put(At(last, <<s, d>>, Nothing), v, Last(ids)))
             ELSE last
  /\ ownLast' = IF d \in DOMAIN own[s]
                THEN Put(ownLast, <<s, d>>, Put(At(ownLast, <<s, d>>, Nothing), v, Last(ids)))
                ELSE ownLast
  /\ SpendIds("updates", Len(ids))
  /\ UNCHANGED << oldDevices, devIdMap, oldDevIdMap, activeDevId, nextMappedDevId, fastVars >>

RxValue(s, d, v) ==
  /\ file.open /\ budget.updates >= 1
  /\ savePacket(s, Value(d, v, Ids(1)))
  /\ OwnValue(s, d, v, Ids(1))
  /\ \E full \in BOOLEAN :
       LET st == updateValue(s, d, v, Ids(1), full)
       IN devices' = st.ds /\ file' = st.file
  /\ Sent(s, d, v, Ids(1))

RxMultValue(s, d, v, n) ==
  /\ file.open /\ budget.updates >= n
  /\ savePacket(s, Value(d, v, Ids(n)))
  /\ OwnValue(s, d, v, Ids(n))
  /\ \E full \in BOOLEAN :
       LET st == updateMultValue(s, d, v, Ids(n), full)
       IN devices' = st.ds /\ file' = st.file
  /\ Sent(s, d, v, Ids(n))

sourceDown(s) ==
  /\ file.open /\ budget.downs > 0
  /\ \E full \in BOOLEAN : dropSourceTag(s, full)
  /\ last' = [k \in {k \in DOMAIN last : k[1] # s} |-> last[k]]
  /\ Spend("downs", 1)
  /\ UNCHANGED << own, saved, ownLast >>

FastEvents(key, n) ==
  /\ file.open /\ key \in DOMAIN fastVars /\ budget.fast >= n
  /\ \E full \in SUBSET (1..MultLimit) :
       LET st == buildFastMetaPackets(Now, fastVars[key], Ids(n), full)
       IN devices' = st.ds /\ file' = st.file
  /\ last' = IF fastVars[key].persist
             THEN Put(last, <<0, key>>, Put(Nothing, 1, Last(Ids(n)))) ELSE last
  /\ SpendIds("fast", n)
  /\ UNCHANGED << oldDevices, devIdMap, oldDevIdMap, activeDevId, nextMappedDevId,
                  fastVars, own, saved, ownLast >>

\* addChopperEvent(), with the packets buildChopperPackets() makes of it.
ChopperEvent(c) ==
  /\ file.open /\ budget.fast >= 1
  /\ \E full \in BOOLEAN, more \in BOOLEAN :
       LET m == ReservedId + c
           st == addFastMetaDDP(Now, m, CHOOSE x \in Descs : TRUE, full)
           w == addPacket(st, Value(m, 1, Ids(1)), TRUE, more)
       IN devices' = w.ds /\ file' = w.file
  /\ SpendIds("fast", 1)
  /\ UNCHANGED << oldDevices, devIdMap, oldDevIdMap, activeDevId, nextMappedDevId,
                  fastVars, own, saved, last, ownLast >>

Next ==
  \/ \E key \in DOMAIN Configured : addDevice(key)
  \/ \E key \in FastKeys, full \in BOOLEAN : addGenericDevice(key, full)
  \/ StartStreaming
  \/ \E what \in {"snapshot", "file", "container"} : RollFile(what)
  \/ \E s \in Sources, d \in Devs, desc \in Descs \cup {NoDesc} : RxDescriptor(s, d, desc)
  \/ \E s \in Sources, d \in Devs, v \in Vars : RxValue(s, d, v)
  \/ \E s \in Sources, d \in Devs, v \in Vars : RxMultValue(s, d, v, 2)
  \/ \E s \in Sources : sourceDown(s)
  \/ \E key \in FastKeys, n \in 1..(MultLimit + 1) : FastEvents(key, n)
  \/ \E c \in Choppers : ChopperEvent(c)

Spec == Init /\ [][Next]_vars

-----------------------------------------------------------------------------
\* The values reader r holds for device m.
Values(r, m) == At(r.vals, m, Nothing)

(***************************************************************************)
(* Whoever reads the current data file from its start (a translator after a *)
(* restart, a live client) knows every device that is connected, with the   *)
(* description and, for every variable, the very last update its source     *)
(* sent; it never meets a value before its descriptor, nor one update twice. *)
(* (onPrologue(), and the order in which updateDescriptor() and              *)
(* updateVariable() forget, write and remember.)                           *)
(***************************************************************************)
FileSelfContained ==
  file.open =>
    /\ ~file.reader.bad
    /\ \A m \in DOMAIN devices : At(file.reader.desc, m, NoDesc) = devices[m].desc
    /\ \A k \in DOMAIN last : \A v \in DOMAIN last[k] :
         At(Values(file.reader, devIdMap[k]), v, [n |-> 0, ok |-> FALSE])
           = [n |-> last[k][v], ok |-> TRUE]

(***************************************************************************)
(* Once a source is disconnected, no value of its devices is left valid in  *)
(* the current file: a file that started in the middle of the notices would *)
(* repeat values already announced as lost (upstreamDisconnected(): "we     *)
(* should not dump the state of the variables we're dropping").             *)
(***************************************************************************)
LostValuesInvalid ==
  \A m \in DOMAIN oldDevices :
    \A v \in DOMAIN Values(file.reader, m) : ~Values(file.reader, m)[v].ok

(***************************************************************************)
(* The saved input file of a source can be replayed on its own: it holds    *)
(* the last description and values the source sent, also those from before  *)
(* a lost connection, which the source's map keeps (onSavePrologue()).      *)
(***************************************************************************)
SavedSelfContained ==
  \A s \in SavedSources : saved[s].open =>
    /\ \A d \in DOMAIN own[s] : At(saved[s].reader.desc, d, NoDesc) = own[s][d].desc
    /\ \A k \in DOMAIN ownLast : k[1] = s =>
         \A v \in DOMAIN ownLast[k] :
           At(Values(saved[s].reader, k[2]), v, [n |-> 0, ok |-> FALSE])
             = [n |-> ownLast[k][v], ok |-> TRUE]

\* Every file of either kind can be read on its own (onPrologue(),
\* onSavePrologue()).
SelfContained == FileSelfContained /\ SavedSelfContained
=============================================================================
