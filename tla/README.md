# TLA+ models of the ADARA Stream Management Service

ADARA streams neutron-scattering data from the instruments of a beam line to
disk, to live listeners and to the translation service.  Its centre is the
Stream Management Service (SMS, `sms/`): one process that receives data from
the readout computers, assembles pulses, records them in storage containers
(one per run, one for each time between runs), serves them to live listeners,
and sends every run to the Streaming Translation Client (STC, `stc/`), which
turns it into a NeXus file.  Around it stand the PV streamer (`PVStreamer/`),
which feeds it slow-control values, and the DAS monitor (`dasmon/`), which
watches its stream.  This directory holds the TLA+ specifications of these
programs, the TLC configurations that check them and the TLAPS proofs about
them.

## 1. Inventory

| Component | State | Operations | Status |
|---|---|---|---|
| Translation client manager, `STCClientMgr.cc` | maps of pending and sending runs, `m_currentRun`, lookup/connect flags, socket, four timers, connection count | `containerChange`, `queueRun`, `nextRun`, `startConnect`, `lookupComplete`, `connectComplete`, time-outs, `clientComplete` | modelled |
| Translation client, `STCClient.cc` | list of files to send, offset, subscriptions, write adapter | `writable`, `fileAdded`, `fileUpdated`, `readable` | modelled |
| Run control and run numbers, `SMSControl::setRecording`, `StorageManager.cc` | `m_recording`, `next_run` and `next_run.temp` on disk | start, stop, `updateNextRun`, `readRunFile`, `cleanupRunFiles` | modelled |
| Background I/O and purge, `StorageManager.cc`, `EventFd.cc` | `m_ioActive`, block counts, directory cache, two eventfds | start-up scan, `purgeData`, `ioCompleted`, `stop` | modelled |
| Storage container and file, `StorageContainer.cc`, `StorageFile.cc` | stack of pause modes, each with an open file and deferred files; announced files; sizes | `newFile`, `terminateFile`, `getPauseModeByTime`, `write`, `pause`, `resume`, `terminate`, `notify` | partly |
| Container stack, `StorageManager.cc` | containers still open for late data, cached lookup | `findContainerByTime`, `cleanContainerStack`, `startContainer`, `endCurrentContainer`, split | partly |
| Pulse assembly, `SMSControl.cc` | map of pulses, source bit sets, pulse buffer | `getPulse`, `pulseEvents`, `pulseRTDL`, `markPartial`, `markComplete`, `popPulseBuffer` | partly |
| Data source connections, `DataSource.cc` | connection state, one timer, hardware sources, pulse order | connect, read, time-outs, disable | partly |
| Live listeners, `LiveServer.cc`, `LiveClient.cc` | lists of containers and files, history position, subscriptions | accept, hello, follow containers, send | partly |
| Metadata and run information, `MetaDataMgr.cc`, `RunInfo.cc`, ... | devices, descriptors, last values, cached packets | update, lose a source, prologue | partly |
| Process variables and auto-save, `SMSControlPV.cc` | settings, auto-save file | `changed`, restore | partly |
| Markers, `Markers.cc` | pause, scan, comment | emit at the end of a run | partly |
| Packet parser, `common/` | buffer, remainder of an oversize packet | read, parse, encode, decode | partly |
| Streaming translation client, `stc/` | event index and buffers, banks, monitors, variables, marker logs | one handler per packet type, end of the run | partly |
| PV streamer, `PVStreamer/` | devices and their numbers, packet pool and queue, agents, clients | EPICS callbacks, configuration, output adapter | partly |
| DAS monitor and ComBus, `dasmon/` | rule engine, facts, signals, tables, router | packet handlers, metrics, database, repeats | partly |
| Event loop adapters | wrappers of the EPICS `fdManager` | | not modelled |
| Tools | command-line utilities for stream files | | not modelled |

`PROJECT.json` says of each component which part is left out.

Everything in the SMS but the scan and purge thread runs in one event loop
(EPICS `fdManager`), so a handler is never interrupted by another.  The PV
streamer and the DAS monitor have threads.  What makes the code hard:

* a handler finds the state that several others left behind, long after the
  condition it relies on was checked (lookup, connect, timers, retries);
* signals are synchronous calls: a listener runs in the middle of an operation
  of the container it listens to;
* data arrives late and out of order, so pulses, containers and pause modes
  stay open behind their successors, and a source may leave while others wait
  for it;
* iterators into maps and lists are cached and the lists change under them;
* the process and the machine may go down between any two system calls;
* operations made of several steps fail half way and are retried whole;
* in the translator, what is known when (the first pulse, the working
  directory, the definition of a variable) decides where a value is kept.

`PROJECT.json` lists the hazards one by one, each at its line and with the
properties that would catch it.  In a sentence per component, correct means:

* manager: no run is lost, none is sent twice at a time, the queue never
  hangs, every run is in the end translated or handed to a person;
* container and client: the client gets every file of the run, completely,
  once, in order, and is told of the end at the end;
* run control: a run number is used once, the service can always be started
  again;
* container stack: every packet goes to the container of its time, and an old
  container is closed neither too early nor never;
* background I/O: one request at a time, a count of the used blocks that is
  short of the closed files by no more than what is never counted, space is
  recovered;
* pulse assembly: the pulses are recorded oldest first with exactly their
  events; nothing waits for a source that has left;
* live listeners: none sleeps through data or misses a container;
* metadata: every file can be read on its own, lost values never come back;
* parser and prologue: packets survive any cutting, settings survive restarts;
* translator: indices stay aligned with pulses, every event is accounted for,
  every value and marker is at its time;
* PV streamer: clients end up with the server's devices and values;
* DAS monitor: rules follow the facts, observers hold what it holds.

## 2. Modules

### STCClientMgr

The members of `STCClientMgr` are the record `mgr`, and each member function is
an operator from one value of it to the next, because the handlers call each
other.  One handler is one action: `StartRun`/`StopRun`/`ExpireContainer` are
`containerChange()` as the recording side calls it, `LookupComplete`,
`ConnectComplete`, `ConnectTimeout`, `ReconnectTimeout`, `LookupTimeout`,
`TransientTimeout`, `MaxConnectionsChanged` and `ClientComplete` are the
handlers of the manager, `Restart`, `ScanRun`, `ScanCompleted` and `Rescan` what
happens around a restart and at an operator's request.  A container object is
a run number and a copy index: a restart or a rescan makes a second object for
the same run, and the code's maps are keyed by the run number.  Outstanding
lookup signals are counted, so that an answer may come after its time-out.

### RunStream

One run, from its container to the client that streams it.  `modes` is the
pause-mode stack, `files` all files ever made, `list` the announced ones.  Time
stamps are abstracted: a packet may belong to any open mode, and any of the modes
behind it may have expired when it is looked up.  They need not be the oldest:
pauses are cut at the times of process variables, which are in no order, and each
mode is tested by its own.  `overtook` is the history of the pairs of modes of
which the newer one expired while the older stayed open; the only files that are
announced out of order are those of such pairs.  Sizes are counted in packets.  A
container operation computes its effect on the modes at once and leaves in `todo`,
in order, what listeners can see; `Deliver` takes one entry and runs the client's
callback in it.  Nothing else may happen in between, as in the code; the split only makes every callback see the state it really sees.
`Writable` gives all clients that one call of `writable()` may leave: `sendfile()`
may send any part of a file, and the socket may fail.

### RunControl

`setRecording()` around the run number on disk.  Every system call of
`updateNextRun()` and `cleanupRunFiles()` is a step that may fail; `Crash` and
`PowerLoss` may come between any two.  `durable` is the set of contents the two
files may be found with after a power loss: an unsynced change may or may not
have reached the disk, and renaming a file whose data was not synced may leave
an empty file.  `front` is the run number of the container in front of the
stack (0 between runs, `NoContainer` if there is none).

### ContainerStack

The containers that are open at a time and the pause modes in each, as sets of
records with a time range and a position (`pos`; the largest is in front), so
that one search, `Find`, and one expiry rule, `Expired`, serve
`findContainerByTime()` and `getPauseModeByTime()`, which are the same algorithm
on two lists.  `last` is the lookup that `findContainerByTime()` has cached:
its arguments and the position of the list node.  `maxTimes` and `up` are what
expiry depends on: the times the data sources have reached, and which are
connected.  `AddPacket`, `SavePacket` and `Heartbeat` look a time stamp up;
`StartRecording`, `StopRecording`, `Pause` and `Resume` cut a range at the time
stamp of the request, which another machine has set; `SourceUp`, `SourceDown`
and `CheckRequired` are the events that may clean the stack.

Abstractions: whether a container has 100 files and an oversize one is an
input (`full`) of the packet actions; `startContainer()` succeeds, its failures
are in RunControl; list iterators other than the cached one are not part of the
state, nor is the cache of `getPauseModeByTime()` (`StorageContainer.cc:467`):
the model searches the pause modes each time.  A time is a number of
nanoseconds; `Wallclocks` are the values of `clock_gettime()`, which the code
compares with EPICS times although their epochs differ, so every one of them is
larger than every time stamp.  `MCContainerStack` adds the symmetry of the data
sources.

### StoragePurge

The main thread and the I/O thread over one pool of containers, with the two
eventfds (`startFd`, `completeFd`), whose counters add up what is written to
them, and the shared counters `scanned` and `purged`.  The files of a container
are one list in the order of their names, which is the order of their deletion:
what the sources sent (`savePacket`), the data (`AddPacket`, `RollFile`) and the
prologues a container that stays in the stack keeps, and a split copies
(`startContainer`).  Writing asks for a purge when the pool is over its limit;
closing a file of the first two kinds counts it; nobody counts a prologue, though
the scan counts those of before the start and a purge deletes all alike.
`missed` is a history of the blocks that no code counts: prologues, data files
the scan refuses, and what it saves by rounding the saved files once.  A prologue
that a pause keeps for its mode (`terminateFile()` with `do_terminate` false) is
not modelled; it is one more file nobody counts.  `scanDaily`, `purgeDaily`,
`PurgeContainer`, `EndDaily` and `purgeData` are the I/O thread, one directory
or container at a time, because the main thread goes on writing meanwhile.
`cache` is `m_dailyCache`, the sizes read when it was last filled.  Somebody else
may delete directories (`DeletedOutside`); `exact` then turns FALSE, and so it does
when a file the stack has open is deleted.  `MCStoragePurge` gives the pool it
starts with.

### PulseStream and PulseAssembly

`PulseStream` is the promise: pulses are held, and recorded oldest first with
exactly the events that were put into them.  `PulseAssembly` is the code: the
pulse map with its cached iterator, the pulse buffer, the bit sets of sources,
and the connection of each data source with its timer and its hardware sources.
A handler of `DataSource` calls `SMSControl` several times; the rest of the
running handler is `todo`, one entry per call, because a call may change the
source that makes it.  The events are members of a set of batches, tagged with
what decides how they are recorded (`Pixel`).  `MCPulseAssembly` gives the
batches pixels of every kind in turn.

### LiveListener

The containers and files as a listener sees them, with the same `todo` as
RunStream; the index of state snapshots from which it is handed the past; the
listener's list of files and containers and its subscriptions.  One listener
at a time: they share no state.  `MCLiveListener` holds the bound of the run.

### MetaData

The devices, their output identifiers, descriptors and last values, for the
sources, the fast metadata and the choppers; files that roll at any packet,
each with its prologue; the saved input stream of a source.  What a file holds
is kept as what a reader that starts at its beginning knows (`Read`).

### ADARAPackets, PacketParser, PrologueConfig, PacketStream

`ADARAPackets` has the layout and the validity test of each packet class, on
32-bit words.  `PacketParser` is the buffer of `ADARAParser.cc` with packets in
pieces, oversize packets and the stop of a callback.  `PrologueConfig` is the
beam monitors, bank sets and run information with their flags of changed
sections, their cached packets and the auto-save file.  `PacketStream` puts
them behind one connection in three settings: framing, decoding and prologue.

### StreamParser, StreamVariables

The translator: the packet state machine, banks and states, monitors, the event
index with its gaps and buffers, the working directory that becomes known late,
the end of the run; and on top of it the process variables with their keys,
names and connections, and the markers.  What was written to the file is kept
next to the buffer it came from.  `MCStreamVariables` gives the contents.

### PVOutput, PVStreamer

The device records, their numbering, the packet pool and the output adapter
(`PVOutput`), and the agents, channels and EPICS callbacks in front of them
(`PVStreamer`).  A packet is put one at a time, so that every thread sees the
other's half-done work.

### RuleEngine, StreamAnalyzer, DasMonitor

The rule engine and its batches; the analyzer's callbacks, which assert and
retract facts; the monitor with its metrics and database threads and the router
with its clients.  A rule is its set of satisfying valuations.  A handler of a
packet holds the monitor's mutex and is one step, with the exception of
`beginProlog()` and `endProlog()`, which hold none: in them, and in the batch of
`beamMetrics()`, reading the mask, writing it, ending the batch and telling of each
fact are steps of their own (`call` says where the two threads are), so that a
batch of the metrics may begin in the middle of one that ends.

### MC modules and proof modules

The MC modules give values to constants that a `.cfg` cannot write.
`STCClientMgrProofs`, `RunControlProofs`, `ContainerStackProofs`,
`PulseAssemblyProofs`, `RunStreamProofs`, `StoragePurgeProofs`,
`LiveListenerProofs` and `PVStreamerProofs` extend the modules of the same name
with their inductive invariants and theorems; `PulseAssemblyProofs` also holds
the refinement.

Operators commented *Mutant* are deliberately wrong forms of the definition
that follows them.  No specification uses them: each shows, put in the place of
the right form, that a property can be violated.

## 3. Runs

| Run | Question |
|---|---|
| `stc` | Runs recorded, restarted and rescanned, late lookups, lost connections: is `nextRun()` defined, every wait on a timer, the manager never idle, no run lost or sent twice at a time, and every run in the end disposed of? |
| `stream` | Pauses, late packets, rollovers, deferred files and a client that joins at any time: is the stream complete, in order, woken up, and ended by Data Done? |
| `run_numbers` | Are run numbers unique and `next_run` readable, through failures, crashes and power loss? |
| `container_stack` | Does every time stamp find a container and a pause mode, is the cached lookup right, is an old container closed neither too early nor, with no source connected, never? |
| `pulse_assembly` | Two sources come, go and send overlapping pulses: does the recorded stream implement `PulseStream`, does nothing wait for a source that has left, is the cached iterator valid, is an enabled source always on some timer? |
| `storage_purge` | Is the block count kept, one command out at a time, and space recovered? |
| `live_listener` | Does a listener ever sleep through data, or miss or reorder containers? |
| `metadata` | Can every file be read on its own, and does a lost value stay invalid, wherever a file rolls? |
| `packets` | Do packets survive any cutting into reads, and settings any restart? |
| `translator` | Are indices aligned (but for a bank that comes twice in a packet), events accounted for (while the array of banks does not become smaller), values kept and markers in order, with small buffers and a late working directory? |
| `pv_streamer` | Do clients end up with the server's devices and values, whatever the threads interleave? |
| `dasmon` | Do rules follow facts, whatever the batches of the prologue and the metrics interleave, and do the router, its clients and the tables hold what the analyzer holds? |

All twelve pass.

### Bounds

* `stc`: two runs with two container objects each are enough for a run to be
  current, pending or sent next to another, for a container to outlive its
  recording, and for a restart or rescan to make a second object.  One
  connection limit per run (`Limits`), one requeue, one outstanding lookup; that a
  second lookup is under way when a first one is answered late is left to the
  proofs, and so is a run in the middle of the queue of BALANCE mode, whose turn no
  run and no proof shows.
* `stream`: three pause modes (an oldest, a middle, a current one, so that the middle
  one may expire in front of the oldest), four files,
  file size limit 1 packet so that every file may roll over, one connection
  (a second starts from `NewClient` as the first does).  `MaxPending` bounds the
  files one mode may defer.
* `run_numbers`: numbers 1 to 4: enough for a number to be taken, abandoned,
  adopted from the temporary file and taken again.  A short write is modelled by
  integer division by the members of `Powers` (2 stands for the radix, so that a
  prefix of a small number is a smaller number).
* `container_stack`: two sources (one may be ahead of the other), time stamps 1
  and 2 with a time-out of 1 tick (a container can expire, and can be one tick
  short of it), three containers (an expired one, an old one, the current one),
  two pause modes per container, in at most one container besides the current
  one.  No action or property tells the sources apart, so they are symmetric.
* `pulse_assembly`: two sources with one hardware source each, three pulse
  identifiers and three event packets (two pulses held and one opened), pulse
  buffers of one pulse so that each overflow happens, at most three other
  events.  The sources are symmetric.  `getPulse()` running out of source bits
  (`connectionFailed()`) needs more sources than bits and is not reached with
  two; the proofs, which hold for any number, cover it.
* `storage_purge`: blocks of two bytes, files of one, three containers in two
  days, stack of two, so that files roll, days empty and a purge falls short;
  prologues of a byte.  `MaxFiles` lets data and saved files roll only when the
  purge has made room; the proof has no such bound.  The modulus of the unsigned
  counts is larger than any count, so a count below zero shows as a very large one.
* `live_listener`: three files, containers and modes, snapshots at every
  second, listeners with and without history, one change of the setting (in a
  behaviour of one second, `Few` in `MCLiveListener`).
* `metadata`, `dasmon`: the number of each kind of event is a budget; `Budgets` is
  a set of budgets, each of which lets a different group of events meet.  `dasmon` has
  two process variables, so that two may be in error at once.
* `packets`: three packets a script, a smallest buffer of 6 words and a largest
  of 13 (a header and one packet more), one lost connection, three changed
  settings, one restart.
* `translator`: three pulses (a gap needs a pulse before and after), buffers
  of two entries; `Light` in `MCStreamVariables` combines variables and markers
  with at most one pulse, because their only meeting point is the first one.
  `FewOdd` allows one odd packet (a bank twice, an array of banks made smaller,
  a duplicate or an oversize one), the first two within two pulses.  The time
  stamps of variables do not wrap (`Sawtooth = FALSE`).
* `pv_streamer`: one device with two connections (a second name is only ever an
  unused entry of the file), one client, a pool of two packets, three outside events, two readings of the configuration.
* `CHECK_DEADLOCK FALSE` is set where the bounds let a behaviour end.

### Fairness

`STCClientMgr!Fairness`: armed timers fire and the scan goes on (weak fairness;
both are served by the event loop and the I/O thread).  Of the outside world it
is assumed that the STC is not unreachable for good and that no run fails for
ever (strong fairness of a successful connect and of a successful translation);
without the first no run could be sent, and without the second a connection
lost again and again would be retried for ever, as the code intends.
`RunStream!LiveSpec`: a handler that has begun finishes, and a writable socket
is served (weak fairness).  `StoragePurge!Fairness`: data keeps coming for the
current container (only a packet asks for a purge), the completion is read and
the I/O thread runs (weak fairness).  The other runs check safety only.

## 4. Known deviations

Reading the code for the models, and running them, showed behaviour at odds
with a comment, a document or the evident intent.  The models follow the code;
where a property would not hold its statement names the exception.

Translation client and its manager
* A container still stacked when the next run starts clears `m_currentRun` when
  it ends (`STCClientMgr.cc:308`), so the run being recorded can wait behind
  older ones although the comment at line 344 says it is sent first.
* When `getaddrinfo_a()` refuses a request, `startConnect()` returns without a
  timer (line 452); the comment at line 454 promises one.
* `StorageContainer::terminate()` clears `m_active` before announcing the current
  mode's deferred files (`StorageContainer.cc:1214`).  With two or more of them
  Data Done is sent after the first, and again.

Run control, containers and files
* A pause mode may expire, and announce what it deferred, while an older one stays
  open (`StorageContainer.cc:757`): the list of the container, and the stream, then
  differ from the order a restarted service would list the files in.  The statement
  of `AnnouncedInOrder` excepts such pairs of modes.
* When a container's first file cannot be created the run's container stays in
  front with `m_recording` false, and every further start is refused with a
  logic error (`SMSControl.cc:2900`).
* The split compares an EPICS with a Unix time (`StorageManager.cc:1665`), and it
  may terminate a container under a pause-mode iterator taken before
  (`StorageManager.cc:1769`).
* A purge may delete files the stack has open (`StorageManager.cc:3593`).
* Prologue files are written without being counted (`StorageContainer.cc:1495`,
  `1665`), while a purge deletes them and subtracts their blocks
  (`StorageContainer.cc:2381`); the scan rounds the saved files and prologues of a
  container once (`StorageContainer.cc:1948`) and a purge each, and data files that
  `importFile()` refuses are purged but not counted.  The count therefore sinks below the
  space in use.  It is unsigned: below zero it wraps, and everything that may be
  deleted is.  `BlocksAccounted` says the count is short by those blocks (`missed`)
  and by nothing else.
* `stop()` while the I/O thread works throws, because `block()` refuses an eventfd
  that has a callback.

Sources and listeners
* `DataSource::fdReady()` can be called in a state it calls invalid
  (`DataSource.cc:1743`).
* A live client whose history begins in the middle of a file may change files
  under its offset (`LiveClient.cc:250`); the current file is not handed to a
  joining listener when its container is announced (`StorageManager.cc:1809`).

Packets, prologues and settings
* A callback that stops the parser at the header of an oversize packet returns
  -0, so the connection stays open until the rest is read (`ADARAParser.cc:239`,
  `LiveClient.cc:1064`, `STCClient.cc:766`).
* `m_TOFOffset` is kept as a boolean (`ADARAPackets.cc:384`); `TransCompletePkt.h:91`
  adds the EPICS epoch once more; `MultVariableDoublePkt::updateValue()` writes
  field 3 (`ADARAPackets.h:1083`).
* Monitor identifiers from 1024 run into other fields (`SMSControl.cc:5774`);
  reasons over 65535 bytes are cut; a bank list of another length overlaps the
  next section (`DetectorBankSet.cc:742`); `setThrottle()` truncates (line 704).
* A cleared required value is saved as "(unset)" and restored as valid
  (`RunInfo.cc:421`, `SMSControlPV.cc:883`); some flags do not invalidate the
  run-info packet (`RunInfo.cc:866`); a literal "%0A" is decoded to a newline.
* The auto-save file is renamed away before it is written again
  (`StorageManager.cc:3213`): a crash in between loses the settings.
* A reconnecting source's descriptor is written twice when a file rolls
  (against `MetaDataMgr.cc:378-382`), and the values of a device that becomes
  undefined stay valid.

Translator
* A packet that brings a bank twice, or unmapped events of two sources, adds two
  entries to the bank's index (`StreamParser.cpp:2126` against the comment at
  2311-2322).  Such packets occur in the run; `IndexAligned` excepts the banks and
  monitors concerned (`Repeated`), `EventsAccounted` holds for them too.
* A state section of a bank below the highest, or a bank above the highest in a
  state below, makes the array of banks smaller in one direction: banks are
  lost, get the place of another or a place outside (1672-1746).  Such packets occur in
  the run; from then on `IndexAligned` and `EventsAccounted` say nothing of banks
  (`InPlace`), while what they say of monitors goes on to hold.
* The comment on an abnormal end is placed at a time that wraps (line 3758).

PV streamer
* Four paths use a descriptor that is null or deleted; the model ends there
  (`crashed`), and `ClientView` and `ValuesDescribed` say nothing of what follows: a metadata change
  while the agent has no record (`MetadataWithoutRecord`), a time-out of the
  monitor thread while it has no descriptor (`MonitorHung`), an update whose old
  descriptor the agent deletes while the lock is free (`OldDeleted`), and a
  device that loses its active variable while nothing else changes (`Dangling`).
* A packet without a device is logged and then used (`ADARA_OutputAdapter.cpp:205`,
  `463`).  No behaviour of the model has one: TLC would stop in `translate`.

DAS monitor
* `beginProlog()` and `endProlog()` take no mutex (`StreamAnalyzer.cpp:880`,
  `StreamMonitor.cpp:739`, `1310`) and run beside the batch of the metrics thread
  (`StreamAnalyzer.cpp:1011`).  When a batch begins while another thread is telling of
  the end of one, what is still to be told is swallowed, and cleared
  (`RuleEngine.cpp:855`); when facts change meanwhile, an old retraction may be told
  after a new assertion.  `SignalsAgree` and the part of `ClientsInformed` about
  signals except these two cases (`hist.raced`) and no other interleaving of the
  two.  The model treats a change of `m_old_facts` and `m_new_facts` as atomic: two
  threads in one of these containers are undefined, as is `setDefinitions()`
  deleting the engine `endProlog()` is still telling of, which the model excludes.
* Signals repeated in the middle of a batch are told early, and their retraction
  is then swallowed (`hist.early`, `StreamAnalyzer.cpp:385`); a write to the
  database that failed is not repeated (`hist.unwritten`, `StreamMonitor.cpp:2921`).
* A rule's fact is looked up under a name that is not in upper case
  (`RuleEngine.cpp:340`, `358`): circular rules written in lower case are not
  refused.  The names of the model are in upper case.
* `m_recording` survives a lost connection (`StreamMonitor.cpp:741`); a rule whose
  constructor throws stays among the readers of its facts (`RuleEngine.cpp:138`);
  a rule named like a builtin fact is found out too late (`StreamAnalyzer.cpp:621`).
* The router reaches the engine without the analyzer's mutex
  (`ComBusRouter.cpp:753`) and clears `m_resend_state` after the repeat
  (line 256); `synchronize()` leaves `m_new_facts` (`RuleEngine.cpp:431`).

## 5. What is proved

For every value of the constants that satisfies the assumptions of the module
(any number of runs, containers, sources, files, packets, limits and time
stamps), with the safety part of the specification:

* `STCClientMgrProofs`: `TypeCorrect`, `NextRunAlwaysDefined`,
  `ConnectionsAlwaysBounded`, `RetryAlwaysArmed`, `AlwaysBusy`, `RunsNeverLost`,
  `RunsSentByOneClient`.  The properties are not inductive one by one.  A lookup
  answered late finds `connecting` set by a later lookup, so that `NextRunDefined`
  needs that `connecting` implies a pending run *and* that an armed timer and an
  open socket imply `connecting`; `ConnectionsBounded` needs that while a connect
  is under way the count is below the largest limit, although the current limit
  may be lower; `OneClientPerRun` needs that the clients are exactly the entries of
  the sending map, whatever container object they hold.
* `RunControlProofs`: `TypeCorrect`, `RunNumbersUnique`, `AlwaysRestartable`.  The
  invariant says of every content the disk may be found with (`DiskSafe`) that
  its number is readable and larger than every number used, and of each step of
  `updateNextRun()` which contents are durable by then (`StepFacts`); in
  particular that the number is durable before a container gets it.
* `RunStreamProofs`: `FilesAnnouncedInOrder`, `StreamAlwaysComplete`,
  `NoWakeupMissed`, `EveryFileAnnounced`.  The invariant has three parts.
  `ContainerInv` says where every file is: announced, named in `todo`, or deferred
  in its mode; that along the three the files come in the order of their numbers
  unless the mode of the first has overtaken the mode of the second (`Precedes`,
  `NoLater`); that the oldest mode has nothing deferred; and which file of a mode
  is open.  An expiry is followed along the walk from the oldest mode to the newest
  (`Walked`): what it closes has overtaken every mode it has left behind it.
  `Served` says that what the client has sent, is sending and has listed is the
  announced list, piece by piece.  `Told` says that an idle client waits for the
  first file of its list, or for the container, and that the file has not grown
  past what was sent unless the notification is still in `todo`.  Every container
  operation is followed through the two: its effect on the modes at once, and
  what it leaves in `todo` entry by entry.
* `ContainerStackProofs`: `TypeCorrect`, `LookupNeverFails`, `CacheNeverStale`,
  `NoContainerStranded`, `ClosedOnlyLate`.  That every time stamp finds a range is
  not inductive: an expiry could open a gap.  The invariant, `NoGap`, says that
  from the start of *any* range on, the ranges at its position and in front of
  it leave no gap.  A push keeps it, because the old range ends where the new
  one starts, even if that is before its own start.  Expiry keeps it although it
  erases ranges anywhere behind the one found: a range that stays behind the one
  found ends later than every range that is erased, so from its start on it
  covers what they covered.  Oldest ranges may go: earlier times are then before
  the bottom of the stack, which the code takes for the current range.  The
  lemmas are about one stack of ranges and are used for containers and pause
  modes.  `ClosedOnlyLate` is an action property: each action is a chain of
  operations on the stack, each of which keeps every range or erases it only
  when all connected sources are past its end by the time-out.
* `PulseAssemblyProofs`: `CacheAlwaysValid`, `NoSourceForgotten`,
  `NobodyWaitsForDeparted`.  `CoreInv` joins the types with the ownership of source
  bits (a bit is owned by one hardware source of one source, and a pulse waits
  for owned bits only) and with what the rest of a running handler (`TodoOK`) may
  still do: the calls of one handler are for one source, and the ones behind a
  call that can take the source away are guarded.
* The same module ends with `PulsesFollowStream`, the refinement: the map of pulses
  and the container's packets, seen through `held` and `stream`, follow
  `PulseStream` step by step.  Most steps stutter; an event packet opens its pulse
  (after making room for it) and adds its batch in a later call of the same
  handler; completion, overflow and the operator record the oldest pulses.  The
  invariant adds to `PulseInv` that a batch is new until the call that adds it,
  which is the only one that carries it (`FreshInv`).
* `StoragePurgeProofs`: `PoolInvariant`, `BlocksAlwaysAccounted`,
  `OneCommandOnly`.  `BlocksAccounted` is a sum, and what a purge recovers is
  counted from what its cache says was there, less the history of what is never
  counted (`missed`), so the invariant (`PoolInv`) has
  the cache on the disk as long as no file vanished behind the pool's back
  (`CacheOK`), the lists of days and containers a purge walks increasing and of
  the cached day (`ListsOK`), the numbers of the current container newer than
  all those lists (`Newest`), and the containers of the stack, which alone are
  written, never among those the scan still counts (`StackOK`): the scan counts
  a container whose files are all closed.
  `OneCommand` and `EndsDown` tie the two threads: a command is sent only to an
  idle I/O thread, and the end of the process waits for it.  The first half of
  the module proves what sums over finite sets do, from the definition of the
  folds they are written with.
* `LiveListenerProofs`: `LiveInvariant`, `ListenerAlwaysWoken`,
  `AlwaysStreamedInOrder`.  The invariant (`LiveInv`) has a half for the storage
  and one for the client.  `TodoOK` says what the operation in progress may still
  announce: a container ends when it has left the stack and after its last file,
  and starts, as the newest, before its first.  On the client's side `SubOK` ties
  the subscription to the first listed file and that file's state, `Woken` says
  that a deleted write adapter leaves nothing signalled unsent, `ContsOK` and
  `Covered` that every container since the client joined is followed, waits in
  order, is about to start, or will announce no more (`Done`), and `Heard` that
  a file announced before its container's turn is still found when the turn
  comes.  The proof follows `writable()` through its list for any number of files
  sent or passed over (`Sending`), and `containerChange()` through the containers
  it takes whole (`Parted`, `Listing`); a step of the storage touches one half, a
  step of the client the other, and a delivered event, with its callback, both.
* `PVStreamerProofs`: `DevicesInvariant`, `VarIdsAlwaysUnique`.  A record's numbers
  come from the record before it and from the descriptor an agent has built, and
  that descriptor waits in several hands first.  `DevicesInv` therefore says of
  every descriptor and record held by an agent, by the configuration manager and
  by the reader of the file that it has the form and the variables of one, and of
  every record that all its variables are numbered, each differently.  The step that matters is a
  redefinition: the variables that stay keep distinct numbers, the rest take the
  lowest that are free, and there are enough of them (`Sorted` and the lemmas on
  finite sets of numbers).

The inductive invariants of `RunStreamProofs`, `PulseAssemblyProofs`,
`StoragePurgeProofs`, `LiveListenerProofs` and `PVStreamerProofs` were checked by
TLC on the constants of their runs before they were proved.

Only model-checked:

* liveness (`EveryRunDisposed`, `DataDoneReached`, `SpaceRecovered`): fairness and
  ENABLED are out of the prover's reach;
* the translator, the packets and the PV streamer's queue and client tables: the
  meaning of their properties lies in folds and recursive definitions over data,
  whose values for every input need induction over that data;
* the DAS monitor (whose rule engine is recursive) and the metadata.

## 6. Not modelled, and the plan

Left out: the wording of texts, logging, EPICS channel access, the HDF5 calls
and the tree of the NeXus file, the expressions of rules (muParser), the message
broker, the command-line tools; of the metadata, write failures, the switching
of SaveInputStream, the wrap of device identifiers (`MetaDataMgr.cc:287`) and
packets without values (`MetaDataMgr.cc:864`).  `PROJECT.json` gives the reason for
each component.

What could follow:

1. A proof of `LostValuesInvalid` of the metadata.
2. The cache of `getPauseModeByTime()`, and the composition of the container
   stack with the client manager (each container ends once).
