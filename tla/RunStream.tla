----------------------------- MODULE RunStream -----------------------------
(***************************************************************************)
(* One run, from the storage container that records it                     *)
(* (sms/StorageContainer.cc, sms/StorageFile.cc) to the STCClient that     *)
(* streams its files to the translation service while they are still       *)
(* being written (sms/STCClient.cc).                                       *)
(*                                                                         *)
(* A container keeps a stack of pause modes, the current one in front.     *)
(* Each mode writes files of its own, and packets arrive late and out of   *)
(* order, so an older mode stays open next to newer ones.  A file enters   *)
(* the container's list, and is announced to the client, only when every   *)
(* older mode is closed; until then it waits in m_pendingFiles.  The times *)
(* of a pause are those of process variables and in no order, so a mode    *)
(* may expire, and announce what it deferred, in front of an older one.    *)
(*                                                                         *)
(* Everything runs in one thread, but a container operation makes many     *)
(* signal calls, each of which runs the client in the middle of the        *)
(* operation.  An operation therefore sets the pause modes at once and     *)
(* leaves in todo, in order, what the client can see of it; Deliver        *)
(* performs one entry together with the client's callback, and nothing     *)
(* else happens until todo is empty.                                       *)
(***************************************************************************)
EXTENDS Naturals, Sequences, SequencesExt

CONSTANTS
  MaxModes,        \* bound: pause modes over the life of the run
  MaxFiles,        \* bound: files over the life of the run
  MaxPending,      \* bound: files deferred by one pause mode
  MaxFileSize,     \* m_max_file_size, in packets
  MaxClients,      \* bound: connections made for this run
  SendPausedData   \* m_send_paused_data

ASSUME ConstantsOK ==
  /\ {MaxModes, MaxFiles, MaxPending, MaxFileSize, MaxClients} \subseteq Nat
  /\ SendPausedData \in BOOLEAN

VARIABLES
  modes,      \* m_pauseModeStack, current mode first
  files,      \* every StorageFile of the run, in order of creation
  list,       \* m_files of the container
  runActive,  \* m_active of the container
  recording,  \* the run has not been stopped
  overtook,   \* history: <<m, o>>, mode m expired while the older o stayed
  todo,       \* what is left of the container operation in progress
  client,     \* the STCClient
  connects    \* connections made so far

vars == <<modes, files, list, runActive, recording, overtook, todo, client,
          connects>>
container == <<modes, files, list, runActive, recording, overtook>>

MaxSize == MaxFileSize + 3
FileIds == 1..MaxFiles
NoFile == 0

\* The members of StorageFile and of struct PauseMode.
FileType ==
  [mode : Nat, num : Nat, pauseNum : Nat, paused : BOOLEAN, size : 0..MaxSize,
   seen : 0..MaxSize, active : BOOLEAN, status : {"none", "RUN_EOF", "END_RUN"}]

ModeType ==
  [num : Nat, numFiles : Nat, numPauseFiles : Nat, paused : BOOLEAN,
   file : {NoFile} \cup FileIds, pending : Seq(FileIds)]

ClientType ==
  [alive : BOOLEAN, files : Seq(FileIds), passed : Seq(FileIds),
   offset : 0..MaxSize, sub : {NoFile} \cup FileIds, write : BOOLEAN,
   done : 0..2]

TodoType ==
  [op : {"add", "close"}, file : FileIds]
    \cup [op : {"write"}, file : FileIds, notify : BOOLEAN]
    \cup [op : {"inactive"}]

NoClient ==
  [alive |-> FALSE, files |-> <<>>, passed |-> <<>>, offset |-> 0,
   sub |-> NoFile, write |-> FALSE, done |-> 0]

-----------------------------------------------------------------------------
(* The container.  An operation maps [modes, files, todo] to a new value.  *)

\* Announce a sequence of files, oldest first.
Adds(fs) == [k \in 1..Len(fs) |-> [op |-> "add", file |-> fs[k]]]

\* Mutant of newFile(): the new file is announced at once, whichever modes
\* are still open behind it.
NewFileUndeferred(c, i, paused) ==
  LET m == c.modes[i]
      id == Len(c.files) + 1
      numFiles == IF paused THEN m.numFiles ELSE m.numFiles + 1
      numPauseFiles == IF paused THEN m.numPauseFiles + 1 ELSE m.numPauseFiles
  IN [modes |-> [c.modes EXCEPT ![i] =
                   [@ EXCEPT !.numFiles = numFiles, !.file = id,
                             !.numPauseFiles = numPauseFiles, !.paused = paused]],
      files |-> Append(c.files,
                  [mode |-> m.num, num |-> numFiles,
                   pauseNum |-> IF paused THEN numPauseFiles ELSE 0,
                   paused |-> paused, size |-> 1, seen |-> 0,
                   active |-> TRUE, status |-> "none"]),
      todo |-> c.todo \o Adds(<<id>>)]

\* newFile(): the mode's next file, announced if the mode is the oldest one
\* and deferred behind the older modes otherwise.
NewFile(c, i, paused) ==
  LET m == c.modes[i]
      id == Len(c.files) + 1
      num == IF m.num = 0 THEN 1 ELSE m.num
      numFiles == IF paused THEN m.numFiles ELSE m.numFiles + 1
      numPauseFiles == IF paused THEN m.numPauseFiles + 1 ELSE m.numPauseFiles
      oldest == i = Len(c.modes)
  IN [modes |-> [c.modes EXCEPT ![i] =
                   [num |-> num, numFiles |-> numFiles,
                    numPauseFiles |-> numPauseFiles, paused |-> paused,
                    file |-> id,
                    pending |-> IF oldest THEN <<>> ELSE Append(m.pending, id)]],
      files |-> Append(c.files,
                  [mode |-> num, num |-> numFiles,
                   pauseNum |-> IF paused THEN numPauseFiles ELSE 0,
                   paused |-> paused, size |-> 1, seen |-> 0,
                   active |-> TRUE, status |-> "none"]),
      todo |-> IF oldest THEN c.todo \o Adds(Append(m.pending, id)) ELSE c.todo]

\* terminateFile() with do_terminate: the mode's file is closed.
CloseFile(c, i) ==
  [c EXCEPT !.modes[i].file = NoFile,
            !.todo = Append(@, [op |-> "close", file |-> c.modes[i].file])]

\* terminateFile() without do_terminate: the current mode stays open and a
\* new one is pushed in front of it.
PushMode(c, numFiles, numPauseFiles) ==
  [c EXCEPT !.modes =
     <<[num |-> @[1].num + 1, numFiles |-> numFiles,
        numPauseFiles |-> numPauseFiles, paused |-> @[1].paused,
        file |-> NoFile, pending |-> <<>>]>> \o @]

\* Mutant: a mode is closed without announcing what it deferred.
ShutModeForgets(m) ==
  IF m.file = NoFile THEN <<>> ELSE <<[op |-> "close", file |-> m.file]>>

\* Close a mode down: its deferred files are announced, its file closed.
ShutMode(m) ==
  Adds(m.pending)
    \o (IF m.file = NoFile THEN <<>> ELSE <<[op |-> "close", file |-> m.file]>>)

\* Close mode i down and erase it from the stack.
ShutAt(c, i) ==
  [c EXCEPT !.modes = RemoveAt(@, i), !.todo = @ \o ShutMode(c.modes[i])]

\* Close the modes at the places S down, walking the stack from the oldest
\* mode to the newest: what is erased behind a place does not move it.
ShutModes(c, S) ==
  LET len == Len(c.modes)
      shut[n \in 0..len] ==
        IF n = 0 THEN c
        ELSE IF len - n + 1 \in S THEN ShutAt(shut[n - 1], len - n + 1)
        ELSE shut[n - 1]
  IN shut[len]

\* Announce what the oldest remaining mode has deferred.
FlushOldest(c) ==
  LET len == Len(c.modes)
  IN [c EXCEPT !.modes[len].pending = <<>>,
               !.todo = @ \o Adds(c.modes[len].pending)]

\* getPauseModeByTime(): every mode behind the one found is tested by its
\* own time stamps, and those at the places S have expired.
ExpireModes(c, S) == FlushOldest(ShutModes(c, S))

\* write(): an oversize file is rolled over first; a failed write (rotate)
\* closes the file and opens another for the retry.
RollOver(c, i) == NewFile(CloseFile(c, i), i, c.modes[i].paused)

Oversize(fs, f) == fs[f].seen >= MaxFileSize

WriteTo(c, i, rotate, notify) ==
  LET m == c.modes[i]
      opened == CASE m.file = NoFile -> NewFile(c, i, m.paused)
                  [] m.file # NoFile /\ Oversize(c.files, m.file) -> RollOver(c, i)
                  [] OTHER -> c
      ready == IF rotate THEN RollOver(opened, i) ELSE opened
  IN [ready EXCEPT !.todo =
        Append(@, [op |-> "write", file |-> ready.modes[i].file,
                   notify |-> notify])]

\* pause() and resume() of the container.
PauseContainer(c) ==
  LET open == c.modes[1].file
      d == IF open # NoFile /\ ~c.files[open].paused
             THEN PushMode(c, 1, c.modes[1].numPauseFiles) ELSE c
  IN IF d.modes[1].file = NoFile THEN NewFile(d, 1, TRUE) ELSE d

ResumeContainer(c) ==
  LET open == c.modes[1].file
      d == IF open # NoFile /\ c.files[open].paused
             THEN PushMode(c, 0, 0)
             ELSE [c EXCEPT !.modes[1].numPauseFiles = 0]
  IN IF d.modes[1].file = NoFile THEN NewFile(d, 1, FALSE) ELSE d

\* terminate(): every older mode is closed while the run is still active,
\* then the run is inactive, then the current mode is closed.
TerminateContainer(c) ==
  LET d == ShutModes(c, 2..Len(c.modes))
  IN [d EXCEPT !.modes = <<>>,
               !.todo = Append(@, [op |-> "inactive"]) \o ShutMode(d.modes[1])]

-----------------------------------------------------------------------------
(* The client.  writable() and the two signal handlers give the set of     *)
(* clients they may leave: a sendfile() sends any number of packets.       *)

\* A paused file is passed over, unless part of it has already been sent.
Skipped(c, k) ==
  /\ files'[c.files[k]].paused
  /\ ~SendPausedData
  /\ k > 1 \/ c.offset = 0

\* Mutant: the next file is not subscribed to.
AdvanceUnsubscribed(c, k) ==
  IF k = 0 THEN c
  ELSE [c EXCEPT !.files = SubSeq(@, k + 1, Len(@)),
                 !.passed = @ \o SubSeq(c.files, 1, k),
                 !.offset = 0, !.sub = NoFile]

\* The client once the first k files on its list are done with: the
\* subscription moves to the next file if that one is still written to.
Advance(c, k) ==
  IF k = 0 THEN c
  ELSE [c EXCEPT !.files = SubSeq(@, k + 1, Len(@)),
                 !.passed = @ \o SubSeq(c.files, 1, k),
                 !.offset = 0,
                 !.sub = IF k < Len(c.files) /\ files'[c.files[k + 1]].active
                           THEN c.files[k + 1] ELSE NoFile]

\* sendDataDone(), when the list is exhausted and the run is over.
SendDataDone(c) ==
  IF runActive' THEN c ELSE [c EXCEPT !.done = IF @ = 2 THEN 2 ELSE @ + 1]

\* The list is exhausted: every file was skipped or is closed and fully sent.
Exhausted(c) ==
  { [SendDataDone(Advance(c, Len(c.files))) EXCEPT !.write = FALSE] }

\* The loop stops at a file that has more to send, or may get more.
Stopped(c, k) ==
  { [Advance(c, k) EXCEPT !.offset = o, !.write = o < files'[c.files[k + 1]].size] :
      o \in { o \in Advance(c, k).offset..files'[c.files[k + 1]].size :
                o = files'[c.files[k + 1]].size => files'[c.files[k + 1]].active } }

Passable(c, k) == Skipped(c, k) \/ ~files'[c.files[k]].active

\* The client is deleted: its socket failed, or a file cannot be opened.
Deleted == { NoClient }

Writable(c) ==
  LET n == Len(c.files)
      reach == { k \in 0..n : \A j \in 1..k : Passable(c, j) }
  IN (IF n \in reach THEN Exhausted(c) ELSE {})
       \cup (UNION { Stopped(c, k) : k \in { k \in reach \ {n} : ~Skipped(c, k + 1) } })
       \cup (IF \E k \in reach \ {n} : ~Skipped(c, k + 1) THEN Deleted ELSE {})

\* writable() is called from a signal handler only while the client does
\* not already wait for room in the socket buffer.
TryToSend(c) == IF c.write THEN {c} ELSE Writable(c)

\* Mutant: a file announced while the socket is full is not remembered.
FileAddedIfIdle(c, f) ==
  IF c.write THEN {c}
  ELSE TryToSend([c EXCEPT !.files = Append(@, f),
                           !.sub = IF files'[f].active THEN f ELSE NoFile])

FileAdded(c, f) ==
  LET d == [c EXCEPT !.files = Append(@, f)]
  IN IF Len(d.files) > 1 THEN {d}
     ELSE TryToSend([d EXCEPT !.sub =
                       IF @ = NoFile /\ files'[f].active THEN f ELSE @])

\* Mutant: the last update of a closed file is only used to unsubscribe.
FileUpdatedIfActive(c, f) ==
  IF c.sub # f THEN {c}
  ELSE IF files'[f].active THEN TryToSend(c)
  ELSE {[c EXCEPT !.sub = NoFile]}

FileUpdated(c, f) ==
  IF c.sub # f THEN {c}
  ELSE TryToSend([c EXCEPT !.sub = IF files'[f].active THEN f ELSE NoFile])

\* The constructor: the client starts from the files announced so far.
NewClient ==
  [alive |-> TRUE, files |-> list, passed |-> <<>>, offset |-> 0,
   sub |-> IF runActive /\ list # <<>> /\ files[list[1]].active
             THEN list[1] ELSE NoFile,
   write |-> TRUE, done |-> 0]

-----------------------------------------------------------------------------
(* Actions.                                                                *)

\* startRecording() and startContainer(): the container has its first file.
Init ==
  /\ modes = <<[num |-> 1, numFiles |-> 1, numPauseFiles |-> 0,
                paused |-> FALSE, file |-> 1, pending |-> <<>>]>>
  /\ files = <<[mode |-> 1, num |-> 1, pauseNum |-> 0, paused |-> FALSE,
                size |-> 1, seen |-> 0, active |-> TRUE, status |-> "none"]>>
  /\ list = <<1>>
  /\ runActive = TRUE
  /\ recording = TRUE
  /\ overtook = {}
  /\ todo = <<>>
  /\ client = NoClient
  /\ connects = 0

Idle == todo = <<>>
Now == [modes |-> modes, files |-> files, todo |-> todo]

WithinBounds(c) ==
  /\ Len(c.files) <= MaxFiles
  /\ \A i \in 1..Len(c.modes) :
       c.modes[i].num <= MaxModes /\ Len(c.modes[i].pending) <= MaxPending

Perform(c) ==
  /\ WithinBounds(c)
  /\ modes' = c.modes
  /\ files' = c.files
  /\ todo' = c.todo
  /\ UNCHANGED <<list, runActive, client, connects>>

\* The modes at the places S expire and leave older ones open.
Overtaking(S) ==
  UNION { { <<modes[k].num, modes[j].num>> : j \in (k + 1..Len(modes)) \ S } : k \in S }

\* addPacket(): a packet for the mode its time stamp selects, whatever that
\* is; a cached lookup, and one without the check, lets nothing expire.
\* Writes are bounded only where a file has grown past its limit.
AddPacket ==
  /\ Idle
  /\ \E i \in 1..Len(modes), check, rotate, notify \in BOOLEAN :
       /\ Oversize(files, modes[i].file) \/ files[modes[i].file].size <= MaxFileSize
       /\ \/ /\ ~check
             /\ Perform(WriteTo(Now, i, rotate, notify))
             /\ UNCHANGED overtook
          \/ /\ check
             /\ \E S \in SUBSET (i + 1..Len(modes)) :
                  /\ Perform(WriteTo(ExpireModes(Now, S), i, rotate, notify))
                  /\ overtook' = overtook \cup Overtaking(S)
  /\ UNCHANGED recording

\* pauseRecording() and resumeRecording().
Pause ==
  /\ Idle /\ recording
  /\ Perform(PauseContainer(Now))
  /\ UNCHANGED <<recording, overtook>>

Resume ==
  /\ Idle /\ recording
  /\ Perform(ResumeContainer(Now))
  /\ UNCHANGED <<recording, overtook>>

\* Markers::runStop() resumes a paused run and writes a last marker before
\* stopRecording() puts a new container in front of this one.
RunStop ==
  /\ Idle /\ recording
  /\ LET c == IF modes[1].paused THEN ResumeContainer(Now) ELSE Now
     IN Perform(WriteTo(c, 1, FALSE, TRUE))
  /\ recording' = FALSE
  /\ UNCHANGED overtook

\* The container has expired, or no data source is left.
Terminate ==
  /\ Idle /\ ~recording /\ modes # <<>>
  /\ Perform(TerminateContainer(Now))
  /\ UNCHANGED <<recording, overtook>>

\* One entry of the operation in progress, with the callback it makes.
ApplyAdd(f) ==
  /\ list' = Append(list, f)
  /\ UNCHANGED <<files, runActive>>
  /\ client' \in IF client.alive THEN FileAdded(client, f) ELSE {client}

ApplyClose(f) ==
  /\ files' = [files EXCEPT ![f].active = FALSE, ![f].size = @ + 1,
                ![f].status = IF runActive THEN "RUN_EOF" ELSE "END_RUN"]
  /\ UNCHANGED <<list, runActive>>
  /\ client' \in IF client.alive THEN FileUpdated(client, f) ELSE {client}

ApplyWrite(f, notify) ==
  LET size == files[f].size + 1
  IN /\ files' = [files EXCEPT ![f].size = size,
                               ![f].seen = IF notify THEN size ELSE @]
     /\ UNCHANGED <<list, runActive>>
     /\ client' \in IF client.alive /\ notify
                      THEN FileUpdated(client, f) ELSE {client}

ApplyInactive ==
  /\ runActive' = FALSE
  /\ UNCHANGED <<list, files, client>>

Deliver ==
  /\ ~Idle
  /\ LET e == todo[1]
     IN CASE e.op = "add" -> ApplyAdd(e.file)
          [] e.op = "close" -> ApplyClose(e.file)
          [] e.op = "write" -> ApplyWrite(e.file, e.notify)
          [] e.op = "inactive" -> ApplyInactive
  /\ todo' = Tail(todo)
  /\ UNCHANGED <<modes, recording, overtook, connects>>

\* notify(): the current mode's file, if it has grown since the last one.
Notify ==
  /\ Idle /\ modes # <<>>
  /\ LET f == modes[1].file
     IN /\ files[f].size > files[f].seen
        /\ files' = [files EXCEPT ![f].seen = files[f].size]
        /\ client' \in IF client.alive THEN FileUpdated(client, f) ELSE {client}
  /\ UNCHANGED <<modes, list, runActive, recording, overtook, todo, connects>>

\* The manager has a connection for this run.
Connect ==
  /\ Idle /\ ~client.alive /\ connects < MaxClients
  /\ client' = NewClient
  /\ connects' = connects + 1
  /\ UNCHANGED <<container, todo>>

\* There is room in the socket buffer.
SocketWritable ==
  /\ Idle /\ client.alive /\ client.write
  /\ UNCHANGED <<container, todo, connects>>
  /\ client' \in Writable(client)

\* readable(): the service answers, misbehaves or hangs up.
Readable ==
  /\ Idle /\ client.alive
  /\ client' = NoClient
  /\ UNCHANGED <<container, todo, connects>>

Next ==
  \/ AddPacket \/ Pause \/ Resume \/ RunStop \/ Terminate \/ Deliver
  \/ Notify \/ Connect \/ SocketWritable \/ Readable

Spec == Init /\ [][Next]_vars

\* The handlers run to completion; the event loop serves a writable socket
\* and a translation service that is connected keeps reading.
LiveSpec == Spec /\ WF_vars(Deliver) /\ WF_vars(SocketWritable)

-----------------------------------------------------------------------------
(* Properties.                                                             *)

\* Types: in particular a file is closed once, so that its size keeps within
\* the one status packet that terminate() adds.
TypeOK ==
  /\ modes \in Seq(ModeType)
  /\ files \in Seq(FileType)
  /\ list \in Seq(FileIds)
  /\ {runActive, recording} \subseteq BOOLEAN
  /\ todo \in Seq(TodoType)
  /\ client \in ClientType
  /\ overtook \subseteq Nat \X Nat
  /\ connects \in 0..MaxClients

\* order_by_filenumber(): the order in which a restarted SMS lists the files.
Before(f, g) ==
  LET a == files[f]
      b == files[g]
  IN \/ a.mode < b.mode
     \/ a.mode = b.mode /\ a.num < b.num
     \/ a.mode = b.mode /\ a.num = b.num /\ a.pauseNum < b.pauseNum

\* Files are announced in the order a restarted service would list them,
\* however late a mode was closed or its file rolled over.  The one
\* exception is a mode that expired while an older one stayed open: what
\* the older mode announces later comes after it.
AnnouncedInOrder ==
  \A j, k \in 1..Len(list) :
    j < k => \/ Before(list[j], list[k])
             \/ <<files[list[j]].mode, files[list[k]].mode>> \in overtook

\* A client holds, between what it has passed and what it still has to
\* send, exactly the announced files in order: joining a run in progress
\* neither loses nor repeats a file.
StreamComplete ==
  client.alive => client.passed \o client.files = list

\* A client that does not wait for the socket waits for a signal that will
\* come: nothing it was told of is unsent, and it has subscribed to the
\* file it is at.
NoMissedWakeup ==
  (Idle /\ client.alive /\ ~client.write) =>
    IF client.files = <<>>
      THEN runActive \/ client.done > 0
      ELSE LET f == client.files[1]
           IN /\ files[f].active
              /\ client.sub = f
              /\ client.offset >= files[f].seen

\* Once the container is closed every file ever created was announced, once.
AllFilesAnnounced ==
  (Idle /\ modes = <<>>) =>
    /\ ToSet(list) = 1..Len(files)
    /\ Len(list) = Len(files)

\* A client connected when the run is over sends Data Done or ends.
DataDoneReached ==
  (client.alive /\ modes = <<>>) ~> (client.done > 0 \/ ~client.alive)
=============================================================================
