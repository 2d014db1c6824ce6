----------------------------- MODULE RunControl -----------------------------
(***************************************************************************)
(* Starting and stopping a run (SMSControl::setRecording in                *)
(* sms/SMSControl.cc) and the run number it takes from disk                *)
(* (updateNextRun, readRunFile and cleanupRunFiles in                      *)
(* sms/StorageManager.cc).                                                 *)
(*                                                                         *)
(* The next run number lives in the file next_run, which is replaced by    *)
(* writing next_run.temp, syncing it, renaming it and syncing the          *)
(* directory.  Each system call is a step that may fail, and between any   *)
(* two of them the process may die or the machine may lose power.  The     *)
(* second throws away what has not been synced: durable is the set of      *)
(* contents the two files may then be found with.                          *)
(***************************************************************************)
EXTENDS Naturals

CONSTANTS
  MaxRun,         \* bound: run numbers are 1..MaxRun
  Powers,         \* powers of the radix a short write may cut a number by
  MaxTries,       \* attempts at starting or stopping a run: 3
  StorageMayFail  \* a container or its first file may fail to be created

ASSUME ConstantsOK ==
  /\ MaxRun \in Nat
  /\ Powers \subseteq Nat \ {0, 1}
  /\ MaxTries \in Nat \ {0}
  /\ StorageMayFail \in BOOLEAN

Runs == 1..MaxRun
NoContainer == MaxRun + 2  \* the front of the container stack is empty

VARIABLES
  pc,         \* what the process is in the middle of
  disk,       \* the files next_run and next_run.temp; 0 is unreadable
  durable,    \* what disk may be after a power failure
  synced,     \* fsync() of the temporary file has succeeded
  nextRun,    \* m_nextRunNumber
  currentRun, \* m_currentRunNumber
  recording,  \* m_recording
  front,      \* run number of the container in front of the stack
  tries,      \* try_count
  starts      \* how often each run number was given to a container

vars == <<pc, disk, durable, synced, nextRun, currentRun, recording, front,
          tries, starts>>
files == <<disk, durable, synced>>
control == <<nextRun, currentRun, recording, front, tries, starts>>

Contents == [next : 0..(MaxRun + 1), temp : 0..(MaxRun + 1)]
Steps == {"down", "recover", "idle", "open", "write", "sync", "abort",
          "rename", "syncdir", "start", "stop"}

Init ==
  /\ pc = "down"
  /\ disk = [next |-> 1, temp |-> 0]
  /\ durable = {disk}
  /\ synced = FALSE
  /\ nextRun = 0
  /\ currentRun = 0
  /\ recording = FALSE
  /\ front = NoContainer
  /\ tries = 0
  /\ starts = [r \in Runs |-> 0]

-----------------------------------------------------------------------------
(* The run number on disk.                                                 *)

\* The directory now holds d, and may be found with it after a power loss.
Change(d) ==
  /\ disk' = d
  /\ durable' = durable \cup {d}

\* A write that was cut short leaves the leading digits of the number.
Truncated(n) == { t \in 0..n : \E p \in Powers : t = n \div p }

\* setRecording(true): refused while a run is recorded, and, before anything
\* changes, when the run information or the data sources are not ready.
RequestStart ==
  /\ pc = "idle" /\ ~recording /\ nextRun \in Runs
  /\ pc' = "open"
  /\ UNCHANGED <<files, control>>

OpenTemp ==
  /\ pc = "open"
  /\ \/ pc' = "write" /\ Change([disk EXCEPT !.temp = 0])
     \/ pc' = "idle" /\ UNCHANGED <<disk, durable>>
  /\ synced' = FALSE
  /\ UNCHANGED control

\* write(): whatever it returns, the file is synced and closed before the
\* result is looked at.
WriteTemp ==
  /\ pc = "write"
  /\ \/ pc' = "sync" /\ Change([disk EXCEPT !.temp = nextRun + 1])
     \/ pc' = "abort" /\ \E t \in Truncated(nextRun + 1) \cup {0} :
                           Change([disk EXCEPT !.temp = t])
  /\ UNCHANGED <<synced, control>>

\* Mutant: the result of fsync() is not looked at.
SyncTempUnchecked ==
  /\ pc \in {"sync", "abort"}
  /\ synced' \in BOOLEAN
  /\ pc' = IF pc = "sync" THEN "rename" ELSE "idle"
  /\ UNCHANGED <<disk, durable, control>>

SyncTemp ==
  /\ pc \in {"sync", "abort"}
  /\ synced' \in BOOLEAN
  /\ pc' = IF pc = "sync" /\ synced' THEN "rename" ELSE "idle"
  /\ UNCHANGED <<disk, durable, control>>

\* Renaming a file that was not synced may leave the name without data.
\* When the rename fails the file is removed, if that works.
RenameTemp ==
  /\ pc = "rename"
  /\ \/ /\ pc' = "syncdir"
        /\ disk' = [next |-> disk.temp, temp |-> 0]
        /\ durable' = durable \cup {disk'}
             \cup (IF synced THEN {} ELSE {[next |-> 0, temp |-> 0]})
     \/ /\ pc' = "idle"
        /\ \E t \in {0, disk.temp} : Change([disk EXCEPT !.temp = t])
  /\ UNCHANGED <<synced, control>>

\* Mutant: the run starts although the directory was not synced.
SyncDirUnchecked ==
  /\ pc = "syncdir"
  /\ \/ durable' = {disk}
     \/ UNCHANGED durable
  /\ pc' = "start"
  /\ currentRun' = nextRun
  /\ nextRun' = nextRun + 1
  /\ tries' = 1
  /\ UNCHANGED <<disk, synced, recording, front, starts>>

\* Once the directory is synced the number is taken.
SyncDir ==
  /\ pc = "syncdir"
  /\ \/ /\ pc' = "start"
        /\ durable' = {disk}
        /\ currentRun' = nextRun
        /\ nextRun' = nextRun + 1
        /\ tries' = 1
     \/ /\ pc' = "idle"
        /\ UNCHANGED <<durable, currentRun, nextRun, tries>>
  /\ UNCHANGED <<disk, synced, recording, front, starts>>

-----------------------------------------------------------------------------
(* Starting and stopping.                                                  *)

\* A caught runtime error: try again, or give up.
Failed(step) ==
  IF tries < MaxTries
    THEN pc' = step /\ tries' = tries + 1
    ELSE pc' = "idle" /\ tries' = 0

\* startRecording() is a logic error unless the container in front is one
\* between runs; setRecording() then clears the run number and gives up.
StartRefused ==
  /\ pc = "start" /\ front # 0
  /\ pc' = "idle"
  /\ tries' = 0
  /\ currentRun' = 0
  /\ UNCHANGED <<files, nextRun, recording, front, starts>>

\* beforeNewRun() or endCurrentContainer() throws before the stack changes,
\* startContainer() throws with the stack's front empty, or it throws with
\* the new container in place but without its first file.
StartFails ==
  /\ pc = "start" /\ front = 0
  /\ Failed("start")
  /\ currentRun' = IF pc' = "start" THEN currentRun ELSE 0
  /\ front' \in {front}
       \cup (IF StorageMayFail THEN {NoContainer, currentRun} ELSE {})
  /\ starts' = IF front' = currentRun
                 THEN [starts EXCEPT ![currentRun] = @ + 1] ELSE starts
  /\ UNCHANGED <<files, nextRun, recording>>

StartSucceeds ==
  /\ pc = "start" /\ front = 0
  /\ pc' = "idle"
  /\ tries' = 0
  /\ front' = currentRun
  /\ starts' = [starts EXCEPT ![currentRun] = @ + 1]
  /\ recording' = TRUE
  /\ UNCHANGED <<files, nextRun, currentRun>>

RequestStop ==
  /\ pc = "idle" /\ recording
  /\ pc' = "stop"
  /\ currentRun' = 0
  /\ tries' = 1
  /\ UNCHANGED <<files, nextRun, recording, front, starts>>

StopRefused ==
  /\ pc = "stop" /\ front = NoContainer
  /\ pc' = "idle"
  /\ tries' = 0
  /\ UNCHANGED <<files, nextRun, currentRun, recording, front, starts>>

StopFails ==
  /\ pc = "stop" /\ front # NoContainer
  /\ Failed("stop")
  /\ front' \in {front} \cup (IF StorageMayFail THEN {NoContainer, 0} ELSE {})
  /\ UNCHANGED <<files, nextRun, currentRun, recording, starts>>

StopSucceeds ==
  /\ pc = "stop" /\ front # NoContainer
  /\ pc' = "idle"
  /\ tries' = 0
  /\ front' = 0
  /\ recording' = FALSE
  /\ UNCHANGED <<files, nextRun, currentRun, starts>>

-----------------------------------------------------------------------------
(* The process dies, and is started again.                                 *)

Down ==
  /\ pc' = "down"
  /\ synced' = FALSE
  /\ nextRun' = 0
  /\ currentRun' = 0
  /\ recording' = FALSE
  /\ front' = NoContainer
  /\ tries' = 0
  /\ UNCHANGED starts

Crash ==
  /\ pc # "down"
  /\ Down
  /\ UNCHANGED <<disk, durable>>

PowerLoss ==
  /\ Down
  /\ disk' \in durable
  /\ durable' = {disk'}

\* The service is up: SMSControl reads the number and lateInit() starts the
\* container between runs.
Up ==
  /\ pc' = "idle"
  /\ nextRun' = disk'.next
  /\ front' = 0
  /\ UNCHANGED <<synced, currentRun, recording, tries, starts>>

\* cleanupRunFiles(): a temporary number that is not larger is dropped (an
\* error in dropping it ends the process, which is down again).
CleanupDrops ==
  /\ pc = "down" /\ disk.next # 0 /\ disk.temp <= disk.next
  /\ Change([disk EXCEPT !.temp = 0])
  /\ Up

\* A larger one is moved into place, as updateNextRun() would have done.
CleanupMoves ==
  /\ pc = "down" /\ disk.next # 0 /\ disk.temp > disk.next
  /\ pc' = "recover"
  /\ Change([next |-> disk.temp, temp |-> 0])
  /\ UNCHANGED <<synced, control>>

CleanupSyncs ==
  /\ pc = "recover"
  /\ UNCHANGED disk
  /\ durable' = {disk}
  /\ Up

Next ==
  \/ RequestStart \/ OpenTemp \/ WriteTemp \/ SyncTemp \/ RenameTemp
  \/ SyncDir \/ StartRefused \/ StartFails \/ StartSucceeds
  \/ RequestStop \/ StopRefused \/ StopFails \/ StopSucceeds
  \/ Crash \/ PowerLoss \/ CleanupDrops \/ CleanupMoves \/ CleanupSyncs

Spec == Init /\ [][Next]_vars

-----------------------------------------------------------------------------
(* Properties.                                                             *)

\* Types.
TypeOK ==
  /\ pc \in Steps
  /\ disk \in Contents
  /\ durable \subseteq Contents
  /\ synced \in BOOLEAN
  /\ nextRun \in 0..(MaxRun + 1)
  /\ currentRun \in 0..MaxRun
  /\ recording \in BOOLEAN
  /\ front \in 0..(MaxRun + 2)
  /\ tries \in 0..MaxTries
  /\ starts \in [Runs -> 0..2]

\* No run number is ever given to two containers, whatever fails and
\* whenever the machine goes down.
RunNumberUnique ==
  \A r \in Runs : starts[r] <= 1

\* The service can always be started again: the number in next_run is
\* readable, whichever state of the disk is found.
NextRunReadable ==
  \A d \in durable \cup {disk} : d.next # 0
=============================================================================
