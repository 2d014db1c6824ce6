-------------------------- MODULE RunControlProofs --------------------------
(***************************************************************************)
(* A run number is never used twice and next_run is always readable, for   *)
(* every bound on the runs and the attempts.                               *)
(*                                                                         *)
(* The argument: a number r is given to a container only after the         *)
(* directory was synced with r + 1 in next_run, and every later content of *)
(* the two files that a crash can reveal has a larger number than every    *)
(* run started so far.                                                     *)
(***************************************************************************)
EXTENDS RunControl, TLAPS

\* The states in which the process holds the number it read at startup.
Running == Steps \ {"down", "recover"}

\* A number that has been used lies below every number that may be read back.
UsedBelow(n) == \A r \in Runs : starts[r] > 0 => r < n

DiskSafe ==
  \A d \in durable \cup {disk} : d.next # 0 /\ UsedBelow(d.next)

\* What the process knows at each step of updateNextRun() and after it.
StepFacts ==
  /\ pc \in Running => UsedBelow(nextRun)
  /\ pc \in {"open", "write", "sync", "abort", "rename", "syncdir"} =>
       nextRun \in Runs
  /\ pc \in {"sync", "rename"} => disk.temp = nextRun + 1
  /\ pc = "rename" => synced
  /\ pc = "syncdir" => disk.next = nextRun + 1
  /\ pc = "start" => /\ currentRun \in Runs
                     /\ durable = {disk}
                     /\ disk.next = currentRun + 1
                     /\ nextRun = currentRun + 1
                     /\ front = 0 => starts[currentRun] = 0

IInv == TypeOK /\ RunNumberUnique /\ DiskSafe /\ StepFacts

LEMMA InitIInv == Init => IInv
<1> USE ConstantsOK
<1> SUFFICES ASSUME Init PROVE IInv
  OBVIOUS
<1>1. TypeOK
  <2>1. synced \in BOOLEAN /\ recording \in BOOLEAN
    BY DEF Init
  <2>2. disk \in Contents /\ durable \subseteq Contents
    BY DEF Init, Contents
  <2>3. /\ pc \in Steps /\ nextRun \in 0..(MaxRun + 1) /\ currentRun \in 0..MaxRun
        /\ front \in 0..(MaxRun + 2) /\ tries \in 0..MaxTries
        /\ starts \in [Runs -> 0..2]
    BY DEF Init, Steps, NoContainer
  <2> QED BY <2>1, <2>2, <2>3 DEF TypeOK
<1>2. RunNumberUnique /\ \A n : UsedBelow(n)
  <2>1. \A r \in Runs : starts[r] = 0
    BY DEF Init
  <2> QED BY <2>1 DEF RunNumberUnique, UsedBelow
<1>3. DiskSafe
  BY <1>2 DEF Init, DiskSafe
<1>4. StepFacts
  BY <1>2 DEF Init, StepFacts, Running
<1> QED BY <1>1, <1>3, <1>4, <1>2 DEF IInv

\* The steps of updateNextRun() that leave the run control alone.
LEMMA DiskStep ==
  ASSUME IInv, RequestStart \/ OpenTemp \/ WriteTemp \/ SyncTemp \/ RenameTemp
  PROVE IInv'
<1> USE ConstantsOK
<1>1. UNCHANGED control
  BY DEF RequestStart, OpenTemp, WriteTemp, SyncTemp, RenameTemp
<1>0. synced' \in BOOLEAN
  BY DEF IInv, TypeOK, RequestStart, OpenTemp, WriteTemp, SyncTemp, RenameTemp,
         files
<1>2. /\ pc \in Steps /\ pc' \in Steps
      /\ disk \in Contents /\ disk' \in Contents
      /\ durable' \subseteq Contents
  <2>1. /\ pc \in Steps /\ disk \in Contents /\ durable \subseteq Contents
        /\ disk.temp \in 0..(MaxRun + 1)
        /\ disk.next \in 0..(MaxRun + 1) /\ nextRun \in 0..(MaxRun + 1)
    BY DEF IInv, TypeOK, Contents
  <2>2. ASSUME NEW t \in 0..(MaxRun + 1)
        PROVE [disk EXCEPT !.temp = t] \in Contents
    BY <2>1 DEF Contents
  <2>3. CASE RequestStart
    BY <2>1, <2>3 DEF RequestStart, Steps, files
  <2>4. CASE OpenTemp
    <3>1. CASE pc' = "write" /\ Change([disk EXCEPT !.temp = 0])
      BY <2>1, <2>2, <3>1 DEF Change, Steps
    <3>2. CASE pc' = "idle" /\ UNCHANGED <<disk, durable>>
      BY <2>1, <3>2 DEF Steps
    <3> QED BY <2>4, <3>1, <3>2 DEF OpenTemp
  <2>5. CASE WriteTemp
    <3>1. nextRun + 1 \in 0..(MaxRun + 1)
      BY <2>5 DEF IInv, StepFacts, WriteTemp, Runs
    <3>2. Truncated(nextRun + 1) \subseteq 0..(MaxRun + 1)
      BY <3>1 DEF Truncated
    <3>3. PICK t \in 0..(MaxRun + 1) : Change([disk EXCEPT !.temp = t])
      <4>1. \/ Change([disk EXCEPT !.temp = nextRun + 1])
            \/ \E t \in Truncated(nextRun + 1) \cup {0} :
                  Change([disk EXCEPT !.temp = t])
        BY <2>5 DEF WriteTemp
      <4> HIDE DEF Change, Truncated
      <4>2. 0 \in 0..(MaxRun + 1)
        OBVIOUS
      <4> QED BY <4>1, <4>2, <3>1, <3>2, Zenon
    <3>4. pc' \in Steps
      BY <2>5 DEF WriteTemp, Steps
    <3> QED BY <2>1, <2>2, <3>3, <3>4 DEF Change
  <2>6. CASE SyncTemp
    BY <2>1, <2>6 DEF SyncTemp, Steps
  <2>7. CASE RenameTemp
    <3>1. CASE disk' = [next |-> disk.temp, temp |-> 0]
      <4>1. disk' \in Contents
        BY <2>1, <3>1 DEF Contents
      <4>2. synced
        BY <2>7 DEF IInv, StepFacts, RenameTemp
      <4>3. durable' \subseteq durable \cup {disk'}
        BY <2>7, <4>2 DEF RenameTemp, Change
      <4> QED BY <2>1, <4>1, <4>3, <2>7 DEF RenameTemp, Steps
    <3>2. CASE \E t \in {0, disk.temp} : Change([disk EXCEPT !.temp = t])
      BY <2>1, <2>2, <2>7, <3>2 DEF RenameTemp, Change, Steps
    <3> QED BY <2>7, <3>1, <3>2 DEF RenameTemp
  <2> QED BY <2>3, <2>4, <2>5, <2>6, <2>7
<1>3. TypeOK'
  BY <1>0, <1>1, <1>2 DEF IInv, TypeOK, control
<1>4. RunNumberUnique'
  BY <1>1 DEF IInv, RunNumberUnique, control
<1>5. ASSUME NEW n PROVE UsedBelow(n)' <=> UsedBelow(n)
  BY <1>1 DEF UsedBelow, control
<1>6. UsedBelow(nextRun + 1) /\ nextRun + 1 # 0
  BY DEF IInv, TypeOK, StepFacts, Running, Steps, UsedBelow, Runs, RequestStart,
         OpenTemp, WriteTemp, SyncTemp, RenameTemp
<1>7. ASSUME NEW d \in durable' \cup {disk'}
      PROVE d.next # 0 /\ UsedBelow(d.next)
  <2>1. CASE RenameTemp
    <3>1. disk.temp = nextRun + 1 /\ synced
      BY <2>1 DEF IInv, StepFacts, RenameTemp
    <3>2. d \in durable \cup {disk} \/ d.next = disk.temp \/ d.next = disk.next
      BY <2>1, <3>1, <1>2 DEF RenameTemp, Change, Contents
    <3> QED BY <3>1, <3>2, <1>6 DEF IInv, DiskSafe
  <2>2. CASE ~RenameTemp
    <3>1. d \in durable \cup {disk} \/ d.next = disk.next
      BY <2>2, <1>2 DEF RequestStart, OpenTemp, WriteTemp, SyncTemp, Change,
                        Contents, files
    <3> QED BY <3>1 DEF IInv, DiskSafe
  <2> QED BY <2>1, <2>2
<1>8. DiskSafe'
  BY <1>7, <1>5 DEF DiskSafe
<1>9. StepFacts'
  <2>1. UsedBelow(nextRun)' <=> UsedBelow(nextRun)
    BY <1>1 DEF UsedBelow, control
  <2> QED
    BY <2>1, <1>1, <1>2 DEF IInv, TypeOK, StepFacts, RequestStart, OpenTemp,
       WriteTemp, SyncTemp, RenameTemp, Change, Running, Steps, Contents,
       files, control
<1> QED BY <1>3, <1>4, <1>8, <1>9 DEF IInv

\* Taking the number, or failing to.
LEMMA SyncDirStep == ASSUME IInv, SyncDir PROVE IInv'
<1> USE ConstantsOK
<1>1. TypeOK'
  BY DEF IInv, TypeOK, StepFacts, SyncDir, Steps, Runs
<1>2. UNCHANGED starts
  BY DEF SyncDir
<1>3. RunNumberUnique'
  BY <1>2 DEF IInv, RunNumberUnique
<1>4. ASSUME NEW n PROVE UsedBelow(n)' <=> UsedBelow(n)
  BY <1>2 DEF UsedBelow
<1>5. DiskSafe'
  BY <1>4 DEF IInv, DiskSafe, SyncDir
<1>6. /\ UsedBelow(nextRun) /\ UsedBelow(nextRun') /\ nextRun \in Runs
      /\ starts[nextRun] = 0
  BY DEF IInv, TypeOK, StepFacts, SyncDir, Running, Steps, UsedBelow, Runs
<1>7. StepFacts'
  BY <1>6, <1>2 DEF IInv, TypeOK, StepFacts, SyncDir, Running, Steps, UsedBelow
<1> QED BY <1>1, <1>3, <1>5, <1>7 DEF IInv

\* Starting and stopping leave the files alone.
LEMMA ControlStep ==
  ASSUME IInv, StartRefused \/ StartFails \/ StartSucceeds \/ RequestStop
                 \/ StopRefused \/ StopFails \/ StopSucceeds
  PROVE IInv'
<1> USE ConstantsOK
<1>1. UNCHANGED <<files, nextRun>>
  BY DEF StartRefused, StartFails, StartSucceeds, RequestStop, StopRefused,
         StopFails, StopSucceeds
<1>2. /\ starts' = starts
      \/ /\ pc = "start" /\ front = 0 /\ front' = currentRun
         /\ starts' = [starts EXCEPT ![currentRun] = @ + 1]
  BY DEF StartRefused, StartFails, StartSucceeds, RequestStop, StopRefused,
         StopFails, StopSucceeds
<1>3. /\ starts \in [Runs -> 0..2] /\ starts' \in [Runs -> 0..2]
      /\ RunNumberUnique'
  <2>1. starts \in [Runs -> 0..2] /\ \A r \in Runs : starts[r] <= 1
    BY DEF IInv, TypeOK, RunNumberUnique
  <2>2. pc = "start" /\ front = 0 => currentRun \in Runs /\ starts[currentRun] = 0
    BY DEF IInv, StepFacts
  <2>3. CASE starts' = starts
    BY <2>1, <2>3 DEF RunNumberUnique
  <2>4. CASE /\ pc = "start" /\ front = 0
             /\ starts' = [starts EXCEPT ![currentRun] = @ + 1]
    <3>1. \A r \in Runs : starts'[r] = IF r = currentRun THEN 1 ELSE starts[r]
      BY <2>1, <2>2, <2>4
    <3>2. starts' \in [Runs -> 0..2]
      BY <2>1, <2>2, <2>4
    <3> QED BY <2>1, <3>1, <3>2 DEF RunNumberUnique
  <2> QED BY <1>2, <2>3, <2>4
<1>4. /\ pc' \in {"idle", "start", "stop"}
      /\ (pc' = "start" => pc = "start")
      /\ tries' \in 0..MaxTries /\ currentRun' \in 0..MaxRun
      /\ front' \in 0..(MaxRun + 2)
  <2>1. /\ tries \in 0..MaxTries /\ currentRun \in 0..MaxRun
        /\ front \in 0..(MaxRun + 2)
    BY DEF IInv, TypeOK
  <2>2. CASE StartRefused
    BY <2>1, <2>2 DEF StartRefused
  <2>3. CASE StartFails
    BY <2>1, <2>3 DEF StartFails, Failed, NoContainer
  <2>4. CASE StartSucceeds
    BY <2>1, <2>4 DEF StartSucceeds
  <2>5. CASE RequestStop
    BY <2>1, <2>5 DEF RequestStop
  <2>6. CASE StopRefused
    BY <2>1, <2>6 DEF StopRefused
  <2>7. CASE StopFails
    BY <2>1, <2>7 DEF StopFails, Failed, NoContainer
  <2>8. CASE StopSucceeds
    BY <2>1, <2>8 DEF StopSucceeds
  <2> QED BY <2>2, <2>3, <2>4, <2>5, <2>6, <2>7, <2>8
<1>5. TypeOK'
  <2>1. synced' \in BOOLEAN /\ recording' \in BOOLEAN
    BY <1>1 DEF IInv, TypeOK, StartRefused, StartFails, StartSucceeds,
       RequestStop, StopRefused, StopFails, StopSucceeds, files
  <2>2. /\ pc' \in Steps /\ disk' \in Contents /\ durable' \subseteq Contents
        /\ nextRun' \in 0..(MaxRun + 1)
    BY <1>1, <1>4 DEF IInv, TypeOK, Steps, files
  <2> QED BY <2>1, <2>2, <1>3, <1>4 DEF TypeOK
<1>6. ASSUME NEW n \in Nat, UsedBelow(n), pc = "start" => n > currentRun
      PROVE UsedBelow(n)'
  BY <1>6, <1>2, <1>3 DEF IInv, TypeOK, StepFacts, UsedBelow, Runs
<1>7. UsedBelow(nextRun) /\ nextRun \in Nat
  BY DEF IInv, TypeOK, StepFacts, StartRefused, StartFails, StartSucceeds,
         RequestStop, StopRefused, StopFails, StopSucceeds, Running, Steps
<1>8. DiskSafe'
  <2> SUFFICES ASSUME NEW d \in durable \cup {disk}
               PROVE d.next # 0 /\ UsedBelow(d.next)'
    BY <1>1 DEF DiskSafe, files
  <2>1. d.next \in Nat /\ d.next # 0 /\ UsedBelow(d.next)
    BY DEF IInv, TypeOK, DiskSafe, Contents
  <2>2. pc = "start" => d.next > currentRun
    BY DEF IInv, TypeOK, StepFacts, Runs
  <2> QED BY <2>1, <2>2, <1>6
<1>9. UsedBelow(nextRun)'
  <2>1. pc = "start" => nextRun > currentRun
    BY DEF IInv, TypeOK, StepFacts, Runs
  <2>2. nextRun' = nextRun
    BY <1>1
  <2> QED BY <1>7, <2>1, <2>2, <1>6 DEF UsedBelow
<1>10. pc' = "start" =>
         /\ currentRun' = currentRun
         /\ front' = 0 => front = 0 /\ starts' = starts
  BY <1>2, <1>4 DEF IInv, TypeOK, StepFacts, StartRefused, StartFails,
         StartSucceeds, RequestStop, StopRefused, StopFails, StopSucceeds,
         Failed, Runs
<1>11. StepFacts'
  <2>1. pc' = "start" => /\ pc = "start" /\ currentRun' = currentRun
                         /\ durable' = durable /\ disk' = disk
                         /\ nextRun' = nextRun
    BY <1>1, <1>4, <1>10 DEF files
  <2>2. pc' = "start" => /\ currentRun' \in Runs
                         /\ durable' = {disk'}
                         /\ disk'.next = currentRun' + 1
                         /\ nextRun' = currentRun' + 1
                         /\ front' = 0 => starts'[currentRun'] = 0
    BY <2>1, <1>10 DEF IInv, StepFacts
  <2>3. pc' \notin {"open", "write", "sync", "abort", "rename", "syncdir"}
    BY <1>4
  <2> QED BY <1>9, <2>2, <2>3 DEF StepFacts
<1> QED BY <1>3, <1>5, <1>8, <1>11 DEF IInv

\* The process or the machine goes down and comes up again.
LEMMA RestartStep ==
  ASSUME IInv, Crash \/ PowerLoss \/ CleanupDrops \/ CleanupMoves \/ CleanupSyncs
  PROVE IInv'
<1> USE ConstantsOK
<1>1. UNCHANGED starts
  BY DEF Crash, PowerLoss, CleanupDrops, CleanupMoves, CleanupSyncs, Down, Up,
         control
<1>2. disk' \in Contents /\ durable' \subseteq Contents
  <2>1. /\ disk \in Contents /\ durable \subseteq Contents
        /\ [disk EXCEPT !.temp = 0] \in Contents
        /\ [next |-> disk.temp, temp |-> 0] \in Contents
    BY DEF IInv, TypeOK, Contents
  <2> QED
    BY <2>1 DEF Crash, PowerLoss, CleanupDrops, CleanupMoves, CleanupSyncs, Change
<1>3. TypeOK'
  <2>1. synced' \in BOOLEAN /\ recording' \in BOOLEAN
    BY DEF IInv, TypeOK, Crash, PowerLoss, CleanupDrops, CleanupMoves,
           CleanupSyncs, Down, Up, control
  <2>2. /\ pc' \in Steps /\ currentRun' \in 0..MaxRun
        /\ front' \in 0..(MaxRun + 2) /\ tries' \in 0..MaxTries
    BY DEF IInv, TypeOK, Crash, PowerLoss, CleanupDrops, CleanupMoves,
           CleanupSyncs, Down, Up, Steps, NoContainer, control
  <2>3. nextRun' \in 0..(MaxRun + 1)
    <3>1. nextRun' \in {0, nextRun, disk'.next}
      BY DEF Crash, PowerLoss, CleanupDrops, CleanupMoves, CleanupSyncs, Down, Up,
             control
    <3> QED BY <1>2, <3>1 DEF IInv, TypeOK, Contents
  <2> QED BY <1>1, <1>2, <2>1, <2>2, <2>3 DEF IInv, TypeOK
<1>4. RunNumberUnique'
  BY <1>1 DEF IInv, RunNumberUnique
<1>5. ASSUME NEW n PROVE UsedBelow(n)' <=> UsedBelow(n)
  BY <1>1 DEF UsedBelow
<1>6. ASSUME NEW d \in durable' \cup {disk'}
      PROVE d.next # 0 /\ UsedBelow(d.next)
  <2>1. CASE CleanupMoves
    <3>1. d \in durable \cup {disk} \/ d.next = disk.temp
      BY <2>1 DEF CleanupMoves, Change
    <3>2. disk.temp # 0 /\ UsedBelow(disk.temp)
      BY <2>1 DEF IInv, TypeOK, DiskSafe, CleanupMoves, UsedBelow, Contents, Runs
    <3> QED BY <3>1, <3>2 DEF IInv, DiskSafe
  <2>2. CASE ~CleanupMoves
    <3>1. d \in durable \cup {disk} \/ d.next = disk.next
      BY <2>2 DEF IInv, TypeOK, Crash, PowerLoss, CleanupDrops, CleanupSyncs,
                  Change, Contents
    <3> QED BY <3>1 DEF IInv, DiskSafe
  <2> QED BY <2>1, <2>2
<1>7. DiskSafe'
  BY <1>5, <1>6 DEF DiskSafe
<1>8. pc' \in Running => pc' = "idle" /\ UsedBelow(nextRun)'
  <2>1. pc' \in Running => pc' = "idle" /\ nextRun' = disk'.next
    BY DEF Crash, PowerLoss, CleanupDrops, CleanupMoves, CleanupSyncs, Down, Up,
           Running
  <2>2. UsedBelow(disk'.next)
    BY <1>6
  <2> QED BY <2>1, <2>2, <1>1 DEF UsedBelow
<1>9. StepFacts'
  BY <1>3, <1>8 DEF TypeOK, StepFacts, Running, Steps
<1> QED BY <1>3, <1>4, <1>7, <1>9 DEF IInv

LEMMA StutterIInv == ASSUME IInv, UNCHANGED vars PROVE IInv'
BY DEF IInv, TypeOK, RunNumberUnique, DiskSafe, StepFacts, UsedBelow, vars

\* The inductive invariant holds throughout.
THEOREM IInvHolds == Spec => []IInv
<1>1. Init => IInv
  BY InitIInv
<1>2. IInv /\ [Next]_vars => IInv'
  BY DiskStep, SyncDirStep, ControlStep, RestartStep, StutterIInv DEF Next
<1> QED BY <1>1, <1>2, PTL DEF Spec

\* The state of setRecording() and of the run files keeps its type.
THEOREM TypeCorrect == Spec => []TypeOK
BY IInvHolds, PTL DEF IInv

\* No crash, power loss or failed system call makes updateNextRun() and
\* cleanupRunFiles() hand out a run number twice.
THEOREM RunNumbersUnique == Spec => []RunNumberUnique
BY IInvHolds, PTL DEF IInv

\* cleanupRunFiles() always finds a readable next_run.
THEOREM AlwaysRestartable == Spec => []NextRunReadable
<1>1. IInv => NextRunReadable
  BY DEF IInv, DiskSafe, NextRunReadable
<1> QED BY <1>1, IInvHolds, PTL
=============================================================================
