---------------------------- MODULE StoragePurge ----------------------------
(***************************************************************************)
(* The storage pool of the stream management service: the background I/O   *)
(* thread of sms/StorageManager.cc scans the pool at start-up and deletes  *)
(* old data on request, while the main thread writes, closes and counts    *)
(* files.  The two talk over two eventfds (sms/EventFd.cc), whose counters *)
(* add up what is written to them.                                         *)
(*                                                                         *)
(* Containers are numbered in the order of their creation, which is the    *)
(* order of their names; each lies in the directory of its day.  The files *)
(* of a container are listed in the order of their names: what the sources *)
(* sent ("saved"), the data ("run"), and the prologues that a container    *)
(* kept for late data writes, or copies from the one before.  Sizes are in *)
(* bytes of a very small disk.                                             *)
(***************************************************************************)
EXTENDS Integers, Sequences, FiniteSets, SequencesExt, FiniteSetsExt

CONSTANTS
    OldDisks,        \* what a start may find: functions from ids to containers
    BlockSize,       \* m_block_size
    Limits,          \* values the operator may give m_max_blocks_allowed
    MaxContainers,   \* bound on the containers
    MaxSize,         \* bound on the size of a file
    PrologueSize,    \* the size of a prologue
    Modulus,         \* 2^64: the counts of blocks are unsigned
    MaxStack,        \* bound on the container stack
    MaxFiles,        \* bound on the files of the pool when one is rolled over or saved
    MaxDay,          \* bound on the days
    MaxEvents        \* bound on changes of the limit and directories somebody else deletes

(* The commands lie far above every purge goal. *)
IOCMD_PURGE_MAX == 100
IOCMD_SHUTDOWN == 1001
IOCMD_DONE == 1002
IOCMD_INITIAL == 1003

Kinds == {"saved", "run", "prologue-ds", "prologue-m"}
OldContainers == [day : Nat, run : Nat,
                  files : Seq([kind : Kinds, size : Nat, open : {FALSE}]),
                  marks : SUBSET {"translated", "manual"}]

ASSUME PurgeAssumption ==
    /\ BlockSize \in Nat \ {0} /\ Modulus \in Nat \ {0} /\ PrologueSize \in Nat
    /\ Limits \subseteq Nat /\ Limits # {} /\ IsFiniteSet(Limits)
    /\ \A d \in OldDisks :
         /\ DOMAIN d \subseteq Nat /\ DOMAIN d # {} /\ IsFiniteSet(DOMAIN d)
         /\ \A c \in DOMAIN d : d[c] \in OldContainers
    /\ {MaxContainers, MaxSize, MaxStack, MaxFiles, MaxDay, MaxEvents}
         \subseteq Nat

VARIABLES
    disk,       \* the pool: id -> [day, run, files, marks]
    stack,      \* m_containerStack: ids, the current one first
    used,       \* m_blocks_used
    maxBlocks,  \* m_max_blocks_allowed
    ioActive,   \* m_ioActive
    startFd, completeFd,   \* the counters of the two eventfds
    scanned,    \* m_scannedBlocks
    purged,     \* m_purgedBlocks
    pending,    \* m_pendingRuns
    cache,      \* m_dailyCache: day -> container -> bytes
    exhausted,  \* m_dailyExhausted
    io,         \* where the I/O thread is
    main,       \* "up", "stopped", or "threw"
    limits, external,     \* used of their bound
    missed,     \* history: the blocks of files that were never counted
    exact       \* history: no file was deleted that was open or by somebody else

mainVars == <<stack, used, maxBlocks, main, limits>>
sharedVars == <<ioActive, startFd, completeFd, scanned, purged, pending>>
ioVars == <<cache, exhausted, io>>
vars == <<disk, mainVars, sharedVars, ioVars, external, missed, exact>>

Blocks(n) == (n + BlockSize - 1) \div BlockSize
Bytes(files) == SumFunction([i \in DOMAIN files |-> files[i].size])
FileBlocks(files) == SumFunction([i \in DOMAIN files |-> Blocks(files[i].size)])
Without(f, S) == [x \in DOMAIN f \ S |-> f[x]]
InOrder(S) == CHOOSE q \in [1 .. Cardinality(S) -> S] : \A i, j \in DOMAIN q : i < j => q[i] < q[j]
InDay(d) == {c \in DOMAIN disk : disk[c].day = d}

----------------------------------------------------------------------------
(* The main thread.                                                        *)

Up == main = "up"
NewFile == [kind |-> "run", size |-> 0, open |-> TRUE]
Prologue(k) == [kind |-> k, size |-> PrologueSize, open |-> FALSE]
OfKind(files, k) == {i \in DOMAIN files : files[i].kind = k}
OpenFiles(files, k) == {i \in OfKind(files, k) : files[i].open}
Has(files, k) == OfKind(files, k) # {}
FilesOf(c) == IF c \in DOMAIN disk THEN disk[c].files ELSE <<>>
WithFiles(c, files) == [disk EXCEPT ![c].files = files]
RoomForFile == SumFunction([x \in DOMAIN disk |-> Len(disk[x].files)]) < MaxFiles

(* lateInit(): the scan is started after the first container; the service *)
(* comes up on the day of its newest data.                                 *)
Init ==
    /\ \E d \in OldDisks :
         LET c == Max(DOMAIN d) + 1
             day == Max({d[x].day : x \in DOMAIN d})
         IN  /\ disk = [x \in DOMAIN d \union {c} |->
                          IF x # c THEN d[x]
                          ELSE [day |-> day, run |-> 0, files |-> <<NewFile>>, marks |-> {}]]
             /\ stack = <<c>>
             /\ io = [pc |-> "scan", left |-> 0, todo |-> DOMAIN d,
                      days |-> <<>>, conts |-> <<>>, last |-> FALSE]
    /\ used = 0 /\ maxBlocks = Max(Limits) /\ ioActive = TRUE
    /\ startFd = 0 /\ completeFd = 0 /\ scanned = 0 /\ purged = 0 /\ pending = {}
    /\ cache = <<>> /\ exhausted = FALSE /\ main = "up"
    /\ limits = 0 /\ external = 0 /\ missed = 0 /\ exact = TRUE

(* openSize(): what the open files of a container hold, which is not in the *)
(* count yet.                                                              *)
openSize(files) ==
    SumFunction([i \in DOMAIN files |-> IF files[i].open THEN files[i].size ELSE 0])

(* addBaseStorage(): a file is counted when it is closed; what closing the  *)
(* files of a container adds.                                              *)
addBaseStorage(files) ==
    SumFunction([i \in DOMAIN files |-> IF files[i].open THEN Blocks(files[i].size) ELSE 0])

Closed(files) == [i \in DOMAIN files |-> [files[i] EXCEPT !.open = FALSE]]

(* Mutant: a request may be sent while one is being worked on.              *)
PurgeAlways(goal) ==
    /\ ioActive' = TRUE
    /\ startFd' = startFd + Min({goal, IOCMD_PURGE_MAX})

(* One request at a time; its goal stays below the commands.                *)
requestPurge(goal) ==
    IF ioActive THEN UNCHANGED <<ioActive, startFd>>
    ELSE /\ ioActive' = TRUE
         /\ startFd' = startFd + Min({goal, IOCMD_PURGE_MAX})

(* The end of addPacket() and savePacket(), on a count that wraps around.   *)
Taken(n, files) == (n + Blocks(openSize(files))) % Modulus
CheckSpace(n, files) ==
    IF Taken(n, files) > maxBlocks THEN requestPurge(Taken(n, files) - maxBlocks)
    ELSE UNCHANGED <<ioActive, startFd>>

(* A packet for a container of the stack; n is what it adds to the size.    *)
(* A file that was deleted under the container is written on.              *)
AddPacket(c, n) ==
    /\ Up /\ c \in Range(stack)
    /\ \/ \E i \in OpenFiles(FilesOf(c), "run") :
             /\ disk[c].files[i].size + n <= MaxSize
             /\ disk' = WithFiles(c, [FilesOf(c) EXCEPT ![i].size = @ + n])
             /\ CheckSpace(used, disk'[c].files)
       \/ /\ OpenFiles(FilesOf(c), "run") = {} /\ n = 0
          /\ CheckSpace(used, FilesOf(c)) /\ UNCHANGED disk
    /\ UNCHANGED <<mainVars, ioVars, completeFd, scanned, purged, pending, external, missed, exact>>

(* savePacket(): what a source sends is also saved, in a file of its own    *)
(* that is opened by the first packet and closed by the one that finds it  *)
(* full.                                                                   *)
savePacket(c, n) ==
    LET fs == disk[c].files
        opened == [kind |-> "saved", size |-> n, open |-> TRUE]
        write(files) == disk' = WithFiles(c, files) /\ CheckSpace(used', files)
    IN  /\ Up /\ c \in Range(stack) /\ c \in DOMAIN disk
        /\ \/ /\ OpenFiles(fs, "saved") = {} /\ RoomForFile
              /\ used' = used
              /\ write(InsertAt(fs, Cardinality(OfKind(fs, "saved")) + 1, opened))
           \/ \E i \in OpenFiles(fs, "saved") :
                 /\ fs[i].size < MaxSize /\ used' = used
                 /\ write([fs EXCEPT ![i].size = @ + n])
           \/ \E i \in OpenFiles(fs, "saved") :
                 /\ fs[i].size >= MaxSize /\ RoomForFile
                 /\ used' = used + Blocks(fs[i].size)
                 /\ write(InsertAt([fs EXCEPT ![i].open = FALSE], i + 1, opened))
        /\ UNCHANGED <<stack, maxBlocks, main, limits, ioVars, completeFd, scanned, purged,
                       pending, external, missed, exact>>

(* terminateFile() and newFile(): a full file is closed and another opened. *)
RollFile(c) ==
    /\ Up /\ c \in Range(stack) /\ RoomForFile
    /\ \E i \in OpenFiles(FilesOf(c), "run") :
         /\ disk[c].files[i].size = MaxSize
         /\ disk' = WithFiles(c, InsertAt([FilesOf(c) EXCEPT ![i].open = FALSE], i + 1, NewFile))
         /\ used' = used + Blocks(disk[c].files[i].size)
    /\ UNCHANGED <<stack, maxBlocks, main, limits, sharedVars, ioVars, external, missed, exact>>

ClosedIn(S) == [c \in DOMAIN disk |->
                  IF c \in S THEN [disk[c] EXCEPT !.files = Closed(@)] ELSE disk[c]]
CountClosed(S) ==
    used' = used + SumFunction([c \in S \intersect DOMAIN disk |-> addBaseStorage(disk[c].files)])

(* getLastPrologueFiles(): a container that stays in the stack gets a        *)
(* prologue for its data, and one for what is being saved, if it has none; *)
(* copyLastPrologueFiles() copies those there are.  Nobody counts them.     *)
getLastPrologueFiles(files) ==
    (IF OpenFiles(files, "saved") # {} /\ ~Has(files, "prologue-ds")
     THEN <<Prologue("prologue-ds")>> ELSE <<>>)
      \o (IF Has(files, "prologue-m") THEN <<>> ELSE <<Prologue("prologue-m")>>)
copyLastPrologueFiles(files) ==
    (IF Has(files, "prologue-ds") THEN <<Prologue("prologue-ds")>> ELSE <<>>)
      \o (IF Has(files, "prologue-m") THEN <<Prologue("prologue-m")>> ELSE <<>>)

(* startRecording(), stopRecording() and the split: a new container goes on *)
(* top; the old one is terminated at once when no source may still send    *)
(* for it, or stays in the stack.  A split carries the prologues over.     *)
(* The day is that of the wall clock.                                      *)
startContainer(run, keep, split, day) ==
    LET c == Max(DOMAIN disk \union Range(stack)) + 1
        top == Head(stack)
        stays == keep /\ top \in DOMAIN disk
        last == IF stays THEN getLastPrologueFiles(FilesOf(top)) ELSE <<>>
        copied == IF split THEN copyLastPrologueFiles(FilesOf(top) \o last) ELSE <<>>
        new == [day |-> day, run |-> run, files |-> <<NewFile>> \o copied, marks |-> {}]
        old == IF keep THEN {} ELSE {top}
        pool == IF stays THEN WithFiles(top, FilesOf(top) \o last) ELSE ClosedIn(old)
    IN  /\ Up /\ c <= MaxContainers
        /\ \A x \in DOMAIN disk : disk[x].day <= day
        /\ keep => Len(stack) < MaxStack
        /\ split => run = 0
        /\ stack' = <<c>> \o (IF keep THEN stack ELSE Tail(stack))
        /\ disk' = [x \in DOMAIN disk \union {c} |-> IF x = c THEN new ELSE pool[x]]
        /\ CountClosed(old)
        /\ missed' = missed + FileBlocks(last) + FileBlocks(copied)
        /\ UNCHANGED <<maxBlocks, main, limits, sharedVars, ioVars, external, exact>>

(* A container behind the first expires.                                    *)
terminate(i) ==
    /\ Up
    /\ disk' = ClosedIn({stack[i]}) /\ CountClosed({stack[i]})
    /\ stack' = RemoveAt(stack, i)
    /\ UNCHANGED <<maxBlocks, main, limits, sharedVars, ioVars, external, missed, exact>>

(* A run is translated, or given up for manual translation.                 *)
createMarker(c, m) ==
    /\ Up /\ c \in DOMAIN disk /\ c \notin Range(stack)
    /\ disk[c].run # 0 /\ disk[c].marks = {}
    /\ disk' = [disk EXCEPT ![c].marks = {m}]
    /\ UNCHANGED <<mainVars, sharedVars, ioVars, external, missed, exact>>

set_max_blocks_allowed(n) ==
    /\ Up /\ limits + external < MaxEvents /\ n # maxBlocks
    /\ maxBlocks' = n /\ limits' = limits + 1
    /\ UNCHANGED <<disk, stack, used, main, sharedVars, ioVars, external, missed, exact>>

(* The completion of the scan or of a purge reaches the main loop.          *)
ioCompleted ==
    /\ Up /\ completeFd # 0
    /\ completeFd' = 0 /\ ioActive' = FALSE
    /\ IF completeFd = IOCMD_INITIAL
       THEN used' = used + scanned /\ scanned' = 0 /\ UNCHANGED purged
       ELSE used' = used - purged /\ purged' = 0 /\ UNCHANGED scanned
    /\ UNCHANGED <<disk, stack, maxBlocks, main, limits, startFd, pending, ioVars,
                   external, missed, exact>>

(* stop(): every container is terminated and the thread told to end.  While *)
(* the thread works stop() means to wait for it, but block() throws on an  *)
(* eventfd that has a callback, for that one does not block.               *)
stop ==
    /\ Up
    /\ disk' = ClosedIn(Range(stack)) /\ CountClosed(Range(stack)) /\ stack' = <<>>
    /\ IF ioActive THEN main' = "threw" /\ UNCHANGED startFd
       ELSE main' = "stopped" /\ startFd' = startFd + IOCMD_SHUTDOWN
    /\ UNCHANGED <<maxBlocks, limits, ioActive, completeFd, scanned, purged, pending,
                   ioVars, external, missed, exact>>

----------------------------------------------------------------------------
(* The I/O thread.                                                         *)

At(pc) == io.pc = pc
Runs(pc) == At(pc) /\ main # "threw"    \* the exception ends the process
signalComplete(v) == completeFd' = completeFd + v

(* validate(): a run that waits for its translation is checked for files    *)
(* that are missing or damaged, and marked for manual processing if so.    *)
validate(k, bad) ==
    IF bad /\ k.run # 0 /\ k.marks = {} THEN [k EXCEPT !.marks = {"manual"}] ELSE k

(* scan(): a container of before the start is read, and counted; a run that *)
(* has neither marker will be sent again.  A data file that importFile()    *)
(* refuses is dropped; the sizes of what was saved and of the prologues are *)
(* added up before they are rounded to blocks.                             *)
BlocksOf(files, S) == SumFunction([i \in S |-> Blocks(files[i].size)])
BytesOf(files, S) == SumFunction([i \in S |-> files[i].size])
Apart(files) == DOMAIN files \ OfKind(files, "run")
scan(k, refused) ==
    [blocks |-> BlocksOf(k.files, OfKind(k.files, "run") \ refused)
                  + Blocks(BytesOf(k.files, Apart(k.files))),
     queue |-> k.run # 0 /\ k.marks = {}]

scanDaily(bad) ==
    /\ Runs("scan") /\ io.todo # {}
    /\ LET c == Min(io.todo)
           fs == FilesOf(c)
       IN  /\ io' = [io EXCEPT !.todo = @ \ {c}]
           /\ IF c \notin DOMAIN disk THEN UNCHANGED <<disk, scanned, pending, missed>>
              ELSE \E refused \in SUBSET OfKind(fs, "run") :
                   /\ disk' = [disk EXCEPT ![c] = validate(@, bad \/ refused # {})]
                   /\ scanned' = scanned + scan(disk'[c], refused).blocks
                   /\ pending' = IF scan(disk'[c], refused).queue
                                 THEN pending \union {c} ELSE pending
                   /\ missed' = missed + BlocksOf(fs, refused)
                                 + (BlocksOf(fs, Apart(fs)) - Blocks(BytesOf(fs, Apart(fs))))
    /\ UNCHANGED <<mainVars, ioActive, startFd, completeFd, purged, cache, exhausted,
                   external, exact>>

scanStorage ==
    /\ Runs("scan") /\ io.todo = {}
    /\ io' = [io EXCEPT !.pc = "idle"] /\ signalComplete(IOCMD_INITIAL)
    /\ UNCHANGED <<disk, mainVars, ioActive, startFd, scanned, purged, pending, cache,
                   exhausted, external, missed, exact>>

getDirSize(d) == [c \in InDay(d) |-> Bytes(disk[c].files)]
populateDailyCache == [d \in {disk[c].day : c \in DOMAIN disk} |-> getDirSize(d)]

(* A command arrives: the end, or a purge, which starts at the oldest day.  *)
backgroundIo ==
    /\ Runs("idle") /\ startFd # 0 /\ startFd' = 0
    /\ IF startFd = IOCMD_SHUTDOWN
       THEN /\ io' = [io EXCEPT !.pc = "ended"] /\ signalComplete(IOCMD_DONE)
            /\ UNCHANGED cache
       ELSE /\ cache' = IF exhausted \/ DOMAIN cache = {} THEN populateDailyCache ELSE cache
            /\ io' = [io EXCEPT !.pc = "days", !.left = startFd,
                                !.days = InOrder(DOMAIN cache')]
            /\ UNCHANGED completeFd
    /\ UNCHANGED <<disk, mainVars, ioActive, scanned, purged, pending, exhausted, external, missed, exact>>

(* One day of the cache.  A day or a container that is gone was deleted by  *)
(* somebody else, and its cached size counts as purged.                    *)
Gone(d) == {c \in DOMAIN cache[d] : c \notin InDay(d)}
Recovered(d, S) == SumFunction([c \in S |-> Blocks(cache[d][c])])

(* purgeDaily() up to its loop.                                             *)
purgeDaily ==
    /\ Runs("days") /\ io.left > 0 /\ io.days # <<>>
    /\ LET d == Head(io.days)
           n == Recovered(d, Gone(d))
       IN  /\ purged' = purged + n
           /\ IF InDay(d) = {}
              THEN /\ cache' = Without(cache, {d})
                   /\ io' = [io EXCEPT !.days = Tail(@), !.left = @ - n]
              ELSE /\ cache' = [cache EXCEPT ![d] = Without(@, Gone(d))]
                   /\ io' = [io EXCEPT !.pc = "conts", !.left = @ - n,
                                !.conts = InOrder(InDay(d)), !.last = Len(io.days) = 1]
    /\ UNCHANGED <<disk, mainVars, ioActive, startFd, completeFd, scanned, pending, exhausted,
                   external, missed, exact>>

(* purge(): the files of one container that may be deleted go, oldest       *)
(* first, until the goal is met.                                           *)
Purgeable(c) == "manual" \notin disk[c].marks
                /\ (disk[c].run # 0 => "translated" \in disk[c].marks)

(* The number of files it takes to free n blocks.                           *)
Enough(files, n) ==
    Min({k \in 0 .. Len(files) : FileBlocks(SubSeq(files, 1, k)) >= n \/ k = Len(files)})

(* Mutant: the loop stops one file too late.                                *)
PurgeUncounted(c) ==
    LET k == Enough(disk[c].files, io.left)
    IN  [rest |-> SubSeq(disk[c].files, k + 1, Len(disk[c].files)),
         n |-> FileBlocks(SubSeq(disk[c].files, 1, IF k = 0 THEN 0 ELSE k - 1)),
         open |-> \E i \in 1 .. k : disk[c].files[i].open]

purge(c) ==
    LET k == Enough(disk[c].files, io.left)
    IN  [rest |-> SubSeq(disk[c].files, k + 1, Len(disk[c].files)),
         n |-> FileBlocks(SubSeq(disk[c].files, 1, k)),
         open |-> \E i \in 1 .. k : disk[c].files[i].open]

(* The loop of purgeDaily().  The last container of the last day is passed  *)
(* over; one whose files are all gone is removed.                          *)
PurgeContainer ==
    /\ Runs("conts") /\ io.left > 0 /\ io.conts # <<>>
    /\ LET c == Head(io.conts)
           p == purge(c)
           next == [io EXCEPT !.conts = Tail(@)]
       IN  IF (io.last /\ Len(io.conts) = 1) \/ c \notin DOMAIN disk \/ ~Purgeable(c)
           THEN io' = next /\ UNCHANGED <<disk, cache, purged, exact>>
           ELSE /\ disk' = IF p.rest = <<>> THEN Without(disk, {c})
                           ELSE [disk EXCEPT ![c].files = p.rest]
                /\ cache' = IF p.rest = <<>>
                            THEN [cache EXCEPT ![Head(io.days)] = Without(@, {c})] ELSE cache
                /\ purged' = purged + p.n
                /\ io' = [next EXCEPT !.left = @ - p.n]
                /\ exact' = (exact /\ ~p.open)
    /\ UNCHANGED <<mainVars, ioActive, startFd, completeFd, scanned, pending, exhausted, external, missed>>

(* The end of purgeDaily(): an empty directory of a day is removed.         *)
EndDaily ==
    /\ Runs("conts") /\ (io.left <= 0 \/ io.conts = <<>>)
    /\ io' = [io EXCEPT !.pc = "days", !.days = Tail(@), !.conts = <<>>]
    /\ cache' = IF InDay(Head(io.days)) = {} THEN Without(cache, {Head(io.days)}) ELSE cache
    /\ UNCHANGED <<disk, mainVars, sharedVars, exhausted, external, missed, exact>>

(* Mutant: the cache is never read again.                                   *)
PurgeNeverExhausted ==
    /\ Runs("days") /\ (io.left <= 0 \/ io.days = <<>>)
    /\ UNCHANGED exhausted
    /\ io' = [io EXCEPT !.pc = "idle", !.left = 0, !.days = <<>>]
    /\ signalComplete(IOCMD_DONE)
    /\ UNCHANGED <<disk, mainVars, ioActive, startFd, scanned, purged, pending, cache,
                   external, missed, exact>>

(* The end of purgeData(): a purge that fell short makes the next one read  *)
(* the pool again.                                                         *)
purgeData ==
    /\ Runs("days") /\ (io.left <= 0 \/ io.days = <<>>)
    /\ exhausted' = (io.left > 0)
    /\ io' = [io EXCEPT !.pc = "idle", !.left = 0, !.days = <<>>]
    /\ signalComplete(IOCMD_DONE)
    /\ UNCHANGED <<disk, mainVars, ioActive, startFd, scanned, purged, pending, cache,
                   external, missed, exact>>

----------------------------------------------------------------------------
(* Somebody deletes a container that is not in use.                         *)
DeletedOutside(c) ==
    /\ Up /\ limits + external < MaxEvents /\ c \in DOMAIN disk \ Range(stack)
    /\ disk' = Without(disk, {c}) /\ external' = external + 1 /\ exact' = FALSE
    /\ UNCHANGED <<mainVars, sharedVars, ioVars, missed>>

Main == \/ \E c \in Range(stack), n \in {0, 1} : AddPacket(c, n)
        \/ \E c \in Range(stack), n \in {0, 1} : savePacket(c, n)
        \/ \E c \in Range(stack) : RollFile(c)
        \/ \E run \in {0, 1}, keep, split \in BOOLEAN, day \in 1 .. MaxDay :
             startContainer(run, keep, split, day)
        \/ \E i \in 2 .. Len(stack) : terminate(i)
        \/ \E c \in DOMAIN disk, m \in {"translated", "manual"} : createMarker(c, m)
        \/ \E n \in Limits : set_max_blocks_allowed(n)
        \/ ioCompleted \/ stop
IoThread == (\E bad \in BOOLEAN : scanDaily(bad)) \/ scanStorage \/ backgroundIo \/ purgeDaily \/ PurgeContainer
            \/ EndDaily \/ purgeData
World == \E c \in DOMAIN disk : DeletedOutside(c)

Next == Main \/ IoThread \/ World

(* Data keeps coming, and neither thread is starved.                        *)
Fairness == /\ WF_vars(Up /\ \E c \in Range(stack) : c = Head(stack) /\ AddPacket(c, 0))
            /\ WF_vars(ioCompleted) /\ WF_vars(IoThread)

Spec == Init /\ [][Next]_vars /\ Fairness

----------------------------------------------------------------------------
(* Properties.                                                             *)

closedBlocks(files) ==
    SumFunction([i \in DOMAIN files |-> IF files[i].open THEN 0 ELSE Blocks(files[i].size)])
ClosedBlocks == SumFunction([c \in DOMAIN disk |-> closedBlocks(disk[c].files)])
NotScanned ==
    IF At("scan")
    THEN SumFunction([c \in io.todo \intersect DOMAIN disk |-> FileBlocks(disk[c].files)])
    ELSE 0

(* The count of used blocks is kept over scan, rollover, save, purge and    *)
(* container change: together with what the scan has found or still has to *)
(* find, and without what the I/O thread has deleted but not reported, it  *)
(* is the space the closed files take, less the blocks of the files that   *)
(* no code ever counts (missed): prologues, refused files, and what the    *)
(* scan saves by rounding once.  Deleting such a file gives its blocks back *)
(* all the same, so the shortfall stays for good, but it grows by nothing  *)
(* else; as long as nobody deleted a file that was in use or from outside. *)
BlocksAccounted ==
    exact => used + scanned + NotScanned - purged = ClosedBlocks - missed

(* The protocol of backgroundIo()'s comment: at most one command is         *)
(* outstanding, so the eventfds never add two of them up, and the main     *)
(* thread reads the shared counters only when the thread has none.         *)
OneCommand ==
    /\ startFd \in (0 .. IOCMD_PURGE_MAX) \union {IOCMD_SHUTDOWN}
    /\ completeFd \in {0, IOCMD_DONE, IOCMD_INITIAL}
    /\ startFd # 0 => (At("idle") /\ completeFd = 0)
    /\ completeFd # 0 => (io.pc \in {"idle", "ended"} /\ startFd = 0)
    /\ (Up /\ ~ioActive) => (At("idle") /\ startFd = 0 /\ completeFd = 0)

Over == Taken(used, FilesOf(Head(stack))) > maxBlocks
Deletable == \E c \in DOMAIN disk : c \notin Range(stack) /\ Purgeable(c)
                 /\ c # Max(InDay(Max({disk[x].day : x \in DOMAIN disk})))

(* When the pool is over its limit and there is something to delete, space  *)
(* is eventually recovered, or nothing is left to delete.                  *)
SpaceRecovered == (Up /\ Over /\ Deletable) ~> (~Up \/ ~Over \/ ~Deletable)

=============================================================================
