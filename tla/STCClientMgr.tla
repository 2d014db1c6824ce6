---------------------------- MODULE STCClientMgr ----------------------------
(***************************************************************************)
(* The Stream Management Service's translation-client manager              *)
(* (sms/STCClientMgr.cc): the queue of runs waiting for the Streaming      *)
(* Translation Client (STC), the asynchronous address lookup and connect   *)
(* that obtain a socket for the next run, the four one-shot timers that    *)
(* retry them, and the fate of each run once its client ends.              *)
(*                                                                         *)
(* Every handler runs to completion in the single fdManager thread, so     *)
(* one handler is one action.  Handlers call each other (clientComplete    *)
(* calls queueRun and startConnect, lookupComplete calls connectComplete), *)
(* so the manager's members are one record, mgr, and each member function  *)
(* is an operator from one value of the record to the next.                *)
(*                                                                         *)
(* A run is known by its number; a storage container is an object that     *)
(* holds a run.  A restart and an operator's rescan make a second object   *)
(* for the same run, hence the copy field.                                 *)
(***************************************************************************)
EXTENDS Naturals, FiniteSets

CONSTANTS
  MaxRun,         \* bound: run numbers are 1..MaxRun
  Copies,         \* bound: container objects alive at once for one run
  QueueMode,      \* m_queueMode
  Limits,         \* values the MaxConnections PV may be given
  MaxLimit,       \* the largest of them
  MaxRequeue,     \* m_max_requeue_count
  MaxLookups,     \* bound: lookup answers outstanding at once
  EnqueueMayFail, \* getaddrinfo_a may refuse a request
  Stacking,       \* a stopped run's container may stay open for late data
  Rescanned,      \* the runs the operator uses the RescanRunDir PV for
  Crashing        \* the process may die and be started again

Orders == {"OLDEST", "NEWEST"}

ASSUME ConstantsOK ==
  /\ MaxRun \in Nat
  /\ Copies \in Nat \ {0}
  /\ QueueMode \in Orders \cup {"BALANCE"}
  /\ MaxLimit \in Nat
  /\ Limits \subseteq 0..MaxLimit /\ Limits # {}
  /\ MaxRequeue \in Nat
  /\ MaxLookups \in Nat \ {0}
  /\ {EnqueueMayFail, Stacking, Crashing} \subseteq BOOLEAN
  /\ Rescanned \subseteq 1..MaxRun

Runs == 1..MaxRun
Containers == [run : Runs, copy : 1..Copies]
Timers == {"lookup", "connect", "reconnect", "transient"}
Markers == {"translated", "manual"}
Dispositions == {"SUCCESS", "CONNECTION_LOSS", "INVALID_PROTOCOL",
                 "TRANSIENT_FAIL", "PERMANENT_FAIL"}

VARIABLES
  mgr,          \* the members of STCClientMgr
  clients,      \* containers that a live STCClient is sending
  active,       \* containers whose m_active is set
  recording,    \* number of the run being recorded, 0 if none
  lastRun,      \* number of the latest run ever started
  requeueCount, \* m_requeueCount of each container
  disk,         \* marker files in each run's directory
  unmarked,     \* runs disposed of whose marker file could not be made
  unscanned,    \* run directories the start-up scan has not reached
  scanned,      \* containers it found untranslated, not yet queued
  scanning      \* the start-up scan has not been completed

vars == <<mgr, clients, active, recording, lastRun, requeueCount, disk,
          unmarked, unscanned, scanned, scanning>>

storage == <<active, recording, lastRun>>
scan == <<unscanned, scanned, scanning>>

MgrType ==
  [ pendingRuns    : SUBSET Containers,  \* m_pendingRuns, a map by run number
    sendingRuns    : SUBSET Containers,  \* m_sendingRuns, likewise
    currentRun     : 0..MaxRun,
    sendNext       : Orders,
    connections    : Nat,
    connecting     : BOOLEAN,
    backoff        : BOOLEAN,
    fd             : BOOLEAN,            \* m_fd >= 0: a connect is in progress
    timers         : SUBSET Timers,      \* the timers that are armed
    lookups        : 0..MaxLookups,      \* lookup signals still to come
    maxConnections : 0..MaxLimit ]

-----------------------------------------------------------------------------
(* The run queue.                                                          *)

HasRun(S, r) == \E c \in S : c.run = r

QueueRun(m, c, isActive) ==
  IF HasRun(m.pendingRuns, c.run)
  THEN m
  ELSE [m EXCEPT !.pendingRuns = @ \cup {c},
                 !.currentRun = IF isActive THEN c.run ELSE @]

DequeueRun(m, c) ==
  [m EXCEPT !.sendingRuns = {d \in @ : d.run # c.run}]

Oldest(S) == CHOOSE c \in S : \A d \in S : c.run <= d.run
Newest(S) == CHOOSE c \in S : \A d \in S : d.run <= c.run

NextOrder(m) == IF QueueMode = "BALANCE" THEN m.sendNext ELSE QueueMode

(* The run nextRun() picks; the code dereferences the result of a map      *)
(* search for currentRun without looking at it.                            *)
NextRun(m) ==
  IF m.currentRun # 0
  THEN CHOOSE c \in m.pendingRuns : c.run = m.currentRun
  ELSE IF NextOrder(m) = "OLDEST" THEN Oldest(m.pendingRuns)
                                  ELSE Newest(m.pendingRuns)

(* Mutants of nextRun(): m_currentRun is not reset; the run is not erased  *)
(* from the pending map.                                                   *)
TakeNextRunKeepsCurrent(m) ==
  LET c == NextRun(m)
  IN [m EXCEPT !.pendingRuns = @ \ {c},
               !.sendingRuns = {d \in @ : d.run # c.run} \cup {c}]
TakeNextRunKeepsPending(m) ==
  [m EXCEPT !.sendingRuns = @ \cup {NextRun(m)}, !.currentRun = 0]

(* What nextRun() does to the queue.                                       *)
TakeNextRun(m) ==
  LET c == NextRun(m)
  IN [m EXCEPT !.pendingRuns = @ \ {c},
               !.sendingRuns = {d \in @ : d.run # c.run} \cup {c},
               !.currentRun = 0,
               !.sendNext = IF m.currentRun # 0 THEN @
                            ELSE IF NextOrder(m) = "OLDEST" THEN "NEWEST"
                                                            ELSE "OLDEST"]

-----------------------------------------------------------------------------
(* Lookup, connect and their failures.                                     *)

(* enqueued: whether getaddrinfo_a takes the request, if it gets that far. *)
StartConnect(m, enqueued) ==
  IF \/ m.backoff
     \/ m.connecting
     \/ m.connections >= m.maxConnections
     \/ m.pendingRuns = {}
     \/ ~enqueued
  THEN m
  ELSE [m EXCEPT !.timers = @ \cup {"lookup"},
                 !.connecting = TRUE,
                 !.lookups = IF @ < MaxLookups THEN @ + 1 ELSE @]

(* Mutant: the reconnect timer is not started.                             *)
ConnectFailedNoRetry(m) ==
  [m EXCEPT !.fd = FALSE, !.timers = @ \ {"connect"}]

ConnectFailed(m) ==
  [m EXCEPT !.fd = FALSE,
            !.timers = (@ \ {"connect"}) \cup {"reconnect"}]

(* connectComplete() on a connected socket: the socket is handed to a new  *)
(* STCClient for the next run.                                             *)
Connected(m, enqueued) ==
  StartConnect([TakeNextRun(m) EXCEPT !.connections = @ + 1,
                                      !.timers = @ \ {"connect"},
                                      !.fd = FALSE,
                                      !.connecting = FALSE], enqueued)

(* Mutant: the run is taken off the sending list without being queued      *)
(* again.                                                                  *)
ClientThrowsDropsRun(m, c, isActive) ==
  ConnectFailed(DequeueRun(TakeNextRun(m), c))

(* The same when the STCClient constructor throws: the run is queued again *)
(* and the socket is closed.                                               *)
ClientThrows(m, c, isActive) ==
  ConnectFailed(DequeueRun(QueueRun(TakeNextRun(m), c, isActive), c))

(* lookupComplete() once connect() has reported EINPROGRESS, EAGAIN or     *)
(* EINTR: any earlier socket is replaced by the new one.                   *)
ConnectPending(m) ==
  [m EXCEPT !.fd = TRUE, !.timers = @ \cup {"connect"}]

(* connectComplete() with a connected socket, or its exception path.       *)
ConnectSucceeds(m) ==
  LET c == NextRun(m)
  IN \/ /\ \E ok \in {TRUE, ~EnqueueMayFail} : mgr' = Connected(m, ok)
        /\ clients' = clients \cup {c}
     \/ /\ mgr' = ClientThrows(m, c, c \in active)
        /\ UNCHANGED clients

(* Mutant: the back-off is entered and its timer forgotten.                *)
BackOffUnarmed(m) == [m EXCEPT !.backoff = TRUE]

(* clientComplete()'s back-off: the transient timer is started only by the *)
(* failure that turns it on.                                               *)
BackOff(m) == [m EXCEPT !.backoff = TRUE, !.timers = @ \cup {"transient"}]

-----------------------------------------------------------------------------
InitMgr(limit) ==
  [ pendingRuns |-> {}, sendingRuns |-> {}, currentRun |-> 0,
    sendNext |-> "OLDEST", connections |-> 0, connecting |-> FALSE,
    backoff |-> FALSE, fd |-> FALSE, timers |-> {}, lookups |-> 0,
    maxConnections |-> limit ]

Init ==
  /\ \E limit \in Limits : mgr = InitMgr(limit)
  /\ clients = {} /\ active = {}
  /\ recording = 0 /\ lastRun = 0
  /\ requeueCount = [c \in Containers |-> 0]
  /\ disk = [r \in Runs |-> {}]
  /\ unmarked = {}
  /\ unscanned = {} /\ scanned = {} /\ scanning = TRUE

(* The objects some part of the program still refers to, and a new object  *)
(* for run r: the first name that is free, one being as good as another.   *)
Live == mgr.pendingRuns \cup clients \cup active \cup scanned
FreshContainers(r) ==
  {c \in Containers \ Live :
     c.run = r /\ \A d \in Containers \ Live : d.run = r => c.copy <= d.copy}

-----------------------------------------------------------------------------
(* The recording side, as containerChange() sees it.                       *)

(* containerChange(c, true): a new run's container.                        *)
StartRun ==
  /\ recording = 0
  /\ lastRun < MaxRun
  /\ \E c \in FreshContainers(lastRun + 1), ok \in {TRUE, ~EnqueueMayFail} :
       /\ mgr' = StartConnect(QueueRun(mgr, c, TRUE), ok)
       /\ active' = active \cup {c}
       /\ requeueCount' = [requeueCount EXCEPT ![c] = 0]
  /\ recording' = lastRun + 1
  /\ lastRun' = lastRun + 1
  /\ UNCHANGED <<clients, disk, unmarked, scan>>

(* containerChange(c, false).                                              *)
ContainerEnded(m) == [m EXCEPT !.currentRun = 0]

(* The recording stops; its container is terminated at once, or kept on    *)
(* the container stack while data sources may still have data for it.      *)
StopRun ==
  /\ recording # 0
  /\ \/ /\ active' = {c \in active : c.run # recording}
        /\ mgr' = ContainerEnded(mgr)
     \/ /\ Stacking
        /\ UNCHANGED <<active, mgr>>
  /\ recording' = 0
  /\ UNCHANGED <<clients, lastRun, requeueCount, disk, unmarked, scan>>

(* A stacked container's clean-up time has passed: it is terminated.       *)
ExpireContainer(c) ==
  /\ c \in active
  /\ c.run # recording
  /\ active' = active \ {c}
  /\ mgr' = ContainerEnded(mgr)
  /\ UNCHANGED <<clients, recording, lastRun, requeueCount, disk, unmarked,
                 scan>>

-----------------------------------------------------------------------------
(* The handlers of the manager.                                            *)

(* The lookup signal.  An answer that comes late, after the lookup timer   *)
(* has given it up, is taken for the answer to the current lookup.         *)
LookupComplete ==
  /\ mgr.lookups > 0
  /\ LET m == [mgr EXCEPT !.lookups = @ - 1, !.timers = @ \ {"lookup"}]
     IN \/ /\ ~m.connecting
           /\ mgr' = m
           /\ UNCHANGED clients
        \/ /\ m.connecting
           /\ \/ mgr' = ConnectFailed(m) /\ UNCHANGED clients
              \/ mgr' = ConnectPending(m) /\ UNCHANGED clients
              \/ ConnectSucceeds(m)
  /\ UNCHANGED <<storage, requeueCount, disk, unmarked, scan>>

(* The socket became writable: connected, refused, or a harmless error     *)
(* that leaves everything waiting.                                         *)
ConnectComplete ==
  /\ mgr.fd
  /\ \/ mgr' = ConnectFailed(mgr) /\ UNCHANGED clients
     \/ ConnectSucceeds(mgr)
  /\ UNCHANGED <<storage, requeueCount, disk, unmarked, scan>>

(* The timers: each is one-shot and is disarmed by firing.                 *)
Fire(t) == [mgr EXCEPT !.timers = @ \ {t}]

ConnectTimeout ==
  /\ "connect" \in mgr.timers
  /\ mgr' = ConnectFailed(Fire("connect"))
  /\ UNCHANGED <<clients, storage, requeueCount, disk, unmarked, scan>>

RetryTimeout(t) ==
  /\ t \in mgr.timers
  /\ \E ok \in {TRUE, ~EnqueueMayFail} :
       mgr' = StartConnect([Fire(t) EXCEPT !.connecting = FALSE], ok)
  /\ UNCHANGED <<clients, storage, requeueCount, disk, unmarked, scan>>

ReconnectTimeout == RetryTimeout("reconnect")
LookupTimeout == RetryTimeout("lookup")

TransientTimeout ==
  /\ "transient" \in mgr.timers
  /\ \E ok \in {TRUE, ~EnqueueMayFail} :
       mgr' = StartConnect([Fire("transient") EXCEPT !.backoff = FALSE], ok)
  /\ UNCHANGED <<clients, storage, requeueCount, disk, unmarked, scan>>

(* The operator changes the MaxConnections PV.                             *)
MaxConnectionsChanged(n) ==
  /\ \E ok \in {TRUE, ~EnqueueMayFail} :
       mgr' = StartConnect([mgr EXCEPT !.maxConnections = n], ok)
  /\ UNCHANGED <<clients, storage, requeueCount, disk, unmarked, scan>>

-----------------------------------------------------------------------------
(* The end of a client.                                                    *)

(* createMarker() may fail; the run is then disposed of in memory only.    *)
Mark(r, marker) ==
  \/ disk' = [disk EXCEPT ![r] = @ \cup {marker}] /\ UNCHANGED unmarked
  \/ unmarked' = unmarked \cup {r} /\ UNCHANGED disk

(* Mutant: clientComplete() does not look for more work.                   *)
ClientGoneQuietly(m) == mgr' = [m EXCEPT !.connections = @ - 1]

(* What clientComplete() leaves of the manager: m is the manager after the *)
(* run has been marked or queued again.                                    *)
ClientGone(m) ==
  \E ok \in {TRUE, ~EnqueueMayFail} :
    mgr' = StartConnect([m EXCEPT !.connections = @ - 1], ok)

\* The count of a container nobody will send again is of no more use.
Disposed(c, marker) ==
  /\ ClientGone(DequeueRun(mgr, c))
  /\ Mark(c.run, marker)
  /\ requeueCount' = [requeueCount EXCEPT ![c] = 0]

Requeued(c) ==
  /\ ClientGone(QueueRun(BackOff(DequeueRun(mgr, c)), c, c \in active))
  /\ UNCHANGED <<disk, unmarked>>

ClientComplete(c, disp) ==
  /\ c \in clients
  /\ clients' = clients \ {c}
  /\ \/ disp = "SUCCESS" /\ Disposed(c, "translated")
     \/ disp = "PERMANENT_FAIL" /\ Disposed(c, "manual")
     \/ disp \in {"CONNECTION_LOSS", "INVALID_PROTOCOL"}
        /\ Requeued(c)
        /\ UNCHANGED requeueCount
     \/ disp = "TRANSIENT_FAIL"
        /\ requeueCount[c] >= MaxRequeue
        /\ Disposed(c, "manual")
     \/ disp = "TRANSIENT_FAIL"
        /\ requeueCount[c] < MaxRequeue
        /\ requeueCount' = [requeueCount EXCEPT ![c] = @ + 1]
        /\ Requeued(c)
  /\ UNCHANGED <<storage, scan>>

-----------------------------------------------------------------------------
(* Restart, the start-up scan, and the operator's rescan.                  *)

(* The process dies and is started again: only the disk survives.          *)
Restart ==
  /\ Crashing
  /\ mgr' = InitMgr(mgr.maxConnections)
  /\ clients' = {} /\ active' = {} /\ recording' = 0
  /\ requeueCount' = [c \in Containers |-> 0]
  /\ unmarked' = {}
  /\ unscanned' = 1..lastRun /\ scanned' = {} /\ scanning' = TRUE
  /\ UNCHANGED <<lastRun, disk>>

(* The I/O thread scans one run directory: a marked run is skipped, one    *)
(* with bad or missing files is marked for manual processing.              *)
ScanRun(r) ==
  /\ r \in unscanned
  /\ unscanned' = unscanned \ {r}
  /\ \/ /\ disk[r] # {}
        /\ UNCHANGED <<scanned, disk, unmarked, requeueCount>>
     \/ /\ disk[r] = {}
        /\ Mark(r, "manual")
        /\ UNCHANGED <<scanned, requeueCount>>
     \/ /\ disk[r] = {}
        /\ \E c \in FreshContainers(r) :
             /\ scanned' = scanned \cup {c}
             /\ requeueCount' = [requeueCount EXCEPT ![c] = 0]
        /\ UNCHANGED <<disk, unmarked>>
  /\ UNCHANGED <<mgr, clients, storage, scanning>>

(* ioCompleted(IOCMD_INITIAL): every run the scan found is queued.         *)
ScanCompleted ==
  /\ scanning
  /\ unscanned = {}
  /\ LET new == {c \in scanned : ~HasRun(mgr.pendingRuns, c.run)}
         m == [mgr EXCEPT !.pendingRuns = @ \cup new]
     IN IF scanned = {} THEN UNCHANGED mgr
        ELSE \E ok \in {TRUE, ~EnqueueMayFail} : mgr' = StartConnect(m, ok)
  /\ scanned' = {}
  /\ scanning' = FALSE
  /\ UNCHANGED <<clients, storage, requeueCount, disk, unmarked, unscanned>>

(* RescanRunDirPV::changed(): the operator, who may first have deleted the *)
(* run's markers, asks for the directory to be scanned again.              *)
Rescan(r) ==
  /\ r \in Rescanned
  /\ r \in 1..lastRun
  /\ LET marks == [disk EXCEPT ![r] = {}]
     IN \/ /\ \/ disk' = [marks EXCEPT ![r] = {"manual"}]
                 /\ UNCHANGED unmarked
              \/ disk' = marks /\ unmarked' = unmarked \cup {r}
           /\ UNCHANGED <<mgr, requeueCount>>
        \/ /\ disk' = marks
           /\ \E c \in FreshContainers(r), ok \in {TRUE, ~EnqueueMayFail} :
                /\ mgr' = StartConnect(QueueRun(mgr, c, FALSE), ok)
                /\ requeueCount' = [requeueCount EXCEPT ![c] = 0]
           /\ UNCHANGED unmarked
  /\ UNCHANGED <<clients, storage, scan>>

-----------------------------------------------------------------------------
Recording == StartRun \/ StopRun \/ \E c \in Containers : ExpireContainer(c)

Manager ==
  \/ LookupComplete \/ ConnectComplete
  \/ ConnectTimeout \/ ReconnectTimeout \/ LookupTimeout \/ TransientTimeout
  \/ \E n \in Limits : MaxConnectionsChanged(n)
  \/ \E c \in Containers, d \in Dispositions : ClientComplete(c, d)

Recovery ==
  \/ Restart \/ ScanCompleted
  \/ \E r \in Runs : ScanRun(r) \/ Rescan(r)

Next == Recording \/ Manager \/ Recovery

Spec == Init /\ [][Next]_vars

(* Fairness.  Armed timers fire, and the scan makes progress.  Of the      *)
(* outside world it is assumed that the STC is not unreachable for good    *)
(* (a lookup that is started again and again is in the end answered and    *)
(* connected), that no run fails for ever (one sent again and again is in  *)
(* the end translated), and that crashes and rescans come to an end.       *)
Fairness ==
  /\ WF_vars(ConnectTimeout) /\ WF_vars(ReconnectTimeout)
  /\ WF_vars(LookupTimeout) /\ WF_vars(TransientTimeout)
  /\ WF_vars(ScanCompleted) /\ WF_vars(\E r \in Runs : ScanRun(r))
  /\ SF_vars(LookupComplete /\ clients' # clients)
  /\ \A r \in Runs :
       SF_vars(\E c \in Containers : c.run = r /\ ClientComplete(c, "SUCCESS"))
  /\ <>[][~Restart /\ \A r \in Runs : ~Rescan(r)]_vars

LiveSpec == Spec /\ Fairness

-----------------------------------------------------------------------------
(* Properties.                                                             *)

(* Every variable keeps its type.                                          *)
TypeOK ==
  /\ mgr \in MgrType
  /\ clients \subseteq Containers
  /\ active \subseteq Containers
  /\ recording \in 0..MaxRun
  /\ lastRun \in 0..MaxRun
  /\ requeueCount \in [Containers -> Nat]
  /\ disk \in [Runs -> SUBSET Markers]
  /\ unmarked \subseteq Runs
  /\ unscanned \subseteq Runs
  /\ scanned \subseteq Containers
  /\ scanning \in BOOLEAN

(* nextRun() never throws and never dereferences end(): whenever a lookup  *)
(* or a connect is outstanding there is still a run to send when it        *)
(* completes, and m_currentRun, when set, is in the pending map.  The      *)
(* check is made in startConnect(), the use is in connectComplete().       *)
NextRunDefined ==
  /\ mgr.connecting \/ mgr.fd => mgr.pendingRuns # {}
  /\ mgr.currentRun # 0 => HasRun(mgr.pendingRuns, mgr.currentRun)

(* m_connections counts the live STCClients, and late lookups, repeated    *)
(* connects and lowered limits never take it above the largest limit the   *)
(* operator has configured.                                                *)
ConnectionsBounded ==
  /\ mgr.connections = Cardinality(clients)
  /\ mgr.connections <= MaxLimit

(* Whatever is being waited for, a timer will end the wait: no lookup,     *)
(* connect or back-off can hang the manager.                               *)
RetryArmed ==
  /\ mgr.connecting => mgr.timers \cap {"lookup", "connect", "reconnect"} # {}
  /\ mgr.fd => "connect" \in mgr.timers
  /\ mgr.backoff => "transient" \in mgr.timers

(* No lost wakeup: as long as the resolver takes every request, the        *)
(* manager is never idle with work it could do.                            *)
NeverIdle ==
  \/ EnqueueMayFail
  \/ mgr.pendingRuns = {}
  \/ mgr.connecting \/ mgr.backoff
  \/ mgr.connections >= mgr.maxConnections

(* No run is lost: a run that was started is queued, being sent, waiting   *)
(* for the start-up scan, or disposed of, through retries, duplicates,     *)
(* constructor failures, rescans and crashes at any point.                 *)
NoRunLost ==
  \A r \in 1..lastRun :
    \/ HasRun(mgr.pendingRuns, r) \/ HasRun(clients, r)
    \/ r \in unscanned \/ HasRun(scanned, r)
    \/ disk[r] # {} \/ r \in unmarked

(* No container is queued while it is being sent, and m_sendingRuns names   *)
(* no other than those; no run has two containers queued or sent, unless    *)
(* the operator asks for it to be scanned again.                            *)
OneClientPerRun ==
  /\ clients \cap mgr.pendingRuns = {}
  /\ mgr.sendingRuns \subseteq clients
  /\ \A c, d \in clients \cup mgr.pendingRuns :
       c.run = d.run /\ c.run \notin Rescanned => c = d

(* Every run that is started is in the end translated or handed over for   *)
(* manual processing.                                                      *)
EveryRunDisposed ==
  \A r \in Runs : r <= lastRun ~> (disk[r] # {} \/ r \in unmarked)
=============================================================================
