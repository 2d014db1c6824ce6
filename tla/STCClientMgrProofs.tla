------------------------- MODULE STCClientMgrProofs -------------------------
(***************************************************************************)
(* Proofs about STCClientMgr, for any number of runs, container copies,    *)
(* connection limits and retries.                                          *)
(*                                                                         *)
(* The member functions are operators on the manager's record, so the      *)
(* lemmas are about those operators: what each one preserves and what it   *)
(* does to the queue and the connection count.  The step of the inductive  *)
(* invariant then combines them, one step per action.                      *)
(***************************************************************************)
EXTENDS STCClientMgr, TLAPS, FiniteSetTheorems, WellFoundedInduction

(* The parts of the inductive invariant that concern the manager alone.    *)

(* An outstanding lookup or connect has a run and a slot reserved for it.  *)
Ready(m) ==
  /\ m.connecting \/ m.fd => m.pendingRuns # {} /\ m.connections < MaxLimit
  /\ m.connections <= MaxLimit

CurrentPending(m) ==
  m.currentRun # 0 => HasRun(m.pendingRuns, m.currentRun)

ConnectingArmed(m) ==
  m.connecting => m.timers \cap {"lookup", "connect", "reconnect"} # {}

OthersArmed(m) ==
  /\ m.fd => "connect" \in m.timers
  /\ m.backoff => "transient" \in m.timers

Busy(m) ==
  \/ EnqueueMayFail
  \/ m.pendingRuns = {}
  \/ m.connecting \/ m.backoff
  \/ m.connections >= m.maxConnections

MgrInv(m) ==
  /\ m \in MgrType
  /\ Ready(m)
  /\ CurrentPending(m)
  /\ ConnectingArmed(m)
  /\ OthersArmed(m)

(* An object is in one place only: a container with a client is not        *)
(* queued, and what the scan found is neither.                             *)
Apart ==
  /\ mgr.pendingRuns \cap clients = {}
  /\ scanned \cap (mgr.pendingRuns \cup clients) = {}

Counted == IsFiniteSet(clients) /\ mgr.connections = Cardinality(clients)

IInv ==
  /\ TypeOK
  /\ MgrInv(mgr)
  /\ Busy(mgr)
  /\ Apart
  /\ Counted
  /\ NoRunLost

-----------------------------------------------------------------------------
(* A bounded, non-empty set of containers has an oldest and a newest one.  *)

LEMMA SmallestNat ==
  ASSUME NEW S \in SUBSET Nat, S # {}
  PROVE  \E x \in S : \A y \in S : x <= y
<1>1. PICK x \in S : \A y \in S : ~(<<y, x>> \in OpToRel(<, Nat))
  BY WFMin, NatLessThanWellFounded
<1>2. \A y \in S : ~(y < x)
  BY <1>1 DEF OpToRel
<1> QED BY <1>2

LEMMA OldestExists ==
  ASSUME NEW S \in SUBSET Containers, S # {}
  PROVE  Oldest(S) \in S
<1> DEFINE R == {c.run : c \in S}
<1>1. R \in SUBSET Nat /\ R # {}
  BY ConstantsOK DEF Containers, Runs
<1>2. PICK r \in R : \A q \in R : r <= q
  BY <1>1, SmallestNat
<1>3. \E c \in S : \A d \in S : c.run <= d.run
  BY <1>2
<1> QED BY <1>3 DEF Oldest

LEMMA NewestExists ==
  ASSUME NEW S \in SUBSET Containers, S # {}
  PROVE  Newest(S) \in S
<1> DEFINE R == {MaxRun - c.run : c \in S}
<1>0. \A c \in S : c.run \in 1..MaxRun
  BY DEF Containers, Runs
<1>1. R \in SUBSET Nat /\ R # {}
  BY <1>0, ConstantsOK
<1>2. PICK r \in R : \A q \in R : r <= q
  BY <1>1, SmallestNat
<1>3. PICK c \in S : r = MaxRun - c.run
  BY <1>2
<1>4. \A d \in S : d.run <= c.run
  <2> TAKE d \in S
  <2>1. MaxRun - d.run \in R OBVIOUS
  <2>2. MaxRun - c.run <= MaxRun - d.run BY <1>2, <1>3, <2>1
  <2> QED BY <2>2, <1>0, ConstantsOK
<1> QED BY <1>4 DEF Newest

(* nextRun() returns a pending run: the code's choice is always defined.   *)
LEMMA NextRunPending ==
  ASSUME NEW m, m \in MgrType, m.pendingRuns # {}, CurrentPending(m)
  PROVE  NextRun(m) \in m.pendingRuns
<1>1. m.pendingRuns \in SUBSET Containers
  BY DEF MgrType
<1>2. CASE m.currentRun # 0
  BY <1>2 DEF CurrentPending, HasRun, NextRun
<1>3. CASE m.currentRun = 0
  BY <1>1, <1>3, OldestExists, NewestExists DEF NextRun
<1> QED BY <1>2, <1>3

-----------------------------------------------------------------------------
(* The operators on the manager.                                           *)

LEMMA QueueRunType ==
  ASSUME NEW m, m \in MgrType, NEW c \in Containers, NEW a \in BOOLEAN
  PROVE  /\ QueueRun(m, c, a) \in MgrType
         /\ m.pendingRuns \subseteq QueueRun(m, c, a).pendingRuns
         /\ QueueRun(m, c, a).pendingRuns \subseteq m.pendingRuns \cup {c}
         /\ HasRun(QueueRun(m, c, a).pendingRuns, c.run)
         /\ QueueRun(m, c, a).connections = m.connections
         /\ QueueRun(m, c, a).connecting = m.connecting
         /\ QueueRun(m, c, a).fd = m.fd
         /\ QueueRun(m, c, a).backoff = m.backoff
         /\ QueueRun(m, c, a).timers = m.timers
         /\ QueueRun(m, c, a).maxConnections = m.maxConnections
<1>1. CASE HasRun(m.pendingRuns, c.run)
  BY <1>1 DEF QueueRun
<1>2. CASE ~HasRun(m.pendingRuns, c.run)
  <2> DEFINE p == m.pendingRuns \cup {c}
             r == IF a THEN c.run ELSE m.currentRun
             n == [m EXCEPT !.pendingRuns = p, !.currentRun = r]
  <2>1. QueueRun(m, c, a) = n
    BY <1>2 DEF QueueRun
  <2>2. p \in SUBSET Containers
    BY DEF MgrType
  <2>3. r \in 0..MaxRun
    BY ConstantsOK DEF MgrType, Containers, Runs
  <2>4. HasRun(p, c.run)
    BY DEF HasRun
  <2> HIDE DEF p, r
  <2>5. /\ n \in MgrType
        /\ n.pendingRuns = p
        /\ n.connections = m.connections
        /\ n.connecting = m.connecting
        /\ n.fd = m.fd
        /\ n.backoff = m.backoff
        /\ n.timers = m.timers
        /\ n.maxConnections = m.maxConnections
    BY <2>2, <2>3 DEF MgrType
  <2> HIDE DEF n
  <2> QED BY <2>1, <2>4, <2>5 DEF p
<1> QED BY <1>1, <1>2

LEMMA QueueRunCurrent ==
  ASSUME NEW m, m \in MgrType, CurrentPending(m),
         NEW c \in Containers, NEW a \in BOOLEAN
  PROVE  CurrentPending(QueueRun(m, c, a))
BY DEF QueueRun, MgrType, HasRun, CurrentPending

LEMMA QueueRunInv ==
  ASSUME NEW m, MgrInv(m), NEW c \in Containers, NEW a \in BOOLEAN
  PROVE  MgrInv(QueueRun(m, c, a))
<1> DEFINE n == QueueRun(m, c, a)
<1>1. m \in MgrType BY DEF MgrInv
<1>2. n \in MgrType /\ CurrentPending(n)
  BY <1>1, QueueRunType, QueueRunCurrent DEF MgrInv
<1>3. Ready(n)
  BY <1>1, QueueRunType DEF MgrInv, Ready
<1>4. ConnectingArmed(n) /\ OthersArmed(n)
  BY <1>1, QueueRunType DEF MgrInv, ConnectingArmed, OthersArmed
<1> QED BY <1>2, <1>3, <1>4 DEF MgrInv

LEMMA StartConnectInv ==
  ASSUME NEW m, MgrInv(m), NEW ok \in BOOLEAN
  PROVE  /\ MgrInv(StartConnect(m, ok))
         /\ StartConnect(m, ok).pendingRuns = m.pendingRuns
         /\ StartConnect(m, ok).connections = m.connections
<1>1. CASE StartConnect(m, ok) = m
  BY <1>1
<1>2. CASE StartConnect(m, ok) # m
  <2> DEFINE n == [m EXCEPT !.timers = @ \cup {"lookup"},
                            !.connecting = TRUE,
                            !.lookups = IF @ < MaxLookups THEN @ + 1 ELSE @]
  <2>1. /\ StartConnect(m, ok) = n
        /\ m.connections < m.maxConnections
        /\ m.pendingRuns # {}
    BY <1>2, ConstantsOK DEF StartConnect, MgrInv, MgrType
  <2>2. m \in MgrType BY DEF MgrInv
  <2>3. n \in MgrType
    <3> DEFINE t == m.timers \cup {"lookup"}
               k == IF m.lookups < MaxLookups THEN m.lookups + 1 ELSE m.lookups
    <3>1. t \in SUBSET Timers BY <2>2 DEF MgrType, Timers
    <3>2. k \in 0..MaxLookups BY <2>2, ConstantsOK DEF MgrType
    <3> HIDE DEF t, k
    <3>3. [m EXCEPT !.timers = t, !.connecting = TRUE, !.lookups = k] \in MgrType
      BY <2>2, <3>1, <3>2 DEF MgrType
    <3> QED BY <3>3 DEF t, k
  <2>4. Ready(n)
    BY <2>1, <2>2, ConstantsOK DEF MgrType, MgrInv, Ready
  <2>5. CurrentPending(n)
    BY <2>2 DEF MgrType, MgrInv, CurrentPending
  <2>6. ConnectingArmed(n) /\ OthersArmed(n)
    BY <2>2 DEF MgrType, MgrInv, ConnectingArmed, OthersArmed
  <2>7. n.pendingRuns = m.pendingRuns /\ n.connections = m.connections
    BY <2>2 DEF MgrType
  <2> QED BY <2>1, <2>3, <2>4, <2>5, <2>6, <2>7 DEF MgrInv
<1> QED BY <1>1, <1>2

(* startConnect() leaves the manager busy if it can be.                    *)
LEMMA StartConnectBusy ==
  ASSUME NEW m, m \in MgrType, NEW ok \in {TRUE, ~EnqueueMayFail}
  PROVE  Busy(StartConnect(m, ok))
BY ConstantsOK DEF StartConnect, Busy, MgrType

LEMMA ConnectFailedInv ==
  ASSUME NEW m, m \in MgrType, Ready(m), CurrentPending(m),
         m.backoff => "transient" \in m.timers
  PROVE  /\ MgrInv(ConnectFailed(m))
         /\ ConnectFailed(m).pendingRuns = m.pendingRuns
         /\ ConnectFailed(m).connections = m.connections
         /\ Busy(m) => Busy(ConnectFailed(m))
<1> DEFINE n == ConnectFailed(m)
<1>1. n \in MgrType
  BY DEF ConnectFailed, MgrType, Timers
<1>2. Ready(n) /\ CurrentPending(n)
  BY DEF ConnectFailed, MgrType, Ready, CurrentPending
<1>3. ConnectingArmed(n) /\ OthersArmed(n)
  BY DEF ConnectFailed, MgrType, ConnectingArmed, OthersArmed
<1>4. /\ n.pendingRuns = m.pendingRuns
      /\ n.connections = m.connections
      /\ Busy(m) => Busy(n)
  BY DEF ConnectFailed, MgrType, Busy
<1> QED BY <1>1, <1>2, <1>3, <1>4 DEF MgrInv

LEMMA TakeNextRunType ==
  ASSUME NEW m, m \in MgrType, m.pendingRuns # {}, CurrentPending(m)
  PROVE  /\ TakeNextRun(m) \in MgrType
         /\ TakeNextRun(m).pendingRuns = m.pendingRuns \ {NextRun(m)}
         /\ TakeNextRun(m).currentRun = 0
         /\ TakeNextRun(m).connections = m.connections
         /\ TakeNextRun(m).connecting = m.connecting
         /\ TakeNextRun(m).fd = m.fd
         /\ TakeNextRun(m).backoff = m.backoff
         /\ TakeNextRun(m).timers = m.timers
         /\ TakeNextRun(m).maxConnections = m.maxConnections
<1>1. NextRun(m) \in Containers
  BY NextRunPending DEF MgrType
<1> DEFINE p == m.pendingRuns \ {NextRun(m)}
           s == {d \in m.sendingRuns : d.run # NextRun(m).run} \cup {NextRun(m)}
           o == IF m.currentRun # 0 THEN m.sendNext
                ELSE IF NextOrder(m) = "OLDEST" THEN "NEWEST" ELSE "OLDEST"
           n == [m EXCEPT !.pendingRuns = p, !.sendingRuns = s,
                          !.currentRun = 0, !.sendNext = o]
<1>2. TakeNextRun(m) = n
  BY DEF TakeNextRun
<1>3. p \in SUBSET Containers BY DEF MgrType
<1>4. s \in SUBSET Containers BY <1>1 DEF MgrType
<1>5. o \in Orders BY DEF MgrType, Orders
<1>6. 0 \in 0..MaxRun BY ConstantsOK
<1> HIDE DEF p, s, o
<1>7. /\ n \in MgrType
      /\ n.pendingRuns = p
      /\ n.currentRun = 0
      /\ n.connections = m.connections
      /\ n.connecting = m.connecting
      /\ n.fd = m.fd
      /\ n.backoff = m.backoff
      /\ n.timers = m.timers
      /\ n.maxConnections = m.maxConnections
  BY <1>3, <1>4, <1>5, <1>6 DEF MgrType
<1> HIDE DEF n
<1> QED BY <1>2, <1>7 DEF p

LEMMA ConnectedInv ==
  ASSUME NEW m, m \in MgrType, Ready(m), CurrentPending(m),
         m.pendingRuns # {}, m.connections < MaxLimit,
         m.backoff => "transient" \in m.timers,
         NEW ok \in {TRUE, ~EnqueueMayFail}
  PROVE  /\ MgrInv(Connected(m, ok))
         /\ Connected(m, ok).pendingRuns = m.pendingRuns \ {NextRun(m)}
         /\ Connected(m, ok).connections = m.connections + 1
         /\ Busy(Connected(m, ok))
<1> DEFINE t == TakeNextRun(m)
           n == [t EXCEPT !.connections = @ + 1,
                          !.timers = @ \ {"connect"},
                          !.fd = FALSE,
                          !.connecting = FALSE]
<1> HIDE DEF t
<1>0. ok \in BOOLEAN BY ConstantsOK
<1>1. /\ t \in MgrType
      /\ t.pendingRuns = m.pendingRuns \ {NextRun(m)}
      /\ t.currentRun = 0
      /\ t.connections = m.connections
      /\ t.backoff = m.backoff
      /\ t.timers = m.timers
  BY TakeNextRunType DEF t
<1>2. n \in MgrType
  <2> DEFINE k == t.connections + 1
             w == t.timers \ {"connect"}
  <2>1. k \in Nat /\ w \in SUBSET Timers BY <1>1 DEF MgrType
  <2> HIDE DEF k, w
  <2>2. [t EXCEPT !.connections = k, !.timers = w,
                  !.fd = FALSE, !.connecting = FALSE] \in MgrType
    BY <1>1, <2>1 DEF MgrType
  <2> QED BY <2>2 DEF k, w
<1>3. Ready(n) /\ CurrentPending(n)
  BY <1>1, ConstantsOK DEF MgrType, Ready, CurrentPending
<1>4. ConnectingArmed(n) /\ OthersArmed(n)
  BY <1>1 DEF MgrType, ConnectingArmed, OthersArmed
<1>5. MgrInv(n)
  BY <1>2, <1>3, <1>4 DEF MgrInv
<1>6. /\ n.pendingRuns = m.pendingRuns \ {NextRun(m)}
      /\ n.connections = m.connections + 1
  BY <1>1 DEF MgrType
<1>7. Connected(m, ok) = StartConnect(n, ok)
  BY DEF Connected, t
<1> HIDE DEF n
<1>8. /\ MgrInv(StartConnect(n, ok))
      /\ StartConnect(n, ok).pendingRuns = n.pendingRuns
      /\ StartConnect(n, ok).connections = n.connections
  BY <1>0, <1>5, StartConnectInv
<1>9. Busy(StartConnect(n, ok))
  BY <1>2, StartConnectBusy
<1> QED BY <1>6, <1>7, <1>8, <1>9

LEMMA ClientThrowsInv ==
  ASSUME NEW m, m \in MgrType, Ready(m), CurrentPending(m),
         m.pendingRuns # {}, Busy(m), NEW a \in BOOLEAN,
         m.backoff => "transient" \in m.timers
  PROVE  /\ MgrInv(ClientThrows(m, NextRun(m), a))
         /\ ClientThrows(m, NextRun(m), a).pendingRuns \subseteq m.pendingRuns
         /\ ClientThrows(m, NextRun(m), a).connections = m.connections
         /\ Busy(ClientThrows(m, NextRun(m), a))
         /\ \A r : HasRun(m.pendingRuns, r) =>
                     HasRun(ClientThrows(m, NextRun(m), a).pendingRuns, r)
<1> DEFINE c == NextRun(m)
           t == TakeNextRun(m)
           q == QueueRun(t, c, a)
           d == DequeueRun(q, c)
<1>0. c \in m.pendingRuns /\ c \in Containers
  BY NextRunPending DEF MgrType
<1>1. /\ t \in MgrType
      /\ t.pendingRuns = m.pendingRuns \ {c}
      /\ t.currentRun = 0
      /\ t.connections = m.connections
      /\ t.connecting = m.connecting
      /\ t.fd = m.fd
      /\ t.backoff = m.backoff
      /\ t.timers = m.timers
      /\ t.maxConnections = m.maxConnections
  BY TakeNextRunType
<1> HIDE DEF t, c
<1>2. CurrentPending(t) BY <1>1 DEF CurrentPending
<1>3. /\ q \in MgrType
      /\ CurrentPending(q)
      /\ t.pendingRuns \subseteq q.pendingRuns
      /\ q.pendingRuns \subseteq t.pendingRuns \cup {c}
      /\ HasRun(q.pendingRuns, c.run)
      /\ q.connections = m.connections
      /\ q.connecting = m.connecting
      /\ q.fd = m.fd
      /\ q.backoff = m.backoff
      /\ q.timers = m.timers
      /\ q.maxConnections = m.maxConnections
  BY <1>0, <1>1, <1>2, QueueRunType, QueueRunCurrent
<1> HIDE DEF q
<1>4. /\ d \in MgrType
      /\ d.pendingRuns = q.pendingRuns
      /\ d.currentRun = q.currentRun
      /\ d.connections = m.connections
      /\ d.connecting = m.connecting
      /\ d.fd = m.fd
      /\ d.backoff = m.backoff
      /\ d.timers = m.timers
      /\ d.maxConnections = m.maxConnections
  BY <1>3 DEF DequeueRun, MgrType
<1> HIDE DEF d
<1>5. q.pendingRuns # {}
  BY <1>3 DEF HasRun
<1>6. Ready(d) /\ CurrentPending(d)
  BY <1>3, <1>4, <1>5 DEF Ready, CurrentPending
<1>7. Busy(d)
  BY <1>4 DEF Busy
<1>8. ClientThrows(m, NextRun(m), a) = ConnectFailed(d)
  BY DEF ClientThrows, d, q, t, c
<1>9. \A r : HasRun(m.pendingRuns, r) => HasRun(q.pendingRuns, r)
  BY <1>0, <1>1, <1>3 DEF HasRun
<1>10. q.pendingRuns \subseteq m.pendingRuns
  BY <1>0, <1>1, <1>3
<1> QED BY <1>4, <1>6, <1>7, <1>8, <1>9, <1>10, ConnectFailedInv

-----------------------------------------------------------------------------
(* The initial state, also the one a restart leads to.                     *)

LEMMA InitMgrInv ==
  ASSUME NEW n \in 0..MaxLimit
  PROVE  MgrInv(InitMgr(n)) /\ Busy(InitMgr(n))
<1>1. InitMgr(n) \in MgrType
  BY ConstantsOK DEF InitMgr, MgrType, Orders
<1>2. Ready(InitMgr(n)) /\ CurrentPending(InitMgr(n)) /\ Busy(InitMgr(n))
  BY ConstantsOK DEF InitMgr, Ready, CurrentPending, Busy
<1>3. ConnectingArmed(InitMgr(n)) /\ OthersArmed(InitMgr(n))
  BY DEF InitMgr, ConnectingArmed, OthersArmed
<1> QED BY <1>1, <1>2, <1>3 DEF MgrInv

LEMMA InitIInv == Init => IInv
<1> SUFFICES ASSUME Init PROVE IInv OBVIOUS
<1>1. PICK n \in Limits : mgr = InitMgr(n)
  BY DEF Init
<1>2. n \in 0..MaxLimit
  BY ConstantsOK
<1>3. MgrInv(mgr) /\ Busy(mgr)
  BY <1>1, <1>2, InitMgrInv
<1>4. TypeOK
  BY <1>3, ConstantsOK DEF Init, TypeOK, MgrInv, Markers
<1>5. mgr.pendingRuns = {} /\ mgr.connections = 0
  BY <1>1 DEF InitMgr
<1>6. Apart /\ NoRunLost
  BY <1>5 DEF Init, Apart, NoRunLost
<1>7. Counted
  BY <1>5, FS_EmptySet DEF Init, Counted
<1> QED BY <1>3, <1>4, <1>6, <1>7 DEF IInv

-----------------------------------------------------------------------------
(* One lemma per action, or per group of actions that end alike.           *)

(* An action that only moves the manager, leaving the queue, the clients   *)
(* and the rest of the program alone.                                      *)
LEMMA ManagerOnly ==
  ASSUME IInv, MgrInv(mgr'), Busy(mgr'),
         mgr'.pendingRuns = mgr.pendingRuns,
         mgr'.connections = mgr.connections,
         UNCHANGED <<clients, storage, requeueCount, disk, unmarked, scan>>
  PROVE  IInv'
<1>1. TypeOK'
  BY DEF IInv, TypeOK, MgrInv, storage, scan
<1>2. Apart' /\ Counted'
  BY DEF IInv, Apart, Counted, scan
<1>3. NoRunLost'
  BY DEF IInv, NoRunLost, storage, scan
<1> QED BY <1>1, <1>2, <1>3 DEF IInv

(* connectComplete() on a connected socket, whichever handler it is called *)
(* from.                                                                   *)
LEMMA ConnectSucceedsInv ==
  ASSUME IInv, NEW m, m \in MgrType, Ready(m), CurrentPending(m), Busy(m),
         m.connecting \/ m.fd,
         m.backoff => "transient" \in m.timers,
         m.pendingRuns = mgr.pendingRuns,
         m.connections = mgr.connections,
         ConnectSucceeds(m),
         UNCHANGED <<storage, requeueCount, disk, unmarked, scan>>
  PROVE  IInv'
<1> DEFINE c == NextRun(m)
<1>0. m.pendingRuns # {} /\ m.connections < MaxLimit
  BY DEF Ready
<1>1. c \in m.pendingRuns /\ c \in Containers
  BY <1>0, NextRunPending DEF MgrType
<1>2. CASE /\ \E ok \in {TRUE, ~EnqueueMayFail} : mgr' = Connected(m, ok)
           /\ clients' = clients \cup {c}
  <2>1. PICK ok \in {TRUE, ~EnqueueMayFail} : mgr' = Connected(m, ok)
    BY <1>2
  <2>2. /\ MgrInv(mgr')
        /\ mgr'.pendingRuns = mgr.pendingRuns \ {c}
        /\ mgr'.connections = mgr.connections + 1
        /\ Busy(mgr')
    BY <1>0, <2>1, ConnectedInv
  <2> HIDE DEF c
  <2>3. TypeOK'
    BY <1>1, <1>2, <2>2 DEF IInv, TypeOK, MgrInv, storage, scan
  <2>4. Apart'
    BY <1>1, <1>2, <2>2 DEF IInv, Apart, scan
  <2>5. c \notin clients
    BY <1>1 DEF IInv, Apart
  <2>6. Counted'
    BY <1>2, <2>2, <2>5, FS_AddElement DEF IInv, Counted
  <2>7. NoRunLost'
    BY <1>1, <1>2, <2>2 DEF IInv, NoRunLost, HasRun, storage, scan
  <2> QED BY <2>2, <2>3, <2>4, <2>6, <2>7 DEF IInv
<1>3. CASE /\ mgr' = ClientThrows(m, c, c \in active)
           /\ UNCHANGED clients
  <2> DEFINE a == c \in active
  <2>0. a \in BOOLEAN OBVIOUS
  <2>1. /\ MgrInv(mgr')
        /\ mgr'.pendingRuns \subseteq mgr.pendingRuns
        /\ mgr'.connections = mgr.connections
        /\ Busy(mgr')
        /\ \A r : HasRun(mgr.pendingRuns, r) => HasRun(mgr'.pendingRuns, r)
    <3>1. mgr' = ClientThrows(m, NextRun(m), a) BY <1>3
    <3> HIDE DEF a, c
    <3> QED BY <1>0, <2>0, <3>1, ClientThrowsInv
  <2>2. TypeOK'
    BY <1>3, <2>1 DEF IInv, TypeOK, MgrInv, storage, scan
  <2>3. Apart' /\ Counted'
    BY <1>3, <2>1 DEF IInv, Apart, Counted, scan
  <2>4. NoRunLost'
    BY <1>3, <2>1 DEF IInv, NoRunLost, storage, scan
  <2> QED BY <2>1, <2>2, <2>3, <2>4 DEF IInv
<1> QED BY <1>2, <1>3 DEF ConnectSucceeds

LEMMA LookupCompleteInv == ASSUME IInv, LookupComplete PROVE IInv'
<1> DEFINE t == mgr.timers \ {"lookup"}
           k == mgr.lookups - 1
           m == [mgr EXCEPT !.lookups = k, !.timers = t]
<1>0. mgr \in MgrType /\ mgr.lookups > 0
  BY DEF IInv, TypeOK, LookupComplete
<1>1. k \in 0..MaxLookups /\ t \in SUBSET Timers
  BY <1>0, ConstantsOK DEF MgrType
<1>2. "transient" \in mgr.timers => "transient" \in t
  OBVIOUS
<1>2a. "connect" \in mgr.timers => "connect" \in t
  OBVIOUS
<1> HIDE DEF t, k
<1>3. /\ m \in MgrType
      /\ m.pendingRuns = mgr.pendingRuns
      /\ m.currentRun = mgr.currentRun
      /\ m.connections = mgr.connections
      /\ m.connecting = mgr.connecting
      /\ m.backoff = mgr.backoff
      /\ m.fd = mgr.fd
      /\ m.maxConnections = mgr.maxConnections
      /\ m.timers = t
  BY <1>0, <1>1 DEF MgrType
<1>4. LookupComplete =>
        /\ \/ ~m.connecting /\ mgr' = m /\ UNCHANGED clients
           \/ /\ m.connecting
              /\ \/ mgr' = ConnectFailed(m) /\ UNCHANGED clients
                 \/ mgr' = ConnectPending(m) /\ UNCHANGED clients
                 \/ ConnectSucceeds(m)
        /\ UNCHANGED <<storage, requeueCount, disk, unmarked, scan>>
  BY DEF LookupComplete, k, t
<1> HIDE DEF m
<1>5. Ready(m) /\ CurrentPending(m) /\ Busy(m)
  BY <1>3 DEF IInv, MgrInv, Ready, CurrentPending, Busy
<1>6. OthersArmed(m)
  BY <1>2, <1>2a, <1>3 DEF IInv, MgrInv, OthersArmed
<1>7. CASE ~m.connecting /\ mgr' = m /\ UNCHANGED clients
  <2>1. MgrInv(mgr')
    BY <1>3, <1>5, <1>6, <1>7 DEF MgrInv, ConnectingArmed
  <2> QED BY <1>3, <1>4, <1>5, <1>7, <2>1, ManagerOnly
<1>8. CASE mgr' = ConnectFailed(m) /\ UNCHANGED clients
  <2>1. /\ MgrInv(mgr') /\ Busy(mgr')
        /\ mgr'.pendingRuns = mgr.pendingRuns
        /\ mgr'.connections = mgr.connections
    BY <1>3, <1>5, <1>6, <1>8, ConnectFailedInv DEF OthersArmed
  <2> QED BY <1>4, <1>8, <2>1, ManagerOnly
<1>9. CASE m.connecting /\ mgr' = ConnectPending(m) /\ UNCHANGED clients
  <2> DEFINE u == m.timers \cup {"connect"}
  <2>1. u \in SUBSET Timers
    BY <1>1, <1>3 DEF Timers
  <2>2. "connect" \in u /\ m.timers \subseteq u OBVIOUS
  <2>3. mgr' = [m EXCEPT !.fd = TRUE, !.timers = u]
    BY <1>9 DEF ConnectPending
  <2> HIDE DEF u
  <2>4. /\ mgr' \in MgrType
        /\ mgr'.pendingRuns = m.pendingRuns
        /\ mgr'.currentRun = m.currentRun
        /\ mgr'.connections = m.connections
        /\ mgr'.connecting = m.connecting
        /\ mgr'.backoff = m.backoff
        /\ mgr'.maxConnections = m.maxConnections
        /\ mgr'.timers = u
    BY <1>3, <2>1, <2>3 DEF MgrType
  <2>5. Ready(mgr') /\ CurrentPending(mgr') /\ Busy(mgr')
    BY <1>5, <1>9, <2>4 DEF Ready, CurrentPending, Busy
  <2>6. ConnectingArmed(mgr') /\ OthersArmed(mgr')
    BY <1>6, <2>2, <2>4 DEF ConnectingArmed, OthersArmed
  <2>7. MgrInv(mgr')
    BY <2>4, <2>5, <2>6 DEF MgrInv
  <2> QED BY <1>3, <1>4, <1>9, <2>4, <2>5, <2>7, ManagerOnly
<1>10. CASE m.connecting /\ ConnectSucceeds(m)
  BY <1>3, <1>4, <1>5, <1>6, <1>10, ConnectSucceedsInv DEF OthersArmed
<1> QED BY <1>4, <1>7, <1>8, <1>9, <1>10

LEMMA ConnectCompleteInv == ASSUME IInv, ConnectComplete PROVE IInv'
<1>1. /\ mgr \in MgrType /\ Ready(mgr) /\ CurrentPending(mgr) /\ Busy(mgr)
      /\ mgr.backoff => "transient" \in mgr.timers
  BY DEF IInv, MgrInv, OthersArmed
<1>2. CASE mgr' = ConnectFailed(mgr) /\ UNCHANGED clients
  <2>1. /\ MgrInv(mgr') /\ Busy(mgr')
        /\ mgr'.pendingRuns = mgr.pendingRuns
        /\ mgr'.connections = mgr.connections
    BY <1>1, <1>2, ConnectFailedInv
  <2> QED BY <1>2, <2>1, ManagerOnly DEF ConnectComplete
<1>3. CASE ConnectSucceeds(mgr)
  BY <1>1, <1>3, ConnectSucceedsInv DEF ConnectComplete
<1> QED BY <1>2, <1>3 DEF ConnectComplete

(* The recording side.                                                     *)

LEMMA StartRunInv == ASSUME IInv, StartRun PROVE IInv'
<1>1. PICK c \in FreshContainers(lastRun + 1), ok \in {TRUE, ~EnqueueMayFail} :
        /\ mgr' = StartConnect(QueueRun(mgr, c, TRUE), ok)
        /\ active' = active \cup {c}
        /\ requeueCount' = [requeueCount EXCEPT ![c] = 0]
  BY DEF StartRun
<1>2. /\ c \in Containers /\ c.run = lastRun + 1
      /\ c \notin clients /\ c \notin scanned /\ c \notin mgr.pendingRuns
  BY DEF FreshContainers, Live
<1> DEFINE q == QueueRun(mgr, c, TRUE)
<1>3. MgrInv(q) /\ q \in MgrType
  BY <1>2, QueueRunInv DEF IInv, MgrInv
<1>4. /\ mgr.pendingRuns \subseteq q.pendingRuns
      /\ q.pendingRuns \subseteq mgr.pendingRuns \cup {c}
      /\ HasRun(q.pendingRuns, c.run)
      /\ q.connections = mgr.connections
  BY <1>2, QueueRunType DEF IInv, MgrInv
<1> HIDE DEF q
<1>5. ok \in BOOLEAN BY ConstantsOK
<1>6. /\ MgrInv(mgr')
      /\ mgr'.pendingRuns = q.pendingRuns
      /\ mgr'.connections = q.connections
  BY <1>1, <1>3, <1>5, StartConnectInv DEF q
<1>7. Busy(mgr')
  BY <1>1, <1>3, StartConnectBusy DEF q
<1>8. TypeOK'
  <2>1. requeueCount' \in [Containers -> Nat]
    BY <1>1, <1>2 DEF IInv, TypeOK
  <2>2. recording' \in 0..MaxRun /\ lastRun' \in 0..MaxRun
    BY ConstantsOK DEF IInv, TypeOK, StartRun
  <2> QED
    BY <1>1, <1>2, <1>6, <2>1, <2>2 DEF IInv, TypeOK, MgrInv, StartRun, scan
<1>9. Apart' /\ Counted'
  <2>1. scanned' = scanned /\ clients' = clients
    BY DEF StartRun, scan
  <2>2. mgr'.pendingRuns \subseteq mgr.pendingRuns \cup {c}
    BY <1>4, <1>6
  <2>3. Apart'
    BY <1>2, <2>1, <2>2 DEF IInv, Apart
  <2>4. Counted'
    BY <1>4, <1>6, <2>1 DEF IInv, Counted
  <2> QED BY <2>3, <2>4
<1>10. NoRunLost'
  <2>1. lastRun' = lastRun + 1 /\ lastRun \in Nat
    BY DEF StartRun, IInv, TypeOK
  <2>2. HasRun(mgr'.pendingRuns, lastRun + 1)
    BY <1>2, <1>4, <1>6
  <2>3. \A r \in 1..(lastRun + 1) : r \in 1..lastRun \/ r = lastRun + 1
    BY <2>1
  <2>4. \A r : HasRun(mgr.pendingRuns, r) => HasRun(mgr'.pendingRuns, r)
    BY <1>4, <1>6 DEF HasRun
  <2> QED
    BY <2>1, <2>2, <2>3, <2>4 DEF IInv, NoRunLost, StartRun, scan
<1> QED BY <1>6, <1>7, <1>8, <1>9, <1>10 DEF IInv

LEMMA ContainerEndedInv ==
  ASSUME IInv, mgr' = ContainerEnded(mgr) \/ mgr' = mgr
  PROVE  /\ MgrInv(mgr') /\ Busy(mgr')
         /\ mgr'.pendingRuns = mgr.pendingRuns
         /\ mgr'.connections = mgr.connections
<1>1. CASE mgr' = mgr
  BY <1>1 DEF IInv
<1>2. CASE mgr' = ContainerEnded(mgr)
  <2>1. /\ mgr' \in MgrType
        /\ mgr'.pendingRuns = mgr.pendingRuns
        /\ mgr'.currentRun = 0
        /\ mgr'.connections = mgr.connections
        /\ mgr'.connecting = mgr.connecting
        /\ mgr'.fd = mgr.fd
        /\ mgr'.backoff = mgr.backoff
        /\ mgr'.timers = mgr.timers
        /\ mgr'.maxConnections = mgr.maxConnections
    BY <1>2, ConstantsOK DEF IInv, MgrInv, MgrType, ContainerEnded
  <2>2. Ready(mgr') /\ CurrentPending(mgr') /\ Busy(mgr')
    BY <2>1 DEF IInv, MgrInv, Ready, CurrentPending, Busy
  <2>3. ConnectingArmed(mgr') /\ OthersArmed(mgr')
    BY <2>1 DEF IInv, MgrInv, ConnectingArmed, OthersArmed
  <2> QED BY <2>1, <2>2, <2>3 DEF MgrInv
<1> QED BY <1>1, <1>2

LEMMA ContainersEndInv ==
  ASSUME IInv, StopRun \/ \E c \in Containers : ExpireContainer(c)
  PROVE  IInv'
<1>1. /\ mgr' = ContainerEnded(mgr) \/ mgr' = mgr
      /\ active' \subseteq active
      /\ recording' \in {0, recording}
      /\ UNCHANGED <<clients, lastRun, requeueCount, disk, unmarked, scan>>
  <2>1. CASE StopRun
    BY <2>1 DEF StopRun
  <2>2. CASE \E c \in Containers : ExpireContainer(c)
    BY <2>2 DEF ExpireContainer
  <2> QED BY <2>1, <2>2
<1>2. /\ MgrInv(mgr') /\ Busy(mgr')
      /\ mgr'.pendingRuns = mgr.pendingRuns
      /\ mgr'.connections = mgr.connections
  BY <1>1, ContainerEndedInv
<1>3. TypeOK'
  BY <1>1, <1>2, ConstantsOK DEF IInv, TypeOK, MgrInv, scan
<1>4. Apart' /\ Counted'
  BY <1>1, <1>2 DEF IInv, Apart, Counted, scan
<1>5. NoRunLost'
  BY <1>1, <1>2 DEF IInv, NoRunLost, scan
<1> QED BY <1>2, <1>3, <1>4, <1>5 DEF IInv

(* The timers and the PV.                                                  *)

LEMMA ConnectTimeoutInv == ASSUME IInv, ConnectTimeout PROVE IInv'
<1> DEFINE t == mgr.timers \ {"connect"}
           m == [mgr EXCEPT !.timers = t]
<1>0. mgr \in MgrType /\ t \in SUBSET Timers
  BY DEF IInv, TypeOK, MgrType
<1>1. "transient" \in mgr.timers => "transient" \in t OBVIOUS
<1>2. mgr' = ConnectFailed(m)
  BY DEF ConnectTimeout, Fire
<1> HIDE DEF t
<1>3. /\ m \in MgrType
      /\ m.pendingRuns = mgr.pendingRuns
      /\ m.currentRun = mgr.currentRun
      /\ m.connections = mgr.connections
      /\ m.connecting = mgr.connecting
      /\ m.backoff = mgr.backoff
      /\ m.fd = mgr.fd
      /\ m.maxConnections = mgr.maxConnections
      /\ m.timers = t
  BY <1>0 DEF MgrType
<1> HIDE DEF m
<1>4. Ready(m) /\ CurrentPending(m) /\ Busy(m)
  BY <1>3 DEF IInv, MgrInv, Ready, CurrentPending, Busy
<1>5. m.backoff => "transient" \in m.timers
  BY <1>1, <1>3 DEF IInv, MgrInv, OthersArmed
<1>6. /\ MgrInv(mgr') /\ Busy(mgr')
      /\ mgr'.pendingRuns = mgr.pendingRuns
      /\ mgr'.connections = mgr.connections
  BY <1>2, <1>3, <1>4, <1>5, ConnectFailedInv
<1> QED BY <1>6, ManagerOnly DEF ConnectTimeout

(* Handlers that change a flag, a timer or the limit and then call         *)
(* startConnect().                                                         *)
LEMMA ThenStartConnect ==
  ASSUME IInv, NEW m, MgrInv(m), NEW ok \in {TRUE, ~EnqueueMayFail},
         m.pendingRuns = mgr.pendingRuns, m.connections = mgr.connections,
         mgr' = StartConnect(m, ok),
         UNCHANGED <<clients, storage, requeueCount, disk, unmarked, scan>>
  PROVE  IInv'
<1>1. ok \in BOOLEAN /\ m \in MgrType BY ConstantsOK DEF MgrInv
<1>2. /\ MgrInv(mgr')
      /\ mgr'.pendingRuns = mgr.pendingRuns
      /\ mgr'.connections = mgr.connections
  BY <1>1, StartConnectInv
<1>3. Busy(mgr') BY <1>1, StartConnectBusy
<1> QED BY <1>2, <1>3, ManagerOnly

LEMMA RetryTimeoutInv ==
  ASSUME IInv, NEW x \in {"lookup", "reconnect"}, RetryTimeout(x) PROVE IInv'
<1> DEFINE t == mgr.timers \ {x}
           m == [mgr EXCEPT !.timers = t, !.connecting = FALSE]
<1>0. mgr \in MgrType /\ t \in SUBSET Timers
  BY DEF IInv, TypeOK, MgrType
<1>1. /\ "transient" \in mgr.timers => "transient" \in t
      /\ "connect" \in mgr.timers => "connect" \in t
  OBVIOUS
<1>2. PICK ok \in {TRUE, ~EnqueueMayFail} : mgr' = StartConnect(m, ok)
  BY <1>0 DEF RetryTimeout, Fire, MgrType
<1> HIDE DEF t
<1>3. /\ m \in MgrType
      /\ m.pendingRuns = mgr.pendingRuns
      /\ m.currentRun = mgr.currentRun
      /\ m.connections = mgr.connections
      /\ m.connecting = FALSE
      /\ m.backoff = mgr.backoff
      /\ m.fd = mgr.fd
      /\ m.timers = t
  BY <1>0 DEF MgrType
<1> HIDE DEF m
<1>4. Ready(m) /\ CurrentPending(m)
  BY <1>3 DEF IInv, MgrInv, Ready, CurrentPending
<1>5. ConnectingArmed(m) /\ OthersArmed(m)
  BY <1>1, <1>3 DEF IInv, MgrInv, ConnectingArmed, OthersArmed
<1>6. MgrInv(m) BY <1>3, <1>4, <1>5 DEF MgrInv
<1> QED BY <1>2, <1>3, <1>6, ThenStartConnect DEF RetryTimeout

LEMMA TransientTimeoutInv == ASSUME IInv, TransientTimeout PROVE IInv'
<1> DEFINE t == mgr.timers \ {"transient"}
           m == [mgr EXCEPT !.timers = t, !.backoff = FALSE]
<1>0. mgr \in MgrType /\ t \in SUBSET Timers
  BY DEF IInv, TypeOK, MgrType
<1>1. \A x \in {"lookup", "connect", "reconnect"} : x \in mgr.timers => x \in t
  OBVIOUS
<1>2. PICK ok \in {TRUE, ~EnqueueMayFail} : mgr' = StartConnect(m, ok)
  BY <1>0 DEF TransientTimeout, Fire, MgrType
<1> HIDE DEF t
<1>3. /\ m \in MgrType
      /\ m.pendingRuns = mgr.pendingRuns
      /\ m.currentRun = mgr.currentRun
      /\ m.connections = mgr.connections
      /\ m.connecting = mgr.connecting
      /\ m.backoff = FALSE
      /\ m.fd = mgr.fd
      /\ m.timers = t
  BY <1>0 DEF MgrType
<1> HIDE DEF m
<1>4. Ready(m) /\ CurrentPending(m)
  BY <1>3 DEF IInv, MgrInv, Ready, CurrentPending
<1>5. ConnectingArmed(m) /\ OthersArmed(m)
  BY <1>1, <1>3 DEF IInv, MgrInv, ConnectingArmed, OthersArmed
<1>6. MgrInv(m) BY <1>3, <1>4, <1>5 DEF MgrInv
<1> QED BY <1>2, <1>3, <1>6, ThenStartConnect DEF TransientTimeout

LEMMA MaxConnectionsChangedInv ==
  ASSUME IInv, NEW n \in Limits, MaxConnectionsChanged(n) PROVE IInv'
<1> DEFINE m == [mgr EXCEPT !.maxConnections = n]
<1>0. mgr \in MgrType /\ n \in 0..MaxLimit
  BY ConstantsOK DEF IInv, TypeOK
<1>2. PICK ok \in {TRUE, ~EnqueueMayFail} : mgr' = StartConnect(m, ok)
  BY DEF MaxConnectionsChanged
<1>3. /\ m \in MgrType
      /\ m.pendingRuns = mgr.pendingRuns
      /\ m.currentRun = mgr.currentRun
      /\ m.connections = mgr.connections
      /\ m.connecting = mgr.connecting
      /\ m.backoff = mgr.backoff
      /\ m.fd = mgr.fd
      /\ m.timers = mgr.timers
  BY <1>0 DEF MgrType
<1> HIDE DEF m
<1>4. Ready(m) /\ CurrentPending(m)
  BY <1>3 DEF IInv, MgrInv, Ready, CurrentPending
<1>5. ConnectingArmed(m) /\ OthersArmed(m)
  BY <1>3 DEF IInv, MgrInv, ConnectingArmed, OthersArmed
<1>6. MgrInv(m) BY <1>3, <1>4, <1>5 DEF MgrInv
<1> QED BY <1>2, <1>3, <1>6, ThenStartConnect DEF MaxConnectionsChanged

(* The end of a client.                                                    *)

LEMMA DequeueRunInv ==
  ASSUME NEW m, MgrInv(m), NEW c
  PROVE  /\ MgrInv(DequeueRun(m, c))
         /\ DequeueRun(m, c).pendingRuns = m.pendingRuns
         /\ DequeueRun(m, c).connections = m.connections
<1> DEFINE s == {d \in m.sendingRuns : d.run # c.run}
           n == [m EXCEPT !.sendingRuns = s]
<1>1. m \in MgrType BY DEF MgrInv
<1>2. s \in SUBSET Containers BY <1>1 DEF MgrType
<1>3. DequeueRun(m, c) = n BY DEF DequeueRun
<1> HIDE DEF s
<1>4. /\ n \in MgrType
      /\ n.pendingRuns = m.pendingRuns
      /\ n.currentRun = m.currentRun
      /\ n.connections = m.connections
      /\ n.connecting = m.connecting
      /\ n.backoff = m.backoff
      /\ n.fd = m.fd
      /\ n.timers = m.timers
  BY <1>1, <1>2 DEF MgrType
<1> HIDE DEF n
<1>5. Ready(n) /\ CurrentPending(n)
  BY <1>4 DEF MgrInv, Ready, CurrentPending
<1>6. ConnectingArmed(n) /\ OthersArmed(n)
  BY <1>4 DEF MgrInv, ConnectingArmed, OthersArmed
<1> QED BY <1>3, <1>4, <1>5, <1>6 DEF MgrInv

LEMMA BackOffInv ==
  ASSUME NEW m, MgrInv(m)
  PROVE  /\ MgrInv(BackOff(m))
         /\ BackOff(m).pendingRuns = m.pendingRuns
         /\ BackOff(m).connections = m.connections
<1> DEFINE t == m.timers \cup {"transient"}
           n == [m EXCEPT !.backoff = TRUE, !.timers = t]
<1>1. m \in MgrType BY DEF MgrInv
<1>2. t \in SUBSET Timers BY <1>1 DEF MgrType, Timers
<1>3. m.timers \subseteq t /\ "transient" \in t OBVIOUS
<1>4. BackOff(m) = n BY DEF BackOff
<1> HIDE DEF t
<1>5. /\ n \in MgrType
      /\ n.pendingRuns = m.pendingRuns
      /\ n.currentRun = m.currentRun
      /\ n.connections = m.connections
      /\ n.connecting = m.connecting
      /\ n.fd = m.fd
      /\ n.timers = t
  BY <1>1, <1>2 DEF MgrType
<1> HIDE DEF n
<1>6. Ready(n) /\ CurrentPending(n)
  BY <1>5 DEF MgrInv, Ready, CurrentPending
<1>7. ConnectingArmed(n) /\ OthersArmed(n)
  BY <1>3, <1>5 DEF MgrInv, ConnectingArmed, OthersArmed
<1> QED BY <1>4, <1>5, <1>6, <1>7 DEF MgrInv

(* The last lines of clientComplete().                                     *)
LEMMA ClientGoneInv ==
  ASSUME NEW m, MgrInv(m), m.connections > 0, ClientGone(m)
  PROVE  /\ MgrInv(mgr') /\ Busy(mgr')
         /\ mgr'.pendingRuns = m.pendingRuns
         /\ mgr'.connections = m.connections - 1
<1> DEFINE k == m.connections - 1
           n == [m EXCEPT !.connections = k]
<1>1. PICK ok \in {TRUE, ~EnqueueMayFail} : mgr' = StartConnect(n, ok)
  BY DEF ClientGone
<1>2. m \in MgrType /\ m.connections \in Nat BY DEF MgrInv, MgrType
<1>3. k \in Nat /\ k < m.connections BY <1>2
<1> HIDE DEF k
<1>4. /\ n \in MgrType
      /\ n.pendingRuns = m.pendingRuns
      /\ n.currentRun = m.currentRun
      /\ n.connections = k
      /\ n.connecting = m.connecting
      /\ n.backoff = m.backoff
      /\ n.fd = m.fd
      /\ n.timers = m.timers
  BY <1>2, <1>3 DEF MgrType
<1> HIDE DEF n
<1>5. Ready(n) /\ CurrentPending(n)
  BY <1>2, <1>3, <1>4, ConstantsOK DEF MgrInv, Ready, CurrentPending
<1>6. ConnectingArmed(n) /\ OthersArmed(n)
  BY <1>4 DEF MgrInv, ConnectingArmed, OthersArmed
<1>7. MgrInv(n) BY <1>4, <1>5, <1>6 DEF MgrInv
<1>8. ok \in BOOLEAN BY ConstantsOK
<1>9. /\ MgrInv(mgr')
      /\ mgr'.pendingRuns = m.pendingRuns
      /\ mgr'.connections = k
  BY <1>1, <1>4, <1>7, <1>8, StartConnectInv
<1>10. Busy(mgr')
  BY <1>1, <1>4, StartConnectBusy
<1> QED BY <1>9, <1>10 DEF k

LEMMA ClientCompleteInv ==
  ASSUME IInv, NEW c \in Containers, NEW disp \in Dispositions,
         ClientComplete(c, disp)
  PROVE  IInv'
<1>1. /\ c \in clients /\ clients' = clients \ {c}
      /\ UNCHANGED <<storage, scan>>
  BY DEF ClientComplete
<1>2. /\ IsFiniteSet(clients')
      /\ Cardinality(clients') = mgr.connections - 1
  BY <1>1, FS_RemoveElement DEF IInv, Counted
<1>3. mgr.connections > 0
  <2>1. mgr.connections \in Nat /\ mgr.connections # 0
    BY <1>1, FS_EmptySet DEF IInv, Counted, TypeOK, MgrType
  <2> QED BY <2>1
<1> DEFINE d == DequeueRun(mgr, c)
<1>4. /\ MgrInv(d)
      /\ d.pendingRuns = mgr.pendingRuns
      /\ d.connections = mgr.connections
  BY DequeueRunInv DEF IInv
<1> HIDE DEF d
<1>5. c.run \in Runs BY DEF Containers
<1>6. ASSUME NEW k \in Markers, Disposed(c, k) PROVE IInv'
  <2>1. ClientGone(d)
    BY <1>6 DEF Disposed, d
  <2>2. /\ MgrInv(mgr') /\ Busy(mgr')
        /\ mgr'.pendingRuns = mgr.pendingRuns
        /\ mgr'.connections = mgr.connections - 1
    BY <1>3, <1>4, <2>1, ClientGoneInv
  <2>3. /\ disk' \in [Runs -> SUBSET Markers]
        /\ unmarked' \in SUBSET Runs
        /\ \A r \in Runs : disk[r] # {} => disk'[r] # {}
        /\ unmarked \subseteq unmarked'
        /\ disk'[c.run] # {} \/ c.run \in unmarked'
    BY <1>5, <1>6 DEF Disposed, Mark, IInv, TypeOK
  <2>4. TypeOK'
    BY <1>1, <1>6, <2>2, <2>3 DEF Disposed, IInv, TypeOK, MgrInv, storage, scan
  <2>5. Apart' /\ Counted'
    BY <1>1, <1>2, <2>2 DEF IInv, Apart, Counted, scan
  <2>6. NoRunLost'
    <3>1. lastRun' = lastRun /\ lastRun \in 0..MaxRun
      BY <1>1 DEF storage, IInv, TypeOK
    <3>2. \A r \in 1..lastRun : r \in Runs
      BY <3>1, ConstantsOK DEF Runs
    <3>3. \A r : HasRun(clients, r) => HasRun(clients', r) \/ r = c.run
      BY <1>1 DEF HasRun
    <3> QED
      BY <1>1, <2>2, <2>3, <3>1, <3>2, <3>3 DEF IInv, NoRunLost, scan
  <2> QED BY <2>2, <2>4, <2>5, <2>6 DEF IInv
<1>7. ASSUME Requeued(c), requeueCount' \in [Containers -> Nat] PROVE IInv'
  <2> DEFINE a == c \in active
             b == BackOff(d)
             q == QueueRun(b, c, a)
  <2>0. a \in BOOLEAN OBVIOUS
  <2>1. ClientGone(q)
    BY <1>7 DEF Requeued, d
  <2> HIDE DEF a
  <2>2. /\ MgrInv(b) /\ b \in MgrType
        /\ b.pendingRuns = mgr.pendingRuns
        /\ b.connections = mgr.connections
    BY <1>4, BackOffInv DEF MgrInv
  <2> HIDE DEF b
  <2>3. /\ MgrInv(q)
        /\ mgr.pendingRuns \subseteq q.pendingRuns
        /\ q.pendingRuns \subseteq mgr.pendingRuns \cup {c}
        /\ HasRun(q.pendingRuns, c.run)
        /\ q.connections = mgr.connections
    BY <2>0, <2>2, QueueRunType, QueueRunInv
  <2> HIDE DEF q
  <2>4. /\ MgrInv(mgr') /\ Busy(mgr')
        /\ mgr'.pendingRuns = q.pendingRuns
        /\ mgr'.connections = mgr.connections - 1
    BY <1>3, <2>1, <2>3, ClientGoneInv
  <2>5. TypeOK'
    BY <1>1, <1>7, <2>4 DEF Requeued, IInv, TypeOK, MgrInv, storage, scan
  <2>6. Apart' /\ Counted'
    BY <1>1, <1>2, <2>3, <2>4 DEF IInv, Apart, Counted, scan
  <2>7. NoRunLost'
    <3>1. \A r : HasRun(clients, r) => HasRun(clients', r) \/ r = c.run
      BY <1>1 DEF HasRun
    <3>2. \A r : HasRun(mgr.pendingRuns, r) => HasRun(mgr'.pendingRuns, r)
      BY <2>3, <2>4 DEF HasRun
    <3> QED
      BY <1>1, <1>7, <2>3, <2>4, <3>1, <3>2
         DEF Requeued, IInv, NoRunLost, storage, scan
  <2> QED BY <2>4, <2>5, <2>6, <2>7 DEF IInv
<1>8. \/ \E k \in Markers : Disposed(c, k)
      \/ Requeued(c) /\ requeueCount' \in [Containers -> Nat]
  <2>1. requeueCount \in [Containers -> Nat]
    BY DEF IInv, TypeOK
  <2>2. [requeueCount EXCEPT ![c] = @ + 1] \in [Containers -> Nat]
    BY <2>1
  <2> QED BY <2>1, <2>2 DEF ClientComplete, Markers
<1> QED BY <1>6, <1>7, <1>8

(* Restart, scan and rescan.                                               *)

LEMMA RestartInv == ASSUME IInv, Restart PROVE IInv'
<1>1. mgr' = InitMgr(mgr.maxConnections) /\ mgr.maxConnections \in 0..MaxLimit
  BY DEF Restart, IInv, TypeOK, MgrType
<1>2. MgrInv(mgr') /\ Busy(mgr')
  BY <1>1, InitMgrInv
<1>3. mgr'.pendingRuns = {} /\ mgr'.connections = 0
  BY <1>1 DEF InitMgr
<1>4. TypeOK'
  <2>1. 1..lastRun \subseteq Runs
    BY ConstantsOK DEF IInv, TypeOK, Runs
  <2> QED BY <1>2, <2>1, ConstantsOK DEF Restart, IInv, TypeOK, MgrInv
<1>5. Apart' /\ NoRunLost'
  BY <1>3 DEF Restart, Apart, NoRunLost
<1>6. Counted'
  BY <1>3, FS_EmptySet DEF Restart, Counted
<1> QED BY <1>2, <1>4, <1>5, <1>6 DEF IInv

LEMMA ScanRunInv ==
  ASSUME IInv, NEW r \in Runs, ScanRun(r) PROVE IInv'
<1>0. /\ mgr' = mgr /\ unscanned' = unscanned \ {r}
      /\ UNCHANGED <<clients, storage, scanning>>
  BY DEF ScanRun
<1>1. /\ disk' \in [Runs -> SUBSET Markers]
      /\ unmarked' \in SUBSET Runs
      /\ \A s \in Runs : disk[s] # {} => disk'[s] # {}
      /\ unmarked \subseteq unmarked'
      /\ scanned \subseteq scanned'
      /\ scanned' \subseteq Containers
      /\ scanned' \cap (mgr.pendingRuns \cup clients) = {}
      /\ requeueCount' \in [Containers -> Nat]
      /\ disk'[r] # {} \/ r \in unmarked' \/ HasRun(scanned', r)
  <2>1. CASE disk[r] # {} /\ UNCHANGED <<scanned, disk, unmarked, requeueCount>>
    BY <2>1 DEF IInv, TypeOK, Apart
  <2>2. CASE Mark(r, "manual") /\ UNCHANGED <<scanned, requeueCount>>
    BY <2>2 DEF IInv, TypeOK, Apart, Mark, Markers
  <2>3. CASE /\ \E c \in FreshContainers(r) :
                   /\ scanned' = scanned \cup {c}
                   /\ requeueCount' = [requeueCount EXCEPT ![c] = 0]
             /\ UNCHANGED <<disk, unmarked>>
    BY <2>3 DEF IInv, TypeOK, Apart, FreshContainers, Live, HasRun
  <2> QED BY <2>1, <2>2, <2>3 DEF ScanRun
<1>2. TypeOK'
  BY <1>0, <1>1 DEF IInv, TypeOK, storage
<1>3. Apart' /\ Counted' /\ MgrInv(mgr') /\ Busy(mgr')
  BY <1>0, <1>1 DEF IInv, Apart, Counted
<1>4. NoRunLost'
  <2>1. lastRun' = lastRun /\ \A s \in 1..lastRun : s \in Runs
    BY <1>0, ConstantsOK DEF storage, IInv, TypeOK, Runs
  <2>2. \A s : HasRun(scanned, s) => HasRun(scanned', s)
    BY <1>1 DEF HasRun
  <2> QED BY <1>0, <1>1, <2>1, <2>2 DEF IInv, NoRunLost
<1> QED BY <1>2, <1>3, <1>4 DEF IInv

LEMMA ScanCompletedInv == ASSUME IInv, ScanCompleted PROVE IInv'
<1> DEFINE new == {c \in scanned : ~HasRun(mgr.pendingRuns, c.run)}
           p == mgr.pendingRuns \cup new
           m == [mgr EXCEPT !.pendingRuns = p]
<1>0. /\ mgr \in MgrType /\ mgr.pendingRuns \in SUBSET Containers
      /\ scanned \in SUBSET Containers
  BY DEF IInv, TypeOK, MgrType
<1>1. /\ p \in SUBSET Containers
      /\ mgr.pendingRuns \subseteq p
      /\ p \subseteq mgr.pendingRuns \cup scanned
      /\ \A r : HasRun(mgr.pendingRuns, r) => HasRun(p, r)
      /\ \A r : HasRun(scanned, r) => HasRun(p, r)
  BY <1>0 DEF HasRun
<1>2. \/ scanned = {} /\ mgr' = mgr
      \/ \E ok \in {TRUE, ~EnqueueMayFail} : mgr' = StartConnect(m, ok)
  BY DEF ScanCompleted
<1> HIDE DEF p, new
<1>3. /\ m \in MgrType
      /\ m.pendingRuns = p
      /\ m.currentRun = mgr.currentRun
      /\ m.connections = mgr.connections
      /\ m.connecting = mgr.connecting
      /\ m.backoff = mgr.backoff
      /\ m.fd = mgr.fd
      /\ m.timers = mgr.timers
  BY <1>0, <1>1 DEF MgrType
<1> HIDE DEF m
<1>4. Ready(m) /\ CurrentPending(m)
  BY <1>1, <1>3 DEF IInv, MgrInv, Ready, CurrentPending
<1>5. ConnectingArmed(m) /\ OthersArmed(m)
  BY <1>3 DEF IInv, MgrInv, ConnectingArmed, OthersArmed
<1>6. MgrInv(m) BY <1>3, <1>4, <1>5 DEF MgrInv
<1>7. /\ MgrInv(mgr') /\ Busy(mgr')
      /\ mgr'.pendingRuns = p
      /\ mgr'.connections = mgr.connections
  <2>1. CASE scanned = {} /\ mgr' = mgr
    <3>1. p = mgr.pendingRuns BY <1>1, <2>1
    <3> QED BY <2>1, <3>1 DEF IInv
  <2>2. ASSUME NEW ok \in {TRUE, ~EnqueueMayFail}, mgr' = StartConnect(m, ok)
        PROVE  /\ MgrInv(mgr') /\ Busy(mgr')
               /\ mgr'.pendingRuns = p
               /\ mgr'.connections = mgr.connections
    <3>1. ok \in BOOLEAN BY ConstantsOK
    <3>2. Busy(mgr') BY <1>3, <2>2, StartConnectBusy
    <3> QED BY <1>3, <1>6, <2>2, <3>1, <3>2, StartConnectInv
  <2> QED BY <1>2, <2>1, <2>2
<1>8. TypeOK'
  BY <1>7 DEF ScanCompleted, IInv, TypeOK, MgrInv, storage
<1>9. Apart' /\ Counted'
  BY <1>1, <1>7 DEF ScanCompleted, IInv, Apart, Counted
<1>10. NoRunLost'
  BY <1>1, <1>7 DEF ScanCompleted, IInv, NoRunLost, storage, HasRun
<1> QED BY <1>7, <1>8, <1>9, <1>10 DEF IInv

LEMMA RescanInv == ASSUME IInv, NEW r \in Runs, Rescan(r) PROVE IInv'
<1> DEFINE marks == [disk EXCEPT ![r] = {}]
<1>0. /\ UNCHANGED <<clients, storage, scan>>
      /\ marks \in [Runs -> SUBSET Markers]
      /\ \A s \in Runs : s # r => marks[s] = disk[s]
  BY DEF Rescan, IInv, TypeOK
<1>1. lastRun' = lastRun /\ \A s \in 1..lastRun : s \in Runs
  BY <1>0, ConstantsOK DEF storage, IInv, TypeOK, Runs
<1>2. CASE /\ \/ disk' = [marks EXCEPT ![r] = {"manual"}] /\ UNCHANGED unmarked
              \/ disk' = marks /\ unmarked' = unmarked \cup {r}
           /\ UNCHANGED <<mgr, requeueCount>>
  <2>1. /\ disk' \in [Runs -> SUBSET Markers]
        /\ unmarked' \in SUBSET Runs
        /\ \A s \in Runs : s # r => disk'[s] = disk[s]
        /\ unmarked \subseteq unmarked'
        /\ disk'[r] # {} \/ r \in unmarked'
    BY <1>0, <1>2 DEF IInv, TypeOK, Markers
  <2>2. TypeOK'
    BY <1>0, <1>2, <2>1 DEF IInv, TypeOK, storage, scan
  <2>3. Apart' /\ Counted' /\ MgrInv(mgr') /\ Busy(mgr')
    BY <1>0, <1>2 DEF IInv, Apart, Counted, scan
  <2>4. NoRunLost'
    BY <1>0, <1>1, <1>2, <2>1 DEF IInv, NoRunLost, scan
  <2> QED BY <2>2, <2>3, <2>4 DEF IInv
<1>3. CASE /\ disk' = marks
           /\ \E c \in FreshContainers(r), ok \in {TRUE, ~EnqueueMayFail} :
                /\ mgr' = StartConnect(QueueRun(mgr, c, FALSE), ok)
                /\ requeueCount' = [requeueCount EXCEPT ![c] = 0]
           /\ UNCHANGED unmarked
  <2>1. PICK c \in FreshContainers(r), ok \in {TRUE, ~EnqueueMayFail} :
          /\ mgr' = StartConnect(QueueRun(mgr, c, FALSE), ok)
          /\ requeueCount' = [requeueCount EXCEPT ![c] = 0]
    BY <1>3
  <2>2. /\ c \in Containers /\ c.run = r
        /\ c \notin clients /\ c \notin scanned /\ c \notin mgr.pendingRuns
    BY DEF FreshContainers, Live
  <2> DEFINE q == QueueRun(mgr, c, FALSE)
  <2>3. /\ MgrInv(q) /\ q \in MgrType
        /\ mgr.pendingRuns \subseteq q.pendingRuns
        /\ q.pendingRuns \subseteq mgr.pendingRuns \cup {c}
        /\ HasRun(q.pendingRuns, c.run)
        /\ q.connections = mgr.connections
    BY <2>2, QueueRunType, QueueRunInv DEF IInv, MgrInv
  <2> HIDE DEF q
  <2>4. ok \in BOOLEAN BY ConstantsOK
  <2>5. /\ MgrInv(mgr')
        /\ mgr'.pendingRuns = q.pendingRuns
        /\ mgr'.connections = q.connections
    BY <2>1, <2>3, <2>4, StartConnectInv DEF q
  <2>6. Busy(mgr')
    BY <2>1, <2>3, StartConnectBusy DEF q
  <2>7. requeueCount' \in [Containers -> Nat]
    BY <2>1, <2>2 DEF IInv, TypeOK
  <2>8. TypeOK'
    BY <1>0, <1>3, <2>5, <2>7 DEF IInv, TypeOK, MgrInv, storage, scan
  <2>9. Apart' /\ Counted'
    BY <1>0, <2>2, <2>3, <2>5 DEF IInv, Apart, Counted, scan
  <2>10. NoRunLost'
    <3>1. \A s : HasRun(mgr.pendingRuns, s) => HasRun(mgr'.pendingRuns, s)
      BY <2>3, <2>5 DEF HasRun
    <3> QED
      BY <1>0, <1>1, <1>3, <2>2, <2>3, <2>5, <3>1 DEF IInv, NoRunLost, scan
  <2> QED BY <2>5, <2>6, <2>8, <2>9, <2>10 DEF IInv
<1> QED BY <1>2, <1>3 DEF Rescan

-----------------------------------------------------------------------------
(* The invariant is inductive.                                             *)
LEMMA NextIInv == IInv /\ [Next]_vars => IInv'
<1> SUFFICES ASSUME IInv, [Next]_vars PROVE IInv' OBVIOUS
<1>1. CASE StartRun BY <1>1, StartRunInv
<1>2. CASE StopRun \/ \E c \in Containers : ExpireContainer(c)
  BY <1>2, ContainersEndInv
<1>3. CASE LookupComplete BY <1>3, LookupCompleteInv
<1>4. CASE ConnectComplete BY <1>4, ConnectCompleteInv
<1>5. CASE ConnectTimeout BY <1>5, ConnectTimeoutInv
<1>6. CASE ReconnectTimeout BY <1>6, RetryTimeoutInv DEF ReconnectTimeout
<1>7. CASE LookupTimeout BY <1>7, RetryTimeoutInv DEF LookupTimeout
<1>8. CASE TransientTimeout BY <1>8, TransientTimeoutInv
<1>9. CASE \E n \in Limits : MaxConnectionsChanged(n)
  BY <1>9, MaxConnectionsChangedInv
<1>10. CASE \E c \in Containers, d \in Dispositions : ClientComplete(c, d)
  BY <1>10, ClientCompleteInv
<1>11. CASE Restart BY <1>11, RestartInv
<1>12. CASE ScanCompleted BY <1>12, ScanCompletedInv
<1>13. CASE \E r \in Runs : ScanRun(r) BY <1>13, ScanRunInv
<1>14. CASE \E r \in Runs : Rescan(r) BY <1>14, RescanInv
<1>15. CASE UNCHANGED vars
  BY <1>15 DEF vars, IInv, TypeOK, MgrInv, Ready, CurrentPending,
     ConnectingArmed, OthersArmed, Busy, Apart, Counted, NoRunLost
<1> QED
  BY <1>1, <1>2, <1>3, <1>4, <1>5, <1>6, <1>7, <1>8, <1>9, <1>10, <1>11,
     <1>12, <1>13, <1>14, <1>15 DEF Next, Recording, Manager, Recovery

(* The inductive invariant holds in every state of every behaviour.        *)
THEOREM IInvHolds == Spec => []IInv
BY InitIInv, NextIInv, PTL DEF Spec

(* Every variable keeps its type.                                          *)
THEOREM TypeCorrect == Spec => []TypeOK
<1>1. IInv => TypeOK BY DEF IInv
<1> QED BY <1>1, IInvHolds, PTL

(* connectComplete() always finds a run to send: nextRun() neither throws  *)
(* nor dereferences the end of the map, although the queue was checked     *)
(* when the lookup was started and other handlers ran in between.          *)
THEOREM NextRunAlwaysDefined == Spec => []NextRunDefined
<1>1. IInv => NextRunDefined
  BY DEF IInv, MgrInv, Ready, CurrentPending, NextRunDefined
<1> QED BY <1>1, IInvHolds, PTL

(* The number of clients never exceeds the largest configured limit.       *)
THEOREM ConnectionsAlwaysBounded == Spec => []ConnectionsBounded
<1>1. IInv => ConnectionsBounded
  BY DEF IInv, MgrInv, Ready, Counted, ConnectionsBounded
<1> QED BY <1>1, IInvHolds, PTL

(* Every wait of the manager is ended by an armed timer.                   *)
THEOREM RetryAlwaysArmed == Spec => []RetryArmed
<1>1. IInv => RetryArmed
  BY DEF IInv, MgrInv, ConnectingArmed, OthersArmed, RetryArmed
<1> QED BY <1>1, IInvHolds, PTL

(* The manager is never idle while it could connect for a pending run.     *)
THEOREM AlwaysBusy == Spec => []NeverIdle
<1>1. IInv => NeverIdle
  BY DEF IInv, Busy, NeverIdle
<1> QED BY <1>1, IInvHolds, PTL

(* No run is ever lost between recording and translation.                  *)
THEOREM RunsNeverLost == Spec => []NoRunLost
<1>1. IInv => NoRunLost BY DEF IInv
<1> QED BY <1>1, IInvHolds, PTL
-----------------------------------------------------------------------------
(* One container for a run.                                                *)

Objects == mgr.pendingRuns \cup clients \cup scanned

(* A run the operator never scans again has one object among those queued, *)
(* sent and found by the start-up scan, and none before the scan gets to   *)
(* its directory.                                                          *)
Distinct ==
  /\ mgr.sendingRuns \subseteq clients
  /\ unscanned \subseteq 1..lastRun
  /\ \A c \in Objects : c.run <= lastRun
  /\ \A c \in Objects : c.run \in unscanned => c.run \in Rescanned
  /\ \A c, d \in Objects : c.run = d.run /\ c.run \notin Rescanned => c = d

(* A step that brings no new object.                                       *)
LEMMA NothingNew ==
  ASSUME Distinct,
         mgr'.pendingRuns \cup clients' \cup scanned' \subseteq Objects,
         mgr'.sendingRuns \subseteq clients',
         unscanned' \subseteq unscanned,
         lastRun' = lastRun
  PROVE  Distinct'
<1>1. Objects' \subseteq Objects BY DEF Objects
<1> QED BY <1>1 DEF Distinct

(* A step that brings an object of a run that has none.                    *)
LEMMA OneMore ==
  ASSUME Distinct, NEW c,
         mgr'.pendingRuns \cup clients' \cup scanned' \subseteq Objects \cup {c},
         c.run \in Rescanned \/ \A d \in Objects : d.run # c.run,
         c.run \in Rescanned \/ c.run \notin unscanned',
         c.run \in Nat, c.run <= lastRun',
         mgr'.sendingRuns \subseteq clients',
         unscanned' \subseteq unscanned,
         lastRun \in Nat, lastRun' \in {lastRun, lastRun + 1},
         \A d \in Objects : d.run \in Nat
  PROVE  Distinct'
<1>1. Objects' \subseteq Objects \cup {c} BY DEF Objects
<1>2. \A d \in Objects' : d.run <= lastRun'
  BY <1>1 DEF Distinct
<1>3. unscanned' \subseteq 1..lastRun'
  BY DEF Distinct
<1>4. \A d \in Objects' : d.run \in unscanned' => d.run \in Rescanned
  BY <1>1 DEF Distinct
<1>5. \A d, e \in Objects' : d.run = e.run /\ d.run \notin Rescanned => d = e
  BY <1>1 DEF Distinct
<1> QED BY <1>2, <1>3, <1>4, <1>5 DEF Distinct

(* What the operators do to the map of the runs being sent.                *)

LEMMA QueueSending ==
  ASSUME NEW m, m \in MgrType, NEW c \in Containers, NEW a \in BOOLEAN
  PROVE  QueueRun(m, c, a).sendingRuns = m.sendingRuns
BY DEF QueueRun, MgrType

LEMMA StartConnectQueue ==
  ASSUME NEW m, m \in MgrType, NEW ok \in BOOLEAN
  PROVE  /\ StartConnect(m, ok).pendingRuns = m.pendingRuns
         /\ StartConnect(m, ok).sendingRuns = m.sendingRuns
BY DEF StartConnect, MgrType

LEMMA DequeueSending ==
  ASSUME NEW m, m \in MgrType, NEW c
  PROVE  DequeueRun(m, c).sendingRuns = {d \in m.sendingRuns : d.run # c.run}
BY DEF DequeueRun, MgrType

LEMMA TakeSending ==
  ASSUME NEW m, m \in MgrType
  PROVE  TakeNextRun(m).sendingRuns =
           {d \in m.sendingRuns : d.run # NextRun(m).run} \cup {NextRun(m)}
<1> DEFINE s == {d \in m.sendingRuns : d.run # NextRun(m).run} \cup {NextRun(m)}
           p == m.pendingRuns \ {NextRun(m)}
           o == IF m.currentRun # 0 THEN m.sendNext
                ELSE IF NextOrder(m) = "OLDEST" THEN "NEWEST" ELSE "OLDEST"
           n == [m EXCEPT !.pendingRuns = p, !.sendingRuns = s,
                          !.currentRun = 0, !.sendNext = o]
<1>1. TakeNextRun(m) = n BY DEF TakeNextRun
<1> HIDE DEF s, p, o
<1>2. n.sendingRuns = s BY DEF MgrType
<1> QED BY <1>1, <1>2 DEF s

LEMMA ConnectSucceedsDistinct ==
  ASSUME Distinct, NEW m, m \in MgrType, CurrentPending(m), m.pendingRuns # {},
         m.pendingRuns = mgr.pendingRuns, m.sendingRuns = mgr.sendingRuns,
         ConnectSucceeds(m),
         UNCHANGED <<storage, scan>>
  PROVE  Distinct'
<1> DEFINE c == NextRun(m)
           t == TakeNextRun(m)
<1>1. c \in m.pendingRuns /\ c \in Containers
  BY NextRunPending DEF MgrType
<1>2. /\ t \in MgrType
      /\ t.pendingRuns = m.pendingRuns \ {c}
      /\ t.sendingRuns = {d \in m.sendingRuns : d.run # c.run} \cup {c}
  BY TakeNextRunType, TakeSending
<1>3. CASE /\ \E ok \in {TRUE, ~EnqueueMayFail} : mgr' = Connected(m, ok)
           /\ clients' = clients \cup {c}
  <2> DEFINE n == [t EXCEPT !.connections = @ + 1,
                            !.timers = @ \ {"connect"},
                            !.fd = FALSE,
                            !.connecting = FALSE]
  <2>1. PICK ok \in {TRUE, ~EnqueueMayFail} : mgr' = StartConnect(n, ok)
    BY <1>3 DEF Connected
  <2>2. ok \in BOOLEAN BY ConstantsOK
  <2> HIDE DEF t, c
  <2>3. n \in MgrType
    <3> DEFINE k == t.connections + 1
               w == t.timers \ {"connect"}
    <3>1. k \in Nat /\ w \in SUBSET Timers BY <1>2 DEF MgrType
    <3> HIDE DEF k, w
    <3>2. [t EXCEPT !.connections = k, !.timers = w,
                    !.fd = FALSE, !.connecting = FALSE] \in MgrType
      BY <1>2, <3>1 DEF MgrType
    <3> QED BY <3>2 DEF k, w
  <2>4. n.pendingRuns = t.pendingRuns /\ n.sendingRuns = t.sendingRuns
    BY <1>2 DEF MgrType
  <2> HIDE DEF n
  <2>5. mgr'.pendingRuns = n.pendingRuns /\ mgr'.sendingRuns = n.sendingRuns
    BY <2>1, <2>2, <2>3, StartConnectQueue
  <2>6. mgr'.pendingRuns \cup clients' \cup scanned' \subseteq Objects
    BY <1>1, <1>2, <1>3, <2>4, <2>5 DEF Objects, scan
  <2>7. mgr'.sendingRuns \subseteq clients'
    BY <1>2, <1>3, <2>4, <2>5 DEF Distinct
  <2> QED BY <2>6, <2>7, NothingNew DEF storage, scan
<1>4. CASE /\ mgr' = ClientThrows(m, c, c \in active)
           /\ UNCHANGED clients
  <2> DEFINE a == c \in active
             q == QueueRun(t, c, a)
             d == DequeueRun(q, c)
  <2>0. a \in BOOLEAN OBVIOUS
  <2>1. mgr' = ConnectFailed(d) BY <1>4 DEF ClientThrows
  <2> HIDE DEF a, t, c
  <2>2. /\ q \in MgrType
        /\ q.pendingRuns \subseteq t.pendingRuns \cup {c}
        /\ q.sendingRuns = t.sendingRuns
    BY <1>1, <1>2, <2>0, QueueRunType, QueueSending
  <2> HIDE DEF q
  <2>3. /\ d \in MgrType
        /\ d.pendingRuns = q.pendingRuns
        /\ d.sendingRuns = {e \in q.sendingRuns : e.run # c.run}
    BY <2>2 DEF DequeueRun, MgrType
  <2> HIDE DEF d
  <2>4. mgr'.pendingRuns = d.pendingRuns /\ mgr'.sendingRuns = d.sendingRuns
    BY <2>1, <2>3 DEF ConnectFailed, MgrType
  <2>5. mgr'.sendingRuns \subseteq clients'
    BY <1>2, <1>4, <2>2, <2>3, <2>4 DEF Distinct
  <2>6. mgr'.pendingRuns \cup clients' \cup scanned' \subseteq Objects
    BY <1>1, <1>2, <1>4, <2>2, <2>3, <2>4 DEF Objects, scan
  <2> QED BY <2>5, <2>6, NothingNew DEF storage, scan
<1> QED BY <1>3, <1>4 DEF ConnectSucceeds

(* The timers, the PV, a failed or pending connect and the end of a        *)
(* container leave the queue and the clients as they are.                  *)
Quiet(m) ==
  /\ m.pendingRuns = mgr.pendingRuns
  /\ m.sendingRuns = mgr.sendingRuns

LEMMA QuietDistinct ==
  ASSUME Distinct, Quiet(mgr'),
         UNCHANGED <<clients, lastRun, scan>>
  PROVE  Distinct'
BY NothingNew DEF Distinct, Quiet, Objects, scan

LEMMA LookupCompleteDistinct == ASSUME IInv, Distinct, LookupComplete PROVE Distinct'
<1> DEFINE t == mgr.timers \ {"lookup"}
           k == mgr.lookups - 1
           m == [mgr EXCEPT !.lookups = k, !.timers = t]
<1>0. mgr \in MgrType /\ mgr.lookups > 0
  BY DEF IInv, TypeOK, LookupComplete
<1>1. k \in 0..MaxLookups /\ t \in SUBSET Timers
  BY <1>0, ConstantsOK DEF MgrType
<1>2. /\ \/ mgr' = m /\ UNCHANGED clients
         \/ mgr' = ConnectFailed(m) /\ UNCHANGED clients
         \/ mgr' = ConnectPending(m) /\ UNCHANGED clients
         \/ m.connecting /\ ConnectSucceeds(m)
      /\ UNCHANGED <<storage, scan>>
  BY DEF LookupComplete, k, t
<1> HIDE DEF t, k
<1>3. /\ m \in MgrType /\ Quiet(m)
      /\ m.currentRun = mgr.currentRun
      /\ m.connecting = mgr.connecting
  BY <1>0, <1>1 DEF MgrType, Quiet
<1> HIDE DEF m
<1>4. CASE mgr' = m /\ UNCHANGED clients
  BY <1>2, <1>3, <1>4, QuietDistinct DEF storage
<1>5. CASE (mgr' = ConnectFailed(m) \/ mgr' = ConnectPending(m)) /\ UNCHANGED clients
  <2>1. Quiet(mgr')
    BY <1>3, <1>5 DEF ConnectFailed, ConnectPending, Quiet, MgrType
  <2> QED BY <1>2, <1>5, <2>1, QuietDistinct DEF storage
<1>6. CASE m.connecting /\ ConnectSucceeds(m)
  <2>1. CurrentPending(m) /\ m.pendingRuns # {}
    BY <1>3, <1>6 DEF IInv, MgrInv, Ready, CurrentPending, Quiet
  <2> QED BY <1>2, <1>3, <1>6, <2>1, ConnectSucceedsDistinct DEF Quiet
<1> QED BY <1>2, <1>4, <1>5, <1>6

LEMMA ConnectCompleteDistinct == ASSUME IInv, Distinct, ConnectComplete PROVE Distinct'
<1>1. mgr \in MgrType /\ CurrentPending(mgr) /\ mgr.pendingRuns # {}
  BY DEF IInv, MgrInv, Ready, ConnectComplete
<1>2. CASE mgr' = ConnectFailed(mgr) /\ UNCHANGED clients
  <2>1. Quiet(mgr') BY <1>1, <1>2 DEF ConnectFailed, Quiet, MgrType
  <2> QED BY <1>2, <2>1, QuietDistinct DEF ConnectComplete, storage
<1>3. CASE ConnectSucceeds(mgr)
  BY <1>1, <1>3, ConnectSucceedsDistinct DEF ConnectComplete
<1> QED BY <1>2, <1>3 DEF ConnectComplete

(* The handlers that end in startConnect() with the queue as it was.       *)
LEMMA TimeoutsDistinct ==
  ASSUME IInv, Distinct,
         \/ ConnectTimeout \/ ReconnectTimeout \/ LookupTimeout \/ TransientTimeout
         \/ \E n \in Limits : MaxConnectionsChanged(n)
  PROVE  Distinct'
<1> DEFINE Changed(w, x, y, z) ==
             [mgr EXCEPT !.timers = w, !.connecting = x, !.backoff = y,
                         !.maxConnections = z]
<1>0. mgr \in MgrType BY DEF IInv, TypeOK
<1>1. ASSUME NEW w \in SUBSET Timers, NEW x \in BOOLEAN, NEW y \in BOOLEAN,
             NEW z \in 0..MaxLimit
      PROVE  Changed(w, x, y, z) \in MgrType /\ Quiet(Changed(w, x, y, z))
  BY <1>0 DEF MgrType, Quiet
<1>2. /\ mgr.timers \in SUBSET Timers /\ mgr.connecting \in BOOLEAN
      /\ mgr.backoff \in BOOLEAN /\ mgr.maxConnections \in 0..MaxLimit
  BY <1>0 DEF MgrType
<1>3. \A x : mgr.timers \ {x} \in SUBSET Timers BY <1>2
<1>4. ASSUME NEW m \in MgrType, Quiet(m), NEW ok \in {TRUE, ~EnqueueMayFail},
             mgr' = StartConnect(m, ok)
      PROVE  Quiet(mgr')
  <2>1. ok \in BOOLEAN BY ConstantsOK
  <2> QED BY <1>4, <2>1, StartConnectQueue DEF Quiet
<1>5. CASE ConnectTimeout
  <2> DEFINE m == [mgr EXCEPT !.timers = @ \ {"connect"}]
  <2>1. m = Changed(mgr.timers \ {"connect"}, mgr.connecting, mgr.backoff,
                    mgr.maxConnections)
    BY <1>0 DEF MgrType
  <2>2. m \in MgrType /\ Quiet(m) BY <1>1, <1>2, <1>3, <2>1
  <2>3. mgr' = ConnectFailed(m) BY <1>5 DEF ConnectTimeout, Fire
  <2> HIDE DEF m
  <2>4. Quiet(mgr') BY <2>2, <2>3 DEF ConnectFailed, Quiet, MgrType
  <2> QED BY <1>5, <2>4, QuietDistinct DEF ConnectTimeout, storage
<1>6. ASSUME NEW x \in {"lookup", "reconnect"}, RetryTimeout(x) PROVE Distinct'
  <2> DEFINE m == [Fire(x) EXCEPT !.connecting = FALSE]
  <2>1. m = Changed(mgr.timers \ {x}, FALSE, mgr.backoff, mgr.maxConnections)
    BY <1>0 DEF MgrType, Fire
  <2>2. m \in MgrType /\ Quiet(m) BY <1>1, <1>2, <1>3, <2>1
  <2>3. Quiet(mgr') BY <1>4, <1>6, <2>2 DEF RetryTimeout
  <2> QED BY <1>6, <2>3, QuietDistinct DEF RetryTimeout, storage
<1>7. CASE TransientTimeout
  <2> DEFINE m == [Fire("transient") EXCEPT !.backoff = FALSE]
  <2>1. m = Changed(mgr.timers \ {"transient"}, mgr.connecting, FALSE,
                    mgr.maxConnections)
    BY <1>0 DEF MgrType, Fire
  <2>2. m \in MgrType /\ Quiet(m) BY <1>1, <1>2, <1>3, <2>1
  <2>3. Quiet(mgr') BY <1>4, <1>7, <2>2 DEF TransientTimeout
  <2> QED BY <1>7, <2>3, QuietDistinct DEF TransientTimeout, storage
<1>8. ASSUME NEW n \in Limits, MaxConnectionsChanged(n) PROVE Distinct'
  <2> DEFINE m == [mgr EXCEPT !.maxConnections = n]
  <2>1. m = Changed(mgr.timers, mgr.connecting, mgr.backoff, n)
    BY <1>0 DEF MgrType
  <2>2. m \in MgrType /\ Quiet(m) BY <1>1, <1>2, <2>1, ConstantsOK
  <2>3. Quiet(mgr') BY <1>4, <1>8, <2>2 DEF MaxConnectionsChanged
  <2> QED BY <1>8, <2>3, QuietDistinct DEF MaxConnectionsChanged, storage
<1> QED BY <1>5, <1>6, <1>7, <1>8 DEF ReconnectTimeout, LookupTimeout

LEMMA ClientCompleteDistinct ==
  ASSUME IInv, Distinct, NEW c \in Containers, NEW disp \in Dispositions,
         ClientComplete(c, disp)
  PROVE  Distinct'
<1> DEFINE d == DequeueRun(mgr, c)
           b == BackOff(d)
           q == QueueRun(b, c, c \in active)
<1>1. /\ c \in clients /\ clients' = clients \ {c}
      /\ UNCHANGED <<storage, scan>>
  BY DEF ClientComplete
<1>2. mgr.connections \in Nat /\ mgr.connections # 0
  BY <1>1, FS_EmptySet DEF IInv, Counted, TypeOK, MgrType
<1>3. MgrInv(d) /\ d.pendingRuns = mgr.pendingRuns /\ d.connections = mgr.connections
  BY DequeueRunInv DEF IInv
<1>4. d.sendingRuns = {e \in mgr.sendingRuns : e.run # c.run}
  BY DequeueSending DEF IInv, TypeOK
<1>5. d.sendingRuns \subseteq clients \ {c}
  BY <1>4 DEF Distinct
<1> HIDE DEF d
<1>6. ASSUME NEW m, m \in MgrType, ClientGone(m), m.connections = mgr.connections,
             m.pendingRuns \subseteq mgr.pendingRuns \cup {c},
             m.sendingRuns = d.sendingRuns
      PROVE  Distinct'
  <2> DEFINE k == m.connections - 1
             n == [m EXCEPT !.connections = k]
  <2>1. PICK ok \in {TRUE, ~EnqueueMayFail} : mgr' = StartConnect(n, ok)
    BY <1>6 DEF ClientGone
  <2>0. ok \in BOOLEAN BY ConstantsOK
  <2>1a. k \in Nat BY <1>2, <1>6
  <2>2. ok \in BOOLEAN /\ k \in Nat BY <2>0, <2>1a
  <2> HIDE DEF k
  <2>3. n \in MgrType /\ n.pendingRuns = m.pendingRuns /\ n.sendingRuns = m.sendingRuns
    BY <1>6, <2>2 DEF MgrType
  <2> HIDE DEF n
  <2>4. mgr'.pendingRuns = m.pendingRuns /\ mgr'.sendingRuns = m.sendingRuns
    BY <2>1, <2>2, <2>3, StartConnectQueue
  <2>5. mgr'.pendingRuns \cup clients' \cup scanned' \subseteq Objects
    BY <1>1, <1>6, <2>4 DEF Objects, scan
  <2>6. mgr'.sendingRuns \subseteq clients'
    BY <1>1, <1>5, <1>6, <2>4
  <2> QED BY <1>1, <2>5, <2>6, NothingNew DEF storage, scan
<1>7. d \in MgrType BY <1>3 DEF MgrInv
<1>8. ASSUME NEW k, Disposed(c, k) PROVE Distinct'
  BY <1>3, <1>6, <1>7, <1>8 DEF Disposed, d
<1>9. ASSUME Requeued(c) PROVE Distinct'
  <2> DEFINE a == c \in active
  <2>0. a \in BOOLEAN OBVIOUS
  <2>1. /\ b \in MgrType
        /\ b.pendingRuns = d.pendingRuns
        /\ b.connections = d.connections
    BY <1>3, BackOffInv DEF MgrInv
  <2>2. b.sendingRuns = d.sendingRuns
    BY <1>7 DEF BackOff, MgrType
  <2> HIDE DEF b, a
  <2>3. /\ q \in MgrType
        /\ q.pendingRuns \subseteq mgr.pendingRuns \cup {c}
        /\ q.connections = mgr.connections
        /\ q.sendingRuns = d.sendingRuns
    <3>1. q = QueueRun(b, c, a) BY DEF a
    <3> QED BY <1>3, <2>0, <2>1, <2>2, <3>1, QueueRunType, QueueSending
  <2>4. ClientGone(q) BY <1>9 DEF Requeued, b, d
  <2> QED BY <1>6, <2>3, <2>4
<1> QED BY <1>8, <1>9 DEF ClientComplete

(* A new object is queued.                                                 *)
LEMMA FreshQueued ==
  ASSUME IInv, NEW r, NEW c \in FreshContainers(r), NEW a \in BOOLEAN,
         NEW ok \in {TRUE, ~EnqueueMayFail},
         mgr' = StartConnect(QueueRun(mgr, c, a), ok)
  PROVE  /\ mgr'.pendingRuns \subseteq mgr.pendingRuns \cup {c}
         /\ mgr'.sendingRuns = mgr.sendingRuns
         /\ c \in Containers /\ c.run = r
<1>1. c \in Containers /\ c.run = r BY DEF FreshContainers
<1>2. mgr \in MgrType /\ ok \in BOOLEAN BY ConstantsOK DEF IInv, TypeOK
<1> QED BY <1>1, <1>2, QueueRunType, QueueSending, StartConnectQueue

LEMMA NextDistinct == IInv /\ Distinct /\ [Next]_vars => Distinct'
<1> SUFFICES ASSUME IInv, Distinct, [Next]_vars PROVE Distinct' OBVIOUS
<1>0. /\ lastRun \in Nat /\ Objects \subseteq Containers
      /\ \A c \in Containers : c.run \in Nat
      /\ mgr \in MgrType
  BY ConstantsOK DEF IInv, TypeOK, MgrType, Objects, Containers, Runs
<1>1. CASE StartRun
  <2>1. PICK c \in FreshContainers(lastRun + 1), ok \in {TRUE, ~EnqueueMayFail} :
          mgr' = StartConnect(QueueRun(mgr, c, TRUE), ok)
    BY <1>1 DEF StartRun
  <2>2. lastRun' = lastRun + 1 /\ UNCHANGED <<clients, scan>>
    BY <1>1 DEF StartRun
  <2>3. /\ mgr'.pendingRuns \subseteq mgr.pendingRuns \cup {c}
        /\ mgr'.sendingRuns = mgr.sendingRuns
        /\ c \in Containers /\ c.run = lastRun + 1
    BY <2>1, FreshQueued
  <2>4. mgr'.pendingRuns \cup clients' \cup scanned' \subseteq Objects \cup {c}
    BY <2>2, <2>3 DEF Objects, scan
  <2>5. \A d \in Objects : d.run # c.run
    BY <1>0, <2>3 DEF Distinct
  <2>6. c.run \notin unscanned' /\ unscanned' = unscanned
    BY <1>0, <2>2, <2>3 DEF Distinct, scan
  <2>7. mgr'.sendingRuns \subseteq clients'
    BY <2>2, <2>3 DEF Distinct
  <2> QED BY <1>0, <2>2, <2>3, <2>4, <2>5, <2>6, <2>7, OneMore
<1>2. CASE StopRun \/ \E c \in Containers : ExpireContainer(c)
  <2>1. /\ mgr' = ContainerEnded(mgr) \/ mgr' = mgr
        /\ UNCHANGED <<clients, lastRun, scan>>
    BY <1>2 DEF StopRun, ExpireContainer
  <2>2. Quiet(mgr') BY <1>0, <2>1 DEF ContainerEnded, Quiet, MgrType
  <2> QED BY <2>1, <2>2, QuietDistinct
<1>3. CASE LookupComplete BY <1>3, LookupCompleteDistinct
<1>4. CASE ConnectComplete BY <1>4, ConnectCompleteDistinct
<1>5. CASE \/ ConnectTimeout \/ ReconnectTimeout \/ LookupTimeout \/ TransientTimeout
           \/ \E n \in Limits : MaxConnectionsChanged(n)
  BY <1>5, TimeoutsDistinct
<1>6. CASE \E c \in Containers, d \in Dispositions : ClientComplete(c, d)
  BY <1>6, ClientCompleteDistinct
<1>7. CASE Restart
  <2>1. /\ mgr'.pendingRuns = {} /\ mgr'.sendingRuns = {} /\ clients' = {}
        /\ unscanned' = 1..lastRun /\ scanned' = {} /\ lastRun' = lastRun
    BY <1>7 DEF Restart, InitMgr
  <2> QED BY <2>1 DEF Distinct, Objects
<1>8. CASE ScanCompleted
  <2> DEFINE p == mgr.pendingRuns \cup {c \in scanned : ~HasRun(mgr.pendingRuns, c.run)}
             m == [mgr EXCEPT !.pendingRuns = p]
  <2>1. /\ mgr' = mgr \/ \E ok \in {TRUE, ~EnqueueMayFail} : mgr' = StartConnect(m, ok)
        /\ scanned' = {} /\ UNCHANGED <<clients, lastRun, unscanned>>
    BY <1>0, <1>8 DEF ScanCompleted, storage, MgrType
  <2>2. p \subseteq mgr.pendingRuns \cup scanned /\ p \in SUBSET Containers
    BY <1>0 DEF Objects
  <2> HIDE DEF p
  <2>3. m \in MgrType /\ m.pendingRuns = p /\ m.sendingRuns = mgr.sendingRuns
    BY <1>0, <2>2 DEF MgrType
  <2> HIDE DEF m
  <2>4. ASSUME NEW ok \in {TRUE, ~EnqueueMayFail}, mgr' = StartConnect(m, ok)
        PROVE  mgr'.pendingRuns = p /\ mgr'.sendingRuns = mgr.sendingRuns
    <3>1. ok \in BOOLEAN BY ConstantsOK
    <3> QED BY <2>3, <2>4, <3>1, StartConnectQueue
  <2>5. /\ mgr'.pendingRuns \subseteq mgr.pendingRuns \cup scanned
        /\ mgr'.sendingRuns = mgr.sendingRuns
    BY <2>1, <2>2, <2>4
  <2>6. mgr'.pendingRuns \cup clients' \cup scanned' \subseteq Objects
    BY <2>1, <2>5 DEF Objects
  <2>7. mgr'.sendingRuns \subseteq clients'
    BY <2>1, <2>5 DEF Distinct
  <2> QED BY <2>1, <2>6, <2>7, NothingNew
<1>9. ASSUME NEW r \in Runs, ScanRun(r) PROVE Distinct'
  <2>1. /\ r \in unscanned /\ unscanned' = unscanned \ {r}
        /\ UNCHANGED <<mgr, clients, lastRun>>
    BY <1>9 DEF ScanRun, storage
  <2>2. CASE UNCHANGED scanned
    BY <2>1, <2>2, NothingNew DEF Distinct, Objects
  <2>3. CASE \E c \in FreshContainers(r) : scanned' = scanned \cup {c}
    <3>1. PICK c \in FreshContainers(r) : scanned' = scanned \cup {c} BY <2>3
    <3>2. c \in Containers /\ c.run = r BY DEF FreshContainers
    <3>3. mgr'.pendingRuns \cup clients' \cup scanned' \subseteq Objects \cup {c}
      BY <2>1, <3>1 DEF Objects
    <3>4. c.run \in Rescanned \/ \A d \in Objects : d.run # c.run
      BY <2>1, <3>2 DEF Distinct
    <3>5. c.run \notin unscanned' /\ c.run <= lastRun'
      BY <1>0, <2>1, <3>2 DEF Distinct
    <3>6. mgr'.sendingRuns \subseteq clients'
      BY <2>1 DEF Distinct
    <3> QED BY <1>0, <2>1, <3>2, <3>3, <3>4, <3>5, <3>6, OneMore
  <2> QED BY <1>9, <2>2, <2>3 DEF ScanRun
<1>10. ASSUME NEW r \in Runs, Rescan(r) PROVE Distinct'
  <2>1. r \in Rescanned /\ r \in 1..lastRun /\ UNCHANGED <<clients, lastRun, scan>>
    BY <1>10 DEF Rescan, storage
  <2>2. CASE UNCHANGED mgr
    BY <2>1, <2>2, QuietDistinct DEF Quiet
  <2>3. CASE \E c \in FreshContainers(r), ok \in {TRUE, ~EnqueueMayFail} :
               mgr' = StartConnect(QueueRun(mgr, c, FALSE), ok)
    <3>1. PICK c \in FreshContainers(r), ok \in {TRUE, ~EnqueueMayFail} :
            mgr' = StartConnect(QueueRun(mgr, c, FALSE), ok)
      BY <2>3
    <3>2. /\ mgr'.pendingRuns \subseteq mgr.pendingRuns \cup {c}
          /\ mgr'.sendingRuns = mgr.sendingRuns
          /\ c \in Containers /\ c.run = r
      BY <3>1, FreshQueued
    <3>3. mgr'.pendingRuns \cup clients' \cup scanned' \subseteq Objects \cup {c}
      BY <2>1, <3>2 DEF Objects, scan
    <3>4. mgr'.sendingRuns \subseteq clients' /\ unscanned' = unscanned
      BY <2>1, <3>2 DEF Distinct, scan
    <3> QED BY <1>0, <2>1, <3>2, <3>3, <3>4, OneMore
  <2> QED BY <1>10, <2>2, <2>3 DEF Rescan
<1>11. CASE UNCHANGED vars
  BY <1>11 DEF vars, Distinct, Objects
<1> QED
  BY <1>1, <1>2, <1>3, <1>4, <1>5, <1>6, <1>7, <1>8, <1>9, <1>10, <1>11
     DEF Next, Recording, Manager, Recovery

LEMMA InitDistinct == Init => Distinct
BY DEF Init, InitMgr, Distinct, Objects

(* No container is queued while it is sent, and a run has one container    *)
(* queued or sent, through failed clients, restarts and scans, as long as  *)
(* the operator does not ask for it to be scanned again.                   *)
THEOREM RunsSentByOneClient == Spec => []OneClientPerRun
<1>1. IInv /\ Distinct => OneClientPerRun
  BY DEF IInv, Apart, Distinct, Objects, OneClientPerRun
<1> QED BY <1>1, InitDistinct, NextDistinct, IInvHolds, PTL DEF Spec
=============================================================================
