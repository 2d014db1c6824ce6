----------------------------- MODULE DasMonitor -----------------------------
(***************************************************************************)
(* The DAS monitor: the thread that reads the stream, the thread that      *)
(* gathers metrics and the thread that writes process variables to the     *)
(* database, of dasmon/server/StreamMonitor.cpp; the analyzer of           *)
(* StreamAnalyzer.cpp, which hears of everything first; and the router of  *)
(* ComBusRouter.cpp, which passes it on to the clients of the message bus. *)
(*                                                                         *)
(* A handler of a packet is one step, for it holds the monitor's m_mutex,  *)
(* and each call of the analyzer the analyzer's.  beginProlog() and        *)
(* endProlog() hold neither, and the metrics thread calls the analyzer     *)
(* with the second alone: the beginning and the end of their batches are   *)
(* several steps.  The end of the connection is two, because the listeners *)
(* are told before the descriptor is closed; the router repeats the state  *)
(* in three.                                                               *)
(***************************************************************************)
EXTENDS StreamAnalyzer

Events == {"run", "file", "describe", "value", "info", "mark", "metrics", "loss", "collect", "dbfail",
           "bus", "emit", "proc", "define", "restart"}

CONSTANTS
    Defs,           \* definitions of rules and signals that a client may set
    FirstDefs,      \* those of the configuration file
    Values,         \* values of process variables
    Procs,          \* other processes that report their status
    Budgets         \* how often each kind of event may happen: a set of records

ASSUME BudgetAssumption == Budgets \subseteq [Events -> Nat]

VARIABLES
    run,        \* the SMS: the run it records, or 0
    geo,        \* the detector: the SMS's pixel map and the one in use, whether
                \* m_pixbankmap_processed, whether the map of this file was sent
                \* and whether this connection has seen the run start; history:
                \* an event was held against a map of the past
    link,       \* the connection: "down", "up", "synced" after the first
                \* run status, or "losing" while it is given up
    mon,        \* the monitor's m_in_prolog, m_recording, m_run_num, m_paused,
                \* m_scanning, m_info_rcv
    pvs,        \* m_pvs: variable -> [val, st, fresh, upd]
    ana,        \* the analyzer
    met,        \* the metrics thread: "idle", or what it does next
    call,       \* where the two threads are in beginBatch() and endBatch(): the
                \* mask each has read, and the facts it has to look at
    db,         \* the database thread: send_all, the writes to do, and the rows
                \* of the table
    rtr,        \* the router: its table of variables, m_sms_connected,
                \* m_combus_connected, m_resend_state, m_procs
    pc,         \* where the router's main loop is
    seen,       \* what a client of the bus knows: connection, run, signals
    hist,       \* history: rules were replaced, signals were repeated during a
                \* batch, a request to resend fell into a resend, a write
                \* failed, a batch began or facts changed while another
                \* thread told of the end of one
    left        \* bounds: events of each kind that are left

vars == <<run, geo, link, mon, pvs, ana, met, call, db, rtr, pc, seen, hist, left>>

Up == link \in {"up", "synced", "losing"}   \* m_fd_in > -1

------------------------------------------------------------------------------
(* The bus.  A broadcast is lost when the router is not connected. *)

(* Signals go to the bus as the analyzer asserts and retracts them. *)
Broadcast(S, A) ==
    IF rtr.bus
    THEN [S EXCEPT !.sigs = (@ \ (ana.eng.told \ A.eng.told)) \cup (A.eng.told \ ana.eng.told)]
    ELSE S

Tell(A, S) ==
    /\ ana' = A
    /\ seen' = Broadcast(S, A)

(* A call of the analyzer waits until the metrics thread has left it.       *)
Threads == {"stream", "metrics"}
NoCall == [at |-> "none", mask |-> {}, facts |-> {}]
At(t, where) == call[t].at = where
Telling(t) == At(t, "telling")

Hear(A, S) == At("metrics", "none") /\ Tell(A, S)

(* The reader of the stream does one thing at a time. *)
Ready == At("stream", "none")

(* Facts change while the end of a batch is told. *)
Race(h) == [h EXCEPT !.raced = @ \/ (Telling("stream") /\ ana'.eng.facts # ana.eng.facts)]

SeenConn(up) == IF rtr.bus THEN [seen EXCEPT !.conn = up] ELSE seen
SeenRun(n) == IF rtr.bus THEN [seen EXCEPT !.run = n] ELSE seen

(* Setting m_resend_state. *)
Request(R) == [R EXCEPT !.resend = TRUE]

RouterConnection(R, up) ==
    [IF up /\ ~R.conn THEN Request(R) ELSE R EXCEPT !.conn = up]

(* The request would be lost if the loop is about to clear the flag. *)
MayForget == hist' = [hist EXCEPT !.forgot = @ \/ pc # "idle"]

RouterPut(R, p, v) == [R EXCEPT !.pvs = Put(@, p, v)]
RouterDrop(R, P) == [R EXCEPT !.pvs = [q \in DOMAIN @ \ P |-> @[q]]]
RouterClear(R) == RouterDrop(R, DOMAIN R.pvs)

------------------------------------------------------------------------------
(* The state of the monitor. *)

NewMon == [prolog |-> FALSE, rec |-> FALSE, run |-> 0, paused |-> FALSE, scan |-> FALSE, info |-> {}]

(* A variable that has just been described has no value yet. *)
NewPv == [val |-> 0, st |-> "OK", fresh |-> TRUE, upd |-> FALSE]

(* clearPVs(): every listener is told of every variable. *)
PvsCleared(A) == ForEach(pvUndefined, A, DOMAIN pvs)

clearPVs(A, S) ==
    /\ pvs' = <<>>
    /\ Hear(PvsCleared(A), S)

Spend(what) == left[what] > 0 /\ left' = [left EXCEPT ![what] = @ - 1]

------------------------------------------------------------------------------
(* The connection. *)

Connect ==
    /\ Ready /\ link = "down"
    /\ link' = "up"
    /\ Hear(connectionStatus(ana, TRUE), SeenConn(TRUE))
    /\ rtr' = RouterConnection(rtr, TRUE)
    /\ MayForget
    /\ UNCHANGED <<run, geo, mon, pvs, met, call, db, pc, left>>

(* handleLostConnection() tells the listeners first ... *)
LoseConnection ==
    /\ Ready /\ link \in {"up", "synced"}
    /\ Spend("loss")
    /\ link' = "losing"
    /\ Hear(connectionStatus(ana, FALSE), SeenConn(FALSE))
    /\ rtr' = RouterConnection(rtr, FALSE)
    /\ UNCHANGED <<run, geo, mon, pvs, met, call, db, pc, hist>>

(* ... and then closes the descriptor and forgets the statistics, the       *)
(* information on the run and the variables.  m_recording, m_run_num,       *)
(* m_in_prolog, m_paused and m_scanning are kept.                           *)
CloseConnection ==
    /\ Ready /\ link = "losing"
    /\ link' = "down"
    /\ mon' = [mon EXCEPT !.info = {}]
    /\ geo' = [geo EXCEPT !.ours = FALSE]
    /\ clearPVs(ana, seen)
    /\ rtr' = RouterDrop(rtr, DOMAIN pvs)
    /\ UNCHANGED <<run, met, call, db, pc, hist, left>>

------------------------------------------------------------------------------
(* Packets. *)

StartRun(A, n) ==
    /\ mon' = [mon EXCEPT !.prolog = TRUE, !.rec = TRUE, !.run = n, !.info = {}]
    /\ geo' = [geo EXCEPT !.done = FALSE, !.sent = FALSE, !.ours = TRUE]
    /\ clearPVs(runStatus(A, TRUE, n), SeenRun(n))
    /\ rtr' = RouterClear(rtr)

StopRun(A) ==
    LET A1 == runStatus(A, FALSE, 0)
    IN  /\ mon' = [mon EXCEPT !.prolog = TRUE, !.rec = FALSE, !.run = 0, !.info = {}, !.scan = FALSE]
        /\ geo' = [geo EXCEPT !.sent = FALSE]
        /\ clearPVs(IF mon.scan THEN scanStatus(A1, FALSE) ELSE A1, SeenRun(0))
        /\ rtr' = RouterClear(rtr)

(* The monitor believes it knows the run already. *)
SameRun(A) ==
    /\ mon' = [mon EXCEPT !.prolog = TRUE]
    /\ geo' = [geo EXCEPT !.sent = FALSE]
    /\ Hear(A, seen)
    /\ UNCHANGED <<pvs, rtr>>

(* beginBatch() of a thread: the engine's batch begins when the mask is     *)
(* empty; then the mask is read, and written in another step.               *)
Begin(t, where) ==
    LET A == Entered(ana)
    IN  /\ Tell(A, seen)
        /\ call' = [call EXCEPT ![t] = [at |-> where, mask |-> ana.mask, facts |-> {}]]
        /\ hist' = [hist EXCEPT !.raced = @ \/ (A # ana /\ \E u \in Threads : Telling(u))]

(* What was read before the call of the engine may be used again, or not.   *)
MaskWith(t, m) ==
    \E mask \in {call[t].mask, ana.mask} : ana' = Masked(ana, mask \cup {m})

(* A run status other than the begin or the end of a file starts a prologue, *)
(* and then looks at the run.                                               *)
beginProlog == Ready /\ Begin("stream", "entered")

(* The run status with which a file begins: RUN_BOF and then STATE or NO_RUN. *)
RxState ==
    /\ \/ link = "up" /\ UNCHANGED left
       \/ link = "synced" /\ Spend("file")
    /\ beginProlog
    /\ link' = "synced"
    /\ UNCHANGED <<run, geo, mon, pvs, met, db, rtr, pc>>

RxNewRun ==
    /\ link = "synced" /\ run = 0
    /\ Spend("run")
    /\ run' = left["run"]
    /\ beginProlog
    /\ UNCHANGED <<geo, link, mon, pvs, met, db, rtr, pc>>

RxEndRun ==
    /\ link = "synced" /\ run # 0
    /\ run' = 0
    /\ beginProlog
    /\ UNCHANGED <<geo, link, mon, pvs, met, db, rtr, pc, left>>

PrologBegun ==
    /\ At("stream", "entered")
    /\ MaskWith("stream", "RUN")
    /\ call' = [call EXCEPT !["stream"].at = "status"]
    /\ UNCHANGED <<run, geo, link, mon, pvs, met, db, rtr, pc, seen, hist, left>>

RunChanged ==
    /\ At("stream", "status")
    /\ IF run # 0 /\ ~mon.rec THEN StartRun(ana, run)
       ELSE IF run = 0 /\ mon.rec THEN StopRun(ana)
       ELSE SameRun(ana)
    /\ call' = [call EXCEPT !["stream"] = NoCall]
    /\ UNCHANGED <<run, link, met, db, pc, hist, left>>

(* A run starts or ends while the monitor is not connected. *)
RunUnseen ==
    /\ link = "down"
    /\ \/ run = 0 /\ Spend("run") /\ run' = left["run"]
       \/ run # 0 /\ run' = 0 /\ UNCHANGED left
    /\ UNCHANGED <<geo, link, mon, pvs, ana, met, call, db, rtr, pc, seen, hist>>

Receiving(what) == Ready /\ link = "synced" /\ Spend(what)

(* The SMS is started again with another detector. *)
SmsRestart ==
    /\ link = "down" /\ run = 0
    /\ Spend("restart")
    /\ geo' = [geo EXCEPT !.sms = @ + 1]
    /\ UNCHANGED <<run, link, mon, pvs, ana, met, call, db, rtr, pc, seen, hist>>

(* The pixel map, in either form of the packet, is read once per run. *)
RxPixelMap ==
    /\ Ready /\ link = "synced" /\ mon.prolog /\ ~geo.sent
    /\ geo' = [geo EXCEPT !.sent = TRUE, !.done = TRUE, !.used = IF geo.done THEN @ ELSE geo.sms]
    /\ UNCHANGED <<run, link, mon, pvs, ana, met, call, db, rtr, pc, seen, hist, left>>

(* endBatch() of a thread, with the bit it takes out: the mask is read, and *)
(* written; who has emptied it ends the engine's batch, and tells of every  *)
(* fact that has come or gone, one after the other.                         *)
Leave(t, m) ==
    call' = [call EXCEPT ![t] = IF ana.mask = {} THEN NoCall
                                ELSE [at |-> "leaving", mask |-> ana.mask \ {m}, facts |-> {}]]

MaskLeft(t) ==
    /\ At(t, "leaving")
    /\ ana' = Masked(ana, call[t].mask)
    /\ call' = [call EXCEPT ![t] = IF call[t].mask = {} THEN [@ EXCEPT !.at = "ending"] ELSE NoCall]
    /\ UNCHANGED <<run, geo, link, mon, pvs, met, db, rtr, pc, seen, hist, left>>

BatchLeft(t) ==
    /\ At(t, "ending")
    /\ ana' = Exited(ana)
    /\ call' = [call EXCEPT ![t] = IF ana.eng.batch
                                   THEN [@ EXCEPT !.at = "telling", !.facts = Signalled(ana)]
                                   ELSE NoCall]
    /\ UNCHANGED <<run, geo, link, mon, pvs, met, db, rtr, pc, seen, hist, left>>

Notice(t) ==
    /\ Telling(t)
    /\ \E f \in NextNotice(ana, call[t].facts) :
          /\ Tell(Noticed(ana, f), seen)
          /\ call' = [call EXCEPT ![t].facts = @ \ {f}]
    /\ UNCHANGED <<run, geo, link, mon, pvs, met, db, rtr, pc, hist, left>>

BatchEnded(t) ==
    /\ Telling(t) /\ call[t].facts = {}
    /\ ana' = Finished(ana)
    /\ call' = [call EXCEPT ![t] = NoCall]
    /\ UNCHANGED <<run, geo, link, mon, pvs, met, db, rtr, pc, seen, hist, left>>

(* Events, with or without states, end the prolog.  Each is held against    *)
(* the map.                                                                 *)
endProlog == Ready /\ Leave("stream", "RUN")

RxEvents ==
    /\ link = "synced"
    /\ geo.sent
    /\ mon.prolog
    /\ mon' = [mon EXCEPT !.prolog = FALSE]
    /\ geo' = [geo EXCEPT !.bad = @ \/ (geo.ours /\ geo.used # geo.sms)]
    /\ endProlog
    /\ UNCHANGED <<run, link, pvs, ana, met, db, rtr, pc, seen, hist, left>>

(* The description of the run and of the beam line: both are told once both *)
(* are there.                                                               *)
RxInfo(k) ==
    /\ Receiving("info")
    /\ mon' = [mon EXCEPT !.info = @ \cup {k}]
    /\ Hear(IF mon'.info = {"run", "beam"} THEN runInfo(beamInfo(ana)) ELSE ana, seen)
    /\ UNCHANGED <<run, geo, link, pvs, met, call, db, rtr, pc, hist>>

(* A device descriptor.  A variable that is known is first undefined. *)
RxDescriptor(P) ==
    /\ Receiving("describe")
    /\ pvs' = [q \in DOMAIN pvs \cup P |-> IF q \in P THEN NewPv ELSE pvs[q]]
    /\ Hear(ForEach(pvUndefined, ana, P \cap DOMAIN pvs), seen)
    /\ rtr' = RouterDrop(rtr, P \cap DOMAIN pvs)
    /\ UNCHANGED <<run, geo, link, mon, met, call, db, pc, hist>>

(* pvValueUpdate(): at most one update a second, unless the status changes; *)
(* and only a value that differs.                                           *)
pvValueUpdate(p, v, st) ==
    LET P == pvs[p]
    IN  /\ P.fresh \/ P.st # st \/ P.val # v
        /\ pvs' = [pvs EXCEPT ![p] = [val |-> v, st |-> st, fresh |-> FALSE, upd |-> TRUE]]
        /\ Hear(pvValue(ana, p, v, st), seen)
        /\ rtr' = RouterPut(rtr, p, v)

RxValue(p, v, st) ==
    /\ Receiving("value")
    /\ p \in DOMAIN pvs
    /\ pvValueUpdate(p, v, st)
    /\ UNCHANGED <<run, geo, link, mon, met, call, db, pc, hist>>

RxPause(b) ==
    /\ Receiving("mark")
    /\ mon' = [mon EXCEPT !.paused = b]
    /\ Hear(pauseStatus(ana, b), seen)
    /\ UNCHANGED <<run, geo, link, pvs, met, call, db, rtr, pc, hist>>

RxScan(b) ==
    /\ Receiving("mark")
    /\ mon' = [mon EXCEPT !.scan = b]
    /\ Hear(scanStatus(ana, b), seen)
    /\ UNCHANGED <<run, geo, link, pvs, met, call, db, rtr, pc, hist>>

------------------------------------------------------------------------------
(* The metrics thread. *)

TakeMetrics ==
    /\ Up /\ met = "idle"
    /\ Spend("metrics")
    /\ met' = "beam"
    /\ UNCHANGED <<run, geo, link, mon, pvs, ana, call, db, rtr, pc, seen, hist>>

(* beamMetrics(): the mutex of the analyzer is held until the batch has     *)
(* ended.                                                                   *)
BeamMetrics ==
    /\ met = "beam" /\ At("metrics", "none")
    /\ Begin("metrics", "entered")
    /\ met' = "run"
    /\ UNCHANGED <<run, geo, link, mon, pvs, db, rtr, pc, left>>

MetricsBegun ==
    /\ At("metrics", "entered")
    /\ MaskWith("metrics", "METRICS")
    /\ call' = [call EXCEPT !["metrics"].at = "facts"]
    /\ UNCHANGED <<run, geo, link, mon, pvs, met, db, rtr, pc, seen, hist, left>>

AssertMetrics ==
    /\ At("metrics", "facts")
    /\ \E rate \in Values : Tell(beamMetrics(ana, rate), seen)
    /\ Leave("metrics", "METRICS")
    /\ hist' = Race(hist)
    /\ UNCHANGED <<run, geo, link, mon, pvs, met, db, rtr, pc, left>>

(* m_recording is read again, without the lock. *)
RunMetrics ==
    /\ met = "run" /\ At("metrics", "none")
    /\ met' = "idle"
    /\ IF mon.rec THEN \E n \in Values : Hear(runMetrics(ana, n), seen) ELSE UNCHANGED <<ana, seen>>
    /\ hist' = Race(hist)
    /\ UNCHANGED <<run, geo, link, mon, pvs, call, db, rtr, pc, left>>

------------------------------------------------------------------------------
(* The database thread. *)

Changed == {p \in DOMAIN pvs : pvs[p].upd \/ db.all}

(* The variables that have changed are taken, under the lock.  The thread   *)
(* connects to the database before, if it has to.                           *)
DbCollect ==
    /\ db.todo = <<>>
    /\ Changed # {}
    /\ Spend("collect")
    /\ db' = [db EXCEPT !.todo = [p \in Changed |-> pvs[p].val]]
    /\ pvs' = [p \in DOMAIN pvs |-> [pvs[p] EXCEPT !.upd = @ /\ p \notin Changed]]
    /\ UNCHANGED <<run, geo, link, mon, ana, met, call, rtr, pc, seen, hist>>

Remaining(p) == [q \in DOMAIN db.todo \ {p} |-> db.todo[q]]

DbWrite(p) ==
    /\ p \in DOMAIN db.todo
    /\ db' = [db EXCEPT !.todo = Remaining(p), !.all = FALSE, !.rows = Put(@, p, db.todo[p])]
    /\ UNCHANGED <<run, geo, link, mon, pvs, ana, met, call, rtr, pc, seen, hist, left>>

(* After a write that fails the others are tried; then the thread connects  *)
(* again.                                                                   *)
DbFail(p) ==
    /\ p \in DOMAIN db.todo
    /\ Spend("dbfail")
    /\ db' = [db EXCEPT !.todo = Remaining(p)]
    /\ hist' = [hist EXCEPT !.unwritten = TRUE]
    /\ UNCHANGED <<run, geo, link, mon, pvs, ana, met, call, rtr, pc, seen>>

------------------------------------------------------------------------------
(* The router. *)

BusLost ==
    /\ rtr.bus
    /\ Spend("bus")
    /\ rtr' = [rtr EXCEPT !.bus = FALSE]
    /\ UNCHANGED <<run, geo, link, mon, pvs, ana, met, call, db, pc, seen, hist>>

(* A mutant: nothing is repeated. *)
BusBackSilent ==
    /\ ~rtr.bus
    /\ rtr' = [rtr EXCEPT !.bus = TRUE]
    /\ UNCHANGED <<run, geo, link, mon, pvs, ana, met, call, db, pc, seen, hist, left>>

BusBack ==
    /\ ~rtr.bus
    /\ rtr' = [Request(rtr) EXCEPT !.bus = TRUE]
    /\ MayForget
    /\ UNCHANGED <<run, geo, link, mon, pvs, ana, met, call, db, pc, seen, left>>

(* A client asks for the state. *)
EmitState ==
    /\ rtr.bus /\ ~rtr.resend
    /\ Spend("emit")
    /\ rtr' = Request(rtr)
    /\ MayForget
    /\ UNCHANGED <<run, geo, link, mon, pvs, ana, met, call, db, pc, seen>>

(* resendState() of the monitor, for the router alone. *)
ResendState ==
    /\ pc = "idle" /\ rtr.resend
    /\ pc' = "monitor"
    /\ IF Up
       THEN /\ rtr' = RouterClear(RouterConnection(rtr, TRUE))
            /\ seen' = IF rtr.bus THEN [seen EXCEPT !.conn = TRUE, !.run = mon.run] ELSE seen
            /\ hist' = [hist EXCEPT !.forgot = @ \/ ~rtr.conn]
       ELSE /\ rtr' = RouterConnection(rtr, FALSE)
            /\ seen' = SeenConn(FALSE)
            /\ UNCHANGED hist
    /\ UNCHANGED <<run, geo, link, mon, pvs, ana, met, call, db, left>>

ResendSignals ==
    /\ pc = "monitor" /\ At("metrics", "none")
    /\ pc' = "analyzer"
    /\ ana' = resendSignals(ana)
    /\ seen' = IF rtr.bus THEN [seen EXCEPT !.sigs = @ \cup NamesOn(getAsserted(ana.eng), ana.eng.sigs)]
               ELSE seen
    /\ hist' = [hist EXCEPT !.early = @ \/ ana.eng.batch]
    /\ UNCHANGED <<run, geo, link, mon, pvs, met, call, db, rtr, left>>

ResendDone ==
    /\ pc = "analyzer"
    /\ pc' = "idle"
    /\ rtr' = [rtr EXCEPT !.resend = FALSE]
    /\ UNCHANGED <<run, geo, link, mon, pvs, ana, met, call, db, seen, hist, left>>

(* The status of other processes: reported, late, or given up. *)
ProcFact(c) == <<"PROC", c>>

ProcStatus(c) ==
    /\ rtr.bus
    /\ Spend("proc")
    /\ rtr' = [rtr EXCEPT !.procs = Put(@, c, "OK")]
    /\ Hear(Asserted(ana, ProcFact(c), 1), seen)
    /\ hist' = Race(hist)
    /\ UNCHANGED <<run, geo, link, mon, pvs, met, call, db, pc>>

ProcLate(c) ==
    /\ pc = "idle"
    /\ c \in DOMAIN rtr.procs
    /\ \/ /\ rtr.procs[c] = "OK"
          /\ rtr' = [rtr EXCEPT !.procs[c] = "UNRESPONSIVE"]
          /\ Hear(Asserted(ana, ProcFact(c), 2), seen)
       \/ /\ rtr.procs[c] = "UNRESPONSIVE"
          /\ rtr' = [rtr EXCEPT !.procs = [d \in DOMAIN @ \ {c} |-> @[d]]]
          /\ Hear(Retracted(ana, ProcFact(c)), seen)
    /\ hist' = Race(hist)
    /\ UNCHANGED <<run, geo, link, mon, pvs, met, call, db, pc, left>>

(* A client replaces the rules.  The state of the analyzer is unchanged     *)
(* when they are refused.  The old engine is deleted: not in the model      *)
(* while endProlog() is still telling of what it holds.                     *)
SetDefinitions(defs) ==
    /\ rtr.bus
    /\ Spend("define")
    /\ ~TakesBuiltin(defs) /\ ~Telling("stream")
    /\ IF Accepted(ana, defs)
       THEN /\ Hear(setDefinitions(ana, defs), seen)
            /\ hist' = [hist EXCEPT !.redefined = TRUE]
       ELSE UNCHANGED <<ana, seen, hist>>
    /\ UNCHANGED <<run, geo, link, mon, pvs, met, call, db, rtr, pc>>

------------------------------------------------------------------------------
(* The constructor reads the configuration file before anything is known. *)
FirstAnalyzer ==
    setDefinitions([eng |-> NewEngine(<<>>), rules |-> <<>>, mask |-> {}, err |-> {}, lim |-> {}],
                   FirstDefs)

Init ==
    /\ run = 0
    /\ geo = [sms |-> 1, used |-> 0, done |-> FALSE, sent |-> FALSE, ours |-> FALSE, bad |-> FALSE]
    /\ link = "down"
    /\ mon = NewMon
    /\ pvs = <<>>
    /\ ana = FirstAnalyzer
    /\ met = "idle"
    /\ call = [t \in Threads |-> NoCall]
    /\ db = [all |-> TRUE, todo |-> <<>>, rows |-> <<>>]
    /\ rtr = [pvs |-> <<>>, conn |-> FALSE, bus |-> TRUE, resend |-> FALSE, procs |-> <<>>]
    /\ pc = "idle"
    /\ seen = [conn |-> FALSE, run |-> 0, sigs |-> ana.eng.told]
    /\ hist = [redefined |-> FALSE, early |-> FALSE, forgot |-> FALSE, unwritten |-> FALSE,
               raced |-> FALSE]
    /\ left \in Budgets

Statuses == {"OK", "LIMIT", "ERROR", "DISCONNECTED"}

Next ==
    \/ Connect \/ LoseConnection \/ CloseConnection
    \/ RxState \/ RxNewRun \/ RxEndRun \/ RunUnseen \/ SmsRestart \/ RxPixelMap \/ RxEvents
    \/ \E k \in {"run", "beam"} : RxInfo(k)
    \/ \E P \in SUBSET Pvs \ {{}} : RxDescriptor(P)
    \/ \E p \in Pvs, v \in Values, st \in Statuses : RxValue(p, v, st)
    \/ \E b \in BOOLEAN : RxPause(b) \/ RxScan(b)
    \/ PrologBegun \/ RunChanged
    \/ TakeMetrics \/ BeamMetrics \/ MetricsBegun \/ AssertMetrics \/ RunMetrics
    \/ \E t \in Threads : MaskLeft(t) \/ BatchLeft(t) \/ Notice(t) \/ BatchEnded(t)
    \/ DbCollect
    \/ \E p \in Pvs : DbWrite(p) \/ DbFail(p)
    \/ BusLost \/ BusBack \/ EmitState
    \/ ResendState \/ ResendSignals \/ ResendDone
    \/ \E c \in Procs : ProcStatus(c) \/ ProcLate(c)
    \/ \E defs \in Defs : SetDefinitions(defs)

Spec == Init /\ [][Next]_vars

------------------------------------------------------------------------------
(* Properties. *)

(* Whatever the order in which facts came and went, and however rules read  *)
(* one another's results, the fact of a rule holds exactly when all values  *)
(* it reads are there and its expression is satisfied by the facts as they  *)
(* are now: the copies a rule keeps are never stale (Rule::evaluate()).     *)
RulesSettled ==
    \A D \in ToSet(ana.rules) :
        IsOn(ana.eng, D.id) <=>
            /\ \A f \in D.ins : IsOn(ana.eng, f)
            /\ [f \in D.ins \cup D.asr |->
                   IF f \in D.asr THEN IF IsOn(ana.eng, f) THEN 1 ELSE 0
                   ELSE ana.eng.facts[f].val] \in D.sat

(* The listeners have been told of everything: no batch, and nobody telling. *)
AllTold ==
    /\ ~ana.eng.batch /\ \A t \in Threads : ~Telling(t)
    /\ ~hist.redefined /\ ~hist.early /\ ~hist.raced

(* Outside a batch the listeners hold exactly the signals whose facts are   *)
(* asserted: neither a prolog nor a batch of metrics or the end of the      *)
(* connection loses an assertion or a retraction, although the first two    *)
(* begin and end in any order with no common mutex (beginBatch(),           *)
(* endBatch()).  It fails once a batch has begun, or facts have changed,    *)
(* while another thread was telling of the end of one; the rules have been  *)
(* replaced; or the signals were repeated in the middle of a batch.         *)
SignalsAgree ==
    AllTold => ana.eng.told = NamesOn(getAsserted(ana.eng), ana.eng.sigs)

(* The general error fact holds exactly while some variable is in error,    *)
(* through runs, new descriptors and lost connections; the facts go with    *)
(* the connection and the set of variables is emptied one by one later      *)
(* (processPvStatus()).                                                     *)
GeneralError ==
    link # "losing" => (ana.err # {} <=> IsOn(ana.eng, Bif("PV_ERROR"))) /\ ana.err \subseteq DOMAIN pvs

(* What the router answers to a client that asks for the variables is never *)
(* about a variable that is gone, nor an older value (pvUndefined(),        *)
(* pvValue() and clearPVs()).                                               *)
RouterCurrent ==
    \A p \in DOMAIN rtr.pvs : p \in DOMAIN pvs /\ ~pvs[p].fresh /\ pvs[p].val = rtr.pvs[p]

(* A client of the bus knows the connection, the run and the signals when   *)
(* the router is connected and has nothing to repeat, although broadcasts   *)
(* were lost; unless a request fell into a resend, or a resend into a batch *)
(* (m_resend_state).                                                        *)
ClientsInformed ==
    rtr.bus /\ ~rtr.resend /\ ~hist.forgot =>
        /\ link # "losing" => seen.conn = Up
        /\ link = "synced" => seen.run = mon.run
        /\ AllTold => NamesOn(getAsserted(ana.eng), ana.eng.sigs) \subseteq seen.sigs

(* As long as no write has failed, the table holds the last value of every  *)
(* variable that is not marked as changed (dbThread()).                     *)
TableCurrent ==
    ~hist.unwritten =>
        \A p \in DOMAIN pvs : ~pvs[p].fresh /\ ~pvs[p].upd /\ p \notin DOMAIN db.todo =>
            p \in DOMAIN db.rows /\ db.rows[p] = pvs[p].val

(* From the start of a run that this connection has seen, events are held   *)
(* against the map the SMS uses, although a map is read only once per run   *)
(* and the SMS may have been started again with another detector since the  *)
(* last one (m_pixbankmap_processed).                                       *)
MapOfRun == ~geo.bad

(* Facts and rules follow the variables and one another.                   *)
FactsSettled == RulesSettled /\ GeneralError

(* Everybody outside the analyzer holds what it holds: the router, its      *)
(* clients, the table of variables, and the monitor the map of the run.     *)
ObserversCurrent == RouterCurrent /\ ClientsInformed /\ TableCurrent /\ MapOfRun
=============================================================================
