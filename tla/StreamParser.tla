---------------------------- MODULE StreamParser ----------------------------
(***************************************************************************)
(* The streaming translation client's side of a run: stc/StreamParser.cpp  *)
(* takes the packets of one run from the stream, stc/NxGen.cpp writes them *)
(* to a NeXus file and stc/main.cpp reports the result.                    *)
(*                                                                         *)
(* This module is the packet state machine, the detector banks and beam    *)
(* monitors with their buffers, the pulse times, the working directory and *)
(* the end of the run.  StreamVariables adds the process variables.        *)
(*                                                                         *)
(* An event is one of a bank's or a monitor's count; what has been written *)
(* to the file is kept next to the buffer it came from (fIndex, fEvents,   *)
(* fTimes).                                                                *)
(***************************************************************************)
EXTENDS Integers, Sequences, FiniteSets, SequencesExt, FiniteSetsExt

CONSTANTS
    PixelMaps,       \* the banks a pixel map may hold: a set of sets of bank ids
    BankSets,        \* DetectorBankSetsPkt: a set of [banks, flags, range]
    MonitorFormat,   \* BeamMonitorConfigPkt: monitor -> [format, range]
    Monitors,        \* the monitor ids that occur
    Sections,        \* contents of a banked packet: sequences of <<bank, 0, n>>
    StateSections,   \* of one with states: sequences of <<bank, state, n>>
    MonSections,     \* contents of a monitor packet: sequences of <<monitor, 0, n>>
    Stamps,          \* time stamps of pulses
    EventThresh,     \* m_event_buf_write_thresh
    AncThresh,       \* m_anc_buf_write_thresh
    Strict,          \* m_strict
    MaxPulses,       \* bound on m_pulse_count
    MaxOdd,          \* bound on duplicate, oversize and repeated packets
    NULL             \* a null pointer

UNMAPPED_BANK == -1
ERROR_BANK == -2
NUM_SPECIAL_BANKS == 2

ASSUME ParserAssumption ==
    /\ UNION PixelMaps \subseteq Nat /\ Stamps \subseteq Nat \ {0}
    /\ EventThresh \in Nat \ {0} /\ AncThresh \in Nat \ {0}
    /\ MaxPulses \in Nat /\ MaxOdd \in Nat /\ Strict \in BOOLEAN

VARIABLES
    pst,       \* m_processing_state; "FAILED" once an exception has left it
    recvd,     \* m_pkt_recvd
    info,      \* which of the names the working directory needs are known
    workdir,   \* m_work_dir: "none", or where it came from
    banks,     \* m_banks_arr with m_maxBank and m_numStates; fault: an undefined
               \* place was used; history: shrunk, it has become smaller
    bankSets,  \* m_bank_sets
    mons,      \* m_monitors, with their configuration
    pulse,     \* m_pulse_count, m_pulse_flag and m_pulse_info
    metrics,   \* m_run_metrics
    thrown,    \* the error code of the exception, or "none"
    report,    \* the status sent to the SMS, and the temporary file
    odd,       \* duplicate, oversize and repeated packets so far
    bankLog, monLog   \* history: per pulse, the sections that were delivered

headVars == <<recvd, info, workdir, bankSets>>
eventVars == <<banks, mons, pulse, metrics, bankLog, monLog>>
parserVars == <<pst, headVars, eventVars, thrown, report, odd>>

Ready == workdir # "none"            \* isWorkingDirectoryReady()
Repeat(x, n) == [i \in 1 .. n |-> x]
Total(q) == FoldLeft(LAMBDA a, b : a + b, 0, q)

----------------------------------------------------------------------------
(* The buffers of one bank or monitor: the events not yet written (tof),    *)
(* the index entries not yet written, one per pulse, and the file.         *)

NewStream == [count |-> 0, last |-> 0, tof |-> 0, index |-> <<>>,
              fEvents |-> 0, fIndex |-> <<>>]

bankPidTOFBuffersReady(x) == [x EXCEPT !.fEvents = @ + x.tof, !.tof = 0]
bankIndexBuffersReady(x) == [x EXCEPT !.fIndex = @ \o x.index, !.index = <<>>]
bankPulseGap(x, n) == [x EXCEPT !.fIndex = @ \o Repeat(x.count, n)]

(* Mutant: the buffer is written, but the gap goes in front of it.          *)
GapBeforeBuffer(x, n) ==
    IF Len(x.index) + n < AncThresh \/ ~Ready
    THEN [x EXCEPT !.index = @ \o Repeat(x.count, n)]
    ELSE bankIndexBuffersReady(bankPulseGap(x, n))

(* n pulses without events of this bank.                                    *)
handlePulseGap(x, n) ==
    IF Len(x.index) + n < AncThresh \/ ~Ready
    THEN [x EXCEPT !.index = @ \o Repeat(x.count, n)]
    ELSE bankPulseGap(bankIndexBuffersReady(x), n)

(* The pulses before p that had no events are filled in.                    *)
FillTo(x, p) ==
    IF x.last < p - 1 THEN handlePulseGap(x, (p - 1) - x.last) ELSE x

FlushTof(x) == IF x.tof >= EventThresh /\ Ready
               THEN bankPidTOFBuffersReady(x) ELSE x
FlushIndex(x) == IF Len(x.index) >= AncThresh /\ Ready
                 THEN bankIndexBuffersReady(x) ELSE x

(* n events of pulse p.                                                     *)
AddEvents(x, n, p) ==
    LET y == FillTo(x, p)
    IN  FlushIndex(FlushTof(
            [y EXCEPT !.index = Append(@, y.count), !.count = @ + n,
                      !.tof = @ + n, !.last = p]))

(* The end of the run: everything buffered goes to the file.                *)
Finish(x, p) ==
    LET y == IF x.last < p THEN handlePulseGap(x, p - x.last) ELSE x
    IN  bankIndexBuffersReady(bankPidTOFBuffersReady(y))

----------------------------------------------------------------------------
(* Detector banks.                                                         *)

Special(b) == b \in {UNMAPPED_BANK, ERROR_BANK}
Slot(a, b, s) == CASE b = UNMAPPED_BANK -> 0
                   [] b = ERROR_BANK -> 1
                   [] OTHER -> NUM_SPECIAL_BANKS + b + s * (a.maxBank + 1)

getDetectorBankSets(b) == {d \in bankSets : b \in d.banks}

makeBankInfo(b, s, sets) ==
    [id |-> b, state |-> s, sets |-> sets, init |-> FALSE,
     hasEvent |-> FALSE, hasHisto |-> FALSE, histo |-> 0, ev |-> NewStream]

(* initializeBank(): the first use of a bank fixes its formats; a bank that *)
(* is in no set is written as events.                                      *)
initializeBank(bi) ==
    IF bi.init THEN bi
    ELSE [bi EXCEPT !.init = TRUE,
             !.hasHisto = ~Special(bi.id)
                          /\ \E d \in bi.sets : "histo" \in d.flags,
             !.hasEvent = bi.sets = {} \/ \E d \in bi.sets : "event" \in d.flags]

(* A larger array, with room for exactly bank b and state s.  The pointers *)
(* are copied in the order of the loops, so that a later one wins where    *)
(* two get the same place; a place outside the new array is undefined.  So  *)
(* the array may become smaller in one direction.                          *)
Shrinks(a, b, s) == DOMAIN a.slot # {} /\ (b < a.maxBank \/ s + 1 < a.numStates)

reallocateBanksArray(a, b, s) ==
    IF ~(s + 1 > a.numStates \/ b > a.maxBank) THEN a
    ELSE LET size == NUM_SPECIAL_BANKS + (s + 1) * (b + 1)
             new == [maxBank |-> b, numStates |-> s + 1, slot |-> <<>>,
                     fault |-> FALSE, shrunk |-> a.shrunk \/ Shrinks(a, b, s)]
             old == IF DOMAIN a.slot = {} THEN {}
                    ELSE (0 .. a.numStates - 1) \X (0 .. a.maxBank)
             to(i) == {q \in old : Slot(new, q[2], q[1]) = i}
             from(i) == CHOOSE q \in to(i) : \A r \in to(i) : r[1] <= q[1]
             slot == [i \in 0 .. size - 1 |->
                        IF i < NUM_SPECIAL_BANKS
                        THEN IF old = {} THEN NULL ELSE a.slot[i]
                        ELSE IF to(i) = {} THEN NULL
                        ELSE a.slot[Slot(a, from(i)[2], from(i)[1])]]
         IN  [new EXCEPT !.slot = slot,
                !.fault = a.fault \/ \E q \in old : Slot(new, q[2], q[1]) >= size]

(* The bank of a section, made on its first use: the special banks always, *)
(* another one when state 0 of it is in the pixel map.                     *)
EnsureBank(a, b, s) ==
    LET i == Slot(a, b, s)
        b0 == a.slot[Slot(a, b, 0)]
    IN  IF a.slot[i] # NULL THEN a
        ELSE IF Special(b)
             THEN [a EXCEPT !.slot[i] = makeBankInfo(b, 0, {})]
        ELSE IF b0 # NULL
             THEN [a EXCEPT !.slot[i] = makeBankInfo(b, s, b0.sets)]
        ELSE a

Counted(m, b, n) == IF Special(b) THEN [m EXCEPT !.uncounted = @ + n]
                    ELSE [m EXCEPT !.counted = @ + n]
ByKind(m, b, n) == CASE b = UNMAPPED_BANK -> [m EXCEPT !.unmapped = @ + n]
                     [] b = ERROR_BANK -> [m EXCEPT !.error = @ + n]
                     [] OTHER -> m

(* Mutant: events of a bank that is not in the pixel map are forgotten.     *)
ForgetUnknown(a, m, sec, p) ==
    LET b == sec[1]  s == sec[2]  n == sec[3]
        a1 == EnsureBank(reallocateBanksArray(a, IF Special(b) THEN 1 ELSE b, s), b, s)
        i == Slot(a1, b, s)
        bi == initializeBank(a1.slot[i])
    IN  IF a1.fault \/ a1.slot[i] = NULL THEN <<a1, m>>
        ELSE <<[a1 EXCEPT !.slot[i] =
                  [bi EXCEPT !.ev = IF bi.hasEvent THEN AddEvents(@, n, p) ELSE @]],
               Counted(ByKind(m, b, n), b, n)>>

(* One section of a banked packet: array and metrics after it.              *)
processBankEvents(a, m, sec, p) ==
    LET b == sec[1]  s == sec[2]  n == sec[3]
        a0 == reallocateBanksArray(a, IF Special(b) THEN 1 ELSE b, s)
        a1 == EnsureBank(a0, b, s)
        i == Slot(a1, b, s)
        bi == initializeBank(a1.slot[i])
    IN  IF a0.fault THEN <<a0, m>>
        ELSE IF a1.slot[i] = NULL
             THEN <<a1, ByKind([m EXCEPT !.uncounted = @ + n], b, n)>>
        ELSE <<[a1 EXCEPT !.slot[i] =
                  [bi EXCEPT !.ev = IF bi.hasEvent THEN AddEvents(@, n, p) ELSE @,
                             !.histo = IF bi.hasHisto THEN @ + n ELSE @]],
               ByKind(IF bi.hasEvent THEN Counted(m, b, n) ELSE m, b, n)>>

processSections(a, m, secs, p) ==
    FoldLeft(LAMBDA am, sec : processBankEvents(am[1], am[2], sec, p), <<a, m>>, secs)

----------------------------------------------------------------------------
(* Pulses.                                                                 *)

(* A banked and a monitor packet make one pulse, in either order; a second  *)
(* packet of the same kind starts the next.                                *)
Banked == 1
Monitor == 2
NextPulse(p, kind) ==
    IF p.flag = 3 - kind THEN [p EXCEPT !.flag = 0]
    ELSE [p EXCEPT !.count = @ + 1, !.flag = kind]

pulseBuffersReady(p) == [p EXCEPT !.fTimes = @ \o p.times, !.times = <<>>]

(* The time of a pulse is relative to the first one; one from before it is *)
(* set to zero.                                                            *)
processPulseInfo(p, ts) ==
    LET t == IF p.start = 0 \/ ts < p.start THEN 0 ELSE ts - p.start
        q == [p EXCEPT !.start = IF @ = 0 THEN ts ELSE @,
                       !.max = Max({@, t}), !.times = Append(@, t)]
    IN  IF Len(q.times) = AncThresh /\ Ready THEN pulseBuffersReady(q) ELSE q

(* History: the sections of the current pulse.                              *)
Logged(log, p, secs) ==
    LET padded == log \o Repeat(<<>>, p - Len(log))
    IN  [padded EXCEPT ![p] = @ \o secs]

----------------------------------------------------------------------------
(* The state machine.                                                      *)

InRun == pst \in {"PROCESSING_RUN_HEADER", "PROCESSING_EVENTS"}
Running == pst \notin {"DONE_PROCESSING", "FAILED"}

Throw(code) == pst' = "FAILED" /\ thrown' = code

(* PROCESS_IN_STATES_ONCE: the packet is taken in the run, and only once.   *)
Once(bit) == InRun /\ bit \notin recvd /\ recvd' = recvd \union {bit}
Odd == odd < MaxOdd /\ odd' = odd + 1

Init ==
    /\ pst = "WAITING_FOR_RUN_START" /\ recvd = {} /\ info = {}
    /\ workdir \in {"none", "fixed"} /\ bankSets = {}
    /\ banks = [maxBank |-> 0, numStates |-> 1, slot |-> <<>>, fault |-> FALSE,
                shrunk |-> FALSE]
    /\ mons = <<>>
    /\ pulse = [count |-> 0, flag |-> 0, start |-> 0, max |-> 0,
                times |-> <<>>, fTimes |-> <<>>]
    /\ metrics = [counted |-> 0, uncounted |-> 0, unmapped |-> 0, error |-> 0,
                  other |-> 0]
    /\ thrown = "none" /\ report = "none" /\ odd = 0
    /\ bankLog = <<>> /\ monLog = <<>>

NewRun ==
    /\ Running
    /\ IF pst = "WAITING_FOR_RUN_START"
       THEN pst' = "PROCESSING_RUN_HEADER" /\ UNCHANGED <<thrown, odd>>
       ELSE Odd /\ Throw("input")
    /\ UNCHANGED <<headVars, eventVars, report>>

(* constructWorkingDirectory(): known as soon as facility and beam line are.*)
constructWorkingDirectory(names, force) ==
    workdir' = IF workdir # "none" THEN workdir
               ELSE IF names = {"facility", "beam"} THEN "facility"
               ELSE IF force THEN "config" ELSE "none"

(* Run information may come again; a facility name is only taken from the   *)
(* first.                                                                  *)
RunInfoPkt(complete) ==
    /\ InRun
    /\ info' = IF complete /\ "run" \notin recvd
               THEN info \union {"facility"} ELSE info
    /\ recvd' = recvd \union {"run"}
    /\ IF "run" \in recvd THEN Odd ELSE UNCHANGED odd
    /\ constructWorkingDirectory(info', FALSE)
    /\ UNCHANGED <<pst, bankSets, eventVars, thrown, report>>

BeamlineInfoPkt ==
    /\ Once("beam")
    /\ info' = info \union {"beam"}
    /\ constructWorkingDirectory(info', FALSE)
    /\ UNCHANGED <<pst, bankSets, eventVars, thrown, report, odd>>

(* A bank set whose range is empty is meant to be restricted to events; the *)
(* mask !(HISTO_FORMAT) is zero and clears every flag.                     *)
SetOf(d) == [d EXCEPT !.flags = IF d.range THEN @ ELSE {}]

associateDetectorBankSet(a, d) ==
    [a EXCEPT !.slot = [i \in DOMAIN a.slot |->
        IF a.slot[i] = NULL THEN NULL
        ELSE IF a.slot[i].id \in d.banks
             THEN [a.slot[i] EXCEPT !.sets = @ \union {d}] ELSE a.slot[i]]]

DetectorBankSetsPkt ==
    /\ Once("sets")
    /\ bankSets' = {SetOf(d) : d \in BankSets}
    /\ banks' = FoldSet(LAMBDA d, a : associateDetectorBankSet(a, d), banks, bankSets')
    /\ UNCHANGED <<pst, info, workdir, mons, pulse, metrics, bankLog, monLog,
                   thrown, report, odd>>

MapBank(a, b) ==
    LET i == Slot(a, b, 0)
    IN  IF a.slot[i] # NULL THEN a
        ELSE [a EXCEPT !.slot[i] = makeBankInfo(b, 0, getDetectorBankSets(b))]

PixelMappingPkt(m) ==
    /\ Once("pixelmap")
    /\ LET a == reallocateBanksArray(banks, Max(m \union {0}), 0)
           special == EnsureBank(EnsureBank(a, UNMAPPED_BANK, 0), ERROR_BANK, 0)
       IN  IF DOMAIN a.slot = {} THEN banks' = [a EXCEPT !.fault = TRUE]
           ELSE banks' = FoldSet(LAMBDA b, x : MapBank(x, b), special, m)
    /\ pst' = "PROCESSING_EVENTS"
    /\ UNCHANGED <<info, workdir, bankSets, mons, pulse, metrics, bankLog, monLog,
                   thrown, report, odd>>

(* The alternate form with a zero step: the packet is given up, and with it *)
(* every later pixel map, for it counts as received.                       *)
PixelMappingBad ==
    /\ Once("pixelmap") /\ Odd
    /\ UNCHANGED <<pst, info, workdir, bankSets, eventVars, thrown, report>>

BankedEventPkt(ts, secs) ==
    /\ pst = "PROCESSING_EVENTS"
    /\ LET p == NextPulse(pulse, Banked)
           done == processSections(banks, metrics, secs, p.count)
       IN  /\ p.count <= MaxPulses
           /\ pulse' = processPulseInfo(p, ts)
           /\ banks' = done[1] /\ metrics' = done[2]
           /\ bankLog' = Logged(bankLog, p.count, secs)
           /\ monLog' = Logged(monLog, p.count, <<>>)
    /\ UNCHANGED <<pst, headVars, mons, thrown, report, odd>>

(* A packet flagged DUPLICATE_PULSE is not translated.                      *)
DuplicatePkt ==
    /\ pst = "PROCESSING_EVENTS" /\ Odd
    /\ UNCHANGED <<pst, headVars, eventVars, thrown, report>>

(* A packet too large for the buffer is counted as a pulse, whatever the    *)
(* state, and its events and its time are lost.                            *)
rxOversizePkt(kind) ==
    /\ Running /\ Odd
    /\ pulse' = NextPulse(pulse, kind)
    /\ pulse'.count <= MaxPulses
    /\ bankLog' = Logged(bankLog, pulse'.count, <<>>)
    /\ monLog' = Logged(monLog, pulse'.count, <<>>)
    /\ UNCHANGED <<pst, headVars, banks, mons, metrics, thrown, report>>

----------------------------------------------------------------------------
(* Beam monitors.                                                          *)

Mixed == {MonitorFormat[m].format : m \in DOMAIN MonitorFormat} = {"event", "histo"}
ConfigOf(m) == IF Mixed \/ ~MonitorFormat[m].range THEN "event"
               ELSE MonitorFormat[m].format

makeMonitorInfo(format) == [format |-> format, histo |-> 0, ev |-> NewStream]

(* The configuration makes the monitors it names; one that has had events  *)
(* already keeps what it has.                                              *)
BeamMonitorConfigPkt ==
    /\ Once("monitors")
    /\ mons' = [m \in DOMAIN mons \union DOMAIN MonitorFormat |->
                  IF m \in DOMAIN mons THEN mons[m] ELSE makeMonitorInfo(ConfigOf(m))]
    /\ UNCHANGED <<pst, info, workdir, bankSets, banks, pulse, metrics,
                   bankLog, monLog, thrown, report, odd>>

getBeamMonitorConfig(m) ==
    IF "monitors" \in recvd /\ m \in DOMAIN MonitorFormat THEN ConfigOf(m) ELSE "event"

processMonitorEvents(ms, sec, p) ==
    LET m == sec[1]
        n == sec[3]
        mi == IF m \in DOMAIN ms THEN ms[m]
              ELSE makeMonitorInfo(getBeamMonitorConfig(m))
        new == IF mi.format = "histo" THEN [mi EXCEPT !.histo = @ + n]
               ELSE [mi EXCEPT !.ev = AddEvents(@, n, p)]
    IN  [k \in DOMAIN ms \union {m} |-> IF k = m THEN new ELSE ms[k]]

BeamMonitorPkt(secs) ==
    /\ pst = "PROCESSING_EVENTS"
    /\ pulse' = NextPulse(pulse, Monitor)
    /\ pulse'.count <= MaxPulses
    /\ mons' = FoldLeft(LAMBDA ms, sec : processMonitorEvents(ms, sec, pulse'.count),
                        mons, secs)
    /\ metrics' = [metrics EXCEPT
                     !.other = @ + Total([i \in DOMAIN secs |-> secs[i][3]])]
    /\ monLog' = Logged(monLog, pulse'.count, secs)
    /\ bankLog' = Logged(bankLog, pulse'.count, <<>>)
    /\ UNCHANGED <<pst, headVars, banks, thrown, report, odd>>

----------------------------------------------------------------------------
(* The end.                                                                *)

bankFinalize(bi) ==
    LET b == initializeBank(bi)
    IN  IF b.hasEvent THEN [b EXCEPT !.ev = Finish(@, pulse.count)] ELSE b
monitorFinalize(mi) ==
    IF mi.format = "event" THEN [mi EXCEPT !.ev = Finish(@, pulse.count)] ELSE mi

(* finalizeStreamProcessing() up to the process variables.  In strict mode  *)
(* it throws when the run information is incomplete.                       *)
StrictlyComplete == ~Strict \/ "facility" \in info

finalizeStreamProcessing ==
    /\ constructWorkingDirectory(info, TRUE)
    /\ IF StrictlyComplete
       THEN /\ pulse' = pulseBuffersReady(pulse)
            /\ banks' = [banks EXCEPT !.slot = [i \in DOMAIN @ |->
                            IF @[i] = NULL THEN NULL ELSE bankFinalize(@[i])]]
            /\ mons' = [m \in DOMAIN mons |-> monitorFinalize(mons[m])]
       ELSE UNCHANGED <<pulse, banks, mons>>
    /\ UNCHANGED <<recvd, info, bankSets, metrics, bankLog, monLog, report, odd>>

EndRun ==
    /\ pst = "PROCESSING_EVENTS"
    /\ finalizeStreamProcessing
    /\ IF StrictlyComplete THEN pst' = "DONE_PROCESSING" /\ UNCHANGED thrown
       ELSE Throw("input")

(* END_RUN without a pixel map.                                             *)
EndRunEarly ==
    /\ Running /\ pst # "PROCESSING_EVENTS"
    /\ Throw("input")
    /\ UNCHANGED <<headVars, eventVars, report, odd>>

(* The stream ends (Data Done, or end of file) before the run does: what    *)
(* there is is written, and an exception says so.                          *)
StreamEnds ==
    /\ Running
    /\ IF pst = "PROCESSING_EVENTS" THEN finalizeStreamProcessing
       ELSE UNCHANGED <<headVars, eventVars, report, odd>>
    /\ Throw("general")

(* The disk is full, or HDF5 fails.                                         *)
OutputFails ==
    /\ Running /\ Ready /\ InRun
    /\ Throw("output")
    /\ UNCHANGED <<headVars, eventVars, report, odd>>

(* The status code main() answers with; the file may fail to be moved.      *)
StatusCode(moved) ==
    report' = CASE thrown = "none" /\ moved -> "TS_SUCCESS"
                [] thrown = "none" \/ thrown = "output" -> "TS_TRANSIENT_ERROR"
                [] OTHER -> "TS_PERM_ERROR"

TransComplete(moved) ==
    /\ ~Running /\ report = "none"
    /\ StatusCode(moved)
    /\ UNCHANGED <<pst, headVars, eventVars, thrown, odd>>

Header == \/ \E c \in BOOLEAN : RunInfoPkt(c)
          \/ BeamlineInfoPkt
          \/ BankSets # {} /\ DetectorBankSetsPkt
          \/ DOMAIN MonitorFormat # {} /\ BeamMonitorConfigPkt
          \/ \E m \in PixelMaps : PixelMappingPkt(m)
          \/ PixelMappingBad
Events == \/ \E ts \in Stamps, secs \in Sections \union StateSections :
                BankedEventPkt(ts, secs)
          \/ \E secs \in MonSections : BeamMonitorPkt(secs)
          \/ DuplicatePkt
          \/ \E kind \in {Banked, Monitor} : rxOversizePkt(kind)
Reports == \E moved \in BOOLEAN : TransComplete(moved)

----------------------------------------------------------------------------
(* Properties.                                                             *)

BankObjects == {banks.slot[i] : i \in DOMAIN banks.slot} \ {NULL}
IsOf(sec, k, s) == sec[1] = k /\ (Special(k) \/ sec[2] = s)
Delivered(log, k, s, p) ==
    Total([i \in DOMAIN log[p] |-> IF IsOf(log[p][i], k, s) THEN log[p][i][3] ELSE 0])
Before(log, k, s, p) == Total([q \in 1 .. p - 1 |-> Delivered(log, k, s, q)])

IndexOf(x, log, k, s) ==
    LET index == x.fIndex \o x.index
    IN  /\ Len(index) >= x.last
        /\ pst = "DONE_PROCESSING" => Len(x.fIndex) = pulse.count
        /\ \A p \in DOMAIN index : index[p] = Before(log, k, s, p)

(* The array has never become smaller: what it held is where it is looked  *)
(* for.                                                                    *)
InPlace == ~banks.fault /\ ~banks.shrunk

(* One packet brings two sections of a bank or monitor.                     *)
Repeated(log, k, s) ==
    \E p \in DOMAIN log : \E i, j \in DOMAIN log[p] :
        i # j /\ IsOf(log[p][i], k, s) /\ IsOf(log[p][j], k, s)

(* Every entry p of a bank's or monitor's event index is the number of its *)
(* events before pulse p, through every way the index is buffered, filled  *)
(* over pulse gaps and written; in a finished file there is one entry per  *)
(* pulse.  Excepted are a bank or monitor of which one packet brought two   *)
(* sections, for each gets an entry (processBankEvents()), and an array of  *)
(* banks that has become smaller (reallocateBanksArray()).                  *)
IndexAligned ==
    /\ InPlace => \A bi \in BankObjects : bi.hasEvent /\ ~Repeated(bankLog, bi.id, bi.state) =>
          IndexOf(bi.ev, bankLog, bi.id, bi.state)
    /\ \A m \in DOMAIN mons : mons[m].format = "event" /\ ~Repeated(monLog, m, 0) =>
          IndexOf(mons[m].ev, monLog, m, 0)

Stored(x, log, k, s) ==
    /\ x.fEvents + x.tof = Before(log, k, s, Len(log) + 1)
    /\ pst = "DONE_PROCESSING" => x.tof = 0
Histogrammed(b, s) == \E bi \in BankObjects :
    bi.id = b /\ bi.state = s /\ bi.init /\ ~bi.hasEvent
InSections(P(_, _)) ==
    Total([p \in DOMAIN bankLog |->
             Total([i \in DOMAIN bankLog[p] |->
                      LET sec == bankLog[p][i]
                      IN  IF P(sec[1], sec[2]) THEN sec[3] ELSE 0])])

(* No event is lost or written twice between the packet and the file: a     *)
(* bank's or monitor's events are all in its buffer or the file, in the    *)
(* file once the run is finished, and the counters of the run account for  *)
(* every event that was delivered, of unknown banks too, and of a bank that *)
(* occurs twice in a packet.  As long as the array of banks has not become  *)
(* smaller: then banks are lost, or found under another's number            *)
(* (reallocateBanksArray()).                                                *)
EventsAccounted ==
    /\ InPlace => \A bi \in BankObjects : bi.hasEvent => Stored(bi.ev, bankLog, bi.id, bi.state)
    /\ \A m \in DOMAIN mons :
          mons[m].format = "event" => Stored(mons[m].ev, monLog, m, 0)
    /\ InPlace => metrics.counted + metrics.uncounted
                     = InSections(LAMBDA b, s : ~Histogrammed(b, s))

=============================================================================
