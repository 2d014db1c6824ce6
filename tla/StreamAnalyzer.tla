--------------------------- MODULE StreamAnalyzer ---------------------------
(***************************************************************************)
(* dasmon/server/StreamAnalyzer.cpp: the callbacks by which the monitor of *)
(* the stream tells the rule engine what it has seen, and the replacement  *)
(* of the rules and signals.                                               *)
(*                                                                         *)
(* The analyzer is a record [eng, rules, mask, err, lim]: the engine, the  *)
(* definitions of its rules, m_batch_mask as a set, m_error_pvs and        *)
(* m_limit_pvs.  Facts that are always asserted and retracted together are *)
(* one fact: BEAM_INFO, RUN_INFO, BEAM_METRICS and RUN_METRICS stand for   *)
(* the facts of those structures.                                          *)
(***************************************************************************)
EXTENDS RuleEngine

CONSTANTS
    Pvs,        \* process variables, by their names
    NoPv        \* the second part of the name of a fact that is about none

Bif(k) == <<k, NoPv>>
PvFact(p) == <<"PV", p>>
ErrFact(p) == <<"PVERR", p>>
LimFact(p) == <<"PVLIM", p>>

Builtins ==
    {Bif(k) : k \in {"SMS_CONNECTED", "RECORDING", "RUN_NUMBER", "PAUSED", "SCANNING", "BEAM_INFO",
                     "RUN_INFO", "BEAM_METRICS", "RUN_METRICS", "PV_ERROR", "PV_LIMIT"}}

PvFacts == {<<k, p>> : k \in {"PV", "PVERR", "PVLIM"}, p \in Pvs}

Asserted(A, f, v) == [A EXCEPT !.eng = AssertFact(@, A.rules, f, v)]
Retracted(A, f) == [A EXCEPT !.eng = RetractFact(@, A.rules, f)]

------------------------------------------------------------------------------
(* Batches of several contexts: the engine's lasts until the last has ended. *)

BeginBatch(A, m) ==
    [A EXCEPT !.eng = IF A.mask = {} THEN beginBatch(@) ELSE @, !.mask = @ \cup {m}]

EndBatch(A, m) ==
    IF A.mask = {} THEN A
    ELSE [A EXCEPT !.eng = IF A.mask \subseteq {m} THEN endBatch(@) ELSE @, !.mask = @ \ {m}]

(* The same in the steps that another thread may come between, because      *)
(* beginProlog() and endProlog() take no mutex.  The mask is read, then     *)
(* written; the engine is changed when the mask was empty, or is now.       *)
Entered(A) == IF A.mask = {} THEN [A EXCEPT !.eng = beginBatch(@)] ELSE A
Masked(A, mask) == [A EXCEPT !.mask = mask]
Exited(A) == [A EXCEPT !.eng = Left(@)]
Noticed(A, f) == [A EXCEPT !.eng = EndNotice(@, f)]
Finished(A) == [A EXCEPT !.eng = Forgotten(@)]

(* What the listeners may have to be told: a fact without a signal is of no *)
(* interest to them.                                                        *)
Signalled(A) == (DOMAIN A.eng.old \cup A.eng.new) \cap DOMAIN A.eng.sigs
NextNotice(A, S) == IF S \cap Gone(A.eng) # {} THEN S \cap Gone(A.eng) ELSE S

------------------------------------------------------------------------------
(* IStreamListener. *)

(* A run that starts or ends does away with all that is known of the process variables. *)
ForgetPvs(A) ==
    LET A1 == [A EXCEPT !.eng = retractPrefix(@, A.rules, PvFacts)]
    IN  [Retracted(Retracted(A1, Bif("PV_ERROR")), Bif("PV_LIMIT")) EXCEPT !.err = {}, !.lim = {}]

runStatus(A, recording, run) ==
    LET A1 == ForgetPvs(A)
    IN  IF recording
        THEN LET A2 == Asserted(Asserted(A1, Bif("RECORDING"), VOID), Bif("RUN_NUMBER"), run)
             IN  Retracted(Retracted(A2, Bif("BEAM_INFO")), Bif("RUN_INFO"))
        ELSE Retracted(Retracted(A1, Bif("RECORDING")), Bif("RUN_NUMBER"))

pauseStatus(A, paused) ==
    IF paused THEN Asserted(A, Bif("PAUSED"), VOID) ELSE Retracted(A, Bif("PAUSED"))

scanStatus(A, scanning) ==
    IF scanning THEN Asserted(A, Bif("SCANNING"), VOID) ELSE Retracted(A, Bif("SCANNING"))

beamInfo(A) == Asserted(A, Bif("BEAM_INFO"), VOID)
runInfo(A) == Asserted(A, Bif("RUN_INFO"), VOID)

beamMetrics(A, rate) == Asserted(A, Bif("BEAM_METRICS"), rate)

runMetrics(A, counts) == Asserted(A, Bif("RUN_METRICS"), counts)

(* A status other than OK adds the variable to those at a limit or to those *)
(* in error; OK, or the end of the variable, takes it out of one of them.   *)
BadStatus(A, p, set, fact, general) ==
    LET A1 == Asserted(A, fact, VOID)
    IN  IF set = {} THEN Asserted(A1, general, VOID) ELSE A1

GoodStatus(A, rest, fact, general) ==
    LET A1 == Retracted(A, fact)
    IN  IF rest = {} THEN Retracted(A1, general) ELSE A1

processPvStatus(A, p, status) ==
    IF status = "LIMIT"
    THEN [BadStatus(A, p, A.lim, LimFact(p), Bif("PV_LIMIT")) EXCEPT !.lim = @ \cup {p}]
    ELSE IF status # "OK"
    THEN [BadStatus(A, p, A.err, ErrFact(p), Bif("PV_ERROR")) EXCEPT !.err = @ \cup {p}]
    ELSE IF p \in A.err
    THEN [GoodStatus(A, A.err \ {p}, ErrFact(p), Bif("PV_ERROR")) EXCEPT !.err = @ \ {p}]
    ELSE IF p \in A.lim
    THEN [GoodStatus(A, A.lim \ {p}, LimFact(p), Bif("PV_LIMIT")) EXCEPT !.lim = @ \ {p}]
    ELSE A

pvUndefined(A, p) == processPvStatus(Retracted(A, PvFact(p)), p, "OK")

pvValue(A, p, v, status) ==
    LET A1 == IF status = "DISCONNECTED" THEN Retracted(A, PvFact(p))
              ELSE Asserted(A, PvFact(p), v)
    IN  processPvStatus(A1, p, status)

(* The end of the connection is the end of every fact, those of other       *)
(* processes too; the sets of variables are left to pvUndefined().          *)
connectionStatus(A, connected) ==
    IF connected THEN Asserted(A, Bif("SMS_CONNECTED"), VOID)
    ELSE LET A1 == BeginBatch(A, "CONN")
         IN  EndBatch([A1 EXCEPT !.eng = retractAllFacts(@, A.rules)], "CONN")

(* resendState(): the asserted facts are told again. *)
resendSignals(A) == [A EXCEPT !.eng = ForEach(onAssert, @, getAsserted(@))]

------------------------------------------------------------------------------
(* New definitions.  defs is [rules, sigs]: the enabled rules in their      *)
(* order and the enabled signals, by the fact each is about in upper case;  *)
(* fact is that fact as it was written.  Names of signals are unique.       *)

NamesOn(facts, sigs) == {sigs[f].name : f \in facts \cap DOMAIN sigs}

findByName(sigs, n) == sigs[CHOOSE f \in DOMAIN sigs : sigs[f].name = n]

HasName(sigs, n) == \E f \in DOMAIN sigs : sigs[f].name = n

(* Every signal is about a rule or a builtin fact. *)
SignalsDefined(defs) ==
    DOMAIN defs.sigs \subseteq {D.id : D \in ToSet(defs.rules)} \cup Builtins

Reworded(old, new, n) == HasName(old, n) /\ findByName(old, n).msg # findByName(new, n).msg

(* The listeners are told what has changed between the signals the old      *)
(* engine asserts and those the new one does.                               *)
SwapEngine(A, E, defs) ==
    LET O == A.eng
        was == NamesOn(getAsserted(O), O.sigs)
        is == NamesOn(getAsserted(E), defs.sigs)
        drop == {findByName(O.sigs, n).fact : n \in was \ is}
        say == {n \in is : n \notin was \/ Reworded(O.sigs, defs.sigs, n)}
        told == ForEach(onRetract, O, drop).told
        N == [E EXCEPT !.sigs = defs.sigs, !.told = told]
    IN  [A EXCEPT !.eng = ForEach(onAssert, N, {findByName(defs.sigs, n).fact : n \in say}),
                  !.rules = defs.rules]

(* The new engine, before the swap.  Bad definitions are refused; a rule    *)
(* with the name of a builtin fact is not found out until it is too late.   *)
Prepared(A, defs) == DefineAll(NewEngine(<<>>), defs.rules)

Accepted(A, defs) == SignalsDefined(defs) /\ Prepared(A, defs).ok

setDefinitions(A, defs) ==
    SwapEngine(A, synchronize(Prepared(A, defs), defs.rules, A.eng), defs)

TakesBuiltin(defs) == \E D \in ToSet(defs.rules) : D.id \in Builtins
=============================================================================
