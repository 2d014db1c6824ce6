---------------------------- MODULE MCDasMonitor ----------------------------
(* Rules and signals for small instances of DasMonitor. *)
EXTENDS DasMonitor

Rule(id, ins, asr, sat) == [id |-> Bif(id), ins |-> ins, asr |-> asr, sat |-> sat]

Signal(name, f, msg) == [name |-> name, fact |-> f, msg |-> msg]

Vals(F) == [F -> {0, 1, 2}]

Rec == Bif("RECORDING")
Err == Bif("PV_ERROR")
Rate == Bif("BEAM_METRICS")

MCFactNames == Builtins \cup PvFacts \cup {Bif(k) : k \in {"LOW", "BAD", "OFF"}}
                \cup {ProcFact(c) : c \in Procs}

(* LOW: the rate is below 2 while a run is recorded.  BAD: LOW or an error. *)
Low == Rule("LOW", {Rate}, {Rec}, {v \in Vals({Rate, Rec}) : v[Rate] < 2 /\ v[Rec] = 1})
Bad == Rule("BAD", {}, {Bif("LOW"), Err},
            {v \in Vals({Bif("LOW"), Err}) : v[Bif("LOW")] = 1 \/ v[Err] = 1})
Off == Rule("OFF", {}, {Bif("SMS_CONNECTED")}, {v \in Vals({Bif("SMS_CONNECTED")}) : v[Bif("SMS_CONNECTED")] = 0})
Loop == Rule("LOW", {}, {Bif("BAD")}, {})

BadSignal(msg) == Bif("BAD") :> Signal("bad", Bif("BAD"), msg)
OffSignal == Bif("OFF") :> Signal("off", Bif("OFF"), "off")
RecSignal == Rec :> Signal("rec", Rec, "recording")

MCFirstDefs == [rules |-> <<Bad, Low, Off>>, sigs |-> BadSignal("bad") @@ OffSignal]

MCDefs == {[rules |-> <<Low, Bad>>, sigs |-> BadSignal("worse") @@ RecSignal],
           [rules |-> <<Bad, Loop>>, sigs |-> RecSignal]}

(* Each budget leaves room for one kind of question. *)
Only(b) == [e \in Events |-> IF e \in DOMAIN b THEN b[e] ELSE 0]

Signals == Only("describe" :> 1 @@ "value" :> 1 @@ "metrics" :> 1)
Files == Only("run" :> 1 @@ "file" :> 1 @@ "metrics" :> 1)
Prologues == Only("run" :> 1 @@ "metrics" :> 2)
Lost == Only("run" :> 1 @@ "describe" :> 1 @@ "value" :> 1 @@ "loss" :> 1)
LostMetrics == Only("loss" :> 1 @@ "metrics" :> 1)
Errors == Only("describe" :> 1 @@ "value" :> 3)
Table == Only("describe" :> 1 @@ "value" :> 2 @@ "collect" :> 2)
Failures == Only("describe" :> 1 @@ "value" :> 1 @@ "collect" :> 2 @@ "dbfail" :> 1)
Rows == Only("describe" :> 2 @@ "value" :> 1 @@ "collect" :> 1)
Clients == Only("run" :> 1 @@ "describe" :> 1 @@ "loss" :> 1 @@ "bus" :> 1)
Variables == Only("describe" :> 1 @@ "value" :> 1 @@ "loss" :> 1 @@ "bus" :> 1)
Detector == Only("run" :> 2 @@ "loss" :> 2 @@ "restart" :> 2)
Others == Only("run" :> 1 @@ "info" :> 2 @@ "mark" :> 1)
Processes == Only("emit" :> 1 @@ "proc" :> 1 @@ "metrics" :> 1)
Rules == Only("run" :> 1 @@ "metrics" :> 1 @@ "define" :> 1)
NewRules == Only("describe" :> 1 @@ "value" :> 1 @@ "define" :> 1)

MCBudgets == {Signals, Files, Prologues, Lost, LostMetrics, Errors, Table, Failures, Rows, Clients,
              Variables, Detector, Others, Processes, Rules, NewRules}

=============================================================================
