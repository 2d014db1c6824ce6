---------------------------- MODULE PacketStream ----------------------------
(***************************************************************************)
(* A stream of ADARA packets from the bytes on the connection to the       *)
(* objects its receiver is handed, in three settings:                      *)
(*   - framing: packets of every kind the parser distinguishes, read in    *)
(*     pieces of any length into a small buffer, with a lost connection;   *)
(*   - decoding: one packet of every type and version;                     *)
(*   - prologue: the settings of PrologueConfig, changed, saved, restored  *)
(*     by a restart, and written at the start of files.                    *)
(***************************************************************************)
EXTENDS PacketParser, PrologueConfig

CONSTANTS Samples,       \* decoding: one packet of every type and version
          Kinds,         \* framing: the packets to choose from
          MaxScript,     \* framing: how many of them
          SmallSize, SmallMax, LargeSize, LargeMax,   \* the parser's sizes, in words
          Puts,          \* prologue: the <<variable, value>> operators write
          MaxPuts, MaxFiles, MaxRuns, MaxRestarts, MaxLosses

VARIABLES
  setting,    \* framing, decoding or prologue
  receiver,
  script,     \* the packets sent; what each of them should look like
  base,       \* the first of them on this connection
  wire,       \* the words on the way
  open,       \* the connection is up
  ps,         \* the parser
  received,   \* what the receiver was handed on this connection
  config,     \* the record of PrologueConfig
  want,       \* per variable, what the operators asked for
  used        \* how often each kind of step was taken

vars == <<setting, receiver, script, base, wire, open, ps, received, config, want, used>>

PacketWords(items) == Flat([k \in DOMAIN items |-> items[k].words])
From(k) == SubSeq(script, k, Len(script))

Item(type, version, payload, view) ==
  [kind |-> "ok", words |-> Packet(type, version, payload),
   type |-> type, version |-> version, view |-> view]

Nothing == [pv \in PVs |-> IF HasDefault(pv) THEN <<Configured(pv)>> ELSE <<>>]

Init ==
  /\ config = Start(<<>>)
  /\ want = Nothing
  /\ setting \in {"framing", "decoding", "prologue"}
  /\ receiver \in IF setting = "framing" THEN Receivers ELSE {"translator"}
  /\ script \in CASE setting = "framing" -> UNION {[1..n -> Kinds] : n \in 1..MaxScript}
                  [] setting = "decoding" -> {<<s>> : s \in Samples}
                  [] setting = "prologue" -> {<<>>}
  /\ base = 1
  /\ wire = PacketWords(script)
  /\ open = TRUE
  /\ ps = IF setting = "framing" THEN NewParser(SmallSize, SmallMax)
          ELSE NewParser(LargeSize, LargeMax)
  /\ received = <<>>
  /\ used = [puts |-> 0, files |-> 0, runs |-> 0, restarts |-> 0, losses |-> 0]

-----------------------------------------------------------------------------
(* The receiver *)

\* One ::read() of n words and the bufferParse() after it, of
\* POSIXParser::read().  When the call returns false or throws the caller
\* closes the connection.
Read ==
  \E n \in 0..bufferFillLength(ps) :
    /\ open
    /\ wire # <<>>
    /\ n <= Len(wire)
    /\ n = 0 => bufferFillLength(ps) = 0
    /\ setting # "framing" => n \in {Len(wire), bufferFillLength(ps)}
    /\ wire' = SubSeq(wire, n + 1, Len(wire))
    /\ \E r \in {bufferParse(receiver, bufferBytesAppended(ps, SubSeq(wire, 1, n)))} :
         /\ ps' = r.ps
         /\ received' = received \o r.got
         /\ open' = (r.rc >= 0 /\ ~r.thrown)
    /\ UNCHANGED <<setting, receiver, script, base, config, want, used>>

\* The connection is lost, or was closed; the sender goes on with a whole
\* packet on the next one, and the receiver starts with reset().
Reconnect ==
  /\ setting = "framing"
  /\ used.losses < MaxLosses
  /\ \E k \in base..Len(script) :
       /\ base' = k
       /\ wire' = PacketWords(From(k))
  /\ open' = TRUE
  /\ ps' = reset(ps)
  /\ received' = <<>>
  /\ used' = [used EXCEPT !.losses = @ + 1]
  /\ UNCHANGED <<setting, receiver, script, config, want>>

-----------------------------------------------------------------------------
(* The settings *)

\* what the packets should say, from what the operators asked for
WantedMonitors == [i \in DOMAIN Monitors |->
  [f \in DOMAIN Monitors[i] |-> want[<<"bm", i, f>>][1]]]

\* a name is cut to its field, a suffix cleaned first; a throttle is whole
WantedSets == [i \in DOMAIN BankSets |->
  [f \in DOMAIN BankSets[i] |->
     LET v == want[<<"bs", i, f>>][1]
     IN  CASE f = "name" -> truncateString(v)
           [] f = "suffix" -> truncateString(sanitizeString(v))
           [] f = "throttle" -> AsInteger(v)
           [] OTHER -> v]]

\* nobody asked for a user: the variable still reads "(unset)"
WantedInfo(w, run) ==
  LET user == IF w[UserInfoPV] = <<>> THEN UNSET ELSE w[UserInfoPV][1]
      set == {f \in Range(RITexts) : w[RI(f)] # <<>>}
  IN  Item("RUN_INFO", 0, <<>>, [info |-> Xml(run, user, [f \in set |-> w[RI(f)][1]])])

WantedPrologue(run) ==
  LET formats == countFormats(WantedMonitors)
      info == IF run = 0 THEN <<>> ELSE <<WantedInfo(want, run)>>
      monitors == IF want[AlwaysPV][1] \/ (formats.numEvent = 0 /\ formats.numHisto > 0)
                  THEN <<Item("BEAM_MONITOR_CONFIG", 1, <<>>, WantedMonitors)>> ELSE <<>>
  IN  info \o monitors \o <<Item("DETECTOR_BANK_SETS", 0, <<>>, WantedSets)>>

\* c, what it has written is sent, and `expected' is what that should say
Written(c, expected) ==
  /\ config' = [c EXCEPT !.out = <<>>]
  /\ wire' = wire \o Flat(c.out)
  /\ script' = script \o expected
  /\ UNCHANGED <<setting, receiver, base, open, ps, received>>

Idle == setting = "prologue" /\ wire = <<>>

\* a text that reads "(unset)" since a restart cannot be cleared again
Cleared(w, pv) == IF w[pv] = <<UNSET>> THEN w[pv] ELSE <<>>

\* An operator sets a variable.  A mass also sets its text, unless the number
\* is the one it was: a text cleared in between stays cleared.
Wanted(w, pv, val) ==
  IF pv = MassPV
  THEN IF w[pv] = <<val>> THEN w
       ELSE [w EXCEPT ![pv] = <<val>>, ![RI("MassString")] = <<MassText(val)>>]
  ELSE [w EXCEPT ![pv] = IF IsText(pv) /\ val = <<>> THEN Cleared(w, pv) ELSE <<val>>]

\* during a run a change of the run information is written at once
ChangeOfInfo(new) ==
  IF config.ri.run # 0 /\ WantedInfo(new, config.ri.run) # WantedInfo(want, config.ri.run)
  THEN <<WantedInfo(new, config.ri.run)>> ELSE <<>>

Caput ==
  /\ Idle
  /\ used.puts < MaxPuts
  /\ \E put \in Puts :
       LET new == Wanted(want, put[1], put[2])
       IN  /\ Written(write(config, put[1], put[2]), ChangeOfInfo(new))
           /\ want' = new
  /\ used' = [used EXCEPT !.puts = @ + 1]

NewFile ==
  /\ Idle
  /\ used.files < MaxFiles
  /\ Written(onPrologue(config, FALSE), WantedPrologue(config.ri.run))
  /\ used' = [used EXCEPT !.files = @ + 1]
  /\ UNCHANGED want

\* The container that ends gets a last prologue, with the run that was; the
\* new one gets the first of its own.
StartRun ==
  /\ Idle
  /\ config.ri.run = 0
  /\ used.runs < MaxRuns
  /\ RequiredSet(config)
  /\ LET run == used.runs + 1
         c == setRunNumber(config, run)
     IN  Written(onPrologue(onPrologue(c, TRUE), FALSE), WantedPrologue(0) \o WantedPrologue(run))
  /\ used' = [used EXCEPT !.runs = @ + 1]
  /\ UNCHANGED want

StopRun ==
  /\ Idle
  /\ config.ri.run # 0
  /\ LET run == config.ri.run
         c == setRunNumber(config, 0)
     IN  Written(onPrologue(onPrologue(c, TRUE), FALSE), WantedPrologue(run) \o WantedPrologue(0))
  /\ UNCHANGED <<want, used>>

\* the trigger clears the texts one after the other; in a run each one that
\* was set is a change
Reset ==
  /\ Idle
  /\ used.puts < MaxPuts
  /\ LET after(k) == [pv \in PVs |-> IF \E j \in 1..k : pv = RI(RITexts[j])
                                     THEN Cleared(want, pv) ELSE want[pv]]
         wrote(k) == IF config.ri.run # 0 /\ want[RI(RITexts[k])] # after(k)[RI(RITexts[k])]
                     THEN <<WantedInfo(after(k), config.ri.run)>> ELSE <<>>
     IN  /\ Written(ResetRunInfo(config), Flat([k \in DOMAIN RITexts |-> wrote(k)]))
         /\ want' = after(Len(RITexts))
  /\ used' = [used EXCEPT !.puts = @ + 1]

\* A text that was cleared is saved as the text "(unset)", and restored as
\* one somebody set.
Restart ==
  /\ Idle
  /\ used.restarts < MaxRestarts
  /\ Written(Start(config.file), <<>>)
  /\ want' = [pv \in PVs |->
                IF IsText(pv) /\ want[pv] = <<>> /\ pv \in DOMAIN config.file
                THEN <<UNSET>> ELSE want[pv]]
  /\ used' = [used EXCEPT !.restarts = @ + 1]

Next ==
  \/ Read \/ Reconnect
  \/ Caput \/ NewFile \/ StartRun \/ StopRun \/ Reset \/ Restart

Spec == Init /\ [][Next]_vars

-----------------------------------------------------------------------------
(* Properties *)

\* what the receiver should be handed of these packets
RECURSIVE Expected(_)
Expected(items) ==
  IF items = <<>> THEN <<>>
  ELSE LET i == Head(items) IN
       CASE receiver = "live" /\ i.type # "CLIENT_HELLO" -> <<>>
         [] i.kind = "oversize" -> IF receiver = "translator" THEN Expected(Tail(items)) ELSE <<>>
         [] i.kind = "bad" -> <<>>
         [] i.kind = "unknown" -> Expected(Tail(items))
         [] i.kind = "ok" -> <<[type |-> i.type, version |-> i.version, view |-> i.view]>>
                               \o Expected(Tail(items))

\* RoomToRead: whatever the packets need, there is room in the buffer when
\* bufferParse() is done.  POSIXParser::read() counts its calls of ::read()
\* to end its loop and makes none without room: it would spin for ever
\* (POSIXParser.cc:61, ADARAParser.cc:141).
RoomToRead == open => bufferFillLength(ps) > 0

\* PacketsIntact: however the bytes are cut into reads, and on every
\* connection, the receiver is handed exactly the packets sent, decoded to
\* what was encoded, in order, up to the first it must not accept; nothing
\* is missing once all bytes are read, and there is always room to go on
\* (ADARAParser.cc:70, ADARAPackets.cc).
PacketsIntact ==
  setting # "prologue" =>
    LET due == Expected(From(base))
    IN  /\ IsPrefix(received, due)
        /\ open /\ wire = <<>> => received = due
        /\ RoomToRead

\* PrologueCurrent: what every file starts with says what the operators last
\* asked for, also after a restart from the auto-save file and although the
\* packets are kept and only changed sections rewritten; a change of the run
\* information during a run is written once (BeamMonitorConfig.cc:796,
\* DetectorBankSet.cc:1081, RunInfo.cc:829).
PrologueCurrent ==
  setting = "prologue" =>
    LET due == Expected(script)
    IN  IsPrefix(received, due) /\ (wire = <<>> => open /\ received = due)
=============================================================================
