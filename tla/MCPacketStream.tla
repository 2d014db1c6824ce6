--------------------------- MODULE MCPacketStream ---------------------------
(***************************************************************************)
(* The instance of PacketStream TLC checks.                                *)
(***************************************************************************)
EXTENDS PacketStream

Half == <<0, 1071644672>>
One == <<0, 1072693248>>

mon(id, format) == [id |-> id, format |-> format, tofOffset |-> 0, tofMax |-> -1,
                    tofBin |-> 1, distance |-> ZeroDouble]
bankset(name, banks) == [name |-> name, banklist |-> banks, flags |-> 1, tofOffset |-> 0,
                         tofMax |-> -1, tofBin |-> 1, throttle |-> ZeroDouble, suffix |-> <<116>>]
MCMonitors == <<mon(1, EVENT_FORMAT), mon(2, HISTO_FORMAT)>>
MCBankSets == <<bankset(<<65>>, <<1, 2>>), bankset(<<66>>, <<>>)>>

LongName == [k \in 1..17 |-> 64 + k]

MCPuts ==
  {<<<<"bm", 1, "format">>, HISTO_FORMAT>>, <<<<"bm", 1, "format">>, 0>>,
   <<<<"bm", 2, "tofMax">>, 7>>, <<<<"bm", 2, "distance">>, Half>>, <<AlwaysPV, FALSE>>,
   <<<<"bs", 1, "name">>, LongName>>, <<<<"bs", 1, "banklist">>, <<3, 4>>>>,
   <<<<"bs", 2, "throttle">>, Half>>, <<<<"bs", 2, "throttle">>, One>>,
   <<<<"bs", 2, "suffix">>, <<97, 59, 59, 98>>>>,
   <<RI("ProposalId"), <<49>>>>, <<RI("ProposalId"), <<>>>>,
   <<RI("RunTitle"), <<65, 10, 66>>>>, <<MassPV, One>>, <<UserInfoPV, <<85>>>>}

\* framing: the smallest buffer holds 6 words, the largest 13
hello(v) == Item("CLIENT_HELLO", v, [i \in 1..v + 1 |-> i],
                 [requestedStartTime |-> 1, clientFlags |-> IF v = 0 THEN 0 ELSE 2])
other(kind, type, words) == [kind |-> kind, words |-> words, type |-> type]
list == Item("SOURCE_LIST", 0, <<1, 2, 3, 4, 5, 6, 7, 8, 9>>, <<1, 2, 3, 4, 5, 6, 7, 8, 9>>)
MCKinds ==
  {hello(0), hello(1), list,
   other("oversize", "SOURCE_LIST", Packet("SOURCE_LIST", 0, [i \in 1..10 |-> 0])),
   other("unknown", "none", <<0, 1234 * 256, 0, 0>>),
   other("bad", "CLIENT_HELLO", Packet("CLIENT_HELLO", 0, <<>>))}

-----------------------------------------------------------------------------
(* decoding: values at the ends of their fields *)

beam == [dataFlags |-> 31, flavor |-> 5, pulseCharge |-> 16777215, badVeto |-> TRUE,
         badCycle |-> FALSE, timingStatus |-> 255, vetoFlags |-> 4095, cycle |-> 1023,
         intraPulseTime |-> -1, tofCorrected |-> TRUE, tofOffset |-> 2147483647]
events(n) == [k \in 1..n |-> [tof |-> k, pixel |-> -k]]
raw(n) == [sourceID |-> 7, endOfPulse |-> TRUE, pulseSeq |-> 32767, sourceSeq |-> 65535,
           beam |-> beam, events |-> events(n)]
rtdl == [beam |-> beam, ringPeriod |-> 16777215, FNA |-> [i \in 1..25 |-> 255 - i],
         frameData |-> [i \in 1..25 |-> 16777215 - i]]
pulse == [pulseCharge |-> 1, pulseEnergy |-> 2, cycle |-> 3, vetoFlags |-> 4095, flags |-> 1048575]
bank(id, n) == [id |-> id, events |-> events(n)]
source(id, banks) == [id |-> id, time |-> 1, corrected |-> id = 1, tofOffset |-> 5, banks |-> banks]
sourceLists ==
  {<<>>, <<source(1, <<>>)>>, <<source(1, <<bank(1, 0)>>)>>, <<source(1, <<bank(1, 1)>>)>>,
   <<source(1, <<>>), source(2, <<bank(1, 0), bank(2, 2)>>)>>,
   <<source(1, <<bank(1, 2), bank(2, 0)>>), source(2, <<bank(-1, 1), bank(-2, 1)>>)>>}
monitor(id, n) == [id |-> id, source |-> 9, tofOffset |-> 1, corrected |-> TRUE,
  events |-> [k \in 1..n |-> [risingEdge |-> k = 1, cycle |-> 1023, tof |-> 2097151]]]
text(n) == [k \in 1..n |-> 256 - k]
var == [devId |-> 3, varId |-> 4, status |-> 65535, severity |-> 3]
bits == <<-1, 5>>
file(run, paused) == [runNumber |-> run, startTime |-> 11, fileNumber |-> 4095,
  modeNumber |-> 4095, pauseFileNumber |-> 5, paused |-> paused, addendumFileNumber |-> 6,
  addendum |-> ~paused]
statusView(f, v) ==
  [runNumber |-> f.runNumber, runStart |-> IF f.runNumber = 0 THEN 0 ELSE 11,
   fileNumber |-> 16777215, status |-> 3,
   pauseFileNumber |-> IF v = 0 THEN 0 ELSE 5,
   paused |-> IF v # 0 /\ f.paused THEN 1 ELSE 0,
   addendumFileNumber |-> IF v = 0 THEN 0 ELSE 6,
   addendum |-> IF v # 0 /\ f.addendum THEN 1 ELSE 0]
mult(values) == [var |-> var, tofs |-> [k \in DOMAIN values |-> k], values |-> values]
done == [targetStationNumber |-> 2, id |-> text(1), shortName |-> text(2), longName |-> text(3)]

Sizes == 0..5
EventSamples ==
  {Item("RAW_EVENT", 1, EncodeRawData(raw(n)), raw(n)) : n \in 0..2}
  \cup {Item("MAPPED_EVENT", 1, EncodeRawData(raw(2)), raw(2))}
  \cup {Item("RAW_EVENT", 0, EncodeRawData(raw(1)), [raw(1) EXCEPT !.beam.dataFlags = 0])}
  \cup {Item("RTDL", 1, EncodeRTDL(rtdl), rtdl)}
  \cup {Item("BANKED_EVENT", 1, buildBankedPacket([pulse |-> pulse, sources |-> s]),
             BankedView([pulse |-> pulse, sources |-> s])) : s \in sourceLists}
  \cup {Item("BANKED_EVENT_STATE", 0, EncodePulse(pulse) \o <<1, 2>>,
             [pulse |-> pulse, sections |-> <<1, 2>>])}
  \cup {LET d == [pulse |-> pulse, monitors |-> m]
        IN  Item("BEAM_MONITOR_EVENT", 1, buildMonitorPacket(d), d) :
          m \in {<<>>, <<monitor(1023, 0)>>, <<monitor(1, 2), monitor(1022, 1)>>}}
  \cup {Item("PIXEL_MAPPING", 0, <<1, 2>>, [mappingData |-> <<1, 2>>]),
        Item("PIXEL_MAPPING_ALT", 0, <<2, 3>>, [numBanks |-> 2, mappingData |-> <<3>>])}
RunSamples ==
  {Item("RUN_STATUS", v, addRunStatus(file(run, paused), 3, v = 0), statusView(file(run, paused), v)) :
     v \in {0, 1}, run \in {0, 9}, paused \in BOOLEAN}
  \cup {Item("GEOMETRY", 0, EncodeGeometry(text(n)), [info |-> text(n)]) : n \in Sizes}
  \cup {Item("TRANS_COMPLETE", 0, buildSendBuffer([status |-> 32769, reason |-> text(n)]),
             [status |-> 32769, reason |-> text(n)]) : n \in Sizes}
  \cup {LET d == [requestedStartTime |-> 0, clientFlags |-> -1]
        IN  Item("CLIENT_HELLO", 1, EncodeClientHello(d), d)}
  \cup {Item("STREAM_ANNOTATION", 0, emitPacket(t, 6, text(n)),
             [resetHint |-> t \in {SCAN_START, SCAN_STOP}, marker_type |-> t,
              scanIndex |-> IF t = OVERALL_RUN_COMMENT THEN 0 ELSE 6, comment |-> text(n)]) :
          t \in {0, SCAN_START, OVERALL_RUN_COMMENT}, n \in {0, 3}}
  \cup {Item("SYNC", 0, addSync(99),
             [signature |-> SyncSignature, fileOffset |-> <<99, 0>>, comment |-> <<>>]),
        Item("HEARTBEAT", 0, <<>>, <<>>), Item("DATA_DONE", 0, <<>>, <<>>),
        Item("BEAMLINE_INFO", 1, EncodeBeamlineInfo(done), done)}
ValueSamples ==
  {Item("DEVICE_DESC", 0, buildDDP([devId |-> 1, description |-> text(n)]),
        [devId |-> 1, description |-> text(n)]) : n \in Sizes}
  \cup {Item("DEVICE_DESC", 1, <<1, 5, 0>>, [devId |-> 1, description |-> BeyondEnd])}
  \cup {Item("VAR_VALUE_U32", 0, buildVVP("VAR_VALUE_U32", d), d) : d \in {[var |-> var, value |-> -1]}}
  \cup {Item("VAR_VALUE_DOUBLE", 0, buildVVP("VAR_VALUE_DOUBLE", d), d) :
          d \in {[var |-> var, value |-> bits]}}
  \cup {Item("VAR_VALUE_STRING", 0, buildVVP("VAR_VALUE_STRING", d), d) :
          d \in {[var |-> var, value |-> text(n)] : n \in Sizes}}
  \cup {Item("VAR_VALUE_U32_ARRAY", 0, buildVVP("VAR_VALUE_U32_ARRAY", d), d) :
          d \in {[var |-> var, value |-> v] : v \in {<<>>, <<-1, 1>>}}}
  \cup {Item("VAR_VALUE_DOUBLE_ARRAY", 0, buildVVP("VAR_VALUE_DOUBLE_ARRAY", d), d) :
          d \in {[var |-> var, value |-> v] : v \in {<<>>, <<bits, bits>>}}}
MultSamples ==
  LET many(type, values) == Item(type, 0, EncodeMult(type, mult(values)), mult(values)) IN
  {many("MULT_VAR_VALUE_U32", v) : v \in {<<>>, <<-1, 2>>}}
  \cup {many("MULT_VAR_VALUE_DOUBLE", v) : v \in {<<>>, <<bits, bits>>}}
  \cup {many("MULT_VAR_VALUE_STRING", <<text(n), text(m)>>) : n \in Sizes, m \in {0, 5}}
  \cup {many("MULT_VAR_VALUE_U32_ARRAY", v) : v \in {<<>>, <<<<>>, <<1, 2>>>>, <<<<3>>, <<>>>>}}
  \cup {many("MULT_VAR_VALUE_DOUBLE_ARRAY", v) : v \in {<<<<>>, <<bits>>>>, <<<<bits, bits>>, <<>>>>}}

MCSamples == EventSamples \cup RunSamples \cup ValueSamples \cup MultSamples
=============================================================================
