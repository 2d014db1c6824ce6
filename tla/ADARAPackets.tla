---------------------------- MODULE ADARAPackets ----------------------------
(***************************************************************************)
(* The ADARA packet formats of src/common/ADARAPackets.cc and .h: for each *)
(* packet class the test its constructor applies (the constructor throws   *)
(* invalid_packet when it fails) and the values its accessors return, and  *)
(* for the packets the system itself writes the way they are laid out.     *)
(*                                                                         *)
(* A payload is a sequence of 32-bit words.  A word is kept as its two's   *)
(* complement value, so bit 31 is the sign; a string is a sequence of      *)
(* bytes and a double a pair of words nobody looks into.  The classes      *)
(* index from 0: F(p, i) is m_fields[i].                                   *)
(***************************************************************************)
EXTENDS Integers, Sequences, SequencesExt

F(p, i) == p[i + 1]

Bits(w, shift, n) == (w \div 2^shift) % 2^n
Low31(w) == IF w < 0 THEN (w + 2147483647) + 1 ELSE w

\* w << shift, cut to 32 bits
Shl(w, shift) == LET m == w % 2^(32 - shift)
                 IN  (IF m >= 2^(31 - shift) THEN m - 2^(32 - shift) ELSE m) * 2^shift
Bit31(b) == IF b THEN -2147483647 - 1 ELSE 0
Bit(b, i) == IF b THEN 2^i ELSE 0

WordsFor(n) == (n + 3) \div 4

\* the bytes of s, four to a word, padded with zeros
PackString(s) ==
  LET b(i) == IF i <= Len(s) THEN s[i] ELSE 0
  IN  [k \in 1..WordsFor(Len(s)) |->
         b(4*k - 3) + 256 * b(4*k - 2) + 65536 * b(4*k - 1) + Shl(b(4*k), 24)]

\* the n bytes that start at byte b of the payload
Bytes(p, b, n) == [k \in 1..n |-> Bits(F(p, (b + k - 1) \div 4), 8 * ((b + k - 1) % 4), 8)]

Words(p, i, n) == [k \in 1..n |-> F(p, i + k - 1)]
Doubles(p, i, n) == [k \in 1..n |-> Words(p, i + 2*(k - 1), 2)]
Flat(seqs) == FoldLeft(LAMBDA a, s : a \o s, <<>>, seqs)

PayloadBytes(p) == 4 * Len(p)
HasWords(p, n) == Len(p) >= n
HasBytes(p, n) == PayloadBytes(p) >= n

\* a packet of version `v' must have exactly one of the lengths `known'
\* lists for the versions up to the current one, a newer one at least that
\* of the current version
HasLength(v, p, known) ==
  IF v < Len(known) THEN Len(p) = known[v + 1] ELSE Len(p) >= known[Len(known)]

-----------------------------------------------------------------------------
(* The header, and the types *)

TypeCode ==
  [RAW_EVENT |-> 0, RTDL |-> 1, SOURCE_LIST |-> 2, MAPPED_EVENT |-> 3,
   BANKED_EVENT |-> 16384, BEAM_MONITOR_EVENT |-> 16385, PIXEL_MAPPING |-> 16386,
   RUN_STATUS |-> 16387, RUN_INFO |-> 16388, TRANS_COMPLETE |-> 16389,
   CLIENT_HELLO |-> 16390, STREAM_ANNOTATION |-> 16391, SYNC |-> 16392,
   HEARTBEAT |-> 16393, GEOMETRY |-> 16394, BEAMLINE_INFO |-> 16395,
   DATA_DONE |-> 16396, BEAM_MONITOR_CONFIG |-> 16397, DETECTOR_BANK_SETS |-> 16398,
   BANKED_EVENT_STATE |-> 16640, PIXEL_MAPPING_ALT |-> 16642, DEVICE_DESC |-> 32768,
   VAR_VALUE_U32 |-> 32769, VAR_VALUE_DOUBLE |-> 32770, VAR_VALUE_STRING |-> 32771,
   VAR_VALUE_U32_ARRAY |-> 32772, VAR_VALUE_DOUBLE_ARRAY |-> 32773,
   MULT_VAR_VALUE_U32 |-> 33025, MULT_VAR_VALUE_DOUBLE |-> 33026,
   MULT_VAR_VALUE_STRING |-> 33027, MULT_VAR_VALUE_U32_ARRAY |-> 33028,
   MULT_VAR_VALUE_DOUBLE_ARRAY |-> 33029]

HeaderWords == 4

PacketHeader(p) ==
  [payload_len |-> F(p, 0), base_type |-> F(p, 1) \div 256, version |-> F(p, 1) % 256,
   sec |-> F(p, 2), nsec |-> F(p, 3)]

Packet(type, version, payload) ==
  <<PayloadBytes(payload), TypeCode[type] * 256 + version, 0, 0>> \o payload

-----------------------------------------------------------------------------
(* Events *)

Pairs(p, i, n) == [k \in 1..n |-> [tof |-> F(p, i + 2*(k - 1)), pixel |-> F(p, i + 2*k - 1)]]

RawDataValid(v, p) == HasWords(p, 6)
MappedDataValid(v, p) == RawDataValid(v, p) /\ HasWords(p, 6)

\* the beam words of a raw event packet start at field 2, of an RTDL at field 0
BeamWords(v, p, i) ==
  [dataFlags |-> IF v >= 1 THEN Bits(F(p, i), 27, 5) ELSE 0,
   flavor |-> Bits(F(p, i), 24, 3), pulseCharge |-> Bits(F(p, i), 0, 24),
   badVeto |-> F(p, i + 1) < 0, badCycle |-> Bits(F(p, i + 1), 30, 1) = 1,
   timingStatus |-> Bits(F(p, i + 1), 22, 8), vetoFlags |-> Bits(F(p, i + 1), 10, 12),
   cycle |-> Bits(F(p, i + 1), 0, 10), intraPulseTime |-> F(p, i + 2),
   tofCorrected |-> F(p, i + 3) < 0, tofOffset |-> Low31(F(p, i + 3))]

RawDataPkt(v, p) ==
  [sourceID |-> F(p, 0), endOfPulse |-> F(p, 1) < 0, pulseSeq |-> Bits(F(p, 1), 16, 15),
   sourceSeq |-> Bits(F(p, 1), 0, 16), beam |-> BeamWords(v, p, 2),
   events |-> Pairs(p, 6, (PayloadBytes(p) - 24) \div 8)]

RTDLValid(v, p) == HasLength(v, p, <<30, 30>>) /\ Bits(F(p, 4), 24, 8) = 4

RTDLPkt(v, p) ==
  [beam |-> BeamWords(v, p, 0), ringPeriod |-> Bits(F(p, 4), 0, 24),
   FNA |-> [i \in 1..25 |-> Bits(F(p, 4 + i), 24, 8)],
   frameData |-> [i \in 1..25 |-> Bits(F(p, 4 + i), 0, 24)]]

SourceListPkt(v, p) == p

EncodeBeam(b) ==
  <<Shl(b.dataFlags, 27) + Shl(b.flavor, 24) + b.pulseCharge,
    Bit31(b.badVeto) + Bit(b.badCycle, 30) + Shl(b.timingStatus, 22)
      + Shl(b.vetoFlags, 10) + b.cycle,
    b.intraPulseTime, Bit31(b.tofCorrected) + b.tofOffset>>

EncodeEvents(events) == Flat([k \in DOMAIN events |-> <<events[k].tof, events[k].pixel>>])

EncodeRawData(d) ==
  <<d.sourceID, Bit31(d.endOfPulse) + Shl(d.pulseSeq, 16) + d.sourceSeq>>
    \o EncodeBeam(d.beam) \o EncodeEvents(d.events)

EncodeRTDL(d) ==
  EncodeBeam(d.beam) \o <<Shl(4, 24) + d.ringPeriod>>
    \o [i \in 1..25 |-> Shl(d.FNA[i], 24) + d.frameData[i]]

(* Banked events: the header fields, then per source four words and its     *)
(* banks, per bank two words and its events.  firstEvent() and nextEvent()  *)
(* walk the packet with an iterator; the accessors give the bank and the    *)
(* source section of the current event.                                     *)

PulseFields(p) ==
  [pulseCharge |-> F(p, 0), pulseEnergy |-> F(p, 1), cycle |-> F(p, 2),
   vetoFlags |-> Bits(F(p, 3), 20, 12), flags |-> Bits(F(p, 3), 0, 20)]

BankedEventValid(v, p) == HasWords(p, 4)
BankedEventStateValid(v, p) == HasWords(p, 4)

\* cur: m_curFieldIndex, at: m_curEvent is set
firstEventInBank(p, it) ==
  [it EXCEPT !.bankStart = it.cur, !.bankId = F(p, it.cur), !.eventCount = F(p, it.cur + 1),
             !.cur = it.cur + 2, !.at = F(p, it.cur + 1) > 0]

RECURSIVE BanksFrom(_, _)
BanksFrom(p, it) ==
  IF it.bankNum > it.bankCount \/ it.at THEN it
  ELSE LET b == firstEventInBank(p, it)
       IN  IF b.at THEN b ELSE BanksFrom(p, [b EXCEPT !.bankNum = @ + 1])

firstEventInSource(p, it) ==
  LET banks == F(p, it.cur + 3)
  IN  IF banks > 0
      THEN BanksFrom(p, [it EXCEPT !.bankCount = banks, !.bankNum = 1, !.cur = it.cur + 4,
                                   !.tofOffset = Low31(F(p, it.cur + 2)) # 0,
                                   !.corrected = F(p, it.cur + 2) < 0])
      ELSE [it EXCEPT !.bankCount = banks, !.cur = it.cur + 4, !.at = FALSE]

RECURSIVE SourcesFrom(_, _)
SourcesFrom(p, it) ==
  IF it.at \/ it.cur > Len(p) - 1 THEN it ELSE SourcesFrom(p, firstEventInSource(p, it))

firstEvent(p) ==
  SourcesFrom(p, [cur |-> 4, at |-> FALSE, bankCount |-> 0, bankNum |-> 0, bankStart |-> 0,
                  bankId |-> 0, eventCount |-> 0, tofOffset |-> FALSE, corrected |-> FALSE])

nextEvent(p, it) ==
  LET n == [it EXCEPT !.cur = @ + 2]
      b == BanksFrom(p, [n EXCEPT !.at = FALSE, !.bankNum = @ + 1])
  IN  IF n.cur < n.bankStart + 2 + 2 * n.eventCount THEN n
      ELSE IF b.at \/ b.cur >= Len(p) - 1 THEN b ELSE SourcesFrom(p, b)

RECURSIVE EventsFrom(_, _)
EventsFrom(p, it) ==
  IF ~it.at THEN <<>>
  ELSE <<[tof |-> F(p, it.cur), pixel |-> F(p, it.cur + 1), bank |-> it.bankId,
          corrected |-> it.corrected]>> \o EventsFrom(p, nextEvent(p, it))

BankedEventPkt(v, p) == [pulse |-> PulseFields(p), events |-> EventsFrom(p, firstEvent(p))]

\* readers of the packets with states walk the sections themselves
BankedEventStatePkt(v, p) == [pulse |-> PulseFields(p), sections |-> SubSeq(p, 5, Len(p))]

EncodePulse(d) ==
  <<d.pulseCharge, d.pulseEnergy, d.cycle, Shl(d.vetoFlags, 20) + d.flags>>

\* sources: [id, time, corrected, tofOffset, banks], banks: [id, events]
buildBankedPacket(d) ==
  EncodePulse(d.pulse)
    \o Flat([s \in DOMAIN d.sources |->
         LET src == d.sources[s] IN
         <<src.id, src.time, Bit31(src.corrected) + src.tofOffset, Len(src.banks)>>
           \o Flat([b \in DOMAIN src.banks |->
                 <<src.banks[b].id, Len(src.banks[b].events)>>
                   \o EncodeEvents(src.banks[b].events)])])

\* what a reader of that packet should see
BankedView(d) ==
  [pulse |-> d.pulse,
   events |-> Flat([s \in DOMAIN d.sources |->
     Flat([b \in DOMAIN d.sources[s].banks |->
       LET bank == d.sources[s].banks[b] IN
       [e \in DOMAIN bank.events |->
          [tof |-> bank.events[e].tof, pixel |-> bank.events[e].pixel, bank |-> bank.id,
           corrected |-> d.sources[s].corrected]]])])]

(* Beam monitor events: sections of three words and one word per event *)

BeamMonitorValid(v, p) == HasWords(p, 4)

\* the index of the section after the one at s, 0 when there is none
nextSection(p, s) ==
  LET n == IF s = 0 THEN 4 ELSE s + 3 + Bits(F(p, s), 0, 22)
  IN  IF 4 * n < PayloadBytes(p) THEN n ELSE 0

MonitorEvents(p, s) ==
  [k \in 1..Bits(F(p, s), 0, 22) |->
     LET raw == F(p, s + 2 + k)
     IN  [risingEdge |-> raw < 0, cycle |-> Bits(raw, 21, 10), tof |-> Bits(raw, 0, 21)]]

RECURSIVE SectionsFrom(_, _)
SectionsFrom(p, s) ==
  IF s = 0 THEN <<>>
  ELSE <<[id |-> Bits(F(p, s), 22, 10), source |-> F(p, s + 1),
          tofOffset |-> Low31(F(p, s + 2)), corrected |-> F(p, s + 2) < 0,
          events |-> MonitorEvents(p, s)]>> \o SectionsFrom(p, nextSection(p, s))

BeamMonitorPkt(v, p) ==
  [pulse |-> PulseFields(p), monitors |-> SectionsFrom(p, nextSection(p, 0))]

buildMonitorPacket(d) ==
  EncodePulse(d.pulse)
    \o Flat([m \in DOMAIN d.monitors |->
         LET mon == d.monitors[m] IN
         <<Shl(mon.id, 22) + Len(mon.events), mon.source,
           Bit31(mon.corrected) + mon.tofOffset>>
           \o [e \in DOMAIN mon.events |-> Bit31(mon.events[e].risingEdge)
                 + Shl(mon.events[e].cycle, 21) + mon.events[e].tof]])

PixelMappingPkt(v, p) == [mappingData |-> p]
PixelMappingAltPkt(v, p) == [numBanks |-> F(p, 0), mappingData |-> SubSeq(p, 2, Len(p))]

-----------------------------------------------------------------------------
(* Runs and their context *)

RunStatusValid(v, p) == HasLength(v, p, <<3, 5>>)

RunStatusPkt(v, p) ==
  LET part(i, shift, n) == IF v >= 1 THEN Bits(F(p, i), shift, n) ELSE 0
  IN  [runNumber |-> F(p, 0), runStart |-> F(p, 1),
       fileNumber |-> Bits(F(p, 2), 0, 24), status |-> Bits(F(p, 2), 24, 8),
       pauseFileNumber |-> part(3, 0, 24), paused |-> part(3, 24, 8),
       addendumFileNumber |-> part(4, 0, 24), addendum |-> part(4, 24, 8)]

\* the run start of a file of no run is left 0; ancient: the version 0 packet
addRunStatus(f, status, ancient) ==
  <<f.runNumber, IF f.runNumber # 0 THEN f.startTime ELSE 0,
    Bits(f.fileNumber, 0, 12) + Shl(Bits(f.modeNumber, 0, 12), 12) + Shl(status, 24)>>
  \o (IF ancient THEN <<>>
      ELSE <<f.pauseFileNumber + Bit(f.paused, 24), f.addendumFileNumber + Bit(f.addendum, 24)>>)

SizedString(p, i) == HasWords(p, i + 1) /\ HasBytes(p, F(p, i) + 4 * (i + 1))
StringAt(p, i) == Bytes(p, 4 * (i + 1), F(p, i))
EncodeString(s) == <<Len(s)>> \o PackString(s)

RunInfoValid(v, p) == SizedString(p, 0)
RunInfoPkt(v, p) == [info |-> StringAt(p, 0)]

GeometryValid(v, p) == SizedString(p, 0)
GeometryPkt(v, p) == [info |-> StringAt(p, 0)]
EncodeGeometry(contents) == EncodeString(contents)

TransCompleteValid(v, p) == HasWords(p, 1) /\ HasBytes(p, Bits(F(p, 0), 0, 16) + 4)
TransCompletePkt(v, p) ==
  [status |-> Bits(F(p, 0), 16, 16), reason |-> Bytes(p, 4, Bits(F(p, 0), 0, 16))]
buildSendBuffer(d) ==
  <<Shl(d.status, 16) + Bits(Len(d.reason), 0, 16)>> \o PackString(d.reason)

ClientHelloValid(v, p) == HasLength(v, p, <<1, 2>>)
ClientHelloPkt(v, p) ==
  [requestedStartTime |-> F(p, 0), clientFlags |-> IF v > 0 THEN F(p, 1) ELSE 0]
\* the analyzer asks for everything from now on, paused data included
EncodeClientHello(d) == <<d.requestedStartTime, d.clientFlags>>

AnnotationValid(v, p) == HasWords(p, 2) /\ HasBytes(p, Bits(F(p, 0), 0, 16) + 8)
AnnotationPkt(v, p) ==
  [resetHint |-> F(p, 0) < 0, marker_type |-> Bits(F(p, 0), 16, 15),
   scanIndex |-> F(p, 1), comment |-> Bytes(p, 8, Bits(F(p, 0), 0, 16))]

SCAN_START == 1
SCAN_STOP == 2
OVERALL_RUN_COMMENT == 5

MaxComment == 65535

emitPacket(type, scanIndex, full_comment) ==
  LET comment == IF Len(full_comment) > MaxComment THEN SubSeq(full_comment, 1, MaxComment)
                 ELSE full_comment
  IN <<Shl(type, 16) + Bit31(type \in {SCAN_START, SCAN_STOP}) + Len(comment),
    IF type = OVERALL_RUN_COMMENT THEN 0 ELSE scanIndex>> \o PackString(comment)

SyncValid(v, p) == HasWords(p, 7) /\ HasBytes(p, F(p, 6) + 28)
SyncPkt(v, p) ==
  [signature |-> Bytes(p, 0, 16), fileOffset |-> Words(p, 4, 2), comment |-> Bytes(p, 28, F(p, 6))]

SyncSignature == <<83, 78, 83, 65, 68, 65, 82, 65, 79, 82, 78, 76, 0, 0, 240, 127>>
\* the offset is the size of the file before the packet; low word first
addSync(size) == PackString(SyncSignature) \o <<size, 0, 0>>

HeartbeatValid(v, p) == (Len(p) = 0) <=> (v = 0)
DataDoneValid(v, p) == (Len(p) = 0) <=> (v = 0)

BeamlineInfoValid(v, p) ==
  /\ HasWords(p, 1)
  /\ HasBytes(p, Bits(F(p, 0), 0, 8) + Bits(F(p, 0), 8, 8) + Bits(F(p, 0), 16, 8) + 4)
BeamlineInfoPkt(v, p) ==
  LET long == Bits(F(p, 0), 0, 8)
      short == Bits(F(p, 0), 8, 8)
      id == Bits(F(p, 0), 16, 8)
      station == Bits(F(p, 0), 24, 8)
  IN  [targetStationNumber |-> IF station = 0 THEN 1 ELSE station,
       id |-> Bytes(p, 4, id), shortName |-> Bytes(p, 4 + id, short),
       longName |-> Bytes(p, 4 + id + short, long)]
EncodeBeamlineInfo(d) ==
  <<Len(d.longName) + Shl(Len(d.shortName), 8) + Shl(Len(d.id), 16)
      + Shl(d.targetStationNumber, 24)>> \o PackString(d.id \o d.shortName \o d.longName)

-----------------------------------------------------------------------------
(* Configuration *)

EVENT_FORMAT == 1
HISTO_FORMAT == 2

MonitorSection == 6   \* four words and a double

BeamMonitorConfigValid(v, p) ==
  LET known(n) == <<1 + n * MonitorSection, 1 + n * MonitorSection + n>>
  IN  HasLength(v, p, known(F(p, 0)))

BeamMonitorConfigPkt(v, p) ==
  LET n == F(p, 0)
      at(i) == 1 + (i - 1) * MonitorSection
  IN  [i \in 1..n |->
         [id |-> F(p, at(i)), tofOffset |-> F(p, at(i) + 1), tofMax |-> F(p, at(i) + 2),
          tofBin |-> F(p, at(i) + 3), distance |-> Words(p, at(i) + 4, 2),
          format |-> IF v >= 1 THEN F(p, 1 + n * MonitorSection + i - 1) ELSE HISTO_FORMAT]]

countFormats(mons) ==
  [numEvent |-> Len(SelectSeq(mons, LAMBDA m : m.format = EVENT_FORMAT)),
   numHisto |-> Len(SelectSeq(mons, LAMBDA m : m.format = HISTO_FORMAT))]

NameWords == 4       \* SET_NAME_SIZE and THROTTLE_SUFFIX_SIZE are 16 bytes
BeforeBanks == NameWords + 2
AfterBanks == 3 + 2 + NameWords

\* the offsets of the sections, as the constructor accumulates them, until a
\* section would not fit even without its banks
SectionWalk(p) ==
  FoldLeft(LAMBDA a, k :
             IF ~a.ok \/ ~HasWords(p, a.next + BeforeBanks + AfterBanks)
             THEN [a EXCEPT !.ok = FALSE]
             ELSE [a EXCEPT !.offsets = Append(@, a.next),
                            !.next = @ + BeforeBanks + F(p, a.next + NameWords + 1) + AfterBanks],
           [offsets |-> <<>>, next |-> 1, ok |-> TRUE], [k \in 1..F(p, 0) |-> k])

DetectorBankSetsValid(v, p) ==
  /\ HasWords(p, 1)
  /\ SectionWalk(p).ok
  /\ F(p, 0) >= 1 => HasWords(p, SectionWalk(p).next)

\* a C string in a field of 16 bytes ends at its first zero
FixedString(p, i) ==
  LET b == Bytes(p, 4 * i, 4 * NameWords)
      ends == {k \in 1..Len(b) : b[k] = 0}
  IN  IF ends = {} THEN b
      ELSE SubSeq(b, 1, (CHOOSE k \in ends : \A j \in ends : k <= j) - 1)

DetectorBankSetsPkt(v, p) ==
  [i \in 1..F(p, 0) |->
     LET s == SectionWalk(p).offsets[i]
         count == F(p, s + NameWords + 1)
         after == s + BeforeBanks + count
     IN  [name |-> FixedString(p, s), flags |-> F(p, s + NameWords),
          banklist |-> Words(p, s + BeforeBanks, count), tofOffset |-> F(p, after),
          tofMax |-> F(p, after + 1), tofBin |-> F(p, after + 2),
          throttle |-> Words(p, after + 3, 2), suffix |-> FixedString(p, after + 5)]]

-----------------------------------------------------------------------------
(* Variable values *)

(* A newer description that is longer than the packet is not refused: it is *)
(* read on beyond the end, where nothing is known of the bytes.             *)
BeyondEnd == "beyond the end"
DeviceDescriptorValid(v, p) == IF v = 0 THEN SizedString(p, 1) ELSE HasWords(p, 2)
DeviceDescriptorPkt(v, p) ==
    [devId |-> F(p, 0), description |-> IF SizedString(p, 1) THEN StringAt(p, 1) ELSE BeyondEnd]
buildDDP(d) == <<d.devId>> \o EncodeString(d.description)

validate_status(s) == s \in 0..21 \cup {65534, 65535}
validate_severity(s) == s \in 0..3 \cup {65535}

VarFields(p) ==
  [devId |-> F(p, 0), varId |-> F(p, 1), status |-> Bits(F(p, 2), 16, 16),
   severity |-> Bits(F(p, 2), 0, 16)]
VarValid(p) == validate_status(VarFields(p).status) /\ validate_severity(VarFields(p).severity)

VariableU32Valid(v, p) == HasLength(v, p, <<4>>) /\ VarValid(p)
VariableU32Pkt(v, p) == [var |-> VarFields(p), value |-> F(p, 3)]

VariableDoubleValid(v, p) == HasLength(v, p, <<5>>) /\ VarValid(p)
VariableDoublePkt(v, p) == [var |-> VarFields(p), value |-> Words(p, 3, 2)]

VariableStringValid(v, p) == SizedString(p, 3) /\ VarValid(p)
VariableStringPkt(v, p) == [var |-> VarFields(p), value |-> StringAt(p, 3)]

VariableU32ArrayValid(v, p) == HasWords(p, 4) /\ HasWords(p, F(p, 3) + 4) /\ VarValid(p)
VariableU32ArrayPkt(v, p) == [var |-> VarFields(p), value |-> Words(p, 4, F(p, 3))]

VariableDoubleArrayValid(v, p) == HasWords(p, 4) /\ HasWords(p, 2 * F(p, 3) + 4) /\ VarValid(p)
VariableDoubleArrayPkt(v, p) == [var |-> VarFields(p), value |-> Doubles(p, 4, F(p, 3))]

EncodeVar(d) == <<d.devId, d.varId, Shl(d.status, 16) + d.severity>>
buildVVP(type, d) ==
  EncodeVar(d.var) \o
  CASE type = "VAR_VALUE_U32" -> <<d.value>>
    [] type = "VAR_VALUE_DOUBLE" -> d.value
    [] type = "VAR_VALUE_STRING" -> EncodeString(d.value)
    [] type = "VAR_VALUE_U32_ARRAY" -> <<Len(d.value)>> \o d.value
    [] type = "VAR_VALUE_DOUBLE_ARRAY" -> <<Len(d.value)>> \o Flat(d.value)

(* Several values of a variable in one packet, each with its time of flight *)

MultVariableU32Valid(v, p) == HasWords(p, 4) /\ HasWords(p, 2 * F(p, 3) + 4) /\ VarValid(p)
MultVariableU32Pkt(v, p) ==
  [var |-> VarFields(p), tofs |-> [k \in 1..F(p, 3) |-> F(p, 2 + 2*k)],
   values |-> [k \in 1..F(p, 3) |-> F(p, 3 + 2*k)]]

MultVariableDoubleValid(v, p) == HasWords(p, 4) /\ HasWords(p, 3 * F(p, 3) + 4) /\ VarValid(p)
MultVariableDoublePkt(v, p) ==
  [var |-> VarFields(p), tofs |-> [k \in 1..F(p, 3) |-> F(p, 1 + 3*k)],
   values |-> [k \in 1..F(p, 3) |-> Words(p, 2 + 3*k, 2)]]

\* The walk over values of different lengths: ptr is the next word, ok says
\* that every size read so far fits what remains of the payload.
\* bytes(size) and words(size) are what a value of that size needs and what
\* the pointer moves by; value(ptr, size) reads it.
MultWalk(p, bytes(_), words(_), value(_, _)) ==
  FoldLeft(LAMBDA a, k :
             IF ~a.ok \/ ~HasWords(p, a.ptr + 2) THEN [a EXCEPT !.ok = FALSE]
             ELSE LET size == F(p, a.ptr + 1)
                      fits == PayloadBytes(p) - 4 * a.ptr >= bytes(size) + 8
                  IN  IF ~fits THEN [a EXCEPT !.ok = FALSE]
                      ELSE [a EXCEPT !.ptr = @ + 2 + words(size),
                                     !.tofs = Append(@, F(p, a.ptr)),
                                     !.values = Append(@, value(a.ptr + 2, size))],
           [ptr |-> 4, ok |-> TRUE, tofs |-> <<>>, values |-> <<>>], [k \in 1..F(p, 3) |-> k])

MultHeadValid(p) == HasWords(p, 4) /\ HasWords(p, 2 * F(p, 3) + 4) /\ VarValid(p)
MultView(p, walk) == [var |-> VarFields(p), tofs |-> walk.tofs, values |-> walk.values]

MultStringWalk(p) ==
  MultWalk(p, LAMBDA n : n, LAMBDA n : WordsFor(n), LAMBDA ptr, n : Bytes(p, 4 * ptr, n))
MultVariableStringValid(v, p) == MultHeadValid(p) /\ MultStringWalk(p).ok
MultVariableStringPkt(v, p) == MultView(p, MultStringWalk(p))

MultU32ArrayWalk(p) ==
  MultWalk(p, LAMBDA n : 4 * n, LAMBDA n : n, LAMBDA ptr, n : Words(p, ptr, n))
MultVariableU32ArrayValid(v, p) == MultHeadValid(p) /\ MultU32ArrayWalk(p).ok
MultVariableU32ArrayPkt(v, p) == MultView(p, MultU32ArrayWalk(p))

MultDoubleArrayWalk(p) ==
  MultWalk(p, LAMBDA n : 8 * n, LAMBDA n : 2 * n, LAMBDA ptr, n : Doubles(p, ptr, n))
MultVariableDoubleArrayValid(v, p) == MultHeadValid(p) /\ MultDoubleArrayWalk(p).ok
MultVariableDoubleArrayPkt(v, p) == MultView(p, MultDoubleArrayWalk(p))

\* the values of a device that sends several at once
EncodeMult(type, d) ==
  EncodeVar(d.var) \o <<Len(d.values)>>
    \o Flat([k \in DOMAIN d.values |-> <<d.tofs[k]>> \o
         CASE type = "MULT_VAR_VALUE_U32" -> <<d.values[k]>>
           [] type = "MULT_VAR_VALUE_DOUBLE" -> d.values[k]
           [] type = "MULT_VAR_VALUE_STRING" -> EncodeString(d.values[k])
           [] type = "MULT_VAR_VALUE_U32_ARRAY" -> <<Len(d.values[k])>> \o d.values[k]
           [] type = "MULT_VAR_VALUE_DOUBLE_ARRAY" -> <<Len(d.values[k])>> \o Flat(d.values[k])])
=============================================================================
