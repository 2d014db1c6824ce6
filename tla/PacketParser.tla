---------------------------- MODULE PacketParser ----------------------------
(***************************************************************************)
(* The parser every end of an ADARA stream is built on: ADARA::Parser of   *)
(* src/common/ADARAParser.cc, filled by POSIXParser::read().  It keeps the *)
(* bytes read so far in a buffer that grows up to a maximum, hands every   *)
(* complete packet to the receiver, and passes a packet larger than the    *)
(* maximum on in pieces.                                                   *)
(*                                                                         *)
(* The buffer is a sequence of words; reads end at word boundaries.        *)
(***************************************************************************)
EXTENDS ADARAPackets, FiniteSets

NewParser(size, max) ==
  [buffer |-> <<>>, m_size |-> size, m_max_size |-> max, m_restart_offset |-> 0,
   m_oversize_len |-> 0, m_oversize_offset |-> 0]

\* the count of an oversize packet left over from the last connection
resetKeepsOversize(ps) == [ps EXCEPT !.buffer = <<>>, !.m_restart_offset = 0]

reset(ps) ==
  [ps EXCEPT !.buffer = <<>>, !.m_restart_offset = 0, !.m_oversize_len = 0,
             !.m_oversize_offset = 0]

bufferFillLength(ps) == ps.m_size - Len(ps.buffer)

bufferBytesAppended(ps, words) == [ps EXCEPT !.buffer = @ \o words]

-----------------------------------------------------------------------------
(* From a packet to the object of its class *)

\* MAP_TYPE: the constructor of the class throws unless the packet is valid
TypeOf(code) == CHOOSE t \in DOMAIN TypeCode : TypeCode[t] = code
Known(code) == \E t \in DOMAIN TypeCode : TypeCode[t] = code

PacketValid(type, v, p) ==
  CASE type = "RAW_EVENT" -> RawDataValid(v, p)
    [] type = "MAPPED_EVENT" -> MappedDataValid(v, p)
    [] type = "RTDL" -> RTDLValid(v, p)
    [] type = "BANKED_EVENT" -> BankedEventValid(v, p)
    [] type = "BANKED_EVENT_STATE" -> BankedEventStateValid(v, p)
    [] type = "BEAM_MONITOR_EVENT" -> BeamMonitorValid(v, p)
    [] type = "RUN_STATUS" -> RunStatusValid(v, p)
    [] type = "RUN_INFO" -> RunInfoValid(v, p)
    [] type = "TRANS_COMPLETE" -> TransCompleteValid(v, p)
    [] type = "CLIENT_HELLO" -> ClientHelloValid(v, p)
    [] type = "STREAM_ANNOTATION" -> AnnotationValid(v, p)
    [] type = "SYNC" -> SyncValid(v, p)
    [] type = "HEARTBEAT" -> HeartbeatValid(v, p)
    [] type = "GEOMETRY" -> GeometryValid(v, p)
    [] type = "BEAMLINE_INFO" -> BeamlineInfoValid(v, p)
    [] type = "BEAM_MONITOR_CONFIG" -> BeamMonitorConfigValid(v, p)
    [] type = "DETECTOR_BANK_SETS" -> DetectorBankSetsValid(v, p)
    [] type = "DATA_DONE" -> DataDoneValid(v, p)
    [] type = "DEVICE_DESC" -> DeviceDescriptorValid(v, p)
    [] type = "VAR_VALUE_U32" -> VariableU32Valid(v, p)
    [] type = "VAR_VALUE_DOUBLE" -> VariableDoubleValid(v, p)
    [] type = "VAR_VALUE_STRING" -> VariableStringValid(v, p)
    [] type = "VAR_VALUE_U32_ARRAY" -> VariableU32ArrayValid(v, p)
    [] type = "VAR_VALUE_DOUBLE_ARRAY" -> VariableDoubleArrayValid(v, p)
    [] type = "MULT_VAR_VALUE_U32" -> MultVariableU32Valid(v, p)
    [] type = "MULT_VAR_VALUE_DOUBLE" -> MultVariableDoubleValid(v, p)
    [] type = "MULT_VAR_VALUE_STRING" -> MultVariableStringValid(v, p)
    [] type = "MULT_VAR_VALUE_U32_ARRAY" -> MultVariableU32ArrayValid(v, p)
    [] type = "MULT_VAR_VALUE_DOUBLE_ARRAY" -> MultVariableDoubleArrayValid(v, p)
    [] OTHER -> TRUE

PacketView(type, v, p) ==
  CASE type = "RAW_EVENT" -> RawDataPkt(v, p)
    [] type = "MAPPED_EVENT" -> RawDataPkt(v, p)
    [] type = "RTDL" -> RTDLPkt(v, p)
    [] type = "SOURCE_LIST" -> SourceListPkt(v, p)
    [] type = "BANKED_EVENT" -> BankedEventPkt(v, p)
    [] type = "BANKED_EVENT_STATE" -> BankedEventStatePkt(v, p)
    [] type = "BEAM_MONITOR_EVENT" -> BeamMonitorPkt(v, p)
    [] type = "PIXEL_MAPPING" -> PixelMappingPkt(v, p)
    [] type = "PIXEL_MAPPING_ALT" -> PixelMappingAltPkt(v, p)
    [] type = "RUN_STATUS" -> RunStatusPkt(v, p)
    [] type = "RUN_INFO" -> RunInfoPkt(v, p)
    [] type = "TRANS_COMPLETE" -> TransCompletePkt(v, p)
    [] type = "CLIENT_HELLO" -> ClientHelloPkt(v, p)
    [] type = "STREAM_ANNOTATION" -> AnnotationPkt(v, p)
    [] type = "SYNC" -> SyncPkt(v, p)
    [] type = "GEOMETRY" -> GeometryPkt(v, p)
    [] type = "BEAMLINE_INFO" -> BeamlineInfoPkt(v, p)
    [] type = "BEAM_MONITOR_CONFIG" -> BeamMonitorConfigPkt(v, p)
    [] type = "DETECTOR_BANK_SETS" -> DetectorBankSetsPkt(v, p)
    [] type = "DEVICE_DESC" -> DeviceDescriptorPkt(v, p)
    [] type = "VAR_VALUE_U32" -> VariableU32Pkt(v, p)
    [] type = "VAR_VALUE_DOUBLE" -> VariableDoublePkt(v, p)
    [] type = "VAR_VALUE_STRING" -> VariableStringPkt(v, p)
    [] type = "VAR_VALUE_U32_ARRAY" -> VariableU32ArrayPkt(v, p)
    [] type = "VAR_VALUE_DOUBLE_ARRAY" -> VariableDoubleArrayPkt(v, p)
    [] type = "MULT_VAR_VALUE_U32" -> MultVariableU32Pkt(v, p)
    [] type = "MULT_VAR_VALUE_DOUBLE" -> MultVariableDoublePkt(v, p)
    [] type = "MULT_VAR_VALUE_STRING" -> MultVariableStringPkt(v, p)
    [] type = "MULT_VAR_VALUE_U32_ARRAY" -> MultVariableU32ArrayPkt(v, p)
    [] type = "MULT_VAR_VALUE_DOUBLE_ARRAY" -> MultVariableDoubleArrayPkt(v, p)
    [] OTHER -> <<>>

(* The receivers.  A data source and the translation client take every      *)
(* packet; a live client may only say hello.  A callback that returns true  *)
(* stops the parser, and the caller closes the connection: a live client    *)
(* does for any other packet, it and a data source do for an oversize one.  *)
(* The translation client discards those.                                   *)
Receivers == {"source", "translator", "live"}

rxOversizePkt(receiver) == receiver \in {"source", "live"}

\* [stop, thrown, got]: got is what the receiver's callback sees
rxPacket(receiver, hdr, p) ==
  LET got(s) == [stop |-> FALSE, thrown |-> FALSE, got |-> s]
      type == TypeOf(hdr.base_type)
  IN  IF receiver = "live" /\ hdr.base_type # TypeCode["CLIENT_HELLO"]
      THEN [got(<<>>) EXCEPT !.stop = TRUE]
      ELSE IF ~Known(hdr.base_type) THEN got(<<>>)
      ELSE IF ~PacketValid(type, hdr.version, p) THEN [got(<<>>) EXCEPT !.thrown = TRUE]
      ELSE got(<<[type |-> type, version |-> hdr.version, view |-> PacketView(type, hdr.version, p)]>>)

-----------------------------------------------------------------------------
(* bufferParse() *)

\* the size the buffer grows to for a packet of that length
RECURSIVE GrownSize(_, _)
GrownSize(size, len) == IF 2 * size < len THEN GrownSize(2 * size, len) ELSE 2 * size
Grow(ps, len) == LET n == GrownSize(ps.m_size, len)
                 IN  [ps EXCEPT !.m_size = IF n > ps.m_max_size THEN ps.m_max_size ELSE n]

Handed(s, len, rx) ==
  [s EXCEPT !.p = SubSeq(@, len + 1, Len(@)), !.stopped = rx.stop, !.thrown = rx.thrown,
            !.got = @ \o rx.got, !.processed = IF rx.thrown THEN @ ELSE @ + 1]

\* s: the parser, the words not parsed yet, and the outcome so far; `grown'
\* says that the buffer was grown, which ends the call
RECURSIVE PacketLoop(_, _)
PacketLoop(receiver, s) ==
  LET hdr == PacketHeader(s.p)
      len == HeaderWords + hdr.payload_len \div 4
  IN
  IF Len(s.p) < HeaderWords \/ s.stopped \/ s.thrown THEN s
  ELSE IF hdr.payload_len % 4 # 0 THEN [s EXCEPT !.thrown = TRUE]
  ELSE IF len > s.ps.m_max_size
       THEN [s EXCEPT !.stopped = rxOversizePkt(receiver), !.p = <<>>,
                      !.ps.m_oversize_len = len - Len(s.p),
                      !.ps.m_oversize_offset = Len(s.p)]
  ELSE IF len > s.ps.m_size THEN [s EXCEPT !.ps = Grow(s.ps, len), !.grown = TRUE]
  ELSE IF len > Len(s.p) THEN s
  ELSE PacketLoop(receiver,
         Handed(s, len, rxPacket(receiver, hdr, SubSeq(s.p, HeaderWords + 1, len))))

\* the rest of an oversize packet comes first
OversizeTail(receiver, s) ==
  LET chunk == IF Len(s.p) < s.ps.m_oversize_len THEN Len(s.p) ELSE s.ps.m_oversize_len
  IN  IF s.ps.m_oversize_len = 0 THEN s
      ELSE [s EXCEPT !.stopped = rxOversizePkt(receiver),
                     !.ps.m_oversize_offset = @ + chunk, !.ps.m_oversize_len = @ - chunk,
                     !.p = SubSeq(@, chunk + 1, Len(@)),
                     !.processed = IF s.ps.m_oversize_len = chunk THEN 1 ELSE 0]

\* What is left stays at the front of the buffer, or behind the packets
\* parsed when a callback stopped the loop.  rc is negative for a stop, but a
\* stop before the first packet is complete returns -0.
AfterLoop(s) ==
  LET kept == IF s.stopped /\ s.p # <<>> /\ ~s.grown
              THEN [s.ps EXCEPT !.m_restart_offset = Len(s.ps.buffer) - Len(s.p)]
              ELSE [s.ps EXCEPT !.buffer = s.p, !.m_restart_offset = 0]
  IN  [ps |-> IF s.thrown THEN s.ps ELSE kept, got |-> s.got, thrown |-> s.thrown,
       rc |-> IF s.stopped THEN -s.processed ELSE s.processed]

bufferParse(receiver, ps) ==
  LET p == SubSeq(ps.buffer, ps.m_restart_offset + 1, Len(ps.buffer))
  IN  IF p = <<>> THEN [ps |-> ps, got |-> <<>>, rc |-> 0, thrown |-> FALSE]
      ELSE AfterLoop(PacketLoop(receiver, OversizeTail(receiver,
             [ps |-> ps, p |-> p, got |-> <<>>, processed |-> 0, stopped |-> FALSE,
              thrown |-> FALSE, grown |-> FALSE])))
=============================================================================
