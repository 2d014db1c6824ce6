--------------------------- MODULE PrologueConfig ---------------------------
(***************************************************************************)
(* The settings an operator changes through process variables and the      *)
(* stream management service writes at the start of every file: the beam   *)
(* monitors (src/sms/BeamMonitorConfig.cc), the detector bank sets         *)
(* (DetectorBankSet.cc) and the run information (RunInfo.cc).  A change of *)
(* a PV (SMSControlPV.cc) is saved in the auto-save file, from which the   *)
(* next start of the service restores it (StorageManager.cc).              *)
(*                                                                         *)
(* The state is one record c: pv, the value, alarm and m_first_set of each *)
(* variable; file, the auto-save file, where the last line of a variable   *)
(* counts; bm, bs and ri, the objects with the packets they keep; out, the *)
(* packets written so far.  A variable is a tuple of its group, the index  *)
(* of its section and the field it sets.  Strings are bytes, doubles pairs *)
(* of words.                                                               *)
(***************************************************************************)
EXTENDS ADARAPackets, FiniteSets

CONSTANTS Monitors,    \* the configured monitors, as BeamMonitorConfigPkt gives them
          BankSets,    \* the configured bank sets, as DetectorBankSetsPkt gives them
          AlwaysSend   \* sms.always_send_bmon_config

BMFields == <<"id", "format", "tofOffset", "tofMax", "tofBin", "distance">>
BSFields == <<"name", "banklist", "flags", "tofOffset", "tofMax", "tofBin", "throttle", "suffix">>
RIRequired == <<"ProposalId">>
RIOptional == <<"RunTitle">>
RISample == <<"MassString">>
RITexts == RIRequired \o RIOptional \o RISample

AlwaysPV == <<"always", 0, "">>
MassPV == <<"mass", 0, "">>
UserInfoPV == <<"user", 0, "">>
RI(f) == <<"ri", 0, f>>

Cross(group, n, fields) ==
  Flat([i \in 1..n |-> [k \in DOMAIN fields |-> <<group, i, fields[k]>>]])

\* in the order the constructors make and restore them; the doubles of the
\* run information come before its texts
PVOrder ==
  <<MassPV, UserInfoPV>> \o [k \in DOMAIN RITexts |-> RI(RITexts[k])] \o <<AlwaysPV>>
    \o Cross("bm", Len(Monitors), BMFields) \o Cross("bs", Len(BankSets), BSFields)
PVs == Range(PVOrder)

ZeroDouble == <<0, 0>>

\* setThrottle() takes the double as a uint32_t: what is below one becomes 0,
\* whole numbers (as the model's other doubles) stay
BelowOne(d) == d[2] < 1072693248
AsInteger(d) == IF BelowOne(d) THEN ZeroDouble ELSE d

IsText(pv) == pv[1] \in {"ri", "user"} \/ pv[3] \in {"name", "suffix"}

UNSET == <<40, 117, 110, 115, 101, 116, 41>>   \* "(unset)"

-----------------------------------------------------------------------------
(* The auto-save file *)

encodeAutoSaveString(s) ==
  Flat([k \in DOMAIN s |-> IF s[k] = 10 THEN <<37, 48, 65>> ELSE <<s[k]>>])

RECURSIVE decodeAutoSaveString(_)
decodeAutoSaveString(s) ==
  IF s = <<>> THEN <<>>
  ELSE IF Len(s) >= 3 /\ SubSeq(s, 1, 3) = <<37, 48, 65>>
       THEN <<10>> \o decodeAutoSaveString(SubSeq(s, 4, Len(s)))
       ELSE <<Head(s)>> \o decodeAutoSaveString(Tail(s))

autoSavePV(c, pv) ==
  LET v == c.pv[pv].val
      line == IF IsText(pv) THEN encodeAutoSaveString(v) ELSE v
  IN  [c EXCEPT !.file = (pv :> line) @@ @]

getAutoSavePV(file, pv) == IF IsText(pv) THEN decodeAutoSaveString(file[pv]) ELSE file[pv]

-----------------------------------------------------------------------------
(* Beam monitors *)

\* one section of the packet and the format word behind the sections
UpdateMonitor(bm, i) ==
  LET m == bm.info[i]
      words == <<m.id, m.tofOffset, m.tofMax, m.tofBin>> \o m.distance
      base == HeaderWords + 1 + (i - 1) * MonitorSection
      format == HeaderWords + 1 + Len(bm.info) * MonitorSection + i
  IN  [bm EXCEPT !.changed[i] = FALSE,
                 !.packet = [k \in DOMAIN @ |->
                               IF k \in base + 1..base + MonitorSection THEN words[k - base]
                               ELSE IF k = format THEN m.format ELSE @[k]]]

UpdateChanged(obj, Update(_, _)) ==
  FoldLeft(LAMBDA o, i : IF o.changed[i] THEN Update(o, i) ELSE o,
           obj, [i \in DOMAIN obj.info |-> i])

updateFormatCounts(bm, old, new) ==
  LET n(f) == (IF new = f THEN 1 ELSE 0) - (IF old = f THEN 1 ELSE 0)
  IN  [bm EXCEPT !.numHisto = @ + n(HISTO_FORMAT), !.numEvent = @ + n(EVENT_FORMAT)]

\* the setter that leaves m_changed alone
BeamMonChangedQuiet(c, pv) ==
  [autoSavePV(c, pv) EXCEPT !.bm.info[pv[2]][pv[3]] = c.pv[pv].val]

BeamMonChanged(c, pv) ==
  LET i == pv[2]
      f == pv[3]
      v == c.pv[pv].val
      old == c.bm.info[i][f]
      set == [c.bm EXCEPT !.info[i][f] = v, !.changed[i] = TRUE]
  IN  IF v = old THEN autoSavePV(c, pv)
      ELSE [autoSavePV(c, pv) EXCEPT
              !.bm = IF f = "format" THEN updateFormatCounts(set, old, v) ELSE set]
MonitorConfig(infos) ==
  LET n == Len(infos)
      fresh == [info |-> infos, changed |-> [i \in 1..n |-> TRUE],
                numEvent |-> countFormats(infos).numEvent,
                numHisto |-> countFormats(infos).numHisto,
                packet |-> Packet("BEAM_MONITOR_CONFIG", 1,
                             <<n>> \o [k \in 1..n * (MonitorSection + 1) |-> 0])]
  IN  UpdateChanged(fresh, UpdateMonitor)

BeamMonitorPrologue(c) ==
  IF c.pv[AlwaysPV].val \/ (c.bm.numEvent = 0 /\ c.bm.numHisto > 0)
  THEN LET bm == UpdateChanged(c.bm, UpdateMonitor)
       IN  [c EXCEPT !.bm = bm, !.out = Append(@, bm.packet)]
  ELSE c

-----------------------------------------------------------------------------
(* Detector bank sets *)

\* strncpy() into a cleared field of 16 bytes
FixedWords(s) ==
  PackString([k \in 1..4 * NameWords |-> IF k <= Len(s) THEN s[k] ELSE 0])

SetWords(s) ==
  FixedWords(s.name) \o <<s.flags, Len(s.banklist)>> \o s.banklist
    \o <<s.tofOffset, s.tofMax, s.tofBin>> \o s.throttle \o FixedWords(s.suffix)

\* the offsets are those of the configured bank lists
UpdateBankSet(bs, i) ==
  LET words == SetWords(bs.info[i])
      base == bs.offset[i]
  IN  [bs EXCEPT !.changed[i] = FALSE,
                 !.packet = [k \in DOMAIN @ |->
                               IF k \in base + 1..base + Len(words) THEN words[k - base]
                               ELSE @[k]]]

BadChars == {9, 32, 33, 34, 35, 36, 37, 38, 39, 40, 41, 42, 43, 44, 46, 47, 58, 59, 60, 61, 62,
             63, 64, 91, 92, 93, 94, 96, 123, 124, 125, 126}

\* every such character becomes a dash, the second of two is dropped; last
\* is 0 at the start
RECURSIVE SanitizeFrom(_, _)
SanitizeFrom(s, last) ==
  LET bad == {k \in DOMAIN s : k > last /\ s[k] \in BadChars}
      next == CHOOSE k \in bad : \A j \in bad : k <= j
      at == next - 1
  IN  IF bad = {} THEN s
      ELSE IF at # last + 1 \/ last = 0 THEN SanitizeFrom([s EXCEPT ![next] = 45], at)
      ELSE SanitizeFrom(RemoveAt(s, next), at)
sanitizeString(s) == SanitizeFrom(s, 0)

truncateString(s) == IF Len(s) > 4 * NameWords THEN SubSeq(s, 1, 4 * NameWords) ELSE s

\* the value the set keeps; a cleaned suffix is also put back into the PV,
\* which saves it once more
BankSetChanged(c, pv) ==
  LET i == pv[2]
      f == pv[3]
      v == c.pv[pv].val
      kept == CASE f = "throttle" -> AsInteger(v)
                [] f = "suffix" -> truncateString(sanitizeString(v))
                [] OTHER -> v
      compared == IF f = "suffix" THEN kept ELSE v
      set == IF compared = c.bs.info[i][f] THEN c
             ELSE [c EXCEPT !.bs.info[i][f] = kept, !.bs.changed[i] = TRUE]
  IN  autoSavePV(IF f = "suffix" /\ kept # v THEN [set EXCEPT !.pv[pv].val = kept] ELSE set, pv)

\* built once all sets are known, from the values restored by then
BankSetConfig(configured, infos) ==
  LET n == Len(infos)
      size(i) == BeforeBanks + Len(configured[i].banklist) + AfterBanks
      offsets == FoldLeft(LAMBDA a, i : Append(a, a[i] + size(i)), <<HeaderWords + 1>>,
                          [i \in 1..n |-> i])
      fresh == [info |-> infos, changed |-> [i \in 1..n |-> TRUE], offset |-> offsets,
                packet |-> Packet("DETECTOR_BANK_SETS", 0,
                             <<n>> \o [k \in 1..offsets[n + 1] - HeaderWords - 1 |-> 0])]
  IN  UpdateChanged(fresh, UpdateBankSet)

BankSetPrologue(c) ==
  LET bs == UpdateChanged(c.bs, UpdateBankSet)
  IN  [c EXCEPT !.bs = bs, !.out = Append(@, bs.packet)]

-----------------------------------------------------------------------------
(* Run information.  The XML text is stood for by the run number and, for   *)
(* every value it has an element of, the place of the element, the length   *)
(* of the value and the value.                                              *)

Xml(run, user, texts) ==
  <<run, Len(user)>> \o user
    \o Flat([k \in DOMAIN RITexts |->
               IF RITexts[k] \in DOMAIN texts
               THEN <<k, Len(texts[RITexts[k]])>> \o texts[RITexts[k]] ELSE <<>>])

Valid(c, pv) == c.pv[pv].stat = "none"

\* addElements() leaves out what is not set
Elements(c) ==
  [f \in {g \in Range(RITexts) : Valid(c, RI(g))} |-> c.pv[RI(f)].val]

generatePacket(c, run) ==
  IF c.ri.packetValid THEN c
  ELSE [c EXCEPT !.ri.packetValid = TRUE,
                 !.ri.packet = Packet("RUN_INFO", 0,
                    EncodeString(Xml(run, c.pv[UserInfoPV].val, Elements(c))))]

invalidateCache(c) == [c EXCEPT !.ri.packetValid = FALSE]

\* during a run a change is written at once
checkPacket(c) ==
  LET g == generatePacket(c, c.ri.run)
  IN  IF c.ri.run # 0 /\ ~c.ri.packetValid THEN [g EXCEPT !.out = Append(@, g.ri.packet)]
      ELSE c

RunInfoChanged(c, pv) == autoSavePV(checkPacket(invalidateCache(c)), pv)

setRunNumber(c, run) ==
  [c EXCEPT !.ri.packetValid = FALSE, !.ri.last = c.ri.run, !.ri.run = run]

\* valid(): a run may start when every required value is set
RequiredSet(c) == \A f \in Range(RIRequired) : Valid(c, RI(f))

RunInfoPrologue(c, capture_last) ==
  LET run == IF capture_last THEN c.ri.last ELSE c.ri.run
      g == generatePacket(c, run)
  IN  IF run = 0 THEN c ELSE [g EXCEPT !.out = Append(@, g.ri.packet)]

-----------------------------------------------------------------------------
(* Process variables *)

\* Ch is changed() of the class of the variable
unsetBy(c, pv, Ch(_, _)) ==
  LET p == c.pv[pv]
      first == [c EXCEPT !.pv[pv].first = FALSE]
  IN  IF p.stat = "udf" THEN c
      ELSE IF p.val = UNSET THEN IF p.first THEN Ch(first, pv) ELSE c
      ELSE Ch([first EXCEPT !.pv[pv].val = UNSET, !.pv[pv].stat = "udf"], pv)

\* older: the time stamp is before that of the value
updateBy(c, pv, val, older, Ch(_, _)) ==
  LET p == c.pv[pv]
  IN  IF IsText(pv) /\ val = <<>> THEN unsetBy(c, pv, Ch)
      ELSE IF p.val = val /\ p.stat = "none" /\ ~p.first /\ ~older THEN c
      ELSE Ch([c EXCEPT !.pv[pv] = [val |-> val, stat |-> "none", first |-> FALSE]], pv)

\* a mass given as a number is also set as text; the digits are left out
MassText(d) == <<IF d = ZeroDouble THEN 48 ELSE 49>>
MassChanged(c, pv) ==
  autoSavePV(updateBy(c, RI("MassString"), MassText(c.pv[pv].val), FALSE, RunInfoChanged), pv)

Changed(c, pv) ==
  CASE pv[1] = "bm" -> BeamMonChanged(c, pv)
    [] pv[1] = "bs" -> BankSetChanged(c, pv)
    [] pv[1] \in {"ri", "user"} -> RunInfoChanged(c, pv)
    [] pv[1] = "mass" -> MassChanged(c, pv)
    [] pv[1] = "always" -> autoSavePV(c, pv)

update(c, pv, val, older) == updateBy(c, pv, val, older, Changed)
unset(c, pv) == unsetBy(c, pv, Changed)

\* a write of the value the variable has already only renews its time stamp
write(c, pv, val) == update(c, pv, val, FALSE)

\* RunInfo::reset(); the user information stays
ResetRunInfo(c) ==
  FoldLeft(LAMBDA a, f : unset(a, RI(f)), c, RITexts)

-----------------------------------------------------------------------------
(* Prologues, and the start of the service *)

\* the order in which the objects have connected to the signal
onPrologue(c, capture_last) ==
  BankSetPrologue(BeamMonitorPrologue(RunInfoPrologue(c, capture_last)))

Configured(pv) ==
  CASE pv[1] = "bm" -> Monitors[pv[2]][pv[3]]
    [] pv[1] = "bs" -> BankSets[pv[2]][pv[3]]
    [] pv = AlwaysPV -> AlwaysSend
HasDefault(pv) == pv[1] \in {"bm", "bs", "always"}

FirstValue(pv) ==
  IF IsText(pv) THEN UNSET
  ELSE IF pv[3] = "banklist" THEN UNSET
  ELSE IF pv[3] \in {"throttle", "distance"} \/ pv = MassPV THEN ZeroDouble
  ELSE IF pv = AlwaysPV THEN FALSE ELSE 0

\* Every constructor sets the configured value first and then the saved one,
\* with its old time stamp.  s: the objects, and the variables still to come.
RECURSIVE ConnectFrom(_, _)
ConnectFrom(oldFile, s) ==
  LET pv == Head(s.left)
      set == IF HasDefault(pv) THEN update(s.c, pv, Configured(pv), FALSE) ELSE s.c
      c == IF pv \in DOMAIN oldFile
           THEN update(set, pv, getAutoSavePV(oldFile, pv), TRUE) ELSE set
  IN  IF s.left = <<>> THEN s.c ELSE ConnectFrom(oldFile, [c |-> c, left |-> Tail(s.left)])

\* the old file is read and moved away
Start(oldFile) ==
  LET fresh == [pv |-> [p \in PVs |-> [val |-> FirstValue(p), first |-> TRUE,
                                       stat |-> IF IsText(p) \/ p[3] = "banklist" THEN "udf"
                                                ELSE "none"]],
                file |-> <<>>, out |-> <<>>, bm |-> MonitorConfig(Monitors),
                bs |-> BankSetConfig(BankSets, BankSets),
                ri |-> [run |-> 0, last |-> 0, packetValid |-> FALSE, packet |-> <<>>]]
  IN  [ConnectFrom(oldFile, [c |-> fresh, left |-> PVOrder]) EXCEPT
         !.bm = UpdateChanged([@ EXCEPT !.changed = [i \in DOMAIN @ |-> TRUE]], UpdateMonitor),
         !.bs = BankSetConfig(BankSets, @.info)]
=============================================================================
