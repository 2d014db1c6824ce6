--------------------------- MODULE StreamVariables ---------------------------
(***************************************************************************)
(* Process variables and annotations in the streaming translation client:  *)
(* the registry of device descriptors (stc/StreamParser.cpp), the value    *)
(* buffers (stc/stcdefs.h, stc/NxGen.h) and the logs of the NeXus file.     *)
(*                                                                         *)
(* Values and markers may come before the first pulse, which is the zero   *)
(* of every time axis; until then they are kept with their absolute time.  *)
(* A device may be described again, under a new id or with a new           *)
(* definition, and one EPICS connection may be described by two devices.   *)
(***************************************************************************)
EXTENDS StreamParser

CONSTANTS
    Keys,        \* <<device id, pv id>>
    Defs,        \* definitions: [name, conn, type, ignore]
    Values,      \* values of a process variable
    PVStamps,    \* time stamps of updates and markers
    DefaultStart,\* m_default_run_start_time, the time of NEW_RUN
    Sawtooth,    \* whether the times of one variable may go back
    TimeModulus, \* 2^64
    Annotations, \* contents of a marker: a set of <<kind, value, with comment>>
    MaxDescs, MaxUpdates, MaxMarks,
    MaxPackets   \* bound on all three together

ASSUME VariablesAssumption ==
    /\ PVStamps \subseteq Nat \ {0} /\ DefaultStart \in Nat \ {0}
    /\ Sawtooth \in BOOLEAN /\ TimeModulus \in Nat \ {0}
    /\ {MaxDescs, MaxUpdates, MaxMarks, MaxPackets} \subseteq Nat

VARIABLES
    pvs,       \* m_pvs_list
    byKey,     \* m_pvs_by_key: key -> index into pvs
    xref,      \* m_pvs_by_name_xref: name and connection -> key
    marks,     \* m_pause_multimap, m_scan_multimap, m_comment_multimap
    logs,      \* the marker logs of the file
    described, \* history: the definition last received for a key
    updates,   \* history: the updates taken, with the variable they went to
    used       \* descriptors, updates and markers so far

pvVars == <<pvs, byKey, xref, described, updates>>
markVars == <<marks, logs>>
Use(field, max) ==
    /\ used[field] < max /\ used.descs + used.updates + used.marks < MaxPackets
    /\ used' = [used EXCEPT ![field] = @ + 1]
vars == <<parserVars, pvVars, markVars, used>>

Put(f, k, v) == [x \in DOMAIN f \union {k} |-> IF x = k THEN v ELSE f[x]]
Drop(f, k) == [x \in DOMAIN f \ {k} |-> f[x]]
XName(d) == <<d.name, d.conn>>
sameDefinition(i, d) == pvs[i].def = d
sameDefinitionPVConn(d, e) == [d EXCEPT !.name = e.name] = e

----------------------------------------------------------------------------
(* Descriptors.                                                            *)

(* makePVInfo(): the first variable of the same connection decides; if it   *)
(* has the same definition both are marked as duplicates, if not the new   *)
(* one gets a name of its own.                                             *)
SameConn(d) == {i \in DOMAIN pvs : pvs[i].def.conn = d.conn}
DuplicateOf(d) == IF SameConn(d) = {} THEN {}
                  ELSE {i \in {Min(SameConn(d))} : sameDefinitionPVConn(pvs[i].def, d)}

makePVInfo(d) ==
    Append([i \in DOMAIN pvs |->
              IF i \in DuplicateOf(d) THEN [pvs[i] EXCEPT !.dup = TRUE] ELSE pvs[i]],
           [def |-> d, dup |-> DuplicateOf(d) # {}, ignore |-> d.ignore,
            buf |-> <<>>, nonNorm |-> FALSE, last |-> 0, val |-> NULL,
            file |-> <<>>])

Known(d) == {i \in DOMAIN pvs : sameDefinition(i, d)}

(* Key k now stands for variable i, or for a new one; the maps are those    *)
(* before.                                                                 *)
Bind(k, d, i, keys, names) ==
    byKey' = Put(keys, k, i) /\ xref' = Put(names, XName(d), k)
Create(k, d, keys, names) ==
    pvs' = makePVInfo(d) /\ Bind(k, d, Len(pvs) + 1, keys, names)
FindOrCreate(k, d, keys, names) ==
    IF Known(d) # {} THEN pvs' = pvs /\ Bind(k, d, Min(Known(d)), keys, names)
    ELSE Create(k, d, keys, names)

(* A key that is known already: nothing, or its new definition.             *)
Redescribe(k, d) ==
    LET old == pvs[byKey[k]].def
        names == IF XName(old) # XName(d) THEN Drop(xref, XName(old)) ELSE xref
    IN  IF old = d THEN UNCHANGED <<pvs, byKey, xref>>
        ELSE FindOrCreate(k, d, byKey, names)

(* A new key whose name and connection are known under another key: with    *)
(* the same definition, or one that there is a variable of, both keys      *)
(* stay; otherwise the old key is forgotten.                               *)
DescribeMoved(k, d, other) ==
    IF other \notin DOMAIN byKey THEN Create(k, d, byKey, xref)
    ELSE IF Known(d) # {} THEN FindOrCreate(k, d, byKey, xref)
    ELSE Create(k, d, Drop(byKey, other), xref)

DescribeNew(k, d) ==
    IF XName(d) \in DOMAIN xref THEN DescribeMoved(k, d, xref[XName(d)])
    ELSE FindOrCreate(k, d, byKey, xref)

DeviceDescriptorPkt(k, d) ==
    /\ InRun /\ Use("descs", MaxDescs)
    /\ IF k \in DOMAIN byKey THEN Redescribe(k, d) ELSE DescribeNew(k, d)
    /\ described' = Put(described, k, d)
    /\ UNCHANGED <<parserVars, updates, markVars>>

----------------------------------------------------------------------------
(* Values.  An entry of a buffer is [t, ts, v], with t = -1 while the first *)
(* pulse is not known.                                                     *)

RelativeTo(start, ts) == IF ts > start THEN ts - start ELSE 0

(* normalizeTimestamps(): the entries at the front that are not relative    *)
(* yet become so, and of those before the first pulse only the last stays. *)
normalizeTimestamps(buf, start) ==
    LET raw == {i \in DOMAIN buf : \A j \in 1 .. i : buf[j].t < 0}
        early == {i \in raw : buf[i].ts <= start}
        new == [i \in DOMAIN buf |->
                  IF i \in raw THEN [buf[i] EXCEPT !.t = RelativeTo(start, buf[i].ts)]
                  ELSE buf[i]]
    IN  IF early = {} THEN new ELSE SubSeq(new, Max(early), Len(new))

Normal(pv, start) ==
    IF ~pv.nonNorm THEN pv
    ELSE [pv EXCEPT !.buf = normalizeTimestamps(@, start), !.nonNorm = FALSE]

Held(pv, final) == pv.dup \/ (~final /\ pv.def.type = "string")

(* flushBuffers(): a buffer stays as it is while the first pulse is not     *)
(* known, and for a duplicate; strings wait for the end of the run.        *)
flushBuffers(pv, start, final) ==
    IF pv.nonNorm /\ start = 0 THEN pv
    ELSE LET q == Normal(pv, start)
         IN  IF q.ignore THEN [q EXCEPT !.buf = <<>>]
             ELSE IF Held(q, final) THEN q
             ELSE [q EXCEPT !.file = @ \o q.buf, !.buf = <<>>]

(* The only value so far is replaced by one that is also from before the    *)
(* first pulse.                                                            *)
Replaces(pv, ts) ==
    pulse.start # 0 /\ ts <= pulse.start /\ Len(pv.buf) = 1 /\ pv.last < pulse.start

pvValueUpdate(pv, v, ts) ==
    LET t == IF pulse.start = 0 THEN -1 ELSE RelativeTo(pulse.start, ts)
        q == [pv EXCEPT
                !.buf = Append(IF Replaces(pv, ts) THEN <<>> ELSE @,
                               [t |-> t, ts |-> ts, v |-> v]),
                !.nonNorm = @ \/ pulse.start = 0, !.last = ts, !.val = v]
    IN  IF Len(q.buf) >= AncThresh /\ Ready
        THEN flushBuffers(q, pulse.start, FALSE) ELSE q

(* A value for a key that was never described, or has been forgotten, ends  *)
(* the translation; one that repeats time and value is dropped.            *)
VariablePkt(k, v, ts) ==
    /\ InRun /\ Use("updates", MaxUpdates)
    /\ IF k \notin DOMAIN byKey
       THEN /\ Throw("input") /\ UNCHANGED <<pvVars, headVars, eventVars, report, odd>>
       ELSE LET i == byKey[k]
            IN  /\ Sawtooth \/ ts >= pvs[i].last
                /\ IF ts = pvs[i].last /\ v = pvs[i].val THEN UNCHANGED pvVars
                   ELSE /\ pvs' = [pvs EXCEPT ![i] = pvValueUpdate(@, v, ts)]
                        /\ updates' = Append(updates, [pv |-> i, key |-> k, v |-> v, ts |-> ts])
                        /\ UNCHANGED <<byKey, xref, described>>
                /\ UNCHANGED parserVars
    /\ UNCHANGED markVars

(* Merge the log of a duplicate into that of the first: by time, and a      *)
(* value that both have at one time only once.                             *)
subsumeValues(A, B) ==
    LET m[i \in 1 .. Len(A) + 1, j \in 1 .. Len(B) + 1] ==
          IF j > Len(B) THEN SubSeq(A, i, Len(A))
          ELSE IF i > Len(A) THEN SubSeq(B, j, Len(B))
          ELSE IF A[i].t < B[j].t THEN <<A[i]>> \o m[i + 1, j]
          ELSE IF B[j].t < A[i].t THEN <<B[j]>> \o m[i, j + 1]
          ELSE IF A[i].v = B[j].v THEN <<A[i]>> \o m[i + 1, j + 1]
          ELSE <<A[i], B[j]>> \o m[i + 1, j + 1]
    IN  m[1, 1]

(* Mutant: the duplicate is ignored without its values being taken over.    *)
CollapseForgets(P, i, start) ==
    LET dups == {j \in DOMAIN P : j > i /\ P[j].ignore = P[i].ignore
                                 /\ sameDefinitionPVConn(P[i].def, P[j].def)}
    IN  IF ~P[i].dup \/ P[i].ignore THEN P
        ELSE [j \in DOMAIN P |->
                IF j = i THEN [Normal(P[i], start) EXCEPT !.dup = FALSE]
                ELSE IF j \in dups
                THEN [Normal(P[j], start) EXCEPT !.buf = <<>>, !.ignore = TRUE]
                ELSE P[j]]

(* The duplicates of variable i become part of it.                          *)
CollapseInto(P, i, start) ==
    LET dups == {j \in DOMAIN P : j > i /\ P[j].ignore = P[i].ignore
                                 /\ sameDefinitionPVConn(P[i].def, P[j].def)}
        order == SetToSortSeq(dups, LAMBDA a, b : a < b)
        all == FoldLeft(LAMBDA buf, j : subsumeValues(buf, Normal(P[j], start).buf),
                        Normal(P[i], start).buf, order)
    IN  IF ~P[i].dup \/ P[i].ignore THEN P
        ELSE [j \in DOMAIN P |->
                IF j = i THEN [P[i] EXCEPT !.buf = all, !.dup = FALSE,
                                  !.nonNorm = @ /\ dups = {}]
                ELSE IF j \in dups
                THEN [P[j] EXCEPT !.buf = <<>>, !.ignore = TRUE, !.nonNorm = FALSE]
                ELSE P[j]]

collapseDuplicatePVs(P, start) ==
    FoldLeft(LAMBDA Q, i : CollapseInto(Q, i, start), P, [i \in DOMAIN P |-> i])

----------------------------------------------------------------------------
(* Annotations: three multimaps ordered by absolute time.                  *)

MarkKinds == {"pause", "scan", "comment"}
Insert(map, e) == LET before == SelectSeq(map, LAMBDA x : x.ts <= e.ts)
                      after == SelectSeq(map, LAMBDA x : x.ts > e.ts)
                  IN  before \o <<e>> \o after

(* A marker that repeats the last one of its kind is dropped; com is        *)
(* whether the kind had a comment, which is compared too.                  *)
Repeats(m, ts, v, c) ==
    m.last # NULL /\ m.last.ts = ts /\ m.last.v = v /\ m.com = c

marker(m, t, ts, v, c) ==
    LET e == [t |-> t, ts |-> ts, v |-> v]
        seen == [m EXCEPT !.nonNorm = @ \/ t < 0]
    IN  IF Repeats(m, ts, v, c) THEN seen
        ELSE [seen EXCEPT !.map = Insert(@, e), !.last = e, !.com = @ \/ c]

(* Pause, resume, scan and comment markers; each may carry a comment.       *)
AnnotationPkt(kind, v, c, ts) ==
    LET t == IF pulse.start = 0 THEN -1 ELSE RelativeTo(pulse.start, ts)
        commented == c /\ ~Repeats(marks[kind], ts, v, c)
        one == [marks EXCEPT ![kind] = marker(@, t, ts, v, c)]
    IN  /\ InRun /\ Use("marks", MaxMarks)
        /\ marks' = IF commented
                    THEN [one EXCEPT !["comment"] = marker(@, t, ts, v, FALSE)] ELSE one
        /\ UNCHANGED <<parserVars, pvVars, logs>>

(* Mutant: only the markers from after the first pulse get a relative time. *)
normalizeLate(map, start) ==
    [i \in DOMAIN map |-> IF map[i].t < 0 /\ map[i].ts > start
                          THEN [map[i] EXCEPT !.t = map[i].ts - start] ELSE map[i]]

normalizeAnnotationTimestamps(map, start) ==
    [i \in DOMAIN map |-> IF map[i].t < 0
                          THEN [map[i] EXCEPT !.t = RelativeTo(start, map[i].ts)]
                          ELSE map[i]]

flushMarks(m, start) ==
    IF m.nonNorm THEN normalizeAnnotationTimestamps(m.map, start) ELSE m.map

----------------------------------------------------------------------------
(* The end of the run, after finalizeStreamProcessing() of StreamParser.    *)

RunStart == IF pulse.fTimes \o pulse.times = <<>> THEN DefaultStart ELSE pulse.start

WriteVariables(ms) ==
    IF ~StrictlyComplete THEN UNCHANGED <<pvVars, markVars>>
    ELSE /\ pvs' = LET P == collapseDuplicatePVs(pvs, RunStart)
                   IN  [i \in DOMAIN P |-> flushBuffers(P[i], RunStart, TRUE)]
         /\ logs' = [k \in MarkKinds |-> flushMarks(ms[k], RunStart)]
         /\ marks' = [k \in MarkKinds |-> [ms[k] EXCEPT !.map = <<>>]]
         /\ UNCHANGED <<byKey, xref, described, updates>>

FinishRun == EndRun /\ WriteVariables(marks) /\ UNCHANGED used

(* An abnormal end leaves a comment at the last pulse.  Its relative time   *)
(* is computed as if max_time were absolute, in unsigned arithmetic.       *)
AbnormalEnd ==
    [marks EXCEPT !["comment"] =
        marker(@, (pulse.max - pulse.start) % TimeModulus, pulse.start + pulse.max,
               "terminated abnormally", FALSE)]

Abort ==
    /\ StreamEnds
    /\ IF pst = "PROCESSING_EVENTS" THEN WriteVariables(AbnormalEnd)
       ELSE UNCHANGED <<pvVars, markVars>>
    /\ UNCHANGED used

InitVariables ==
    /\ Init
    /\ pvs = <<>> /\ byKey = <<>> /\ xref = <<>> /\ described = <<>> /\ updates = <<>>
    /\ marks = [k \in MarkKinds |->
                  LET e == [t |-> 0, ts |-> 0, v |-> 0]
                  IN  IF k = "comment"
                      THEN [map |-> <<>>, last |-> NULL, nonNorm |-> FALSE, com |-> FALSE]
                      ELSE [map |-> <<e>>, last |-> e, nonNorm |-> FALSE, com |-> FALSE]]
    /\ logs = [k \in MarkKinds |-> <<>>]
    /\ used = [descs |-> 0, updates |-> 0, marks |-> 0]

Variables ==
    \/ \E k \in Keys, d \in Defs : DeviceDescriptorPkt(k, d)
    \/ \E k \in Keys, v \in Values, ts \in PVStamps : VariablePkt(k, v, ts)
    \/ \E a \in Annotations, ts \in PVStamps : AnnotationPkt(a[1], a[2], a[3], ts)

Next ==
    \/ (NewRun \/ Header \/ Events \/ EndRunEarly \/ OutputFails \/ Reports)
       /\ UNCHANGED <<pvVars, markVars, used>>
    \/ Variables
    \/ FinishRun
    \/ Abort

Spec == InitVariables /\ [][Next]_vars

----------------------------------------------------------------------------
(* Properties.                                                             *)

(* A value goes to a variable of the definition that was last received for *)
(* its key, through re-definitions, moved keys and shared connections.      *)
RoutedByDefinition ==
    \A k \in DOMAIN byKey : pvs[byKey[k]].def = described[k]

Entries(q) == {<<q[i].t, q[i].v>> : i \in DOMAIN q}
LogOf(d) == UNION {Entries(pvs[i].file) :
                     i \in {j \in DOMAIN pvs : sameDefinitionPVConn(pvs[j].def, d)}}
Taken(d) == {j \in DOMAIN updates : sameDefinitionPVConn(pvs[updates[j].pv].def, d)}
LastEarly(i, start) ==
    {j \in DOMAIN updates : updates[j].pv = i /\ updates[j].ts <= start
        /\ \A h \in DOMAIN updates : (updates[h].pv = i /\ h > j) => updates[h].ts > start}

(* In the finished file the log of a connection holds every value its       *)
(* variables got after the first pulse, at its time relative to it, the    *)
(* last value from before at time zero, and nothing else; on the way there  *)
(* every value is routed by the definition last received.                  *)
ValuesKept ==
    /\ RoutedByDefinition
    /\ pst = "DONE_PROCESSING" =>
        \A i \in {j \in DOMAIN pvs : ~pvs[j].def.ignore} :
            LET d == pvs[i].def
                at(j) == <<RelativeTo(RunStart, updates[j].ts), updates[j].v>>
            IN  /\ LogOf(d) \subseteq {at(j) : j \in Taken(d)}
                /\ \A j \in DOMAIN updates :
                      (updates[j].pv = i
                         /\ (updates[j].ts > RunStart \/ j \in LastEarly(i, RunStart)))
                      => at(j) \in LogOf(d)

(* The marker logs of a finished file are in the order of their times, and  *)
(* every marker is at its distance from the first pulse, whether it came   *)
(* before or after that pulse.                                             *)
MarkersInOrder ==
    pst = "DONE_PROCESSING" =>
        \A k \in MarkKinds : \A i \in DOMAIN logs[k] :
            /\ logs[k][i].t = RelativeTo(RunStart, logs[k][i].ts)
            /\ \A j \in DOMAIN logs[k] : i < j => logs[k][i].t <= logs[k][j].t

=============================================================================
