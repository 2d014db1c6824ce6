------------------------- MODULE MCStreamVariables -------------------------
(* Two pixel maps, one bank set per kind of format, two beam monitors, and *)
(* three definitions: a variable, the same under another name (the same    *)
(* EPICS connection), and the first one of another type.                   *)
EXTENDS StreamVariables

MCPixelMaps == {{1, 3}}
MCBankSets == {[banks |-> {3}, flags |-> {"histo", "event"}, range |-> TRUE]}
MCMonitorFormat == [m \in {1} |-> [format |-> "event", range |-> TRUE]]
\* a bank twice in one packet, and a state that makes the array of banks smaller
Twice == << <<1, 0, 1>>, <<1, 0, 1>> >>
Lower == << <<1, 1, 1>> >>
MCSections == {<< <<1, 0, 1>> >>, << <<2, 0, 1>>, <<-1, 0, 1>> >>, Twice}
MCStates == {<< <<3, 0, 2>>, <<3, 1, 1>>, <<-1, 1, 1>> >>, Lower}
MCMonSections == {<< <<1, 0, 2>>, <<2, 0, 1>> >>}

Def(n, c, t) == [name |-> n, conn |-> c, type |-> t, ignore |-> FALSE]
MCDefs == {Def("a", "x", "number"), Def("b", "x", "number"), Def("a", "x", "string")}

MCAnnotations == {<<"pause", 1, TRUE>>, <<"scan", 1, FALSE>>, <<"comment", 0, FALSE>>}

\* Bound: variables, or markers, are combined with at most one pulse of one
\* event, with no settings of banks and monitors, and with either both names
\* or none.
Light ==
    /\ pulse.count <= 1 /\ odd = 0 /\ Cardinality(info) # 1
    /\ \A p \in DOMAIN bankLog : bankLog[p] \in {<<>>, << <<1, 0, 1>> >>}
    /\ monLog = <<>> /\ bankSets = {} /\ DOMAIN mons = {}
    /\ used.descs = 0 \/ used.marks = 0

\* Bound: packets that are odd in one way or another, and the pulses with
\* Twice or Lower.
Unusual == {p \in DOMAIN bankLog : bankLog[p] \in {Twice, Lower}}
FewOdd == /\ odd + Cardinality(Unusual) <= MaxOdd
          /\ Unusual # {} => pulse.count <= 2

MCNext ==
    \/ /\ NewRun \/ Header \/ Events \/ EndRunEarly \/ OutputFails \/ Reports
       /\ UNCHANGED <<pvVars, markVars, used>>
       /\ used.descs + used.updates + used.marks = 0 \/ Light'
       /\ FewOdd'
    \/ Light /\ Variables /\ Light'
    \/ FinishRun \/ Abort

MCSpec == InitVariables /\ [][MCNext]_vars
=============================================================================
