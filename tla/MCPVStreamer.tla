---------------------------- MODULE MCPVStreamer ----------------------------
(* A device that gets and loses variables, an active variable, another      *)
(* place in the file, and goes away; a second that is only ever an unused   *)
(* entry.                                                                   *)
EXTENDS PVStreamer

Entry(dev, on, pvs, act) == [dev |-> dev, on |-> on, pvs |-> pvs, act |-> act]
MCFiles == { << Entry("d", TRUE, <<"x">>, None) >>,
             << Entry("d", TRUE, <<"y">>, "x") >>,
             << Entry("e", FALSE, <<"x">>, None), Entry("d", TRUE, <<"x", "y">>, "x") >>,
             << Entry("d", FALSE, <<"x">>, None) >> }
MCMetas == { [type |-> "int", units |-> "mm"], [type |-> "string", units |-> "none"] }
=============================================================================
