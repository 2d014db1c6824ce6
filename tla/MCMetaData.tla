----------------------------- MODULE MCMetaData -----------------------------
(* A small instance of MetaData: two sources with one device of two          *)
(* variables, one configured persistent fast-metadata variable, one unknown  *)
(* one and a chopper.                                                        *)
EXTENDS MetaData

MCConfigured == [k \in {"flipper"} |-> TRUE]
MCFastKeys == {"flipper", "adc"}

B(u, f, d, x, n) == [updates |-> u, fast |-> f, descs |-> d, downs |-> x, files |-> n]

\* Values lost with their source; descriptions that change and return; fast
\* metadata beside a source.
MCBudgets == {B(3, 0, 1, 1, 0), B(2, 0, 2, 1, 1), B(1, 0, 3, 2, 0), B(1, 2, 1, 1, 1), B(0, 3, 0, 0, 1)}
=============================================================================
