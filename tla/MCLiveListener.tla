--------------------------- MODULE MCLiveListener ---------------------------
EXTENDS LiveListener

\* Bound: SendPausedData changes only in a behaviour of one second.
Few == toggles = 0 \/ pulseTime = 1

MCNext == Next /\ Few'
MCSpec == Init /\ [][MCNext]_vars
=============================================================================
