-------------------------- MODULE MCPulseAssembly --------------------------
(* PulseAssembly with its event packets given pixels of every kind in turn, *)
(* and its two data sources interchangeable.                               *)
EXTENDS PulseAssembly, TLC

PixelsInTurn == <<[nibble |-> 7, state |-> 0], [nibble |-> 0, state |-> 1],
                  [nibble |-> 4, state |-> 0], [nibble |-> 5, state |-> 0],
                  [nibble |-> 8, state |-> 0]>>
MCPixel == [b \in 1 .. MaxPackets |-> PixelsInTurn[1 + ((b - 1) % 5)]]
Swap == Permutations(Sources)
=============================================================================
