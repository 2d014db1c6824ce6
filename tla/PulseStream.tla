---------------------------- MODULE PulseStream ----------------------------
(***************************************************************************)
(* What the stream management service promises about the raw event data    *)
(* it is given: the events of a pulse are held together until the pulse is *)
(* recorded, the pulses are recorded in one order, oldest first, and       *)
(* nothing that was recorded is ever taken back or changed.  PulseAssembly *)
(* is the detailed specification that implements this one.                 *)
(***************************************************************************)
EXTENDS Naturals, Sequences, FiniteSets

CONSTANTS Pids,      \* pulse identifiers, ordered as the pulse map orders them
          Batches    \* the event packets of one behaviour

VARIABLES held,      \* the pulses being assembled: pid -> its batches
          stream     \* the recorded pulses, as the container gets them

svars == <<held, stream>>

(* The oldest pulses of a set, in the order in which they are recorded.    *)
IsOldest(S, P) == S \subseteq P /\ \A p \in S : \A q \in P \ S : p < q

InOrder(q, h, S) ==
    /\ Len(q) = Cardinality(S)
    /\ {q[i].pid : i \in DOMAIN q} = S
    /\ \A i \in DOMAIN q : q[i].batches = h[q[i].pid]
    /\ \A i, j \in DOMAIN q : i < j => q[i].pid < q[j].pid

Keep(h, S) == [p \in S |-> h[p]]

(* Recording: the stream grows by some of the oldest pulses.               *)
Emit(h, S) ==
    /\ IsOldest(S, DOMAIN h)
    /\ Len(stream') = Len(stream) + Cardinality(S)
    /\ SubSeq(stream', 1, Len(stream)) = stream
    /\ InOrder(SubSeq(stream', Len(stream) + 1, Len(stream')), h, S)

Init == held = <<>> /\ stream = <<>>

Record == \E S \in SUBSET DOMAIN held :
              Emit(held, S) /\ held' = Keep(held, DOMAIN held \ S)

(* A pulse is opened; the buffer may have to make room for it.             *)
Open(p) ==
    /\ p \notin DOMAIN held
    /\ \E S \in SUBSET DOMAIN held :
           /\ Emit(held, S)
           /\ held' = [q \in (DOMAIN held \ S) \union {p} |->
                          IF q = p THEN {} ELSE held[q]]

Accept(p, b) ==
    /\ p \in DOMAIN held
    /\ \A q \in DOMAIN held : b \notin held[q]
    /\ \A i \in DOMAIN stream : b \notin stream[i].batches
    /\ held' = [held EXCEPT ![p] = @ \union {b}]
    /\ UNCHANGED stream

(* The operator's "pop pulse" command throws a pulse away.                 *)
Discard(p) == p \in DOMAIN held /\ held' = Keep(held, DOMAIN held \ {p})
              /\ UNCHANGED stream

Next == \/ Record
        \/ \E p \in Pids : Open(p) \/ Discard(p)
        \/ \E p \in Pids, b \in Batches : Accept(p, b)

Spec == Init /\ [][Next]_svars
=============================================================================
