---------------------------- MODULE PacketChannel ----------------------------
(***************************************************************************)
(* What the network layer promises its users: a connection hands over the  *)
(* packets its peer sent, each once, whole and in order, until it closes.  *)
(***************************************************************************)
EXTENDS Integers, Sequences

CONSTANT Packets

VARIABLES
    given,    \* the packets the peer sent, in order
    taken,    \* the packets handed over, in order
    open

vars == <<given, taken, open>>

Init == given = <<>> /\ taken = <<>> /\ open = TRUE

Give == (\E p \in Packets : given' = Append(given, p)) /\ UNCHANGED <<taken, open>>

Take ==
    /\ open
    /\ Len(taken) < Len(given)
    /\ taken' = Append(taken, given[Len(taken) + 1])
    /\ UNCHANGED <<given, open>>

Close == open' = FALSE /\ UNCHANGED <<given, taken>>

Next == Give \/ Take \/ Close

Spec == Init /\ [][Next]_vars
==============================================================================
