------------------------------ MODULE FrameLog ------------------------------
(***************************************************************************)
(* What frame synchronisation promises the players of a game: a single log *)
(* of frames that only grows, of which every player has applied a          *)
(* beginning that only grows.                                              *)
(***************************************************************************)
EXTENDS Integers, Sequences

CONSTANTS Games, Players, Frames

VARIABLES
    log,     \* game -> its frames, in order
    seen     \* game -> player -> the frames it applied, in order

vars == <<log, seen>>

Init ==
    /\ log = [g \in Games |-> <<>>]
    /\ seen = [g \in Games |-> [p \in Players |-> <<>>]]

EndFrame(g) ==
    /\ \E f \in Frames : log' = [log EXCEPT ![g] = Append(@, f)]
    /\ UNCHANGED seen

Learn(g, p) ==
    /\ \E n \in Len(seen[g][p]) + 1 .. Len(log[g]) :
          seen' = [seen EXCEPT ![g][p] = SubSeq(log[g], 1, n)]
    /\ UNCHANGED log

Next == \E g \in Games : EndFrame(g) \/ \E p \in Players : Learn(g, p)

Spec == Init /\ [][Next]_vars
=============================================================================
