---------------------------- MODULE MCFrameSync -----------------------------
(* Small instances of FrameSync for TLC. *)
EXTENDS FrameSync, TLC

\* Seats are interchangeable.
MCSymmetry == Permutations(Seats)
=============================================================================
