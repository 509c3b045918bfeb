---------------------------- MODULE MCLoginBonus ----------------------------
(* Small instances of LoginBonus for TLC. *)
EXTENDS LoginBonus, TLC

CONSTANTS q1, q2, u1, u2

MCOneUser == [q \in Reqs |-> u1]
MCTwoUsers == q1 :> u1 @@ q2 :> u2

\* Two bonuses, so that a streak reaches the end of the list in three days.
MCBonues == <<100, 200>>
=============================================================================
