--------------------------- MODULE MCLogicServer ----------------------------
(* Small instances of LogicServer for TLC. *)
EXTENDS LogicServer, TLC

\* Users and player objects are interchangeable; zones and rooms are not, and robots
\* come in a fixed order.
MCSymmetry == Permutations(Uids) \cup Permutations(Plays)

\* Some order of the robots.
MCRobotRank ==
    CHOOSE rank \in [Robots -> 1 .. Cardinality(Robots)] :
        \A b, c \in Robots : rank[b] = rank[c] => b = c

=============================================================================
