------------------------------ MODULE MCGateway ------------------------------
(* Small instances of Gateway for TLC. *)
EXTENDS Gateway

CONSTANT u1

\* One user on several connections.
MCOneAccount == [c \in Clients |-> {u1}]
==============================================================================
