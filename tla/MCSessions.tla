----------------------------- MODULE MCSessions -----------------------------
(* Small instances of Sessions for TLC. *)
EXTENDS Sessions

CONSTANT u1

\* One user on several connections.
MCOneAccount == [c \in Clients |-> {u1}]
=============================================================================
