--------------------------- MODULE MCPacketStream ---------------------------
(* Small instances of PacketStream for TLC. *)
EXTENDS PacketStream

MCKinds == {"bin", "json", "ws"}
=============================================================================
