------------------------------ MODULE MCPacketId ------------------------------
(* A small instance of PacketId for TLC.                                   *)
EXTENDS PacketId
=============================================================================
