--------------------------- MODULE MCControlChannel ---------------------------
(* A small instance of ControlChannel for TLC.                             *)
EXTENDS ControlChannel

Fragments(n, last) == [i \in 1 .. n |-> IF i = n THEN last ELSE "part"]

CONSTANTS ClientHello, ServerHello, KeyRecord  \* packets per flight

MCHello == [p \in Peer |-> Fragments(IF p = "client" THEN ClientHello ELSE ServerHello, "hello")]

MCKey == [p \in Peer |-> Fragments(KeyRecord, "key")]
=============================================================================
