----------------------------- MODULE MCXrayRemote -----------------------------
(* A small instance of XrayRemote for TLC.                                 *)
EXTENDS XrayRemote
=============================================================================
