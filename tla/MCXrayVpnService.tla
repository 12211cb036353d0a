--------------------------- MODULE MCXrayVpnService ---------------------------
(* Small instances of XrayVpnService for TLC.                              *)
EXTENDS XrayVpnService, TLC

Symmetry == Permutations(Session)

\* Most properties say nothing once intents have overlapped.
Calm == ~overlap
=============================================================================
