----------------------------- MODULE MCVpnEngine -----------------------------
(* A small instance of VpnEngine for TLC.                                  *)
EXTENDS VpnEngine, TLC

CONSTANTS o1, o2, w1, w2, x1, x2, i1

MCProtocolOf == [p \in Profile |->
  CASE p \in {o1, o2} -> "OPENVPN"
    [] p \in {w1, w2} -> "WIREGUARD"
    [] p \in {x1, x2} -> "XRAY"
    [] p = i1 -> "IKEV2"]

(* Profiles of one engine can be exchanged, and so can callers.            *)
Symmetry == Permutations({o1, o2}) \cup Permutations({w1, w2}) \cup Permutations({x1, x2})
            \cup Permutations(Caller)
=============================================================================
