---------------------------- MODULE ControlStream ----------------------------
(***************************************************************************)
(* What the OpenVPN reliability layer promises to its two users, the TLS   *)
(* objects at the two ends of a key negotiation: a stream in each          *)
(* direction, whose reader gets what the writer wrote, in order, nothing   *)
(* skipped and nothing twice.                                              *)
(***************************************************************************)
EXTENDS Naturals, Sequences

CONSTANTS Peer, Other

VARIABLES
  written,   \* what each peer has handed to the control channel
  read       \* what each peer has been handed by it

vars == <<written, read>>

Init ==
  /\ written = [p \in Peer |-> <<>>]
  /\ read = [p \in Peer |-> <<>>]

Extends(s, t) ==
  Len(t) <= Len(s) /\ \A i \in 1 .. Len(t) : s[i] = t[i]

(* A peer adds to its own stream and takes at most the next element of the *)
(* other one.                                                              *)
Step(p) ==
  /\ Extends(written'[p], written[p])
  /\ \/ read'[p] = read[p]
     \/ /\ Len(read[p]) < Len(written[Other[p]])
        /\ read'[p] = Append(read[p], written[Other[p]][Len(read[p]) + 1])
  /\ \A q \in Peer \ {p} : written'[q] = written[q] /\ read'[q] = read[q]

Next == \E p \in Peer : Step(p)

Spec == Init /\ [][Next]_vars

=============================================================================
