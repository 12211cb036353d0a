-------------------------- MODULE MCWireGuardEngine --------------------------
(* Small instances of WireGuardEngine for TLC.                             *)
EXTENDS WireGuardEngine

CONSTANT MaxEvents   \* how often a user, the router or the system asks for a stop

VARIABLE events

Asked == DisconnectTap \/ SystemRevoke \/ \E r \in Router : BlockingStop(r)

MCInit == Init /\ events = 0

MCNext ==
  /\ Next
  /\ events' = IF Asked THEN events + 1 ELSE events
  /\ events' <= MaxEvents

\* The driver's behaviours with at most MaxEvents stop requests.
MCSpec == MCInit /\ [][MCNext]_<<vars, events>>
MCFairSpec == MCSpec /\ Fairness
=============================================================================
