------------------------------ MODULE TunnelSlot ------------------------------
(***************************************************************************)
(* What the driver and its backend promise about devices, in the abstract. *)
(* One device is held at a time and is closed before another is opened.  A *)
(* tunnel that was retired (its owner asked for it to go down) is closed   *)
(* by that and opened no more.  The one exception is the end of the        *)
(* hosting service, which runs beside the transitions: while it ends, a    *)
(* tunnel can be set adrift, its device open and held by nobody, or its    *)
(* device gone and nobody told; it is outside the promise from then on.    *)
(***************************************************************************)
CONSTANTS Tunnel, NoTunnel

VARIABLES
  holder,    \* the tunnel whose device is held, or NoTunnel
  adrift,    \* tunnels set adrift by the end of the service
  retired,   \* tunnels that were told to go down
  ending     \* the service that hosts the device is being destroyed

slotVars == <<holder, adrift, retired, ending>>

Init == holder = NoTunnel /\ adrift = {} /\ retired = {} /\ ending = FALSE

Claim(t) ==
  /\ holder = NoTunnel
  /\ t \in retired => t \in adrift
  /\ holder' = t
  /\ UNCHANGED <<adrift, retired, ending>>

\* The device is closed: by a failure, by the system, or to make room.
Release ==
  /\ holder' = NoTunnel
  /\ UNCHANGED <<adrift, retired, ending>>

Retire(t) ==
  /\ retired' = retired \cup {t}
  /\ \/ holder' = IF holder = t THEN NoTunnel ELSE holder
     \/ ending /\ UNCHANGED holder
  /\ UNCHANGED <<adrift, ending>>

Forget(t) ==
  /\ ending
  /\ holder' = NoTunnel
  /\ adrift' = adrift \cup ({holder, t} \ {NoTunnel})
  /\ UNCHANGED <<retired, ending>>

ServiceEnds ==
  /\ ending' = ~ending
  /\ UNCHANGED <<holder, adrift, retired>>

Next ==
  \/ \E t \in Tunnel : Claim(t) \/ Retire(t)
  \/ \E t \in Tunnel \cup {NoTunnel} : Forget(t)
  \/ Release \/ ServiceEnds

Spec == Init /\ [][Next]_slotVars
=============================================================================
