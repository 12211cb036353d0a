------------------------------ MODULE GoBackend ------------------------------
(***************************************************************************)
(* The process-wide state of the WireGuard backend: the tunnel it thinks   *)
(* is up, the handle of its Go device, the Go devices that really exist,   *)
(* and the life of the Android service that hosts them.  A handle and a    *)
(* device are named by the tunnel they were opened for.  The operators     *)
(* below are the backend's half of a transition, each the accesses between *)
(* which no other thread's access makes a difference; the callback         *)
(* Tunnel.onStateChange belongs to WireGuardEngine.                        *)
(***************************************************************************)
CONSTANTS
  Tunnel,       \* WgTunnel objects, compared by identity
  NoTunnel      \* null, and the handle -1

ASSUME NoTunnelAssumption == NoTunnel \notin Tunnel

VARIABLES
  currentTunnel,  \* GoBackend.currentTunnel
  handle,         \* currentTunnelHandle
  device,         \* the open Go device that handle names; NoTunnel also when
                  \* awgTurnOff has already taken it out of Go's table
  lost,           \* history: tunnels that onDestroy cleared from under a
                  \* transition, an open device or a published tunnel
  vpnService      \* "none", "running", or "stopping": stopSelf was called and
                  \* onDestroy is still to come on the main thread

deviceVars == <<currentTunnel, handle, device, lost>>
backendVars == <<deviceVars, vpnService>>

TunnelOrNull == Tunnel \cup {NoTunnel}

BackendTypeOK ==
  /\ currentTunnel \in TunnelOrNull
  /\ handle \in TunnelOrNull
  /\ device \in {NoTunnel, handle}
  /\ lost \subseteq Tunnel
  /\ vpnService \in {"none", "running", "stopping"}

BackendInit ==
  /\ currentTunnel = NoTunnel
  /\ handle = NoTunnel
  /\ device = NoTunnel
  /\ lost = {}
  /\ vpnService = "none"

-----------------------------------------------------------------------------
StopSelf == vpnService' = IF vpnService = "none" THEN "none" ELSE "stopping"

\* Mutant: a DOWN closes whatever is up.
ClosedByDownAny(t) == t # NoTunnel /\ handle # NoTunnel

\* A DOWN for t does something, and is reported to t.
ClosedByDown(t) == t # NoTunnel /\ t = currentTunnel /\ handle # NoTunnel

\* setState(t, DOWN): nothing unless t is the tunnel that is up, and nothing
\* either ("Tunnel already down") when its handle is gone.
SetStateDown(t) ==
  IF ClosedByDown(t)
    THEN /\ currentTunnel' = NoTunnel /\ handle' = NoTunnel /\ device' = NoTunnel
         /\ StopSelf
         /\ UNCHANGED lost
    ELSE UNCHANGED backendVars

\* setStateInternal(UP): the service is there or is started.  A service that
\* stopSelf has condemned still counts as present.
GetService ==
  /\ vpnService' = IF vpnService = "none" THEN "running" ELSE vpnService
  /\ UNCHANGED deviceVars

\* establish and awgTurnOn, with the service obtained before, unless a handle is
\* still set ("Tunnel already up").
AwgTurnOn(t) ==
  /\ handle = NoTunnel
  /\ handle' = t /\ device' = t
  /\ UNCHANGED <<currentTunnel, lost, vpnService>>

\* The handle is looked at again, and the tunnel published.
Publish(t) ==
  /\ handle # NoTunnel
  /\ currentTunnel' = t
  /\ UNCHANGED <<handle, device, lost, vpnService>>

-----------------------------------------------------------------------------
(* VpnService.onDestroy, on the main thread and under no lock.             *)

\* awgTurnOff(owner.currentTunnelHandle) begins.
DestroyTurnOff ==
  /\ device' = NoTunnel
  /\ UNCHANGED <<currentTunnel, handle, lost, vpnService>>

\* It has returned; owner.currentTunnel = null.
DestroyNull ==
  /\ currentTunnel' = NoTunnel
  /\ UNCHANGED <<handle, device, lost, vpnService>>

\* owner.currentTunnelHandle = -1, whatever device it names by now and whichever
\* tunnel has been published meanwhile.
DestroyForget ==
  /\ handle' = NoTunnel /\ device' = NoTunnel
  /\ lost' = lost \cup ({device, currentTunnel} \ {NoTunnel})
  /\ UNCHANGED <<currentTunnel, vpnService>>

\* The next session needs a new service.
DestroyEnd ==
  /\ vpnService' = "none"
  /\ UNCHANGED deviceVars

\* External: Android revokes the VPN, and VpnService.onRevoke stops the service.
Revoke ==
  /\ vpnService = "running"
  /\ vpnService' = "stopping"
  /\ UNCHANGED deviceVars
=============================================================================
