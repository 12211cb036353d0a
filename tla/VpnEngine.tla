------------------------------ MODULE VpnEngine ------------------------------
(***************************************************************************)
(* The router (VpnEngine.kt): connect and disconnect over four engines,    *)
(* of which Android lets one hold the VPN, and the reports the engines     *)
(* send back.                                                              *)
(*                                                                         *)
(* connect() is a coroutine on an IO thread: it stops the other engines    *)
(* one after the other, claims the router's fields and starts its own.     *)
(* disconnect() runs on the main thread, and so do the reports of OpenVPN, *)
(* Xray and IKEv2, which first pass a gate on activeProtocol.  The engines *)
(* themselves are reduced to a phase; WireGuardEngine and XrayVpnService   *)
(* model two of them in detail.                                            *)
(***************************************************************************)
EXTENDS Naturals, Sequences

CONSTANTS
  Profile,      \* the profiles
  ProtocolOf,   \* the engine of each
  NoProfile,    \* null
  Caller,       \* the coroutines that may be in connect() at the same time
  MaxCalls,     \* bound on the connects
  MaxTaps,      \* bound on the disconnects
  MaxDeaths     \* bound on the deaths of the :openvpn process

Protocol == {"OPENVPN", "WIREGUARD", "XRAY", "IKEV2"}

ASSUME RouterAssumption ==
  /\ ProtocolOf \in [Profile -> Protocol]
  /\ NoProfile \notin Profile
  /\ MaxCalls \in Nat /\ MaxTaps \in Nat /\ MaxDeaths \in Nat

VARIABLES
  ui,         \* _state, _connectedUuid, _pendingUuid
  active,     \* _activeProtocol
  call,       \* each caller's place in connect(), and its profile
  bind,       \* tunnelService: "none", "asked" for, or "bound"
  pendingStop,\* disconnectPending
  xrayUuid,   \* XrayEngine.activeUuid
  wgActive,   \* WireGuardEngine.active is set
  eng,        \* the phase of each engine, and the profile it runs
  earlier,    \* profiles that OpenVPN or Xray was asked for before the latest one,
              \* whose starts are still under way
  stops,      \* stop threads, stop intents and launched DOWNs on their way
  events,     \* the reports of each engine on their way to the router
  admitted,   \* the report of each engine that has passed the gate
  clash,      \* history: calls overlapped, a claim overtook a report, a call was
              \* refused before it reached its engine, or Android took the VPN
              \* from the active engine or from WireGuard
  used        \* connects, taps and deaths so far

vars == <<ui, active, call, bind, pendingStop, xrayUuid, wgActive, eng, earlier,
          stops, events, admitted, clash, used>>

(* VpnState; ERROR stands for the inactive ones that keep their reason.    *)
State == {"DISCONNECTED", "CONNECTING", "CONNECTED", "ERROR"}

None == [kind |-> "none", uuid |-> NoProfile]

Report == [kind : State \cup {"vpn", "none"}, uuid : Profile \cup {NoProfile}]

Says(s) == [kind |-> s, uuid |-> NoProfile]

Place == {"idle", "stopOpenVpn", "stopWireGuard", "stopIkev2", "stopXray", "pending",
          "protocol", "start", "wgLock", "wgUp", "wgDone"}

(* "posted": asked for; "managed": OpenVPN's management socket is open;    *)
(* "replacing": OpenVPN asked for while a session is managed or up.        *)
Phase == {"off", "posted", "managed", "replacing", "up"}

Init ==
  /\ ui = [state |-> "DISCONNECTED", connected |-> NoProfile, pending |-> NoProfile]
  /\ active = "OPENVPN"
  /\ call = [c \in Caller |-> [at |-> "idle", uuid |-> NoProfile]]
  /\ bind = "none" /\ pendingStop = FALSE
  /\ xrayUuid = NoProfile /\ wgActive = FALSE
  /\ eng = [e \in Protocol |-> [phase |-> "off", uuid |-> NoProfile]]
  /\ earlier = {}
  /\ stops = [e \in Protocol |-> 0]
  /\ events = [e \in Protocol |-> <<>>]
  /\ admitted = [e \in Protocol |-> None]
  /\ clash = FALSE
  /\ used = [calls |-> 0, taps |-> 0, deaths |-> 0]

-----------------------------------------------------------------------------
(* applyState: only a clean stop clears the profile association.           *)
ApplyState(u, s) ==
  IF s = "DISCONNECTED"
    THEN [state |-> s, connected |-> NoProfile, pending |-> NoProfile]
    ELSE [u EXCEPT !.state = s]

(* setConnectedVPN.                                                        *)
SetConnectedVpn(u, p) == [u EXCEPT !.connected = p, !.pending = NoProfile]

(* The router's callback for a report that has passed the gate.  That of   *)
(* IKEv2 is silent about CONNECTING.                                       *)
Consume(e, u, r) ==
  IF r.kind = "vpn" THEN SetConnectedVpn(u, r.uuid)
  ELSE IF e = "IKEV2" /\ r.kind = "CONNECTING" THEN u
  ELSE ApplyState(u, r.kind)

(* A callback of the WireGuard driver on the caller's own thread.          *)
WgSays(u, s) == IF active = "WIREGUARD" THEN ApplyState(u, s) ELSE u

Goto(c, place) == call' = [call EXCEPT ![c].at = place]

Return(c) == call' = [call EXCEPT ![c] = [at |-> "idle", uuid |-> NoProfile]]

Sends(evs, e, reports) == [evs EXCEPT ![e] = @ \o reports]

Running(e) == eng[e].phase # "off"

(* stateMutex of the WireGuard driver is free.                             *)
WgFree == \A c \in Caller : call[c].at # "wgUp"

-----------------------------------------------------------------------------
(* connect().                                                              *)
Connect(c, u) ==
  /\ call[c].at = "idle"
  /\ used.calls < MaxCalls
  /\ call' = [call EXCEPT ![c] = [at |-> "stopOpenVpn", uuid |-> u]]
  /\ clash' = (clash \/ \E d \in Caller : call[d].at # "idle")
  /\ used' = [used EXCEPT !.calls = @ + 1]
  /\ UNCHANGED <<ui, active, bind, pendingStop, xrayUuid, wgActive, eng, stops, events, admitted,
                 earlier>>

Keeps(c, e) == ProtocolOf[call[c].uuid] = e

(* stopOtherEngine, OpenVPN: only through a binder that has arrived.       *)
StopOpenVpn(c) ==
  /\ call[c].at = "stopOpenVpn"
  /\ stops' = IF ~Keeps(c, "OPENVPN") /\ active = "OPENVPN" /\ bind = "bound"
                THEN [stops EXCEPT !["OPENVPN"] = @ + 1] ELSE stops
  /\ Goto(c, "stopWireGuard")
  /\ UNCHANGED <<ui, active, bind, pendingStop, xrayUuid, wgActive, eng, events, admitted, clash,
                 used, earlier>>

(* disconnectBlocking: nothing to do when `active' is null.                *)
StopWireGuard(c) ==
  /\ call[c].at = "stopWireGuard"
  /\ IF Keeps(c, "WIREGUARD") \/ ~wgActive THEN UNCHANGED <<ui, wgActive, eng>>
     ELSE /\ WgFree
          /\ wgActive' = FALSE
          /\ eng' = [eng EXCEPT !["WIREGUARD"] = [phase |-> "off", uuid |-> NoProfile]]
          /\ ui' = WgSays(ui, "DISCONNECTED")
  /\ Goto(c, "stopIkev2")
  /\ UNCHANGED <<active, bind, pendingStop, xrayUuid, stops, events, admitted, clash, used,
                 earlier>>

StopIkev2(c) ==
  /\ call[c].at = "stopIkev2"
  /\ stops' = IF ~Keeps(c, "IKEV2") /\ active = "IKEV2"
                THEN [stops EXCEPT !["IKEV2"] = @ + 1] ELSE stops
  /\ Goto(c, "stopXray")
  /\ UNCHANGED <<ui, active, bind, pendingStop, xrayUuid, wgActive, eng, events, admitted, clash,
                 used, earlier>>

(* cleanup() of the Xray service cancels the scope of its latest bring-up, *)
(* which may be one that another has come up before.  The others go on.    *)
CleanupXray ==
  \/ UNCHANGED earlier
  \/ \E p \in earlier : ProtocolOf[p] = "XRAY" /\ earlier' = earlier \ {p}

(* forceStop: acknowledged, which a bring-up may survive; or the control   *)
(* binding fails and a stop intent is sent.                                *)
StopXray(c) ==
  /\ call[c].at = "stopXray"
  /\ IF Keeps(c, "XRAY") \/ xrayUuid = NoProfile THEN UNCHANGED <<xrayUuid, eng, stops, earlier>>
     ELSE /\ xrayUuid' = NoProfile
          /\ \/ /\ eng' = [eng EXCEPT !["XRAY"] = [phase |-> "off", uuid |-> NoProfile]]
                /\ CleanupXray
                /\ UNCHANGED stops
             \/ /\ eng["XRAY"].phase = "posted"
                /\ UNCHANGED <<eng, stops, earlier>>
             \/ /\ stops' = [stops EXCEPT !["XRAY"] = @ + 1]
                /\ UNCHANGED <<eng, earlier>>
  /\ Goto(c, "pending")
  /\ UNCHANGED <<ui, active, bind, pendingStop, wgActive, events, admitted, clash, used>>

ClaimPending(c) ==
  /\ call[c].at = "pending"
  /\ ui' = [ui EXCEPT !.pending = call[c].uuid]
  /\ Goto(c, "protocol")
  /\ UNCHANGED <<active, bind, pendingStop, xrayUuid, wgActive, eng, stops, events, admitted,
                 clash, used, earlier>>

ClaimProtocol(c) ==
  /\ call[c].at = "protocol"
  /\ active' = ProtocolOf[call[c].uuid]
  /\ Goto(c, "start")
  /\ clash' = (clash \/ \E e \in Protocol : admitted[e] # None)
  /\ UNCHANGED <<ui, bind, pendingStop, xrayUuid, wgActive, eng, stops, events, admitted, used,
                 earlier>>

Posted(c, phase) == [eng EXCEPT ![ProtocolOf[call[c].uuid]] =
                       [phase |-> phase, uuid |-> call[c].uuid]]

(* A START that finds a bring-up under way leaves it alone.  That one      *)
(* brings up the profile it read from the service's field, its own or, if  *)
(* it had not begun, the latest.                                           *)
ConnectXray(c) ==
  /\ call[c].at = "start" /\ Keeps(c, "XRAY")
  /\ IF eng["XRAY"].phase = "posted"
       THEN \E p \in {eng["XRAY"].uuid, call[c].uuid} : earlier' = earlier \cup {p}
       ELSE UNCHANGED earlier
  /\ ui' = [ApplyState(ui, "CONNECTING") EXCEPT !.connected = call[c].uuid]
  /\ xrayUuid' = call[c].uuid
  /\ eng' = Posted(c, "posted")
  /\ Return(c)
  /\ UNCHANGED <<active, bind, pendingStop, wgActive, stops, events, admitted, clash, used>>

(* bindTunnelService: bindService may also throw or return false, which is *)
(* logged at most.                                                         *)
BindTunnelService == bind' \in {bind, IF bind = "none" THEN "asked" ELSE bind}

(* The profile is gone, or the start throws.                               *)
ConnectOpenVpnFails(c) ==
  /\ call[c].at = "start" /\ Keeps(c, "OPENVPN")
  /\ ui' = [ui EXCEPT !.pending = NoProfile]
  /\ Return(c)
  /\ BindTunnelService
  /\ clash' = TRUE
  /\ UNCHANGED <<active, pendingStop, xrayUuid, wgActive, eng, stops, events, admitted, used,
                 earlier>>

(* The start intents are handled one after the other.                      *)
ConnectOpenVpn(c) ==
  /\ call[c].at = "start" /\ Keeps(c, "OPENVPN")
  /\ BindTunnelService
  /\ earlier' = IF eng["OPENVPN"].phase \in {"posted", "replacing"}
                  THEN earlier \cup {eng["OPENVPN"].uuid} ELSE earlier
  /\ eng' = Posted(c, IF eng["OPENVPN"].phase \in {"off", "posted"} THEN "posted" ELSE "replacing")
  /\ Return(c)
  /\ UNCHANGED <<ui, active, pendingStop, xrayUuid, wgActive, stops, events, admitted, clash, used>>

ConnectIkev2(c) ==
  /\ call[c].at = "start" /\ Keeps(c, "IKEV2")
  /\ \/ /\ ui' = [ApplyState(ui, "ERROR") EXCEPT !.pending = NoProfile]
        /\ clash' = TRUE
        /\ UNCHANGED eng
     \/ /\ ui' = [ApplyState(ui, "CONNECTING") EXCEPT !.connected = call[c].uuid]
        /\ eng' = Posted(c, "posted")
        /\ UNCHANGED clash
  /\ Return(c)
  /\ UNCHANGED <<active, bind, pendingStop, xrayUuid, wgActive, stops, events, admitted, used,
                 earlier>>

(* Mutant of ConnectWireGuard: taken for a profile of another engine.      *)
ConnectWireGuardAny(c) ==
  /\ call[c].at = "start"
  /\ ui' = ApplyState(ui, "CONNECTING")
  /\ Goto(c, "wgLock")
  /\ UNCHANGED <<active, bind, pendingStop, xrayUuid, wgActive, eng, stops, events, admitted,
                 clash, used, earlier>>

ConnectWireGuard(c) ==
  /\ call[c].at = "start" /\ Keeps(c, "WIREGUARD")
  /\ ui' = ApplyState(ui, "CONNECTING")
  /\ Goto(c, "wgLock")
  /\ UNCHANGED <<active, bind, pendingStop, xrayUuid, wgActive, eng, stops, events, admitted,
                 clash, used, earlier>>

(* The driver's connect: an unreadable profile returns without a report; a *)
(* tunnel that is up goes down first, by the driver when it knows of it,   *)
(* else by the backend after CONNECTING.  A DOWN launched for that tunnel  *)
(* finds it gone.                                                          *)
WgLock(c) ==
  /\ call[c].at = "wgLock" /\ WgFree
  /\ \/ /\ Return(c)
        /\ clash' = TRUE
        /\ UNCHANGED <<ui, wgActive, eng, stops>>
     \/ /\ Goto(c, "wgUp")
        /\ ui' = LET down(u) == IF Running("WIREGUARD") THEN WgSays(u, "DISCONNECTED") ELSE u
                 IN  IF wgActive THEN WgSays(down(ui), "CONNECTING")
                     ELSE down(WgSays(ui, "CONNECTING"))
        /\ wgActive' = TRUE
        /\ eng' = Posted(c, "posted")
        /\ stops' = [stops EXCEPT !["WIREGUARD"] = 0]
        /\ UNCHANGED clash
  /\ UNCHANGED <<active, bind, pendingStop, xrayUuid, events, admitted, used, earlier>>

(* Android: an engine that opens its tunnel revokes the one that is up.    *)
Revoked(e) == {f \in Protocol \ {e} : eng[f].phase = "up"}

Up(e) == [f \in Protocol |-> IF f = e THEN [eng[f] EXCEPT !.phase = "up"]
                             ELSE IF f \in Revoked(e) THEN [phase |-> "off", uuid |-> NoProfile]
                             ELSE eng[f]]

UpReports(e) == [f \in Protocol |->
                   IF f \in Revoked(e) THEN Append(events[f], Says("DISCONNECTED"))
                   ELSE IF f = e /\ e # "WIREGUARD" THEN Append(events[f], Says("CONNECTED"))
                   ELSE events[f]]

WgUp(c) ==
  /\ call[c].at = "wgUp"
  /\ \/ /\ eng' = Up("WIREGUARD")
        /\ events' = UpReports("WIREGUARD")
        /\ ui' = WgSays(ui, "CONNECTED")
        /\ Goto(c, "wgDone")
        /\ UNCHANGED wgActive
     \/ /\ eng' = [eng EXCEPT !["WIREGUARD"] = [phase |-> "off", uuid |-> NoProfile]]
        /\ wgActive' = FALSE
        /\ \E s \in {"ERROR", "DISCONNECTED"} : ui' = WgSays(ui, s)
        /\ Return(c)
        /\ UNCHANGED events
  /\ UNCHANGED <<active, bind, pendingStop, xrayUuid, stops, admitted, clash, used, earlier>>

(* Mutant of WgDone: the profile is not named.                             *)
WgDoneUnnamed(c) ==
  /\ call[c].at = "wgDone"
  /\ Return(c)
  /\ UNCHANGED <<ui, active, bind, pendingStop, xrayUuid, wgActive, eng, stops, events, admitted,
                 clash, used, earlier>>

WgDone(c) ==
  /\ call[c].at = "wgDone"
  /\ ui' = [ui EXCEPT !.connected = call[c].uuid]
  /\ Return(c)
  /\ UNCHANGED <<active, bind, pendingStop, xrayUuid, wgActive, eng, stops, events, admitted,
                 clash, used, earlier>>

-----------------------------------------------------------------------------
(* disconnect(), on the main thread.                                       *)
Tap ==
  /\ used.taps < MaxTaps
  /\ used' = [used EXCEPT !.taps = @ + 1]
  /\ clash' = (clash \/ \E c \in Caller : call[c].at # "idle")
  /\ UNCHANGED <<active, call, xrayUuid, eng, events, admitted,
                 earlier>>

Disconnect ==
  /\ Tap
  /\ LET u == [ui EXCEPT !.pending = NoProfile]
     IN  ui' = IF active = "WIREGUARD" THEN ApplyState(u, "DISCONNECTED") ELSE u
  /\ wgActive' = (wgActive /\ active # "WIREGUARD")
  /\ stops' = IF \/ active \in {"XRAY", "IKEV2"}
                 \/ active = "WIREGUARD" /\ wgActive
                 \/ active = "OPENVPN" /\ bind = "bound"
                THEN [stops EXCEPT ![active] = @ + 1] ELSE stops
  /\ IF active = "OPENVPN" /\ bind # "bound"
       THEN pendingStop' = TRUE /\ BindTunnelService
       ELSE UNCHANGED <<pendingStop, bind>>

OnServiceConnected ==
  /\ bind = "asked"
  /\ bind' = "bound"
  /\ pendingStop' = FALSE
  /\ stops' = IF pendingStop THEN [stops EXCEPT !["OPENVPN"] = @ + 1] ELSE stops
  /\ UNCHANGED <<ui, active, call, xrayUuid, wgActive, eng, events, admitted, clash, used, earlier>>

(* The :openvpn process dies.  Android binds anew, delivers a start intent *)
(* that was under way again, and may start the session that ran again.     *)
OnServiceDisconnected ==
  /\ bind = "bound" /\ used.deaths < MaxDeaths
  /\ bind' = "asked"
  /\ \/ /\ eng["OPENVPN"].phase # "off"
        /\ eng' = [eng EXCEPT !["OPENVPN"].phase = "posted"]
     \/ /\ eng["OPENVPN"].phase \notin {"posted", "replacing"}
        /\ eng' = [eng EXCEPT !["OPENVPN"] = [phase |-> "off", uuid |-> NoProfile]]
  /\ used' = [used EXCEPT !.deaths = @ + 1]
  /\ UNCHANGED <<ui, active, call, pendingStop, xrayUuid, wgActive, stops, events, admitted, clash,
                 earlier>>

-----------------------------------------------------------------------------
(* Mutant of Gate: every report is admitted.                               *)
GateOpen(e) ==
  /\ events[e] # <<>> /\ admitted[e] = None
  /\ events' = [events EXCEPT ![e] = Tail(@)]
  /\ admitted' = [admitted EXCEPT ![e] = Head(events[e])]
  /\ xrayUuid' = IF e = "XRAY" /\ Head(events[e]).kind = "DISCONNECTED" THEN NoProfile
                 ELSE xrayUuid
  /\ UNCHANGED <<ui, active, call, bind, pendingStop, wgActive, eng, stops, clash, used, earlier>>

(* A report reaches the router: XrayEngine forgets its profile in any      *)
(* case, the gate then admits or drops the report.                         *)
Gate(e) ==
  /\ events[e] # <<>> /\ admitted[e] = None
  /\ events' = [events EXCEPT ![e] = Tail(@)]
  /\ admitted' = [admitted EXCEPT ![e] = IF active = e THEN Head(events[e]) ELSE None]
  /\ xrayUuid' = IF e = "XRAY" /\ Head(events[e]).kind = "DISCONNECTED" THEN NoProfile
                 ELSE xrayUuid
  /\ UNCHANGED <<ui, active, call, bind, pendingStop, wgActive, eng, stops, clash, used, earlier>>

Handle(e) ==
  /\ admitted[e] # None
  /\ ui' = Consume(e, ui, admitted[e])
  /\ admitted' = [admitted EXCEPT ![e] = None]
  /\ UNCHANGED <<active, call, bind, pendingStop, xrayUuid, wgActive, eng, stops, events, clash,
                 used, earlier>>

-----------------------------------------------------------------------------
(* The engines.                                                            *)
Env == UNCHANGED <<ui, active, call, bind, pendingStop, xrayUuid, wgActive, admitted, used>>

(* The start intent of p and the profile; the session p replaces, if any,  *)
(* ends; the management socket.                                            *)
LaunchReports(p) ==
  Sends(events, "OPENVPN",
    <<Says("CONNECTING"), [kind |-> "vpn", uuid |-> p]>>
    \o IF eng["OPENVPN"].phase = "replacing"
         THEN <<Says("DISCONNECTED"), Says("CONNECTING")>> ELSE <<>>)

(* A start ends early, before anything is replaced: the profile is not     *)
(* found, or another app holds the VPN and the user is asked.              *)
NoLaunchReports ==
  \/ events' = Sends(events, "OPENVPN", <<Says("CONNECTING")>>)
  \/ events' = Sends(events, "OPENVPN", <<Says("CONNECTING"), Says("ERROR")>>)

EarlierStarts == {p \in earlier : ProtocolOf[p] = "OPENVPN"}

(* OpenVPNService, the latest start.                                       *)
OpenVpnLaunch ==
  /\ eng["OPENVPN"].phase \in {"posted", "replacing"} /\ EarlierStarts = {}
  /\ \/ /\ eng' = [eng EXCEPT !["OPENVPN"].phase = "managed"]
        /\ events' = LaunchReports(eng["OPENVPN"].uuid)
     \/ /\ eng["OPENVPN"].phase = "posted"
        /\ eng' = [eng EXCEPT !["OPENVPN"] = [phase |-> "off", uuid |-> NoProfile]]
        /\ NoLaunchReports
  /\ Env /\ UNCHANGED <<stops, clash, earlier>>

(* An earlier one, which the latest then replaces.                         *)
OpenVpnLaunchEarlier(p) ==
  /\ eng["OPENVPN"].phase \in {"posted", "replacing"} /\ p \in EarlierStarts
  /\ \/ /\ eng' = [eng EXCEPT !["OPENVPN"].phase = "replacing"]
        /\ events' = LaunchReports(p)
     \/ /\ eng["OPENVPN"].phase = "posted"
        /\ NoLaunchReports
        /\ UNCHANGED eng
  /\ earlier' = earlier \ {p}
  /\ Env /\ UNCHANGED <<stops, clash>>

ComesUp(e) ==
  /\ eng[e].phase = IF e = "OPENVPN" THEN "managed" ELSE "posted"
  /\ e # "WIREGUARD"
  /\ eng' = Up(e)
  /\ events' = UpReports(e)
  /\ clash' = (clash \/ Revoked(e) \cap {active, "WIREGUARD"} # {})
  /\ Env /\ UNCHANGED <<stops, earlier>>

(* An Xray bring-up that a later START has overtaken comes up: its tunnel  *)
(* replaces the one that is up, and the latest is now the one under way.   *)
OvertakenUp(p) ==
  /\ p \in earlier /\ ProtocolOf[p] = "XRAY"
  /\ eng' = [Up("XRAY") EXCEPT !["XRAY"] = [phase |-> "up", uuid |-> p]]
  /\ earlier' = (earlier \ {p})
               \cup (IF eng["XRAY"].phase = "posted" THEN {eng["XRAY"].uuid} ELSE {})
  /\ events' = UpReports("XRAY")
  /\ clash' = (clash \/ Revoked("XRAY") \cap {active, "WIREGUARD"} # {})
  /\ Env /\ UNCHANGED stops

(* It fails: its cleanup() takes down whatever tunnel is up, and cancels   *)
(* the latest bring-up unless that runs.                                   *)
OvertakenFails(p) ==
  /\ p \in earlier /\ ProtocolOf[p] = "XRAY"
  /\ earlier' = earlier \ {p}
  /\ \/ eng' = [eng EXCEPT !["XRAY"] = [phase |-> "off", uuid |-> NoProfile]]
     \/ eng["XRAY"].phase = "posted" /\ UNCHANGED eng
  /\ events' = Sends(events, "XRAY", <<Says("DISCONNECTED")>>)
  /\ Env /\ UNCHANGED <<stops, clash>>

Cleanup(e) == IF e = "XRAY" THEN CleanupXray ELSE UNCHANGED earlier

(* The session fails, or ends by itself.                                   *)
Ends(e) ==
  /\ eng[e].phase \in {"managed", "up"} \cup (IF e = "OPENVPN" THEN {} ELSE {"posted"})
  /\ e # "WIREGUARD"
  /\ eng' = [eng EXCEPT ![e] = [phase |-> "off", uuid |-> NoProfile]]
  /\ events' = Sends(events, e, IF e = "IKEV2" THEN <<Says("ERROR")>> ELSE <<Says("DISCONNECTED")>>)
  /\ Cleanup(e)
  /\ Env /\ UNCHANGED <<stops, clash>>

(* A stop arrives.  OpenVPNService.stopVPN needs an open management        *)
(* socket; a bring-up of Xray may survive its stop.                        *)
StopArrives(e) ==
  /\ stops[e] > 0 /\ e # "WIREGUARD"
  /\ stops' = [stops EXCEPT ![e] = @ - 1]
  /\ \/ /\ eng[e].phase \in (IF e = "OPENVPN" THEN {"managed", "up"} ELSE {"posted", "up"})
        /\ eng' = [eng EXCEPT ![e] = [phase |-> "off", uuid |-> NoProfile]]
        /\ events' = Sends(events, e, <<Says("DISCONNECTED")>>)
     \/ /\ e = "OPENVPN" /\ eng[e].phase = "replacing"
        /\ eng' = [eng EXCEPT ![e].phase = "posted"]
        /\ events' = Sends(events, e, <<Says("DISCONNECTED")>>)
     \/ /\ e = "XRAY" /\ eng[e].phase = "posted"
        /\ events' = Sends(events, e, <<Says("DISCONNECTED")>>)
        /\ UNCHANGED eng
     \/ /\ eng[e].phase \in (IF e = "OPENVPN" THEN {"off", "posted"} ELSE {"off"})
        /\ UNCHANGED <<eng, events>>
  /\ Cleanup(e)
  /\ Env /\ UNCHANGED clash

(* The DOWN that a tap launched, with the driver's lock; the backend       *)
(* reports it on the same thread.                                          *)
LaunchedDown ==
  /\ stops["WIREGUARD"] > 0 /\ WgFree
  /\ stops' = [stops EXCEPT !["WIREGUARD"] = @ - 1]
  /\ ui' = IF Running("WIREGUARD") THEN WgSays(ui, "DISCONNECTED") ELSE ui
  /\ eng' = [eng EXCEPT !["WIREGUARD"] = [phase |-> "off", uuid |-> NoProfile]]
  /\ UNCHANGED <<active, call, bind, pendingStop, xrayUuid, wgActive, events, admitted, clash, used,
                 earlier>>

-----------------------------------------------------------------------------
Steps(c) ==
  \/ StopOpenVpn(c) \/ StopWireGuard(c) \/ StopIkev2(c) \/ StopXray(c)
  \/ ClaimPending(c) \/ ClaimProtocol(c)
  \/ ConnectXray(c) \/ ConnectOpenVpn(c) \/ ConnectOpenVpnFails(c) \/ ConnectIkev2(c)
  \/ ConnectWireGuard(c) \/ WgLock(c) \/ WgUp(c) \/ WgDone(c)

Next ==
  \/ \E c \in Caller : (\E u \in Profile : Connect(c, u)) \/ Steps(c)
  \/ Disconnect \/ OnServiceConnected \/ OnServiceDisconnected
  \/ OpenVpnLaunch \/ LaunchedDown
  \/ \E p \in Profile : OpenVpnLaunchEarlier(p) \/ OvertakenUp(p) \/ OvertakenFails(p)
  \/ \E e \in Protocol : Gate(e) \/ Handle(e) \/ ComesUp(e) \/ Ends(e) \/ StopArrives(e)

Spec == Init /\ [][Next]_vars

-----------------------------------------------------------------------------
(* The shape of the router and its engines.                                *)
StateOK ==
  /\ ui \in [state : State, connected : Profile \cup {NoProfile},
             pending : Profile \cup {NoProfile}]
  /\ active \in Protocol
  /\ call \in [Caller -> [at : Place, uuid : Profile \cup {NoProfile}]]
  /\ bind \in {"none", "asked", "bound"} /\ pendingStop \in BOOLEAN
  /\ xrayUuid \in Profile \cup {NoProfile} /\ wgActive \in BOOLEAN
  /\ eng \in [Protocol -> [phase : Phase, uuid : Profile \cup {NoProfile}]]
  /\ \A e \in Protocol : IF eng[e].phase = "off" THEN eng[e].uuid = NoProfile
                         ELSE eng[e].uuid \in Profile /\ ProtocolOf[eng[e].uuid] = e
  /\ stops \in [Protocol -> Nat]
  /\ events \in [Protocol -> Seq(Report)]
  /\ admitted \in [Protocol -> Report]
  /\ clash \in BOOLEAN
  /\ used \in [calls : 0 .. MaxCalls, taps : 0 .. MaxTaps, deaths : 0 .. MaxDeaths]

(* TypeOK: the shape of every variable; an engine runs profiles of its     *)
(* own, and one unless it is off; only starts of OpenVPN and Xray overtake *)
(* one another.                                                            *)
TypeOK ==
  /\ StateOK
  /\ earlier \subseteq {p \in Profile : ProtocolOf[p] \in {"OPENVPN", "XRAY"}}

(* No call is in progress and no report of the active engine on its way.   *)
AtRest ==
  /\ \A c \in Caller : call[c].at = "idle"
  /\ \A e \in Protocol : admitted[e] = None
  /\ events[active] = <<>>

(* UpIsShown: as long as calls do not overlap, whatever late reports of    *)
(* the engines that were replaced arrive, a tunnel of the active engine    *)
(* that is up is shown as connected once its reports are in; unless a tap  *)
(* has just hidden it.                                                     *)
UpIsShown ==
  AtRest /\ ~clash /\ eng[active].phase = "up" /\ stops[active] = 0 => ui.state = "CONNECTED"

(* The router is connected, and its engine has no other start under way.   *)
Steady == AtRest /\ ~clash /\ ui.state = "CONNECTED" /\ eng[active].phase = "up" /\ earlier = {}

(* The row that is shown as connected, if any, is that of the tunnel.      *)
RowIsOfTunnel == ui.connected \in {eng[active].uuid, NoProfile}

(* RightRow: as long as calls do not overlap, a connected router that      *)
(* names a profile names the one whose tunnel is up, also after a profile  *)
(* was connected over another of the same engine.  Xray is left out: its   *)
(* service lets an overtaken bring-up come up last, under the wrong row.   *)
RightRow == Steady /\ active # "XRAY" => RowIsOfTunnel

(* IncumbentStopped: the comment "Tear down the incumbent before claiming  *)
(* the tunnel": when connect() starts an engine, every other one is off or *)
(* has been told to stop.                                                  *)
IncumbentStopped ==
  [][\A e \in Protocol :
       eng[e].phase = "off" /\ eng'[e].phase = "posted" =>
         \A f \in Protocol \ {e} : eng[f].phase = "off" \/ stops[f] > 0]_vars

=============================================================================
