--------------------------- MODULE VpnEngineProofs ---------------------------
(***************************************************************************)
(* Proofs that the router shows the tunnel that is up, and names its       *)
(* profile, as long as calls do not overlap, for any profiles, callers and *)
(* number of calls, taps and deaths.                                       *)
(***************************************************************************)
EXTENDS VpnEngine, SequenceTheorems, TLAPS

Ui == [state : State, connected : Profile \cup {NoProfile}, pending : Profile \cup {NoProfile}]

Engine == [phase : Phase, uuid : Profile \cup {NoProfile}]

\* An engine runs a profile of its own, and one unless it is off.
Fits(e, g) ==
  /\ g \in Engine
  /\ IF g.phase = "off" THEN g.uuid = NoProfile ELSE g.uuid \in Profile /\ ProtocolOf[g.uuid] = e

Msg == [kind : State \cup {"vpn"}, uuid : Profile \cup {NoProfile}]

\* Reports say something, and only OpenVPN names a profile.
ReportInv ==
  /\ events \in [Protocol -> Seq(Msg)]
  /\ \A e \in Protocol : admitted[e] = None \/ admitted[e] \in Msg
  /\ \A e \in Protocol \ {"OPENVPN"} :
       /\ \A i \in DOMAIN events[e] : events[e][i].kind # "vpn"
       /\ admitted[e].kind # "vpn"

\* A call has a profile; one in the WireGuard driver a profile of WireGuard,
\* and one that holds the driver's lock the tunnel it has asked for.
CallInv ==
  /\ \A c \in Caller :
       /\ call[c].at # "idle" => call[c].uuid \in Profile
       /\ call[c].at \in {"wgLock", "wgUp", "wgDone"} => ProtocolOf[call[c].uuid] = "WIREGUARD"
       /\ call[c].at = "wgUp" => /\ eng["WIREGUARD"].phase = "posted"
                                 /\ eng["WIREGUARD"].uuid = call[c].uuid
  /\ \A c, d \in Caller : call[c].at = "wgUp" /\ call[d].at = "wgUp" => c = d

\* One call at a time, which owns the router's protocol from its claim on;
\* only reports of the active engine are in hand, and none of WireGuard.
OrderInv ==
  /\ \A c, d \in Caller : call[c].at # "idle" /\ call[d].at # "idle" => c = d
  /\ \A c \in Caller : call[c].at \in {"start", "wgLock", "wgUp", "wgDone"} =>
                         active = ProtocolOf[call[c].uuid]
  /\ \A c \in Caller : call[c].at \in {"wgUp", "wgDone"} => wgActive /\ stops["WIREGUARD"] = 0
  /\ \A c \in Caller : call[c].at = "wgDone" => /\ eng["WIREGUARD"].phase = "up"
                                                /\ eng["WIREGUARD"].uuid = call[c].uuid
  /\ \A e \in Protocol \ {active} : admitted[e] = None
  /\ events["WIREGUARD"] = <<>> /\ admitted["WIREGUARD"] = None

\* No call has claimed the protocol without having started its engine.
Settled == \A c \in Caller : call[c].at \notin {"start", "wgLock"}

\* The last report on its way is the CONNECTED of the tunnel that is up.
ShownInv ==
  Settled /\ eng[active].phase = "up" =>
    IF active = "WIREGUARD" THEN stops[active] > 0 \/ (ui.state = "CONNECTED" /\ wgActive)
    ELSE IF events[active] # <<>> THEN events[active][Len(events[active])].kind = "CONNECTED"
    ELSE IF admitted[active] # None THEN admitted[active].kind = "CONNECTED"
    ELSE ui.state = "CONNECTED"

Names(r) == r.kind \in {"vpn", "DISCONNECTED"}

Names1(r, u) == r.kind = "vpn" => r.uuid = u

\* The last report of s that says which profile is up says u, or that none is.
NamesLast(s, u) ==
  \A i \in DOMAIN s : (\A j \in DOMAIN s : j > i => ~Names(s[j])) => Names1(s[i], u)

Silent(s) == \A j \in DOMAIN s : ~Names(s[j])

Row(u) == ui.connected \in {u, NoProfile}

\* The profile shown once the reports on their way are in.
RowInv ==
  /\ active = "IKEV2" /\ Settled /\ eng[active].phase # "off" => Row(eng[active].uuid)
  /\ /\ active = "WIREGUARD" /\ Settled /\ eng[active].phase = "up"
     /\ \A c \in Caller : call[c].at # "wgDone"
     => Row(eng[active].uuid)
  /\ active = "OPENVPN" /\ Settled /\ eng[active].phase \in {"managed", "up"} =>
       /\ NamesLast(events[active], eng[active].uuid)
       /\ Silent(events[active]) =>
            /\ Names1(admitted[active], eng[active].uuid)
            /\ ~Names(admitted[active]) => Row(eng[active].uuid)

Shape == StateOK /\ ReportInv /\ CallInv

Shown == OrderInv /\ ShownInv /\ RowInv

IInv == Shape /\ (~clash => Shown)

-----------------------------------------------------------------------------
USE RouterAssumption

LEMMA Names4 ==
  /\ Protocol = {"OPENVPN", "WIREGUARD", "XRAY", "IKEV2"}
  /\ "OPENVPN" \in Protocol /\ "WIREGUARD" \in Protocol /\ "XRAY" \in Protocol
  /\ "IKEV2" \in Protocol
  BY DEF Protocol

LEMMA InitShape == Init => Shape
  <1> SUFFICES ASSUME Init PROVE Shape
    OBVIOUS
  <1>1. eng \in [Protocol -> Engine] /\ \A e \in Protocol : Fits(e, eng[e])
    BY DEF Init, Engine, Fits, Phase
  <1>2. admitted \in [Protocol -> Report]
    BY DEF Init, Report, None
  <1>3. events \in [Protocol -> Seq(Report)] /\ events \in [Protocol -> Seq(Msg)]
    BY DEF Init
  <1>4. ui \in Ui /\ active \in Protocol
    BY DEF Init, Ui, State, Protocol
  <1>5. call \in [Caller -> [at : Place, uuid : Profile \cup {NoProfile}]]
    BY DEF Init, Place
  <1>6. used \in [calls : 0 .. MaxCalls, taps : 0 .. MaxTaps, deaths : 0 .. MaxDeaths]
    BY DEF Init
  <1>7. stops \in [Protocol -> Nat]
    BY DEF Init
  <1>8. StateOK
    BY <1>1, <1>2, <1>3, <1>4, <1>5, <1>6, <1>7 DEF StateOK, Ui, Engine, Fits, Init
  <1>9. ReportInv
    BY <1>3 DEF Init, ReportInv, None
  <1>10. CallInv
    BY DEF Init, CallInv
  <1>11. QED
    BY <1>8, <1>9, <1>10 DEF Shape

\* The parts of the type invariant.
LEMMA Types ==
  ASSUME StateOK
  PROVE  /\ ui \in Ui /\ active \in Protocol
         /\ call \in [Caller -> [at : Place, uuid : Profile \cup {NoProfile}]]
         /\ eng \in [Protocol -> Engine] /\ \A e \in Protocol : Fits(e, eng[e])
  BY DEF StateOK, Ui, Engine, Fits

LEMMA GotoFacts ==
  ASSUME StateOK, NEW c \in Caller, NEW place \in Place, Goto(c, place)
  PROVE  /\ call' \in [Caller -> [at : Place, uuid : Profile \cup {NoProfile}]]
         /\ call'[c].at = place /\ call'[c].uuid = call[c].uuid
         /\ \A d \in Caller \ {c} : call'[d] = call[d]
  BY Types DEF Goto

LEMMA ReturnFacts ==
  ASSUME StateOK, NEW c \in Caller, Return(c)
  PROVE  /\ call' \in [Caller -> [at : Place, uuid : Profile \cup {NoProfile}]]
         /\ call'[c].at = "idle" /\ call'[c].uuid = NoProfile
         /\ \A d \in Caller \ {c} : call'[d] = call[d]
  <1>1. "idle" \in Place
    BY DEF Place
  <1>2. QED
    BY <1>1, Types DEF Return

Off == [phase |-> "off", uuid |-> NoProfile]

LEMMA OffFits ==
  ASSUME NEW e \in Protocol
  PROVE  Fits(e, Off) /\ Off.phase = "off"
  BY DEF Fits, Engine, Phase, Off

LEMMA EngSet ==
  ASSUME StateOK, NEW e \in Protocol, NEW g, Fits(e, g), eng' = [eng EXCEPT ![e] = g]
  PROVE  /\ eng' \in [Protocol -> Engine] /\ \A f \in Protocol : Fits(f, eng'[f])
         /\ eng'[e] = g /\ \A f \in Protocol \ {e} : eng'[f] = eng[f]
  <1>1. eng \in [Protocol -> Engine] /\ \A f \in Protocol : Fits(f, eng[f])
    BY Types
  <1>2. g \in Engine
    BY DEF Fits
  <1>3. eng' \in [Protocol -> Engine] /\ eng'[e] = g /\ \A f \in Protocol \ {e} : eng'[f] = eng[f]
    BY <1>1, <1>2
  <1>4. QED
    BY <1>1, <1>3

\* Another phase for an engine that runs.
LEMMA PhaseSet ==
  ASSUME StateOK, NEW e \in Protocol, eng[e].phase # "off", NEW x \in Phase \ {"off"},
         eng' = [eng EXCEPT ![e].phase = x]
  PROVE  /\ eng' \in [Protocol -> Engine] /\ \A f \in Protocol : Fits(f, eng'[f])
         /\ eng'[e].phase = x /\ eng'[e].uuid = eng[e].uuid
         /\ \A f \in Protocol \ {e} : eng'[f] = eng[f]
  <1>1. Fits(e, eng[e])
    BY Types
  <1>2. PICK g : g = [eng[e] EXCEPT !.phase = x]
    OBVIOUS
  <1>3. Fits(e, g) /\ g.phase = x /\ g.uuid = eng[e].uuid
    BY <1>1, <1>2 DEF Fits, Engine
  <1>4. eng' = [eng EXCEPT ![e] = g]
    BY <1>2
  <1>5. QED
    BY <1>3, <1>4, EngSet

\* A call that starts its engine.
LEMMA PostedFacts ==
  ASSUME StateOK, CallInv, NEW c \in Caller, call[c].at # "idle", NEW x \in Phase \ {"off"},
         NEW e \in Protocol, ProtocolOf[call[c].uuid] = e,
         eng' = Posted(c, x)
  PROVE  /\ eng' \in [Protocol -> Engine] /\ \A f \in Protocol : Fits(f, eng'[f])
         /\ eng'[e].phase = x /\ eng'[e].uuid = call[c].uuid
         /\ \A f \in Protocol \ {e} : eng'[f] = eng[f]
  <1>1. call[c].uuid \in Profile
    BY DEF CallInv
  <1>2. PICK g : g = [phase |-> x, uuid |-> call[c].uuid]
    OBVIOUS
  <1>3. Fits(e, g) /\ g.phase = x /\ g.uuid = call[c].uuid
    BY <1>1, <1>2 DEF Fits, Engine
  <1>4. eng' = [eng EXCEPT ![e] = g]
    BY <1>2 DEF Posted
  <1>5. QED
    BY <1>3, <1>4, EngSet

LEMMA ApplyStateFacts ==
  ASSUME NEW u \in Ui, NEW s \in State
  PROVE  /\ ApplyState(u, s) \in Ui /\ ApplyState(u, s).state = s
         /\ ApplyState(u, s).connected \in {u.connected, NoProfile}
         /\ s # "DISCONNECTED" => ApplyState(u, s).connected = u.connected
         /\ s = "DISCONNECTED" => ApplyState(u, s).connected = NoProfile
  BY DEF ApplyState, Ui

LEMMA WgSaysFacts ==
  ASSUME NEW u \in Ui, NEW s \in State
  PROVE  /\ WgSays(u, s) \in Ui
         /\ active = "WIREGUARD" => WgSays(u, s) = ApplyState(u, s)
         /\ active # "WIREGUARD" => WgSays(u, s) = u
         /\ WgSays(u, s).connected \in {u.connected, NoProfile}
  BY ApplyStateFacts DEF WgSays

LEMMA ConsumeFacts ==
  ASSUME NEW u \in Ui, NEW r \in Msg, NEW e \in Protocol
  PROVE  /\ Consume(e, u, r) \in Ui
         /\ r.kind = "CONNECTED" => Consume(e, u, r).state = "CONNECTED"
         /\ r.kind = "vpn" => Consume(e, u, r).connected = r.uuid
         /\ r.kind = "DISCONNECTED" => Consume(e, u, r).connected = NoProfile
         /\ r.kind \notin {"vpn", "DISCONNECTED"} => Consume(e, u, r).connected = u.connected
  <1>1. CASE r.kind = "vpn"
    BY <1>1 DEF Consume, SetConnectedVpn, Ui, Msg
  <1>2. CASE r.kind # "vpn" /\ e = "IKEV2" /\ r.kind = "CONNECTING"
    BY <1>2 DEF Consume
  <1>3. CASE r.kind # "vpn" /\ ~(e = "IKEV2" /\ r.kind = "CONNECTING")
    <2>1. Consume(e, u, r) = ApplyState(u, r.kind) /\ r.kind \in State
      BY <1>3 DEF Consume, Msg
    <2>2. QED
      BY <1>3, <2>1, ApplyStateFacts
  <1>4. QED
    BY <1>1, <1>2, <1>3

-----------------------------------------------------------------------------
(* The shape of the state.                                                 *)

LEMMA CallKept ==
  ASSUME CallInv, call' = call, eng'["WIREGUARD"] = eng["WIREGUARD"] \/ WgFree
  PROVE  CallInv'
  BY DEF CallInv, WgFree

LEMMA CallMoved ==
  ASSUME CallInv, NEW c \in Caller, \A d \in Caller \ {c} : call'[d] = call[d],
         call'[c].at # "wgUp", call'[c].at # "idle" => call'[c].uuid \in Profile,
         call'[c].at \in {"wgLock", "wgDone"} => ProtocolOf[call'[c].uuid] = "WIREGUARD",
         \/ eng'["WIREGUARD"] = eng["WIREGUARD"]
         \/ \A d \in Caller \ {c} : call[d].at # "wgUp"
  PROVE  CallInv'
  BY DEF CallInv

LEMMA MsgSeq == Seq(Msg) \subseteq Seq(Report)
  <1>1. Msg \subseteq Report
    BY DEF Msg, Report
  <1>2. QED
    BY <1>1, SeqMonotonic

LEMMA ReportsKept ==
  ASSUME ReportInv, events' = events, admitted' = admitted
  PROVE  ReportInv'
  BY DEF ReportInv

LEMMA Concat ==
  ASSUME NEW S, NEW s \in Seq(S), NEW t \in Seq(S)
  PROVE  /\ s \o t \in Seq(S)
         /\ DOMAIN (s \o t) = 1 .. Len(s) + Len(t)
         /\ DOMAIN s = 1 .. Len(s) /\ DOMAIN t = 1 .. Len(t)
         /\ Len(s) \in Nat /\ Len(t) \in Nat /\ Len(s \o t) = Len(s) + Len(t)
         /\ \A i \in 1 .. Len(s) : (s \o t)[i] = s[i]
         /\ \A i \in 1 .. Len(t) : (s \o t)[Len(s) + i] = t[i]
  <1>1. /\ s \o t \in Seq(S) /\ Len(s \o t) = Len(s) + Len(t)
        /\ \A i \in 1 .. Len(s) + Len(t) :
             (s \o t)[i] = IF i <= Len(s) THEN s[i] ELSE t[i - Len(s)]
    BY ConcatProperties
  <1>2. /\ DOMAIN s = 1 .. Len(s) /\ DOMAIN t = 1 .. Len(t)
        /\ DOMAIN (s \o t) = 1 .. Len(s) + Len(t)
        /\ Len(s) \in Nat /\ Len(t) \in Nat
    BY <1>1, LenProperties
  <1>3. \A i \in 1 .. Len(s) : (s \o t)[i] = s[i]
    BY <1>1, <1>2
  <1>4. \A i \in 1 .. Len(t) : (s \o t)[Len(s) + i] = t[i]
    BY <1>1, <1>2
  <1>5. QED
    BY <1>1, <1>2, <1>3, <1>4

\* Every element of s \o t is one of s or of t.
LEMMA ConcatElement ==
  ASSUME NEW S, NEW s \in Seq(S), NEW t \in Seq(S), NEW i \in DOMAIN (s \o t)
  PROVE  \/ i \in DOMAIN s /\ (s \o t)[i] = s[i]
         \/ \E j \in DOMAIN t : i = Len(s) + j /\ (s \o t)[i] = t[j]
  <1>1. /\ DOMAIN (s \o t) = 1 .. Len(s) + Len(t)
        /\ DOMAIN s = 1 .. Len(s) /\ DOMAIN t = 1 .. Len(t)
        /\ Len(s) \in Nat /\ Len(t) \in Nat
        /\ \A j \in 1 .. Len(s) : (s \o t)[j] = s[j]
        /\ \A j \in 1 .. Len(t) : (s \o t)[Len(s) + j] = t[j]
    BY Concat
  <1>2. CASE i <= Len(s)
    BY <1>1, <1>2
  <1>3. CASE i > Len(s)
    <2>1. i - Len(s) \in 1 .. Len(t) /\ i = Len(s) + (i - Len(s))
      BY <1>1, <1>3
    <2>2. (s \o t)[Len(s) + (i - Len(s))] = t[i - Len(s)]
      BY <1>1, <2>1
    <2>3. QED
      BY <1>1, <2>1, <2>2
  <1>4. QED
    BY <1>1, <1>2, <1>3

LEMMA ReportSent ==
  ASSUME ReportInv, NEW e \in Protocol, NEW s \in Seq(Msg),
         e = "OPENVPN" \/ \A i \in DOMAIN s : s[i].kind # "vpn",
         events' = Sends(events, e, s), admitted' = admitted
  PROVE  /\ ReportInv' /\ events' \in [Protocol -> Seq(Report)]
         /\ events'[e] = events[e] \o s /\ \A f \in Protocol \ {e} : events'[f] = events[f]
  <1>1. events \in [Protocol -> Seq(Msg)]
    BY DEF ReportInv
  <1>2. PICK t \in Seq(Msg) : t = events[e] \o s
    BY <1>1, Concat
  <1>3. events' = [events EXCEPT ![e] = t]
    BY <1>2 DEF Sends
  <1>4. /\ events' \in [Protocol -> Seq(Msg)] /\ events'[e] = t
        /\ \A f \in Protocol \ {e} : events'[f] = events[f]
    BY <1>1, <1>3
  <1>5. ASSUME NEW f \in Protocol \ {"OPENVPN"}, NEW i \in DOMAIN events'[f]
        PROVE  events'[f][i].kind # "vpn"
    <2>1. CASE f # e
      BY <1>4, <2>1 DEF ReportInv
    <2>2. CASE f = e
      <3>1. i \in DOMAIN (events[e] \o s)
        BY <1>2, <1>4, <2>2
      <3>2. \/ i \in DOMAIN events[e] /\ (events[e] \o s)[i] = events[e][i]
            \/ \E j \in DOMAIN s : (events[e] \o s)[i] = s[j]
        BY <1>1, <3>1, ConcatElement
      <3>3. events[e][i].kind # "vpn" \/ i \notin DOMAIN events[e]
        BY <2>2 DEF ReportInv
      <3>4. QED
        BY <1>2, <1>4, <2>2, <3>2, <3>3
    <2>3. QED
      BY <2>1, <2>2
  <1>6. ReportInv'
    BY <1>4, <1>5 DEF ReportInv
  <1>7. events' \in [Protocol -> Seq(Report)]
    BY <1>4, MsgSeq
  <1>8. QED
    BY <1>2, <1>4, <1>6, <1>7

LEMMA StopsMore ==
  ASSUME StateOK, NEW e \in Protocol,
         stops' = stops \/ stops' = [stops EXCEPT ![e] = @ + 1]
  PROVE  /\ stops' \in [Protocol -> Nat] /\ stops'[e] >= stops[e]
         /\ \A f \in Protocol \ {e} : stops'[f] = stops[f]
  <1>1. stops \in [Protocol -> Nat]
    BY DEF StateOK
  <1>2. CASE stops' = stops
    BY <1>1, <1>2
  <1>3. CASE stops' = [stops EXCEPT ![e] = @ + 1]
    BY <1>1, <1>3
  <1>4. QED
    BY <1>2, <1>3

\* A bound is counted up to.
LEMMA OneMore ==
  ASSUME NEW m \in Nat, NEW n \in 0 .. m, n < m
  PROVE  n + 1 \in 0 .. m
  OBVIOUS

LEMMA Counted ==
  ASSUME StateOK,
         \/ used.calls < MaxCalls /\ used' = [used EXCEPT !.calls = @ + 1]
         \/ used.taps < MaxTaps /\ used' = [used EXCEPT !.taps = @ + 1]
         \/ used.deaths < MaxDeaths /\ used' = [used EXCEPT !.deaths = @ + 1]
  PROVE  used' \in [calls : 0 .. MaxCalls, taps : 0 .. MaxTaps, deaths : 0 .. MaxDeaths]
  <1>1. used \in [calls : 0 .. MaxCalls, taps : 0 .. MaxTaps, deaths : 0 .. MaxDeaths]
    BY DEF StateOK
  <1>2. used.calls \in 0 .. MaxCalls /\ used.taps \in 0 .. MaxTaps /\ used.deaths \in 0 .. MaxDeaths
    BY <1>1
  <1>3. CASE used.calls < MaxCalls /\ used' = [used EXCEPT !.calls = @ + 1]
    <2>1. PICK n \in 0 .. MaxCalls : n = used.calls + 1
      BY <1>2, <1>3, OneMore
    <2>2. used' = [used EXCEPT !.calls = n]
      BY <1>3, <2>1
    <2>3. QED
      BY <1>1, <2>2
  <1>4. CASE used.taps < MaxTaps /\ used' = [used EXCEPT !.taps = @ + 1]
    <2>1. PICK n \in 0 .. MaxTaps : n = used.taps + 1
      BY <1>2, <1>4, OneMore
    <2>2. used' = [used EXCEPT !.taps = n]
      BY <1>4, <2>1
    <2>3. QED
      BY <1>1, <2>2
  <1>5. CASE used.deaths < MaxDeaths /\ used' = [used EXCEPT !.deaths = @ + 1]
    <2>1. PICK n \in 0 .. MaxDeaths : n = used.deaths + 1
      BY <1>2, <1>5, OneMore
    <2>2. used' = [used EXCEPT !.deaths = n]
      BY <1>5, <2>1
    <2>3. QED
      BY <1>1, <2>2
  <1>6. QED
    BY <1>3, <1>4, <1>5

LEMMA ShapeConnect ==
  ASSUME Shape, NEW c \in Caller, NEW u \in Profile, Connect(c, u)
  PROVE  Shape'
  <1>1. StateOK /\ CallInv /\ ReportInv
    BY DEF Shape
  <1>2. /\ call' \in [Caller -> [at : Place, uuid : Profile \cup {NoProfile}]]
        /\ call'[c].at = "stopOpenVpn" /\ call'[c].uuid = u
        /\ \A d \in Caller \ {c} : call'[d] = call[d]
    <2>1. "stopOpenVpn" \in Place
      BY DEF Place
    <2>2. QED
      BY <1>1, <2>1, Types DEF Connect
  <1>3. used' \in [calls : 0 .. MaxCalls, taps : 0 .. MaxTaps, deaths : 0 .. MaxDeaths]
    BY <1>1, Counted DEF Connect
  <1>4. clash' \in BOOLEAN
    BY <1>1, Zenon DEF Connect, StateOK
  <1>5. /\ events' = events /\ admitted' = admitted /\ active' = active /\ stops' = stops
        /\ pendingStop' = pendingStop /\ wgActive' = wgActive /\ ui' = ui /\ bind' = bind
        /\ xrayUuid' = xrayUuid /\ eng' = eng
    BY DEF Connect
  <1>6. StateOK'
    BY <1>1, <1>2, <1>3, <1>4, <1>5 DEF StateOK
  <1>7. CallInv'
    BY <1>1, <1>2, <1>5, CallMoved
  <1>8. QED
    BY <1>1, <1>5, <1>6, <1>7, ReportsKept DEF Shape

\* A call on its way to the claim.
LEMMA ShapeStopOther ==
  ASSUME Shape, NEW c \in Caller, StopOpenVpn(c) \/ StopIkev2(c) \/ ClaimPending(c) \/ ClaimProtocol(c)
  PROVE  Shape'
  <1>1. StateOK /\ CallInv /\ ReportInv
    BY DEF Shape
  <1>2. call[c].uuid \in Profile
    BY <1>1 DEF CallInv, StopOpenVpn, StopIkev2, ClaimPending, ClaimProtocol
  <1>3. PICK place \in Place \ {"idle", "wgLock", "wgUp", "wgDone"} : Goto(c, place)
    BY DEF StopOpenVpn, StopIkev2, ClaimPending, ClaimProtocol, Place
  <1>4. /\ call' \in [Caller -> [at : Place, uuid : Profile \cup {NoProfile}]]
        /\ call'[c].at = place /\ call'[c].uuid = call[c].uuid
        /\ \A d \in Caller \ {c} : call'[d] = call[d]
    BY <1>1, <1>3, GotoFacts
  <1>5. /\ eng' = eng /\ events' = events /\ admitted' = admitted /\ bind' = bind
        /\ pendingStop' = pendingStop /\ xrayUuid' = xrayUuid /\ wgActive' = wgActive /\ used' = used
    BY DEF StopOpenVpn, StopIkev2, ClaimPending, ClaimProtocol
  <1>6. stops' \in [Protocol -> Nat]
    <2>1. \E e \in Protocol : stops' = stops \/ stops' = [stops EXCEPT ![e] = @ + 1]
      BY DEF StopOpenVpn, StopIkev2, ClaimPending, ClaimProtocol, Protocol
    <2>2. QED
      BY <1>1, <2>1, StopsMore
  <1>7. ui' \in Ui
    <2>1. ui \in Ui
      BY <1>1, Types
    <2>2. ui' = ui \/ ui' = [ui EXCEPT !.pending = call[c].uuid]
      BY DEF StopOpenVpn, StopIkev2, ClaimPending, ClaimProtocol
    <2>3. QED
      BY <1>2, <2>1, <2>2 DEF Ui
  <1>8. active' \in Protocol /\ clash' \in BOOLEAN
    <2>1. active' = active \/ active' = ProtocolOf[call[c].uuid]
      BY DEF StopOpenVpn, StopIkev2, ClaimPending, ClaimProtocol
    <2>2. active' \in Protocol
      BY <1>1, <1>2, <2>1 DEF StateOK
    <2>3. clash' = clash \/ clash' = (clash \/ \E e \in Protocol : admitted[e] # None)
      BY Zenon DEF StopOpenVpn, StopIkev2, ClaimPending, ClaimProtocol
    <2>4. clash' \in BOOLEAN
      BY <1>1, <2>3, Zenon DEF StateOK
    <2>5. QED
      BY <2>2, <2>4
  <1>9. StateOK'
    BY <1>1, <1>4, <1>5, <1>6, <1>7, <1>8 DEF StateOK, Ui
  <1>10. CallInv'
    BY <1>1, <1>2, <1>3, <1>4, <1>5, CallMoved
  <1>11. QED
    BY <1>1, <1>5, <1>9, <1>10, ReportsKept DEF Shape

LEMMA ShapeStopWireGuard ==
  ASSUME Shape, NEW c \in Caller, StopWireGuard(c)
  PROVE  Shape'
  <1>1. StateOK /\ CallInv /\ ReportInv
    BY DEF Shape
  <1>2. call[c].uuid \in Profile
    BY <1>1 DEF CallInv, StopWireGuard
  <1>3. "stopIkev2" \in Place /\ Goto(c, "stopIkev2")
    BY DEF StopWireGuard, Place
  <1>4. /\ call' \in [Caller -> [at : Place, uuid : Profile \cup {NoProfile}]]
        /\ call'[c].at = "stopIkev2" /\ call'[c].uuid = call[c].uuid
        /\ \A d \in Caller \ {c} : call'[d] = call[d]
    BY <1>1, <1>3, GotoFacts
  <1>5. /\ events' = events /\ admitted' = admitted /\ bind' = bind /\ active' = active
        /\ pendingStop' = pendingStop /\ xrayUuid' = xrayUuid /\ used' = used
        /\ stops' = stops /\ clash' = clash
    BY DEF StopWireGuard
  <1>6. CASE ui' = ui /\ wgActive' = wgActive /\ eng' = eng
    <2>1. StateOK'
      BY <1>1, <1>4, <1>5, <1>6 DEF StateOK
    <2>2. CallInv'
      BY <1>1, <1>2, <1>4, <1>6, CallMoved
    <2>3. QED
      BY <1>1, <1>5, <2>1, <2>2, ReportsKept DEF Shape
  <1>7. CASE /\ WgFree /\ wgActive' = FALSE /\ ui' = WgSays(ui, "DISCONNECTED")
             /\ eng' = [eng EXCEPT !["WIREGUARD"] = [phase |-> "off", uuid |-> NoProfile]]
    <2>1. eng' = [eng EXCEPT !["WIREGUARD"] = Off]
      BY <1>7 DEF Off
    <2>2. eng' \in [Protocol -> Engine] /\ \A f \in Protocol : Fits(f, eng'[f])
      BY <1>1, <2>1, Names4, OffFits, EngSet
    <2>3. ui' \in Ui
      <3>1. ui \in Ui /\ "DISCONNECTED" \in State
        BY <1>1, Types DEF State
      <3>2. QED
        BY <1>7, <3>1, WgSaysFacts
    <2>4. StateOK'
      BY <1>1, <1>4, <1>5, <1>7, <2>2, <2>3 DEF StateOK, Ui, Engine, Fits
    <2>5. CallInv'
      BY <1>1, <1>2, <1>4, <1>7, CallMoved DEF WgFree
    <2>6. QED
      BY <1>1, <1>5, <2>4, <2>5, ReportsKept DEF Shape
  <1>8. QED
    BY <1>6, <1>7 DEF StopWireGuard

LEMMA ShapeStopXray ==
  ASSUME Shape, NEW c \in Caller, StopXray(c)
  PROVE  Shape'
  <1>1. StateOK /\ CallInv /\ ReportInv
    BY DEF Shape
  <1>2. call[c].uuid \in Profile
    BY <1>1 DEF CallInv, StopXray
  <1>3. "pending" \in Place /\ Goto(c, "pending")
    BY DEF StopXray, Place
  <1>4. /\ call' \in [Caller -> [at : Place, uuid : Profile \cup {NoProfile}]]
        /\ call'[c].at = "pending" /\ call'[c].uuid = call[c].uuid
        /\ \A d \in Caller \ {c} : call'[d] = call[d]
    BY <1>1, <1>3, GotoFacts
  <1>5. /\ events' = events /\ admitted' = admitted /\ bind' = bind /\ active' = active
        /\ pendingStop' = pendingStop /\ wgActive' = wgActive /\ used' = used
        /\ ui' = ui /\ clash' = clash /\ xrayUuid' \in {xrayUuid, NoProfile}
    BY DEF StopXray
  <1>6. stops' \in [Protocol -> Nat]
    <2>1. stops' = stops \/ stops' = [stops EXCEPT !["XRAY"] = @ + 1]
      BY DEF StopXray
    <2>2. QED
      BY <1>1, <2>1, Names4, StopsMore
  <1>7. eng' = eng \/ eng' = [eng EXCEPT !["XRAY"] = Off]
    BY DEF StopXray, Off
  <1>8. /\ eng' \in [Protocol -> Engine] /\ \A f \in Protocol : Fits(f, eng'[f])
        /\ eng'["WIREGUARD"] = eng["WIREGUARD"]
    <2>1. CASE eng' = eng
      BY <1>1, <2>1, Types
    <2>2. CASE eng' = [eng EXCEPT !["XRAY"] = Off]
      BY <1>1, <2>2, Names4, OffFits, EngSet
    <2>3. QED
      BY <1>7, <2>1, <2>2
  <1>9. StateOK'
    BY <1>1, <1>4, <1>5, <1>6, <1>8 DEF StateOK, Engine, Fits
  <1>10. CallInv'
    BY <1>1, <1>2, <1>4, <1>8, CallMoved
  <1>11. QED
    BY <1>1, <1>5, <1>9, <1>10, ReportsKept DEF Shape

\* A call that starts its engine, or is refused, and returns.
LEMMA ShapeStart ==
  ASSUME Shape, NEW c \in Caller,
         ConnectXray(c) \/ ConnectOpenVpn(c) \/ ConnectOpenVpnFails(c) \/ ConnectIkev2(c)
  PROVE  Shape'
  <1> USE DEF ConnectXray, ConnectOpenVpn, ConnectOpenVpnFails, ConnectIkev2
  <1>1. StateOK /\ CallInv /\ ReportInv
    BY DEF Shape
  <1>2. call[c].uuid \in Profile /\ call[c].at = "start"
    BY <1>1 DEF CallInv
  <1>3. /\ call' \in [Caller -> [at : Place, uuid : Profile \cup {NoProfile}]]
        /\ call'[c].at = "idle"
        /\ \A d \in Caller \ {c} : call'[d] = call[d]
    BY <1>1, ReturnFacts
  <1>4. /\ events' = events /\ admitted' = admitted /\ active' = active /\ stops' = stops
        /\ pendingStop' = pendingStop /\ wgActive' = wgActive /\ used' = used
    OBVIOUS
  <1>5. xrayUuid' \in {xrayUuid, call[c].uuid}
    OBVIOUS
  <1>6. bind' \in {"none", "asked", "bound"}
    BY <1>1 DEF StateOK, BindTunnelService
  <1>7. clash' \in BOOLEAN
    BY <1>1 DEF StateOK
  <1>8. ui' \in Ui
    <2>1. ui \in Ui
      BY <1>1, Types
    <2>2. PICK a \in Ui : a = ApplyState(ui, "CONNECTING")
      BY <2>1, ApplyStateFacts DEF State
    <2>3. PICK b \in Ui : b = ApplyState(ui, "ERROR")
      BY <2>1, ApplyStateFacts DEF State
    <2>4. \/ ui' = ui
          \/ ui' = [ui EXCEPT !.pending = NoProfile]
          \/ ui' = [a EXCEPT !.connected = call[c].uuid]
          \/ ui' = [b EXCEPT !.pending = NoProfile]
      BY <2>2, <2>3
    <2>5. QED
      BY <1>2, <2>1, <2>4 DEF Ui
  <1>9. /\ eng' \in [Protocol -> Engine] /\ \A f \in Protocol : Fits(f, eng'[f])
        /\ eng'["WIREGUARD"] = eng["WIREGUARD"]
    <2>1. CASE eng' = eng
      BY <1>1, <2>1, Types
    <2>2. ASSUME NEW x \in {"posted", "replacing"}, NEW e \in Protocol \ {"WIREGUARD"},
                 ProtocolOf[call[c].uuid] = e, eng' = Posted(c, x)
          PROVE  <1>9
      <3>1. x \in Phase \ {"off"}
        BY DEF Phase
      <3>2. QED
        BY <1>1, <1>2, <2>2, <3>1, Names4, PostedFacts
    <2>3. eng' = eng \/ \E x \in {"posted", "replacing"} : eng' = Posted(c, x)
      BY Zenon
    <2>4. ProtocolOf[call[c].uuid] \in Protocol \ {"WIREGUARD"}
      BY <1>2 DEF Keeps
    <2>5. QED
      BY <2>1, <2>2, <2>3, <2>4
  <1>10. StateOK'
    BY <1>1, <1>2, <1>3, <1>4, <1>5, <1>6, <1>7, <1>8, <1>9 DEF StateOK, Ui, Engine, Fits
  <1>11. CallInv'
    BY <1>1, <1>3, <1>9, CallMoved
  <1>12. QED
    BY <1>1, <1>4, <1>10, <1>11, ReportsKept DEF Shape

LEMMA ShapeConnectWireGuard ==
  ASSUME Shape, NEW c \in Caller, ConnectWireGuard(c)
  PROVE  Shape'
  <1>1. StateOK /\ CallInv /\ ReportInv
    BY DEF Shape
  <1>2. call[c].uuid \in Profile /\ ProtocolOf[call[c].uuid] = "WIREGUARD"
    BY <1>1 DEF CallInv, ConnectWireGuard, Keeps
  <1>3. "wgLock" \in Place /\ Goto(c, "wgLock")
    BY DEF ConnectWireGuard, Place
  <1>4. /\ call' \in [Caller -> [at : Place, uuid : Profile \cup {NoProfile}]]
        /\ call'[c].at = "wgLock" /\ call'[c].uuid = call[c].uuid
        /\ \A d \in Caller \ {c} : call'[d] = call[d]
    BY <1>1, <1>3, GotoFacts
  <1>5. ui' \in Ui
    <2>1. ui \in Ui /\ "CONNECTING" \in State
      BY <1>1, Types DEF State
    <2>2. QED
      BY <2>1, ApplyStateFacts DEF ConnectWireGuard
  <1>6. /\ events' = events /\ admitted' = admitted /\ active' = active /\ stops' = stops
        /\ pendingStop' = pendingStop /\ wgActive' = wgActive /\ bind' = bind
        /\ xrayUuid' = xrayUuid /\ eng' = eng /\ clash' = clash /\ used' = used
    BY DEF ConnectWireGuard
  <1>7. StateOK'
    BY <1>1, <1>4, <1>5, <1>6 DEF StateOK, Ui
  <1>8. CallInv'
    BY <1>1, <1>2, <1>4, <1>6, CallMoved
  <1>9. QED
    BY <1>1, <1>6, <1>7, <1>8, ReportsKept DEF Shape

\* What the driver reports when it takes its lock.
WgLockUi ==
  LET down(u) == IF Running("WIREGUARD") THEN WgSays(u, "DISCONNECTED") ELSE u
  IN  IF wgActive THEN WgSays(down(ui), "CONNECTING") ELSE down(WgSays(ui, "CONNECTING"))

LEMMA WgLockUiType ==
  ASSUME StateOK
  PROVE  WgLockUi \in Ui
  <1>1. ui \in Ui /\ "CONNECTING" \in State /\ "DISCONNECTED" \in State
    BY Types DEF State
  <1>2. WgSays(ui, "DISCONNECTED") \in Ui /\ WgSays(ui, "CONNECTING") \in Ui
    BY <1>1, WgSaysFacts
  <1>3. /\ WgSays(WgSays(ui, "DISCONNECTED"), "CONNECTING") \in Ui
        /\ WgSays(WgSays(ui, "CONNECTING"), "DISCONNECTED") \in Ui
    BY <1>1, <1>2, WgSaysFacts
  <1>4. QED
    BY <1>1, <1>2, <1>3 DEF WgLockUi

LEMMA ShapeWgLock ==
  ASSUME Shape, NEW c \in Caller, WgLock(c)
  PROVE  Shape'
  <1>1. StateOK /\ CallInv /\ ReportInv
    BY DEF Shape
  <1>2. /\ call[c].uuid \in Profile /\ ProtocolOf[call[c].uuid] = "WIREGUARD"
        /\ call[c].at = "wgLock" /\ WgFree
    BY <1>1 DEF CallInv, WgLock
  <1>3. /\ events' = events /\ admitted' = admitted /\ active' = active
        /\ pendingStop' = pendingStop /\ bind' = bind /\ xrayUuid' = xrayUuid /\ used' = used
    BY DEF WgLock
  <1>4. CASE Return(c) /\ clash' = TRUE /\ ui' = ui /\ wgActive' = wgActive /\ eng' = eng /\ stops' = stops
    <2>1. /\ call' \in [Caller -> [at : Place, uuid : Profile \cup {NoProfile}]]
          /\ call'[c].at = "idle"
          /\ \A d \in Caller \ {c} : call'[d] = call[d]
      BY <1>1, <1>4, ReturnFacts
    <2>2. StateOK'
      BY <1>1, <1>3, <1>4, <2>1 DEF StateOK
    <2>3. CallInv'
      BY <1>1, <1>4, <2>1, CallMoved
    <2>4. QED
      BY <1>1, <1>3, <2>2, <2>3, ReportsKept DEF Shape
  <1>5. CASE /\ Goto(c, "wgUp") /\ ui' = WgLockUi /\ wgActive' = TRUE /\ eng' = Posted(c, "posted")
             /\ stops' = [stops EXCEPT !["WIREGUARD"] = 0] /\ clash' = clash
    <2>1. "wgUp" \in Place /\ "posted" \in Phase \ {"off"}
      BY DEF Place, Phase
    <2>2. /\ call' \in [Caller -> [at : Place, uuid : Profile \cup {NoProfile}]]
          /\ call'[c].at = "wgUp" /\ call'[c].uuid = call[c].uuid
          /\ \A d \in Caller \ {c} : call'[d] = call[d]
      BY <1>1, <1>5, <2>1, GotoFacts
    <2>3. /\ eng' \in [Protocol -> Engine] /\ \A f \in Protocol : Fits(f, eng'[f])
          /\ eng'["WIREGUARD"].phase = "posted" /\ eng'["WIREGUARD"].uuid = call[c].uuid
      BY <1>1, <1>2, <1>5, <2>1, Names4, PostedFacts
    <2>4. ui' \in Ui /\ stops' \in [Protocol -> Nat]
      BY <1>1, <1>5, WgLockUiType DEF StateOK
    <2>5. StateOK'
      BY <1>1, <1>3, <1>5, <2>2, <2>3, <2>4 DEF StateOK, Ui, Engine, Fits
    <2>6. CallInv'
      BY <1>1, <1>2, <2>2, <2>3 DEF CallInv, WgFree
    <2>7. QED
      BY <1>1, <1>3, <2>5, <2>6, ReportsKept DEF Shape
  <1>6. QED
    BY <1>4, <1>5, Zenon DEF WgLock, WgLockUi

LEMMA AppendSays ==
  ASSUME NEW s \in Seq(Msg), NEW k \in State
  PROVE  /\ Append(s, Says(k)) \in Seq(Msg) /\ Len(Append(s, Says(k))) = Len(s) + 1
         /\ Append(s, Says(k)) = s \o <<Says(k)>>
         /\ Append(s, Says(k))[Len(s) + 1].kind = k
         /\ <<Says(k)>> \in Seq(Msg) /\ Len(<<Says(k)>>) = 1 /\ <<Says(k)>>[1] = Says(k)
         /\ Says(k).kind = k
         /\ \A i \in DOMAIN Append(s, Says(k)) :
              \/ i \in DOMAIN s /\ Append(s, Says(k))[i] = s[i]
              \/ i = Len(s) + 1 /\ Append(s, Says(k))[i].kind = k
  <1>1. Says(k) \in Msg /\ Says(k).kind = k
    BY DEF Says, Msg
  <1>2. PICK r \in Msg : r = Says(k)
    BY <1>1
  <1>3. /\ Append(s, r) \in Seq(Msg) /\ Len(Append(s, r)) = Len(s) + 1
        /\ \A i \in 1 .. Len(s) : Append(s, r)[i] = s[i]
        /\ Append(s, r)[Len(s) + 1] = r
    BY AppendProperties
  <1>4. Append(s, r) = s \o <<r>>
    BY AppendIsConcat
  <1>5. <<r>> \in Seq(Msg) /\ Len(<<r>>) = 1 /\ <<r>>[1] = r
    OBVIOUS
  <1>6. DOMAIN s = 1 .. Len(s) /\ DOMAIN Append(s, r) = 1 .. Len(s) + 1 /\ Len(s) \in Nat
    BY <1>3, LenProperties
  <1>7. ASSUME NEW i \in DOMAIN Append(s, r)
        PROVE  \/ i \in DOMAIN s /\ Append(s, r)[i] = s[i]
               \/ i = Len(s) + 1 /\ Append(s, r)[i] = r
    BY <1>3, <1>6
  <1>8. QED
    BY <1>1, <1>2, <1>3, <1>4, <1>5, <1>7

\* A tunnel comes up: the engines that were up say so.
LEMMA UpReported ==
  ASSUME Shape, NEW e \in Protocol, events' = UpReports(e), admitted' = admitted
  PROVE  /\ events' \in [Protocol -> Seq(Report)] /\ ReportInv'
         /\ e # "WIREGUARD" => events'[e] = Append(events[e], Says("CONNECTED"))
         /\ \A f \in Protocol \ {e} :
              events'[f] = IF f \in Revoked(e) THEN Append(events[f], Says("DISCONNECTED")) ELSE events[f]
         /\ e = "WIREGUARD" => events'[e] = events[e]
         /\ e \notin Revoked(e)
  <1>1. ReportInv
    BY DEF Shape
  <1>2. events \in [Protocol -> Seq(Msg)]
    BY <1>1 DEF ReportInv
  <1>7. e \notin Revoked(e)
    BY DEF Revoked
  <1>8. /\ e # "WIREGUARD" => events'[e] = Append(events[e], Says("CONNECTED"))
        /\ \A f \in Protocol \ {e} :
             events'[f] = IF f \in Revoked(e) THEN Append(events[f], Says("DISCONNECTED")) ELSE events[f]
        /\ e = "WIREGUARD" => events'[e] = events[e]
        /\ events' = [f \in Protocol |-> events'[f]]
    BY <1>7 DEF UpReports
  <1>9. "CONNECTED" \in State /\ "DISCONNECTED" \in State
    BY DEF State
  <1>10. ASSUME NEW f \in Protocol
         PROVE  /\ events'[f] \in Seq(Msg)
                /\ \A i \in DOMAIN events'[f] :
                     \/ i \in DOMAIN events[f] /\ events'[f][i] = events[f][i]
                     \/ events'[f][i].kind # "vpn"
    <2>1. CASE events'[f] = events[f]
      BY <1>2, <2>1
    <2>2. ASSUME NEW k \in {"CONNECTED", "DISCONNECTED"}, events'[f] = Append(events[f], Says(k))
          PROVE  /\ events'[f] \in Seq(Msg)
                 /\ \A i \in DOMAIN events'[f] :
                      \/ i \in DOMAIN events[f] /\ events'[f][i] = events[f][i]
                      \/ events'[f][i].kind # "vpn"
      <3>1. PICK s \in Seq(Msg) : s = events[f]
        BY <1>2
      <3>2. k \in State /\ k # "vpn"
        BY <1>9
      <3>3. PICK t : t = Append(s, Says(k))
        OBVIOUS
      <3>4. /\ t \in Seq(Msg)
            /\ \A i \in DOMAIN t : \/ i \in DOMAIN s /\ t[i] = s[i]
                                  \/ t[i].kind = k
        BY <3>2, <3>3, AppendSays
      <3>5. events'[f] = t
        BY <2>2, <3>1, <3>3
      <3>6. QED
        BY <3>1, <3>2, <3>4, <3>5
    <2>3. QED
      BY <1>8, <2>1, <2>2
  <1>11. events' \in [Protocol -> Seq(Msg)]
    BY <1>8, <1>10
  <1>12. ReportInv'
    BY <1>1, <1>10, <1>11 DEF ReportInv
  <1>13. events' \in [Protocol -> Seq(Report)]
    BY <1>11, MsgSeq
  <1>14. QED
    BY <1>7, <1>8, <1>12, <1>13

\* They are off.
LEMMA UpFacts ==
  ASSUME Shape, NEW e \in Protocol, eng[e].phase # "off", eng' = Up(e), events' = UpReports(e),
         admitted' = admitted
  PROVE  /\ eng' \in [Protocol -> Engine] /\ \A f \in Protocol : Fits(f, eng'[f])
         /\ eng'[e].phase = "up" /\ eng'[e].uuid = eng[e].uuid
         /\ \A f \in Protocol \ {e} : IF f \in Revoked(e) THEN eng'[f] = Off ELSE eng'[f] = eng[f]
         /\ events' \in [Protocol -> Seq(Report)] /\ ReportInv'
         /\ e # "WIREGUARD" => events'[e] = Append(events[e], Says("CONNECTED"))
         /\ \A f \in Protocol \ {e} :
              events'[f] = IF f \in Revoked(e) THEN Append(events[f], Says("DISCONNECTED")) ELSE events[f]
         /\ e = "WIREGUARD" => events'[e] = events[e]
         /\ e \notin Revoked(e)
  <1>1. StateOK /\ CallInv /\ ReportInv
    BY DEF Shape
  <1>2. \A f \in Protocol : Fits(f, eng[f])
    BY <1>1, Types
  <1>3. Fits(e, [eng[e] EXCEPT !.phase = "up"])
        /\ [eng[e] EXCEPT !.phase = "up"].phase = "up" /\ [eng[e] EXCEPT !.phase = "up"].uuid = eng[e].uuid
    <2>1. Fits(e, eng[e])
      BY <1>2
    <2>2. QED
      BY <2>1 DEF Fits, Engine, Phase
  <1>4. /\ eng'[e] = [eng[e] EXCEPT !.phase = "up"]
        /\ \A f \in Protocol \ {e} : IF f \in Revoked(e) THEN eng'[f] = Off ELSE eng'[f] = eng[f]
    BY DEF Up, Off
  <1>5. ASSUME NEW f \in Protocol
        PROVE  Fits(f, eng'[f])
    BY <1>2, <1>3, <1>4, OffFits
  <1>6. eng' \in [Protocol -> Engine]
    <2>1. DOMAIN eng' = Protocol /\ eng' = [f \in Protocol |-> eng'[f]]
      BY DEF Up
    <2>2. QED
      BY <1>5, <2>1 DEF Fits
  <1>7. QED
    BY <1>3, <1>4, <1>5, <1>6, UpReported

LEMMA ShapeWgUp ==
  ASSUME Shape, NEW c \in Caller, WgUp(c)
  PROVE  Shape'
  <1>1. StateOK /\ CallInv /\ ReportInv
    BY DEF Shape
  <1>2. /\ call[c].uuid \in Profile /\ ProtocolOf[call[c].uuid] = "WIREGUARD"
        /\ call[c].at = "wgUp" /\ eng["WIREGUARD"].phase = "posted"
        /\ \A d \in Caller \ {c} : call[d].at # "wgUp"
    BY <1>1 DEF CallInv, WgUp
  <1>3. /\ admitted' = admitted /\ active' = active /\ stops' = stops /\ clash' = clash
        /\ pendingStop' = pendingStop /\ bind' = bind /\ xrayUuid' = xrayUuid /\ used' = used
    BY DEF WgUp
  <1>4. ui \in Ui /\ "CONNECTED" \in State /\ "ERROR" \in State /\ "DISCONNECTED" \in State
    BY <1>1, Types DEF State
  <1>5. CASE /\ eng' = Up("WIREGUARD") /\ events' = UpReports("WIREGUARD") /\ wgActive' = wgActive
             /\ ui' = WgSays(ui, "CONNECTED") /\ Goto(c, "wgDone")
    <2>1. "wgDone" \in Place
      BY DEF Place
    <2>2. /\ call' \in [Caller -> [at : Place, uuid : Profile \cup {NoProfile}]]
          /\ call'[c].at = "wgDone" /\ call'[c].uuid = call[c].uuid
          /\ \A d \in Caller \ {c} : call'[d] = call[d]
      BY <1>1, <1>5, <2>1, GotoFacts
    <2>3. /\ eng' \in [Protocol -> Engine] /\ \A f \in Protocol : Fits(f, eng'[f])
          /\ events' \in [Protocol -> Seq(Report)] /\ ReportInv'
      BY <1>2, <1>3, <1>5, Names4, UpFacts
    <2>4. ui' \in Ui
      BY <1>4, <1>5, WgSaysFacts
    <2>5. StateOK'
      BY <1>1, <1>3, <1>5, <2>2, <2>3, <2>4 DEF StateOK, Ui, Engine, Fits
    <2>6. CallInv'
      BY <1>1, <1>2, <2>2, CallMoved
    <2>7. QED
      BY <2>3, <2>5, <2>6 DEF Shape
  <1>6. ASSUME NEW s \in {"ERROR", "DISCONNECTED"},
               eng' = [eng EXCEPT !["WIREGUARD"] = [phase |-> "off", uuid |-> NoProfile]],
               wgActive' = FALSE, ui' = WgSays(ui, s), Return(c), events' = events
        PROVE  Shape'
    <2>1. eng' = [eng EXCEPT !["WIREGUARD"] = Off]
      BY <1>6 DEF Off
    <2>2. eng' \in [Protocol -> Engine] /\ \A f \in Protocol : Fits(f, eng'[f])
      BY <1>1, <2>1, Names4, OffFits, EngSet
    <2>3. /\ call' \in [Caller -> [at : Place, uuid : Profile \cup {NoProfile}]]
          /\ call'[c].at = "idle"
          /\ \A d \in Caller \ {c} : call'[d] = call[d]
      BY <1>1, <1>6, ReturnFacts
    <2>4. ui' \in Ui
      BY <1>4, <1>6, WgSaysFacts
    <2>5. StateOK'
      BY <1>1, <1>3, <1>6, <2>2, <2>3, <2>4 DEF StateOK, Ui, Engine, Fits
    <2>6. CallInv'
      BY <1>1, <1>2, <2>3, CallMoved
    <2>7. QED
      BY <1>1, <1>3, <1>6, <2>5, <2>6, ReportsKept DEF Shape
  <1>7. QED
    BY <1>5, <1>6, Zenon DEF WgUp

LEMMA ShapeWgDone ==
  ASSUME Shape, NEW c \in Caller, WgDone(c)
  PROVE  Shape'
  <1>1. StateOK /\ CallInv /\ ReportInv
    BY DEF Shape
  <1>2. call[c].uuid \in Profile
    BY <1>1 DEF CallInv, WgDone
  <1>3. /\ events' = events /\ admitted' = admitted /\ active' = active /\ stops' = stops
        /\ pendingStop' = pendingStop /\ wgActive' = wgActive /\ bind' = bind
        /\ xrayUuid' = xrayUuid /\ eng' = eng /\ clash' = clash /\ used' = used
        /\ ui' = [ui EXCEPT !.connected = call[c].uuid] /\ Return(c)
    BY DEF WgDone
  <1>4. /\ call' \in [Caller -> [at : Place, uuid : Profile \cup {NoProfile}]]
        /\ call'[c].at = "idle"
        /\ \A d \in Caller \ {c} : call'[d] = call[d]
    BY <1>1, <1>3, ReturnFacts
  <1>5. ui' \in Ui
    BY <1>1, <1>2, <1>3, Types DEF Ui
  <1>6. StateOK'
    BY <1>1, <1>3, <1>4, <1>5 DEF StateOK, Ui
  <1>7. CallInv'
    BY <1>1, <1>3, <1>4, CallMoved
  <1>8. QED
    BY <1>1, <1>3, <1>6, <1>7, ReportsKept DEF Shape

LEMMA ShapeDisconnect ==
  ASSUME Shape, Disconnect
  PROVE  Shape'
  <1>1. StateOK /\ CallInv /\ ReportInv
    BY DEF Shape
  <1>2. /\ events' = events /\ admitted' = admitted /\ active' = active /\ call' = call
        /\ xrayUuid' = xrayUuid /\ eng' = eng
    BY DEF Disconnect, Tap
  <1>3. used' \in [calls : 0 .. MaxCalls, taps : 0 .. MaxTaps, deaths : 0 .. MaxDeaths]
    BY <1>1, Counted DEF Disconnect, Tap
  <1>4. clash' \in BOOLEAN /\ wgActive' \in BOOLEAN
    BY <1>1, Zenon DEF Disconnect, Tap, StateOK
  <1>5. bind' \in {"none", "asked", "bound"} /\ pendingStop' \in BOOLEAN
    BY <1>1 DEF Disconnect, StateOK, BindTunnelService
  <1>6. ui' \in Ui
    <2>1. PICK u \in Ui : u = [ui EXCEPT !.pending = NoProfile]
      BY <1>1, Types DEF Ui
    <2>2. ui' = u \/ ui' = ApplyState(u, "DISCONNECTED")
      BY <2>1 DEF Disconnect
    <2>3. QED
      BY <2>2, ApplyStateFacts DEF State
  <1>7. stops' \in [Protocol -> Nat]
    <2>1. active \in Protocol /\ (stops' = stops \/ stops' = [stops EXCEPT ![active] = @ + 1])
      BY <1>1, Types DEF Disconnect
    <2>2. QED
      BY <1>1, <2>1, StopsMore
  <1>8. StateOK'
    BY <1>1, <1>2, <1>3, <1>4, <1>5, <1>6, <1>7 DEF StateOK, Ui
  <1>9. QED
    BY <1>1, <1>2, <1>8, ReportsKept, CallKept DEF Shape

LEMMA ShapeService ==
  ASSUME Shape, OnServiceConnected \/ OnServiceDisconnected
  PROVE  Shape'
  <1>1. StateOK /\ CallInv /\ ReportInv
    BY DEF Shape
  <1>2. CASE OnServiceConnected
    <2>1. /\ events' = events /\ admitted' = admitted /\ active' = active /\ call' = call
          /\ xrayUuid' = xrayUuid /\ eng' = eng /\ clash' = clash /\ used' = used /\ ui' = ui
          /\ wgActive' = wgActive /\ bind' = "bound" /\ pendingStop' = FALSE
      BY <1>2 DEF OnServiceConnected
    <2>2. stops' \in [Protocol -> Nat]
      <3>1. stops' = stops \/ stops' = [stops EXCEPT !["OPENVPN"] = @ + 1]
        BY <1>2 DEF OnServiceConnected
      <3>2. QED
        BY <1>1, <3>1, Names4, StopsMore
    <2>3. StateOK'
      BY <1>1, <2>1, <2>2 DEF StateOK
    <2>4. QED
      BY <1>1, <2>1, <2>3, ReportsKept, CallKept DEF Shape
  <1>3. CASE OnServiceDisconnected
    <2>1. /\ events' = events /\ admitted' = admitted /\ active' = active /\ call' = call
          /\ xrayUuid' = xrayUuid /\ stops' = stops /\ clash' = clash /\ ui' = ui
          /\ wgActive' = wgActive /\ bind' = "asked" /\ pendingStop' = pendingStop
      BY <1>3 DEF OnServiceDisconnected
    <2>2. used' \in [calls : 0 .. MaxCalls, taps : 0 .. MaxTaps, deaths : 0 .. MaxDeaths]
      BY <1>1, <1>3, Counted DEF OnServiceDisconnected
    <2>3. /\ eng' \in [Protocol -> Engine] /\ \A f \in Protocol : Fits(f, eng'[f])
          /\ eng'["WIREGUARD"] = eng["WIREGUARD"]
      <3>1. CASE eng["OPENVPN"].phase # "off" /\ eng' = [eng EXCEPT !["OPENVPN"].phase = "posted"]
        <4>1. "posted" \in Phase \ {"off"}
          BY DEF Phase
        <4>2. QED
          BY <1>1, <3>1, <4>1, Names4, PhaseSet
      <3>2. CASE eng' = [eng EXCEPT !["OPENVPN"] = [phase |-> "off", uuid |-> NoProfile]]
        <4>1. eng' = [eng EXCEPT !["OPENVPN"] = Off]
          BY <3>2 DEF Off
        <4>2. QED
          BY <1>1, <4>1, Names4, OffFits, EngSet
      <3>3. QED
        BY <1>3, <3>1, <3>2 DEF OnServiceDisconnected
    <2>4. StateOK'
      BY <1>1, <2>1, <2>2, <2>3 DEF StateOK, Engine, Fits
    <2>5. QED
      BY <1>1, <2>1, <2>3, <2>4, ReportsKept, CallKept DEF Shape
  <1>4. QED
    BY <1>2, <1>3

LEMMA TailFacts ==
  ASSUME NEW s \in Seq(Msg), s # <<>>
  PROVE  /\ Tail(s) \in Seq(Msg) /\ Head(s) \in Msg /\ Head(s) = s[1]
         /\ Len(s) \in Nat /\ Len(s) > 0 /\ Len(Tail(s)) = Len(s) - 1
         /\ DOMAIN s = 1 .. Len(s) /\ DOMAIN Tail(s) = 1 .. Len(s) - 1
         /\ \A i \in DOMAIN Tail(s) : i + 1 \in DOMAIN s /\ Tail(s)[i] = s[i + 1]
  <1>1. /\ Head(s) \in Msg /\ Tail(s) \in Seq(Msg) /\ Len(Tail(s)) = Len(s) - 1
        /\ \A i \in 1 .. Len(Tail(s)) : Tail(s)[i] = s[i + 1]
    BY HeadTailProperties
  <1>2. Len(s) \in Nat /\ Len(s) > 0 /\ DOMAIN s = 1 .. Len(s)
    BY EmptySeq, LenProperties
  <1>3. DOMAIN Tail(s) = 1 .. Len(Tail(s))
    BY <1>1, LenProperties
  <1>4. Head(s) = s[1]
    OBVIOUS
  <1>5. QED
    BY <1>1, <1>2, <1>3, <1>4

\* A report reaches the gate.
LEMMA GateFacts ==
  ASSUME Shape, NEW e \in Protocol, Gate(e)
  PROVE  /\ Shape' /\ events[e] \in Seq(Msg) /\ events[e] # <<>> /\ admitted[e] = None
         /\ events'[e] = Tail(events[e]) /\ \A f \in Protocol \ {e} : events'[f] = events[f]
         /\ \A f \in Protocol \ {e} : admitted'[f] = admitted[f]
         /\ active = e => admitted'[e] = Head(events[e])
         /\ active # e => admitted'[e] = None
  <1>1. StateOK /\ CallInv /\ ReportInv
    BY DEF Shape
  <1>2. /\ ui' = ui /\ active' = active /\ call' = call /\ bind' = bind /\ used' = used
        /\ pendingStop' = pendingStop /\ wgActive' = wgActive /\ eng' = eng /\ stops' = stops
        /\ clash' = clash
    BY DEF Gate
  <1>3. PICK s \in Seq(Msg) : s = events[e]
    BY <1>1 DEF ReportInv
  <1>4. s # <<>> /\ admitted[e] = None
    BY <1>3 DEF Gate
  <1>5. PICK t \in Seq(Msg) : t = Tail(s)
    BY <1>4, TailFacts
  <1>6. events' = [events EXCEPT ![e] = t]
    BY <1>3, <1>5 DEF Gate
  <1>7. events \in [Protocol -> Seq(Msg)] /\ admitted \in [Protocol -> Report]
    BY <1>1 DEF ReportInv, StateOK
  <1>8. /\ events' \in [Protocol -> Seq(Msg)] /\ events'[e] = t
        /\ \A f \in Protocol \ {e} : events'[f] = events[f]
    BY <1>6, <1>7
  <1>9. PICK h \in Msg : h = Head(s)
    BY <1>4, TailFacts
  <1>10. PICK a : a = IF active = e THEN h ELSE None
    OBVIOUS
  <1>11. a \in Report /\ (a = None \/ a \in Msg)
    BY <1>10 DEF Msg, Report, None
  <1>12. admitted' = [admitted EXCEPT ![e] = a]
    BY <1>3, <1>9, <1>10 DEF Gate
  <1>13. /\ admitted' \in [Protocol -> Report] /\ admitted'[e] = a
         /\ \A f \in Protocol \ {e} : admitted'[f] = admitted[f]
    BY <1>7, <1>11, <1>12
  <1>14. xrayUuid' \in {xrayUuid, NoProfile}
    BY DEF Gate
  <1>15. events' \in [Protocol -> Seq(Report)]
    BY <1>8, MsgSeq
  <1>16. StateOK'
    BY <1>1, <1>2, <1>13, <1>14, <1>15 DEF StateOK
  <1>17. ASSUME e # "OPENVPN"
         PROVE  /\ \A i \in DOMAIN t : t[i].kind # "vpn"
                /\ a.kind # "vpn"
    <2>1. \A i \in DOMAIN s : s[i].kind # "vpn"
      BY <1>1, <1>3, <1>17 DEF ReportInv
    <2>2. \A i \in DOMAIN t : t[i].kind # "vpn"
      BY <1>4, <1>5, <2>1, TailFacts
    <2>3. h.kind # "vpn"
      <3>1. h = s[1] /\ 1 \in DOMAIN s
        BY <1>4, <1>9, TailFacts
      <3>2. QED
        BY <2>1, <3>1
    <2>4. QED
      BY <1>10, <2>2, <2>3 DEF None
  <1>18. ReportInv'
    BY <1>1, <1>8, <1>11, <1>13, <1>17 DEF ReportInv
  <1>19. CallInv'
    BY <1>1, <1>2, CallKept
  <1>20. QED
    BY <1>3, <1>4, <1>5, <1>8, <1>9, <1>10, <1>13, <1>16, <1>18, <1>19 DEF Shape

\* The router takes an admitted report in.
LEMMA HandleFacts ==
  ASSUME Shape, NEW e \in Protocol, Handle(e)
  PROVE  /\ Shape' /\ admitted[e] \in Msg /\ admitted'[e] = None
         /\ \A f \in Protocol \ {e} : admitted'[f] = admitted[f]
         /\ ui \in Ui /\ ui' = Consume(e, ui, admitted[e])
  <1>1. StateOK /\ CallInv /\ ReportInv
    BY DEF Shape
  <1>2. /\ events' = events /\ active' = active /\ call' = call /\ bind' = bind /\ used' = used
        /\ pendingStop' = pendingStop /\ wgActive' = wgActive /\ eng' = eng /\ stops' = stops
        /\ clash' = clash /\ xrayUuid' = xrayUuid /\ ui' = Consume(e, ui, admitted[e])
        /\ admitted' = [admitted EXCEPT ![e] = None]
    BY DEF Handle
  <1>3. admitted[e] \in Msg
    BY <1>1 DEF Handle, ReportInv
  <1>4. None \in Report /\ None.kind # "vpn"
    BY DEF None, Report
  <1>5. /\ admitted' \in [Protocol -> Report] /\ admitted'[e] = None
        /\ \A f \in Protocol \ {e} : admitted'[f] = admitted[f]
    BY <1>1, <1>2, <1>4 DEF StateOK
  <1>6. ui' \in Ui /\ ui \in Ui
    BY <1>1, <1>2, <1>3, Types, ConsumeFacts
  <1>7. StateOK'
    BY <1>1, <1>2, <1>5, <1>6 DEF StateOK, Ui
  <1>8. ReportInv'
    BY <1>1, <1>2, <1>4, <1>5 DEF ReportInv
  <1>9. QED
    BY <1>1, <1>2, <1>3, <1>5, <1>6, <1>7, <1>8, CallKept DEF Shape

-----------------------------------------------------------------------------
(* What the engines do.                                                    *)

LEMMA SaysMsg ==
  ASSUME NEW k \in State
  PROVE  Says(k) \in Msg /\ Says(k).kind = k /\ Says(k).uuid = NoProfile
  BY DEF Says, Msg

LEMMA Single ==
  ASSUME NEW a \in Msg
  PROVE  \E t \in Seq(Msg) : t = <<a>> /\ Len(t) = 1 /\ DOMAIN t = 1 .. 1 /\ t[1] = a
  <1>1. <<a>> \in Seq(Msg)
    OBVIOUS
  <1>2. Len(<<a>>) = 1 /\ DOMAIN <<a>> = 1 .. 1 /\ <<a>>[1] = a
    OBVIOUS
  <1>3. QED
    BY <1>1, <1>2, Zenon

LEMMA Pair ==
  ASSUME NEW a \in Msg, NEW b \in Msg
  PROVE  \E t \in Seq(Msg) : /\ t = <<a, b>> /\ Len(t) = 2 /\ DOMAIN t = 1 .. 2
                             /\ t[1] = a /\ t[2] = b
  <1>1. <<a, b>> \in Seq(Msg)
    OBVIOUS
  <1>2. Len(<<a, b>>) = 2 /\ DOMAIN <<a, b>> = 1 .. 2 /\ <<a, b>>[1] = a /\ <<a, b>>[2] = b
    OBVIOUS
  <1>3. QED
    BY <1>1, <1>2, Zenon

\* A start of OpenVPN names its profile.
LEMMA LaunchReported ==
  ASSUME Shape, NEW u \in Profile, events' = LaunchReports(u), admitted' = admitted
  PROVE  /\ ReportInv' /\ events' \in [Protocol -> Seq(Report)]
         /\ \A f \in Protocol \ {"OPENVPN"} : events'[f] = events[f]
         /\ \E t \in Seq(Msg) : /\ events'["OPENVPN"] = events["OPENVPN"] \o t
                                /\ NamesLast(t, u) /\ ~Silent(t)
  <1>1. ReportInv
    BY DEF Shape
  <1>2. PICK r1 \in Msg : r1 = Says("CONNECTING")
    BY SaysMsg DEF State
  <1>3. PICK r2 \in Msg : r2 = [kind |-> "vpn", uuid |-> u]
    BY DEF Msg
  <1>4. PICK r3 \in Msg : r3 = Says("DISCONNECTED")
    BY SaysMsg DEF State
  <1>5. r1.kind = "CONNECTING" /\ r2.kind = "vpn" /\ r2.uuid = u /\ r3.kind = "DISCONNECTED"
    BY <1>2, <1>3, <1>4 DEF Says
  <1>6. PICK a \in Seq(Msg) : a = <<r1, r2>> /\ Len(a) = 2 /\ DOMAIN a = 1 .. 2 /\ a[1] = r1 /\ a[2] = r2
    BY Pair
  <1>7. \E t \in Seq(Msg) : events' = Sends(events, "OPENVPN", t) /\ NamesLast(t, u) /\ ~Silent(t)
    <2>1. CASE eng["OPENVPN"].phase = "replacing"
      <3>1. PICK b \in Seq(Msg) : b = <<r3, r1>> /\ Len(b) = 2 /\ b[1] = r3 /\ b[2] = r1
        BY Pair
      <3>2. PICK t \in Seq(Msg) : t = a \o b
        BY Concat
      <3>3. DOMAIN t = 1 .. 4 /\ t[1] = r1 /\ t[2] = r2 /\ t[3] = r3 /\ t[4] = r1
        BY <1>6, <3>1, <3>2, Concat
      <3>4. Names(t[3]) /\ ~Silent(t)
        BY <1>5, <3>3 DEF Names, Silent
      <3>5. NamesLast(t, u)
        BY <1>5, <3>3, <3>4 DEF NamesLast, Names1
      <3>6. events' = Sends(events, "OPENVPN", t)
        BY <1>2, <1>3, <1>4, <1>6, <2>1, <3>1, <3>2 DEF LaunchReports
      <3>7. QED
        BY <3>4, <3>5, <3>6
    <2>2. CASE eng["OPENVPN"].phase # "replacing"
      <3>1. a \o <<>> = a
        BY ConcatEmptySeq
      <3>2. events' = Sends(events, "OPENVPN", a)
        BY <1>2, <1>3, <1>6, <2>2, <3>1 DEF LaunchReports
      <3>3. ~Silent(a)
        BY <1>5, <1>6 DEF Names, Silent
      <3>4. NamesLast(a, u)
        BY <1>5, <1>6 DEF NamesLast, Names1
      <3>5. QED
        BY <3>2, <3>3, <3>4
    <2>3. QED
      BY <2>1, <2>2
  <1>8. PICK t \in Seq(Msg) : events' = Sends(events, "OPENVPN", t) /\ NamesLast(t, u) /\ ~Silent(t)
    BY <1>7
  <1>9. /\ ReportInv' /\ events' \in [Protocol -> Seq(Report)]
        /\ events'["OPENVPN"] = events["OPENVPN"] \o t
        /\ \A f \in Protocol \ {"OPENVPN"} : events'[f] = events[f]
    BY <1>1, <1>8, Names4, ReportSent
  <1>10. QED
    BY <1>8, <1>9

\* A start that ends early names none.
LEMMA NoLaunchReported ==
  ASSUME Shape, NoLaunchReports, admitted' = admitted
  PROVE  /\ ReportInv' /\ events' \in [Protocol -> Seq(Report)]
         /\ \A f \in Protocol \ {"OPENVPN"} : events'[f] = events[f]
  <1>1. ReportInv
    BY DEF Shape
  <1>2. PICK r1 \in Msg : r1 = Says("CONNECTING")
    BY SaysMsg DEF State
  <1>3. PICK r2 \in Msg : r2 = Says("ERROR")
    BY SaysMsg DEF State
  <1>4. PICK t1 \in Seq(Msg) : t1 = <<r1>>
    BY Single
  <1>5. PICK t2 \in Seq(Msg) : t2 = <<r1, r2>>
    BY Pair
  <1>6. PICK t \in Seq(Msg) : events' = Sends(events, "OPENVPN", t)
    BY <1>2, <1>3, <1>4, <1>5 DEF NoLaunchReports
  <1>7. QED
    BY <1>1, <1>6, Names4, ReportSent

\* A start of OpenVPN is handled: the latest names its profile, or gives up.
LEMMA LaunchFacts ==
  ASSUME Shape, OpenVpnLaunch
  PROVE  /\ Shape' /\ \A f \in Protocol \ {"OPENVPN"} : eng'[f] = eng[f] /\ events'[f] = events[f]
         /\ \/ eng'["OPENVPN"] = Off
            \/ /\ eng'["OPENVPN"].phase = "managed"
               /\ \E t \in Seq(Msg) : /\ events'["OPENVPN"] = events["OPENVPN"] \o t
                                      /\ NamesLast(t, eng'["OPENVPN"].uuid) /\ ~Silent(t)
  <1>1. StateOK /\ CallInv /\ ReportInv
    BY DEF Shape
  <1>2. /\ ui' = ui /\ active' = active /\ call' = call /\ bind' = bind /\ used' = used
        /\ pendingStop' = pendingStop /\ wgActive' = wgActive /\ stops' = stops
        /\ clash' = clash /\ xrayUuid' = xrayUuid /\ admitted' = admitted
    BY DEF OpenVpnLaunch, Env
  <1>3. eng["OPENVPN"].phase # "off" /\ eng["OPENVPN"].uuid \in Profile
    <2>1. Fits("OPENVPN", eng["OPENVPN"])
      BY <1>1, Names4, Types
    <2>2. QED
      BY <2>1 DEF OpenVpnLaunch, Fits
  <1>4. PICK u \in Profile : u = eng["OPENVPN"].uuid
    BY <1>3
  <1>5. CASE eng' = [eng EXCEPT !["OPENVPN"].phase = "managed"] /\ events' = LaunchReports(u)
    <2>1. "managed" \in Phase \ {"off"}
      BY DEF Phase
    <2>2. /\ eng' \in [Protocol -> Engine] /\ \A f \in Protocol : Fits(f, eng'[f])
          /\ eng'["OPENVPN"].phase = "managed" /\ eng'["OPENVPN"].uuid = u
          /\ \A f \in Protocol \ {"OPENVPN"} : eng'[f] = eng[f]
      BY <1>1, <1>3, <1>4, <1>5, <2>1, Names4, PhaseSet
    <2>3. /\ ReportInv' /\ events' \in [Protocol -> Seq(Report)]
          /\ \A f \in Protocol \ {"OPENVPN"} : events'[f] = events[f]
          /\ \E t \in Seq(Msg) : /\ events'["OPENVPN"] = events["OPENVPN"] \o t
                                 /\ NamesLast(t, u) /\ ~Silent(t)
      BY <1>2, <1>5, LaunchReported
    <2>4. StateOK'
      BY <1>1, <1>2, <2>2, <2>3 DEF StateOK, Engine, Fits
    <2>5. CallInv'
      BY <1>1, <1>2, <2>2, Names4, CallKept
    <2>6. QED
      BY <2>2, <2>3, <2>4, <2>5 DEF Shape
  <1>6. CASE eng' = [eng EXCEPT !["OPENVPN"] = [phase |-> "off", uuid |-> NoProfile]] /\ NoLaunchReports
    <2>1. eng' = [eng EXCEPT !["OPENVPN"] = Off]
      BY <1>6 DEF Off
    <2>2. /\ eng' \in [Protocol -> Engine] /\ \A f \in Protocol : Fits(f, eng'[f])
          /\ eng'["OPENVPN"] = Off
          /\ \A f \in Protocol \ {"OPENVPN"} : eng'[f] = eng[f]
      BY <1>1, <2>1, Names4, OffFits, EngSet
    <2>3. /\ ReportInv' /\ events' \in [Protocol -> Seq(Report)]
          /\ \A f \in Protocol \ {"OPENVPN"} : events'[f] = events[f]
      BY <1>2, <1>6, NoLaunchReported
    <2>4. StateOK'
      BY <1>1, <1>2, <2>2, <2>3 DEF StateOK, Engine, Fits
    <2>5. CallInv'
      BY <1>1, <1>2, <2>2, Names4, CallKept
    <2>6. QED
      BY <2>2, <2>3, <2>4, <2>5 DEF Shape
  <1>7. QED
    BY <1>4, <1>5, <1>6 DEF OpenVpnLaunch

\* An earlier start leaves the latest to be handled.
LEMMA LaunchEarlierFacts ==
  ASSUME Shape, NEW p \in Profile, OpenVpnLaunchEarlier(p)
  PROVE  /\ Shape' /\ \A f \in Protocol \ {"OPENVPN"} : eng'[f] = eng[f] /\ events'[f] = events[f]
         /\ \/ eng'["OPENVPN"].phase = "replacing"
            \/ /\ eng'["OPENVPN"].phase = "posted" /\ eng["OPENVPN"].phase # "off"
               /\ eng'["OPENVPN"].uuid = eng["OPENVPN"].uuid
  <1>1. StateOK /\ CallInv /\ ReportInv
    BY DEF Shape
  <1>2. /\ ui' = ui /\ active' = active /\ call' = call /\ bind' = bind /\ used' = used
        /\ pendingStop' = pendingStop /\ wgActive' = wgActive /\ stops' = stops
        /\ clash' = clash /\ xrayUuid' = xrayUuid /\ admitted' = admitted
        /\ eng["OPENVPN"].phase # "off"
    BY DEF OpenVpnLaunchEarlier, Env
  <1>3. /\ eng' \in [Protocol -> Engine] /\ \A f \in Protocol : Fits(f, eng'[f])
        /\ \A f \in Protocol \ {"OPENVPN"} : eng'[f] = eng[f]
        /\ \/ eng'["OPENVPN"].phase = "replacing"
           \/ /\ eng'["OPENVPN"].phase = "posted" /\ eng["OPENVPN"].phase # "off"
              /\ eng'["OPENVPN"].uuid = eng["OPENVPN"].uuid
    <2>1. CASE eng' = [eng EXCEPT !["OPENVPN"].phase = "replacing"]
      <3>1. "replacing" \in Phase \ {"off"}
        BY DEF Phase
      <3>2. QED
        BY <1>1, <1>2, <2>1, <3>1, Names4, PhaseSet
    <2>2. CASE eng["OPENVPN"].phase = "posted" /\ eng' = eng
      BY <1>1, <2>2, Types
    <2>3. QED
      BY <2>1, <2>2 DEF OpenVpnLaunchEarlier
  <1>4. /\ ReportInv' /\ events' \in [Protocol -> Seq(Report)]
        /\ \A f \in Protocol \ {"OPENVPN"} : events'[f] = events[f]
    <2>1. events' = LaunchReports(p) \/ NoLaunchReports
      BY DEF OpenVpnLaunchEarlier
    <2>2. QED
      BY <1>2, <2>1, LaunchReported, NoLaunchReported
  <1>5. StateOK'
    BY <1>1, <1>2, <1>3, <1>4 DEF StateOK, Engine, Fits
  <1>6. CallInv'
    BY <1>1, <1>2, <1>3, Names4, CallKept
  <1>7. QED
    BY <1>3, <1>4, <1>5, <1>6 DEF Shape

\* A tunnel other than WireGuard's comes up.
LEMMA ShapeComesUp ==
  ASSUME Shape, NEW e \in Protocol, ComesUp(e)
  PROVE  Shape'
  <1>1. StateOK /\ CallInv /\ ReportInv
    BY DEF Shape
  <1>2. /\ ui' = ui /\ active' = active /\ call' = call /\ bind' = bind /\ used' = used
        /\ pendingStop' = pendingStop /\ wgActive' = wgActive /\ stops' = stops
        /\ xrayUuid' = xrayUuid /\ admitted' = admitted /\ e # "WIREGUARD"
    BY DEF ComesUp, Env
  <1>3. eng[e].phase # "off"
    BY DEF ComesUp
  <1>4. clash' \in BOOLEAN
    BY <1>1, Zenon DEF ComesUp, StateOK
  <1>5. /\ eng' \in [Protocol -> Engine] /\ \A f \in Protocol : Fits(f, eng'[f])
        /\ \A f \in Protocol \ {e} : IF f \in Revoked(e) THEN eng'[f] = Off ELSE eng'[f] = eng[f]
        /\ events' \in [Protocol -> Seq(Report)] /\ ReportInv'
    BY <1>2, <1>3, UpFacts DEF ComesUp
  <1>6. StateOK'
    BY <1>1, <1>2, <1>4, <1>5 DEF StateOK, Engine, Fits
  <1>7. CallInv'
    <2>1. eng["WIREGUARD"].phase = "posted" => eng'["WIREGUARD"] = eng["WIREGUARD"]
      BY <1>2, <1>5, Names4 DEF Revoked
    <2>2. QED
      BY <1>1, <1>2, <2>1 DEF CallInv
  <1>8. QED
    BY <1>5, <1>6, <1>7 DEF Shape

\* So does an Xray tunnel whose start was overtaken.
LEMMA OvertakenFacts ==
  ASSUME Shape, NEW p \in Profile, OvertakenUp(p)
  PROVE  /\ Shape' /\ eng'["XRAY"].phase = "up"
         /\ \A f \in Protocol \ {"XRAY"} :
              f \notin Revoked("XRAY") => eng'[f] = eng[f] /\ events'[f] = events[f]
         /\ events'["XRAY"] = Append(events["XRAY"], Says("CONNECTED"))
  <1>1. StateOK /\ CallInv /\ ReportInv
    BY DEF Shape
  <1>2. /\ ui' = ui /\ active' = active /\ call' = call /\ bind' = bind /\ used' = used
        /\ pendingStop' = pendingStop /\ wgActive' = wgActive /\ stops' = stops
        /\ xrayUuid' = xrayUuid /\ admitted' = admitted /\ ProtocolOf[p] = "XRAY"
    BY DEF OvertakenUp, Env
  <1>3. clash' \in BOOLEAN
    BY <1>1, Zenon DEF OvertakenUp, StateOK
  <1>4. PICK g : g = [phase |-> "up", uuid |-> p]
    OBVIOUS
  <1>5. Fits("XRAY", g) /\ g.phase = "up"
    BY <1>2, <1>4 DEF Fits, Engine, Phase
  <1>6. /\ eng' = [f \in Protocol |-> eng'[f]] /\ eng'["XRAY"] = g
        /\ \A f \in Protocol \ {"XRAY"} :
             IF f \in Revoked("XRAY") THEN eng'[f] = Off ELSE eng'[f] = eng[f]
    BY <1>4, Names4 DEF OvertakenUp, Up, Off
  <1>7. \A f \in Protocol : Fits(f, eng[f])
    BY <1>1, Types
  <1>8. ASSUME NEW f \in Protocol
        PROVE  Fits(f, eng'[f])
    BY <1>5, <1>6, <1>7, OffFits
  <1>9. eng' \in [Protocol -> Engine]
    BY <1>6, <1>8 DEF Fits
  <1>10. /\ events' \in [Protocol -> Seq(Report)] /\ ReportInv'
         /\ events'["XRAY"] = Append(events["XRAY"], Says("CONNECTED"))
         /\ \A f \in Protocol \ {"XRAY"} : f \notin Revoked("XRAY") => events'[f] = events[f]
    BY <1>2, Names4, UpReported DEF OvertakenUp
  <1>11. StateOK'
    BY <1>1, <1>2, <1>3, <1>8, <1>9, <1>10 DEF StateOK, Engine, Fits
  <1>12. CallInv'
    <2>1. eng["WIREGUARD"].phase = "posted" => eng'["WIREGUARD"] = eng["WIREGUARD"]
      BY <1>6, Names4 DEF Revoked
    <2>2. QED
      BY <1>1, <1>2, <2>1 DEF CallInv
  <1>13. QED
    BY <1>5, <1>6, <1>10, <1>11, <1>12 DEF Shape

\* A session ends, a stop arrives, or an overtaken start of Xray fails.
Stopped(e) ==
  Ends(e) \/ StopArrives(e) \/ (e = "XRAY" /\ \E p \in Profile : OvertakenFails(p))

\* What that makes of its engine.
LEMMA EndFacts ==
  ASSUME Shape, NEW e \in Protocol, Stopped(e)
  PROVE  /\ Shape' /\ \A f \in Protocol \ {e} : eng'[f] = eng[f] /\ events'[f] = events[f]
         /\ \/ eng'[e] = Off
            \/ eng' = eng /\ events' = events
            \/ eng'[e].phase = "posted" /\ eng[e].phase # "off" /\ eng'[e].uuid = eng[e].uuid
         /\ e # "WIREGUARD"
  <1>1. StateOK /\ CallInv /\ ReportInv
    BY DEF Shape
  <1>2. /\ ui' = ui /\ active' = active /\ call' = call /\ bind' = bind /\ used' = used
        /\ pendingStop' = pendingStop /\ wgActive' = wgActive /\ clash' = clash
        /\ xrayUuid' = xrayUuid /\ admitted' = admitted /\ e # "WIREGUARD"
    BY DEF Stopped, OvertakenFails, Ends, StopArrives, Env
  <1>3. stops' \in [Protocol -> Nat]
    <2>1. stops \in [Protocol -> Nat]
      BY <1>1 DEF StateOK
    <2>2. CASE stops' = stops
      BY <2>1, <2>2
    <2>3. CASE stops[e] > 0 /\ stops' = [stops EXCEPT ![e] = @ - 1]
      <3>1. stops[e] - 1 \in Nat
        BY <2>1, <2>3
      <3>2. QED
        BY <2>1, <2>3, <3>1
    <2>4. QED
      BY <2>2, <2>3 DEF Stopped, OvertakenFails, Ends, StopArrives
  <1>4. /\ \/ eng' = [eng EXCEPT ![e] = Off]
           \/ eng' = eng /\ events' = events
           \/ eng' = eng /\ eng[e].phase = "posted"
           \/ eng[e].phase # "off" /\ eng' = [eng EXCEPT ![e].phase = "posted"]
    BY DEF Stopped, OvertakenFails, Ends, StopArrives, Off
  <1>5. /\ eng' \in [Protocol -> Engine] /\ \A f \in Protocol : Fits(f, eng'[f])
        /\ \A f \in Protocol \ {e} : eng'[f] = eng[f]
        /\ \/ eng'[e] = Off
           \/ eng' = eng /\ events' = events
           \/ eng'[e].phase = "posted" /\ eng[e].phase # "off" /\ eng'[e].uuid = eng[e].uuid
    <2>1. CASE eng' = [eng EXCEPT ![e] = Off]
      BY <1>1, <2>1, OffFits, EngSet
    <2>2. CASE eng' = eng /\ (events' = events \/ eng[e].phase = "posted")
      BY <1>1, <2>2, Types
    <2>3. CASE eng[e].phase # "off" /\ eng' = [eng EXCEPT ![e].phase = "posted"]
      <3>1. "posted" \in Phase \ {"off"}
        BY DEF Phase
      <3>2. QED
        BY <1>1, <2>3, <3>1, PhaseSet
    <2>4. QED
      BY <1>4, <2>1, <2>2, <2>3
  <1>6. PICK k \in State : events' = events \/ events' = Sends(events, e, <<Says(k)>>)
    BY DEF Stopped, OvertakenFails, Ends, StopArrives, State
  <1>7. /\ ReportInv' /\ events' \in [Protocol -> Seq(Report)]
        /\ \A f \in Protocol \ {e} : events'[f] = events[f]
    <2>1. CASE events' = events
      BY <1>1, <1>2, <2>1, ReportsKept DEF StateOK
    <2>2. CASE events' = Sends(events, e, <<Says(k)>>)
      <3>1. k # "vpn"
        BY DEF State
      <3>2. PICK r \in Msg : r = Says(k) /\ r.kind # "vpn"
        BY <3>1, SaysMsg
      <3>3. PICK t \in Seq(Msg) : t = <<r>> /\ Len(t) = 1 /\ DOMAIN t = 1 .. 1 /\ t[1] = r
        BY Single
      <3>5. \A i \in DOMAIN t : t[i].kind # "vpn"
        BY <3>2, <3>3
      <3>6. events' = Sends(events, e, t)
        BY <2>2, <3>2, <3>3
      <3>7. QED
        BY <1>1, <1>2, <3>5, <3>6, ReportSent
    <2>3. QED
      BY <1>6, <2>1, <2>2
  <1>8. StateOK'
    BY <1>1, <1>2, <1>3, <1>5, <1>7 DEF StateOK, Engine, Fits
  <1>9. CallInv'
    BY <1>1, <1>2, <1>5, Names4, CallKept
  <1>10. QED
    BY <1>2, <1>5, <1>7, <1>8, <1>9 DEF Shape

LEMMA ShapeLaunchedDown ==
  ASSUME Shape, LaunchedDown
  PROVE  Shape' /\ eng'["WIREGUARD"] = Off /\ \A f \in Protocol \ {"WIREGUARD"} : eng'[f] = eng[f]
  <1>1. StateOK /\ CallInv /\ ReportInv
    BY DEF Shape
  <1>2. /\ active' = active /\ call' = call /\ bind' = bind /\ used' = used
        /\ pendingStop' = pendingStop /\ wgActive' = wgActive /\ clash' = clash
        /\ xrayUuid' = xrayUuid /\ admitted' = admitted /\ events' = events /\ WgFree
    BY DEF LaunchedDown
  <1>3. stops' \in [Protocol -> Nat]
    <2>1. /\ stops \in [Protocol -> Nat] /\ stops["WIREGUARD"] > 0
          /\ stops' = [stops EXCEPT !["WIREGUARD"] = @ - 1]
      BY <1>1 DEF StateOK, LaunchedDown
    <2>2. stops["WIREGUARD"] - 1 \in Nat
      BY <2>1, Names4
    <2>3. QED
      BY <2>1, <2>2
  <1>4. eng' = [eng EXCEPT !["WIREGUARD"] = Off]
    BY DEF LaunchedDown, Off
  <1>5. /\ eng' \in [Protocol -> Engine] /\ \A f \in Protocol : Fits(f, eng'[f])
        /\ eng'["WIREGUARD"] = Off /\ \A f \in Protocol \ {"WIREGUARD"} : eng'[f] = eng[f]
    BY <1>1, <1>4, Names4, OffFits, EngSet
  <1>6. ui' \in Ui
    <2>1. ui \in Ui /\ "DISCONNECTED" \in State /\ (ui' = ui \/ ui' = WgSays(ui, "DISCONNECTED"))
      BY <1>1, Types DEF State, LaunchedDown
    <2>2. QED
      BY <2>1, WgSaysFacts
  <1>7. StateOK'
    BY <1>1, <1>2, <1>3, <1>5, <1>6 DEF StateOK, Ui, Engine, Fits
  <1>8. QED
    BY <1>1, <1>2, <1>5, <1>7, CallKept, ReportsKept DEF Shape

LEMMA ShapeStutter ==
  ASSUME Shape, UNCHANGED vars
  PROVE  Shape'
  BY DEF Shape, vars, StateOK, ReportInv, CallInv

LEMMA NextShape ==
  ASSUME Shape, [Next]_vars
  PROVE  Shape'
  <1>1. ASSUME NEW c \in Caller, Steps(c)
        PROVE  Shape'
    BY <1>1, ShapeStopOther, ShapeStopWireGuard, ShapeStopXray, ShapeStart, ShapeConnectWireGuard,
       ShapeWgLock, ShapeWgUp, ShapeWgDone DEF Steps
  <1>2. ASSUME NEW e \in Protocol, Gate(e) \/ Handle(e) \/ ComesUp(e) \/ Stopped(e)
        PROVE  Shape'
    BY <1>2, GateFacts, HandleFacts, ShapeComesUp, EndFacts
  <1>3. ASSUME NEW c \in Caller, NEW u \in Profile, Connect(c, u)
        PROVE  Shape'
    BY <1>3, ShapeConnect
  <1>4. CASE \/ Disconnect \/ OnServiceConnected \/ OnServiceDisconnected
             \/ OpenVpnLaunch \/ LaunchedDown \/ UNCHANGED vars
    BY <1>4, ShapeDisconnect, ShapeService, LaunchFacts, ShapeLaunchedDown, ShapeStutter
  <1>5. ASSUME NEW p \in Profile, OpenVpnLaunchEarlier(p) \/ OvertakenUp(p) \/ OvertakenFails(p)
        PROVE  Shape'
    BY <1>2, <1>5, LaunchEarlierFacts, OvertakenFacts, Names4 DEF Stopped
  <1>6. QED
    BY <1>1, <1>2, <1>3, <1>4, <1>5 DEF Next, Stopped

EarlierInv == earlier \subseteq {p \in Profile : ProtocolOf[p] \in {"OPENVPN", "XRAY"}}

LEMMA NextEarlier ==
  ASSUME Shape, EarlierInv, [Next]_vars
  PROVE  EarlierInv'
  <1>1. StateOK /\ CallInv
    BY DEF Shape
  <1>2. \A e \in Protocol : Fits(e, eng[e])
    BY <1>1, Types
  <1>3. CASE earlier' \subseteq earlier
    BY <1>3 DEF EarlierInv
  <1>4. ASSUME NEW c \in Caller, ConnectXray(c) \/ ConnectOpenVpn(c)
        PROVE  EarlierInv'
    <2>1. call[c].uuid \in Profile
      BY <1>1, <1>4 DEF CallInv, ConnectXray, ConnectOpenVpn
    <2>2. CASE ConnectXray(c)
      <3>1. Fits("XRAY", eng["XRAY"])
        BY <1>2, Names4
      <3>2. eng["XRAY"].phase = "posted" => eng["XRAY"].uuid \in Profile /\ ProtocolOf[eng["XRAY"].uuid] = "XRAY"
        BY <3>1 DEF Fits
      <3>3. QED
        BY <2>1, <2>2, <3>2 DEF ConnectXray, Keeps, EarlierInv
    <2>3. CASE ConnectOpenVpn(c)
      <3>1. Fits("OPENVPN", eng["OPENVPN"])
        BY <1>2, Names4
      <3>2. eng["OPENVPN"].phase # "off" =>
              eng["OPENVPN"].uuid \in Profile /\ ProtocolOf[eng["OPENVPN"].uuid] = "OPENVPN"
        BY <3>1 DEF Fits
      <3>3. QED
        BY <2>3, <3>2 DEF ConnectOpenVpn, EarlierInv
    <2>4. QED
      BY <1>4, <2>2, <2>3
  <1>5. ASSUME NEW p \in Profile, OvertakenUp(p)
        PROVE  EarlierInv'
    <2>1. Fits("XRAY", eng["XRAY"])
      BY <1>2, Names4
    <2>2. eng["XRAY"].phase = "posted" => eng["XRAY"].uuid \in Profile /\ ProtocolOf[eng["XRAY"].uuid] = "XRAY"
      BY <2>1 DEF Fits
    <2>3. QED
      BY <1>5, <2>2 DEF OvertakenUp, EarlierInv
  <1>6. ASSUME NEW c \in Caller, Steps(c), ~ConnectXray(c), ~ConnectOpenVpn(c)
        PROVE  earlier' \subseteq earlier
    BY <1>6 DEF Steps, StopOpenVpn, StopWireGuard, StopIkev2, StopXray, CleanupXray, ClaimPending,
       ClaimProtocol, ConnectOpenVpnFails, ConnectIkev2, ConnectWireGuard, WgLock, WgUp, WgDone
  <1>7. ASSUME NEW e \in Protocol, Gate(e) \/ Handle(e) \/ ComesUp(e) \/ Ends(e) \/ StopArrives(e)
        PROVE  earlier' \subseteq earlier
    BY <1>7 DEF Gate, Handle, ComesUp, Ends, StopArrives, Cleanup, CleanupXray
  <1>8. ASSUME NEW p \in Profile, OpenVpnLaunchEarlier(p) \/ OvertakenFails(p)
        PROVE  earlier' \subseteq earlier
    BY <1>8 DEF OpenVpnLaunchEarlier, OvertakenFails
  <1>9. ASSUME \/ \E c \in Caller, u \in Profile : Connect(c, u)
               \/ Disconnect \/ OnServiceConnected \/ OnServiceDisconnected
               \/ OpenVpnLaunch \/ LaunchedDown \/ UNCHANGED vars
        PROVE  earlier' \subseteq earlier
    BY <1>9 DEF Connect, Disconnect, Tap, OnServiceConnected, OnServiceDisconnected, OpenVpnLaunch,
       LaunchedDown, vars
  <1>10. QED
    BY <1>3, <1>4, <1>5, <1>6, <1>7, <1>8, <1>9 DEF Next

(* The variables keep their shape, every engine runs profiles of its own,  *)
(* and only starts of OpenVPN and Xray overtake one another: whatever      *)
(* connects, taps, deaths and reports come in any order (VpnEngine.kt      *)
(* connect, disconnect and the callbacks of the engines).                  *)
THEOREM TypeCorrect == Spec => []TypeOK
  <1>1. Init => Shape /\ EarlierInv
    BY InitShape DEF Init, EarlierInv
  <1>2. Shape /\ EarlierInv /\ [Next]_vars => Shape' /\ EarlierInv'
    BY NextShape, NextEarlier
  <1>3. Shape /\ EarlierInv => TypeOK
    BY DEF Shape, EarlierInv, TypeOK
  <1>4. QED
    BY <1>1, <1>2, <1>3, PTL DEF Spec

-----------------------------------------------------------------------------
(* What is shown.                                                          *)

Alone == \A c, d \in Caller : call[c].at # "idle" /\ call[d].at # "idle" => c = d

Early == {"stopOpenVpn", "stopWireGuard", "stopIkev2", "stopXray", "pending", "protocol"}

\* A step that at most ends tunnels, or takes a call nearer to its claim.
LEMMA Calm ==
  ASSUME Shape, Shown, Alone', active' = active, ui'.state = ui.state,
         ui'.connected = ui.connected, events' = events, admitted' = admitted,
         wgActive' = wgActive, stops'["WIREGUARD"] = stops["WIREGUARD"],
         eng'["WIREGUARD"] = eng["WIREGUARD"],
         \A e \in Protocol : \/ eng'[e] = eng[e] \/ eng'[e].phase = "off"
                             \/ e = "OPENVPN" /\ eng'[e].phase = "posted",
         \A c \in Caller : \/ call'[c] = call[c]
                           \/ call'[c].at \in Early /\ call[c].at \in Early \cup {"idle"}
  PROVE  Shown'
  <1>1. active \in Protocol
    BY DEF Shape, StateOK
  <1>2. OrderInv'
    BY DEF OrderInv, Alone, Early, Shown
  <1>3. Settled' => Settled
    BY DEF Settled, Early
  <1>4. ShownInv'
    BY <1>1, <1>3 DEF ShownInv, Shown
  <1>5. (\A c \in Caller : call'[c].at # "wgDone") => (\A c \in Caller : call[c].at # "wgDone")
    BY DEF Early
  <1>6. RowInv'
    BY <1>1, <1>3, <1>5 DEF RowInv, Row, Shown
  <1>7. QED
    BY <1>2, <1>4, <1>6 DEF Shown

\* A call that moves keeps to itself.
LEMMA AloneMoves ==
  ASSUME OrderInv, NEW c \in Caller, call[c].at # "idle", \A d \in Caller \ {c} : call'[d] = call[d]
  PROVE  Alone' /\ \A d \in Caller \ {c} : call'[d].at = "idle" /\ call[d].at = "idle"
  BY DEF OrderInv, Alone

LEMMA ShownConnect ==
  ASSUME Shape, ~clash => Shown, NEW c \in Caller, NEW u \in Profile, Connect(c, u), ~clash'
  PROVE  Shown'
  <1>1. Shown /\ \A d \in Caller : call[d].at = "idle"
    BY Zenon DEF Connect
  <1>2. call'[c].at = "stopOpenVpn" /\ \A d \in Caller \ {c} : call'[d] = call[d]
    BY DEF Connect, Shape, StateOK
  <1>3. Alone'
    BY <1>1, <1>2 DEF Alone
  <1>4. QED
    BY <1>1, <1>2, <1>3, Calm DEF Connect, Early

LEMMA ShownEarly ==
  ASSUME Shape, ~clash => Shown, NEW c \in Caller, ~clash',
         StopOpenVpn(c) \/ StopIkev2(c) \/ StopXray(c) \/ ClaimPending(c)
  PROVE  Shown'
  <1> USE DEF StopOpenVpn, StopIkev2, StopXray, ClaimPending
  <1>1. StateOK /\ Shown
    BY DEF Shape
  <1>2. call[c].at \in Early
    BY DEF Early
  <1>3. PICK place \in Early : Goto(c, place)
    BY DEF Early
  <1>4. place \in Place
    BY DEF Early, Place
  <1>5. call'[c].at = place /\ \A d \in Caller \ {c} : call'[d] = call[d]
    BY <1>1, <1>3, <1>4, GotoFacts
  <1>6. Alone'
    BY <1>1, <1>2, <1>5, AloneMoves DEF Early, Shown
  <1>7. ui'.state = ui.state /\ ui'.connected = ui.connected
    <2>1. ui \in Ui
      BY <1>1, Types
    <2>2. ui' = ui \/ ui' = [ui EXCEPT !.pending = call[c].uuid]
      OBVIOUS
    <2>3. QED
      BY <2>1, <2>2 DEF Ui
  <1>8. stops'["WIREGUARD"] = stops["WIREGUARD"]
    <2>1. \E e \in Protocol \ {"WIREGUARD"} : stops' = stops \/ stops' = [stops EXCEPT ![e] = @ + 1]
      BY DEF Protocol
    <2>2. QED
      BY <1>1, <2>1, StopsMore, Names4
  <1>9. \A e \in Protocol : eng'[e] = eng[e] \/ (eng'[e].phase = "off" /\ e # "WIREGUARD")
    BY <1>1, Types
  <1>10. /\ active' = active /\ events' = events /\ admitted' = admitted /\ wgActive' = wgActive
    OBVIOUS
  <1>11. QED
    BY <1>1, <1>2, <1>5, <1>6, <1>7, <1>8, <1>9, <1>10, Names4, Calm

LEMMA ShownService ==
  ASSUME Shape, ~clash => Shown, ~clash', OnServiceConnected \/ OnServiceDisconnected
  PROVE  Shown'
  <1> USE DEF OnServiceConnected, OnServiceDisconnected
  <1>1. StateOK /\ Shown
    BY DEF Shape
  <1>2. /\ active' = active /\ events' = events /\ admitted' = admitted /\ wgActive' = wgActive
        /\ call' = call /\ ui' = ui
    OBVIOUS
  <1>3. Alone'
    BY <1>1, <1>2 DEF Alone, OrderInv, Shown
  <1>4. stops'["WIREGUARD"] = stops["WIREGUARD"]
    <2>1. stops' = stops \/ stops' = [stops EXCEPT !["OPENVPN"] = @ + 1]
      OBVIOUS
    <2>2. QED
      BY <1>1, <2>1, StopsMore, Names4
  <1>5. \A e \in Protocol : \/ eng'[e] = eng[e]
                            \/ e = "OPENVPN" /\ eng'[e].phase \in {"posted", "off"}
    BY <1>1, Types DEF Engine
  <1>6. QED
    BY <1>1, <1>2, <1>3, <1>4, <1>5, Names4, Calm

LEMMA ShownDisconnect ==
  ASSUME Shape, ~clash => Shown, ~clash', Disconnect
  PROVE  Shown'
  <1>1. StateOK /\ Shown /\ \A c \in Caller : call[c].at = "idle"
    BY Zenon DEF Shape, Disconnect, Tap
  <1>2. /\ active' = active /\ events' = events /\ admitted' = admitted /\ call' = call /\ eng' = eng
        /\ wgActive' = (wgActive /\ active # "WIREGUARD")
    BY DEF Disconnect, Tap
  <1>3. PICK u : u = [ui EXCEPT !.pending = NoProfile]
    OBVIOUS
  <1> u \in Ui /\ u.state = ui.state /\ u.connected = ui.connected
    BY <1>1, <1>3, Types DEF Ui
  <1>4. PICK p \in Protocol : p = active
    BY <1>1, Types
  <1>5. stops \in [Protocol -> Nat]
    BY <1>1 DEF StateOK
  <1>6. CASE p # "WIREGUARD"
    <2>1. ui' = u /\ wgActive' = wgActive
      BY <1>1, <1>2, <1>3, <1>4, <1>6 DEF Disconnect, StateOK
    <2>2. stops'["WIREGUARD"] = stops["WIREGUARD"]
      <3>1. stops' = stops \/ stops' = [stops EXCEPT ![p] = @ + 1]
        BY <1>4 DEF Disconnect
      <3>2. QED
        BY <1>1, <1>6, <3>1, StopsMore, Names4
    <2>3. Alone'
      BY <1>1, <1>2 DEF Alone
    <2>4. QED
      BY <1>1, <1>2, <1>3, <2>1, <2>2, <2>3, Calm
  <1>7. CASE p = "WIREGUARD"
    <2>1. ui' = ApplyState(u, "DISCONNECTED") /\ wgActive' = FALSE
      BY <1>2, <1>3, <1>4, <1>7 DEF Disconnect
    <2>2. ui'.connected = NoProfile
      BY <2>1, ApplyStateFacts DEF State
    <2>3. OrderInv'
      BY <1>1, <1>2 DEF OrderInv, Shown
    <2>4. eng[p].phase = "up" => stops[p] > 0 \/ wgActive
      BY <1>1, <1>4, <1>7 DEF ShownInv, Shown, Settled
    <2>5. eng[p].phase = "up" => stops'[p] > 0
      <3>1. CASE wgActive
        <4>1. stops' = [stops EXCEPT ![p] = @ + 1]
          BY <1>4, <1>7, <3>1 DEF Disconnect
        <4>2. QED
          BY <1>5, <4>1
      <3>2. CASE ~wgActive
        <4>1. stops' = stops
          BY <1>4, <1>7, <3>2 DEF Disconnect
        <4>2. QED
          BY <2>4, <3>2, <4>1
      <3>3. QED
        BY <3>1, <3>2
    <2>6. ShownInv'
      BY <1>2, <1>4, <1>7, <2>5 DEF ShownInv
    <2>7. RowInv'
      BY <1>2, <1>4, <1>7, <2>2 DEF RowInv, Row
    <2>8. QED
      BY <2>3, <2>6, <2>7 DEF Shown
  <1>8. QED
    BY <1>6, <1>7

\* A step of one engine that does not bring its tunnel up.
LEMMA EngineStep ==
  ASSUME Shape, Shown, NEW e \in Protocol \ {"WIREGUARD"},
         active' = active, ui' = ui, call' = call, admitted' = admitted, wgActive' = wgActive,
         stops'["WIREGUARD"] = stops["WIREGUARD"],
         \A f \in Protocol \ {e} : eng'[f] = eng[f] /\ events'[f] = events[f],
         \/ eng'[e].phase = "off"
         \/ eng' = eng /\ events' = events
         \/ eng'[e].phase = "posted" /\ eng[e].phase # "off" /\ eng'[e].uuid = eng[e].uuid
         \/ e = "OPENVPN" /\ eng'[e].phase = "replacing"
         \/ /\ e = "OPENVPN" /\ eng'[e].phase = "managed"
            /\ NamesLast(events'[e], eng'[e].uuid) /\ ~Silent(events'[e])
  PROVE  Shown'
  <1>1. PICK p \in Protocol : p = active
    BY DEF Shape, StateOK
  <1>2. OrderInv'
    BY Names4 DEF OrderInv, Shown
  <1>3. Settled' <=> Settled
    BY DEF Settled
  <1>4. CASE p # e \/ (eng' = eng /\ events' = events)
    <2>1. eng'[p] = eng[p] /\ events'[p] = events[p]
      BY <1>4
    <2>2. ShownInv'
      BY <1>1, <1>3, <2>1 DEF ShownInv, Shown
    <2>3. RowInv'
      BY <1>1, <1>3, <2>1 DEF RowInv, Row, Shown
    <2>4. QED
      BY <1>2, <2>2, <2>3 DEF Shown
  <1>5. CASE p = e /\ ~(eng' = eng /\ events' = events)
    <2>1. eng'[e].phase # "up"
      BY <1>5
    <2>2. ShownInv'
      BY <1>1, <1>5, <2>1 DEF ShownInv
    <2>3. RowInv'
      BY <1>1, <1>3, <1>5 DEF RowInv, Row, Shown
    <2>4. QED
      BY <1>2, <2>2, <2>3 DEF Shown
  <1>6. QED
    BY <1>4, <1>5

\* Reports sent after s decide when they name a profile.
LEMMA NamesConcat ==
  ASSUME NEW s \in Seq(Msg), NEW t \in Seq(Msg), NEW u
  PROVE  /\ ~Silent(t) => ~Silent(s \o t)
         /\ ~Silent(t) /\ NamesLast(t, u) => NamesLast(s \o t, u)
         /\ Silent(t) => (Silent(s \o t) <=> Silent(s))
         /\ Silent(t) /\ NamesLast(s, u) => NamesLast(s \o t, u)
  <1> DEFINE w == s \o t
  <1>1. /\ w \in Seq(Msg) /\ DOMAIN w = 1 .. Len(s) + Len(t)
        /\ DOMAIN s = 1 .. Len(s) /\ DOMAIN t = 1 .. Len(t)
        /\ Len(s) \in Nat /\ Len(t) \in Nat
        /\ \A i \in 1 .. Len(s) : w[i] = s[i]
        /\ \A i \in 1 .. Len(t) : w[Len(s) + i] = t[i]
    BY Concat
  <1>2. \A i \in DOMAIN w : \/ i \in DOMAIN s /\ w[i] = s[i]
                            \/ \E j \in DOMAIN t : i = Len(s) + j /\ w[i] = t[j]
    BY ConcatElement
  <1> HIDE DEF w
  <1>3. /\ \A i \in DOMAIN s : i \in DOMAIN w /\ w[i] = s[i]
        /\ \A j \in DOMAIN t : Len(s) + j \in DOMAIN w /\ w[Len(s) + j] = t[j]
    BY <1>1
  <1>4. ~Silent(t) => ~Silent(w)
    BY <1>3 DEF Silent
  <1>5. Silent(t) => (Silent(w) <=> Silent(s))
    BY <1>2, <1>3 DEF Silent, Names
  <1>6. ASSUME ~Silent(t), NamesLast(t, u)
        PROVE  NamesLast(w, u)
    <2> SUFFICES ASSUME NEW i \in DOMAIN w, \A j \in DOMAIN w : j > i => ~Names(w[j])
                 PROVE  Names1(w[i], u)
      BY DEF NamesLast
    <2>1. PICK k \in DOMAIN t : Names(t[k])
      BY <1>6 DEF Silent
    <2>2. ~(Len(s) + k > i)
      BY <1>3, <2>1
    <2> i \notin DOMAIN s
      <3>1. \A l, m, n \in Nat : m >= 1 /\ ~(n + m > l) => ~(l <= n)
        OBVIOUS
      <3>2. i \in Nat /\ k \in Nat /\ k >= 1
        BY <1>1
      <3>3. QED
        BY <1>1, <2>2, <3>1, <3>2
    <2>3. PICK j \in DOMAIN t : i = Len(s) + j /\ w[i] = t[j]
      BY <1>2
    <2>4. \A l \in DOMAIN t : l > j => ~Names(t[l])
      <3> SUFFICES ASSUME NEW l \in DOMAIN t, l > j PROVE ~Names(t[l])
        OBVIOUS
      <3>1. Len(s) + l > i
        BY <1>1, <2>3
      <3>2. QED
        BY <1>3, <3>1
    <2>5. QED
      BY <1>6, <2>3, <2>4 DEF NamesLast
  <1>7. ASSUME Silent(t), NamesLast(s, u)
        PROVE  NamesLast(w, u)
    <2> SUFFICES ASSUME NEW i \in DOMAIN w, \A j \in DOMAIN w : j > i => ~Names(w[j])
                 PROVE  Names1(w[i], u)
      BY DEF NamesLast
    <2>1. CASE i \in DOMAIN s /\ w[i] = s[i]
      <3>1. \A j \in DOMAIN s : j > i => ~Names(s[j])
        BY <1>3
      <3>2. QED
        BY <1>7, <2>1, <3>1 DEF NamesLast
    <2>2. CASE \E j \in DOMAIN t : w[i] = t[j]
      BY <1>7, <2>2 DEF Silent, Names, Names1
    <2>3. QED
      BY <1>2, <2>1, <2>2
  <1>8. QED
    BY <1>4, <1>5, <1>6, <1>7 DEF w

LEMMA ShownLaunch ==
  ASSUME Shape, ~clash => Shown, ~clash', OpenVpnLaunch
  PROVE  Shown'
  <1>1. Shown /\ active' = active /\ ui' = ui /\ call' = call /\ admitted' = admitted
        /\ wgActive' = wgActive /\ stops' = stops
    BY DEF OpenVpnLaunch, Env
  <1>2. events["OPENVPN"] \in Seq(Msg)
    BY Names4 DEF Shape, ReportInv
  <1>3. \A f \in Protocol \ {"OPENVPN"} : eng'[f] = eng[f] /\ events'[f] = events[f]
    BY LaunchFacts
  <1>4. CASE eng'["OPENVPN"] = Off
    BY <1>1, <1>3, <1>4, Names4, EngineStep DEF Off
  <1>5. ASSUME eng'["OPENVPN"].phase = "managed", NEW t \in Seq(Msg),
               events'["OPENVPN"] = events["OPENVPN"] \o t,
               NamesLast(t, eng'["OPENVPN"].uuid), ~Silent(t)
        PROVE  Shown'
    <2>1. PICK s \in Seq(Msg) : s = events["OPENVPN"]
      BY <1>2
    <2>2. PICK u : u = eng'["OPENVPN"].uuid
      OBVIOUS
    <2>3. NamesLast(s \o t, u) /\ ~Silent(s \o t)
      BY <1>5, <2>2, NamesConcat
    <2>4. NamesLast(events'["OPENVPN"], eng'["OPENVPN"].uuid) /\ ~Silent(events'["OPENVPN"])
      BY <1>5, <2>1, <2>2, <2>3
    <2>5. QED
      BY <1>1, <1>3, <1>5, <2>4, Names4, EngineStep
  <1>6. QED
    BY <1>4, <1>5, LaunchFacts

LEMMA ShownLaunchEarlier ==
  ASSUME Shape, ~clash => Shown, ~clash', NEW p \in Profile, OpenVpnLaunchEarlier(p)
  PROVE  Shown'
  <1>1. Shown /\ active' = active /\ ui' = ui /\ call' = call /\ admitted' = admitted
        /\ wgActive' = wgActive /\ stops' = stops
    BY DEF OpenVpnLaunchEarlier, Env
  <1>2. QED
    BY <1>1, LaunchEarlierFacts, Names4, EngineStep

LEMMA ShownEnd ==
  ASSUME Shape, ~clash => Shown, ~clash', NEW e \in Protocol, Stopped(e)
  PROVE  Shown'
  <1>1. Shown /\ active' = active /\ ui' = ui /\ call' = call /\ admitted' = admitted
        /\ wgActive' = wgActive
    BY DEF Stopped, OvertakenFails, Ends, StopArrives, Env
  <1>2. e # "WIREGUARD" /\ \A f \in Protocol \ {e} : eng'[f] = eng[f] /\ events'[f] = events[f]
    BY EndFacts
  <1>3. stops'["WIREGUARD"] = stops["WIREGUARD"]
    BY <1>2, Names4 DEF Stopped, OvertakenFails, Ends, StopArrives, Shape, StateOK
  <1>4. \/ eng'[e] = Off
        \/ eng' = eng /\ events' = events
        \/ eng'[e].phase = "posted" /\ eng[e].phase # "off" /\ eng'[e].uuid = eng[e].uuid
    BY EndFacts
  <1>5. eng'[e] = Off => eng'[e].phase = "off"
    BY DEF Off
  <1>6. QED
    BY <1>1, <1>2, <1>3, <1>4, <1>5, EngineStep

\* A tunnel that comes up is reported last.
LEMMA ShownUp ==
  ASSUME Shape, Shown, NEW e \in Protocol, e # "WIREGUARD", active' = active, ui' = ui, call' = call,
         admitted' = admitted, wgActive' = wgActive, stops' = stops,
         Revoked(e) \cap {active, "WIREGUARD"} = {},
         eng'[e].phase = "up",
         \/ e = "XRAY"
         \/ /\ eng[e].phase # "off" /\ (e = "OPENVPN" => eng[e].phase = "managed")
            /\ eng'[e].uuid = eng[e].uuid,
         \A f \in Protocol \ {e} : f \notin Revoked(e) => eng'[f] = eng[f] /\ events'[f] = events[f],
         events'[e] = Append(events[e], Says("CONNECTED"))
  PROVE  Shown'
  <1>1. /\ Shown /\ active' = active /\ ui' = ui /\ call' = call /\ admitted' = admitted
        /\ wgActive' = wgActive /\ stops' = stops /\ e # "WIREGUARD"
    OBVIOUS
  <1>2. PICK p \in Protocol : p = active
    BY DEF Shape, StateOK
  <1>3. p \notin Revoked(e) /\ "WIREGUARD" \notin Revoked(e)
    BY <1>2, Zenon
  <1>4. /\ eng'[e].phase = "up"
        /\ \/ e = "XRAY"
           \/ /\ eng[e].phase # "off" /\ (e = "OPENVPN" => eng[e].phase = "managed")
              /\ eng'[e].uuid = eng[e].uuid
        /\ \A f \in Protocol \ {e} : f \notin Revoked(e) => eng'[f] = eng[f] /\ events'[f] = events[f]
        /\ events'[e] = Append(events[e], Says("CONNECTED"))
    OBVIOUS
  <1>5. OrderInv'
    BY <1>1, <1>3, <1>4, Names4 DEF OrderInv, Shown
  <1>6. Settled' <=> Settled
    BY <1>1 DEF Settled
  <1>7. CASE p # e
    <2>1. eng'[p] = eng[p] /\ events'[p] = events[p]
      BY <1>3, <1>4, <1>7
    <2>2. ShownInv'
      BY <1>1, <1>2, <1>6, <2>1 DEF ShownInv, Shown
    <2>3. RowInv'
      BY <1>1, <1>2, <1>6, <2>1 DEF RowInv, Row, Shown
    <2>4. QED
      BY <1>5, <2>2, <2>3 DEF Shown
  <1>8. CASE p = e
    <2>1. PICK s \in Seq(Msg) : s = events[e]
      BY DEF Shape, ReportInv
    <2>2. PICK r \in Msg : r = Says("CONNECTED") /\ r.kind = "CONNECTED"
      BY SaysMsg DEF State
    <2>3. PICK t \in Seq(Msg) : t = <<r>> /\ Len(t) = 1 /\ DOMAIN t = 1 .. 1 /\ t[1] = r
      BY Single
    <2>4. Len(t) = 1 /\ DOMAIN t = 1 .. 1 /\ t[1] = r
      BY <2>3
    <2>5. events'[e] = s \o t
      BY <1>4, <2>1, <2>2, <2>3, AppendIsConcat
    <2>6. PICK w \in Seq(Msg) : w = s \o t
      BY <2>4, Concat
    <2>7. w # <<>> /\ w[Len(w)].kind = "CONNECTED"
      <3>1. Len(s) \in Nat /\ Len(w) = Len(s) + 1 /\ w[Len(s) + 1] = t[1]
        <4>1. /\ Len(s) \in Nat /\ Len(s \o t) = Len(s) + Len(t)
              /\ \A i \in 1 .. Len(t) : (s \o t)[Len(s) + i] = t[i]
          BY Concat
        <4>2. QED
          BY <2>4, <2>6, <4>1
      <3>2. w # <<>>
        BY <3>1, EmptySeq
      <3>3. QED
        BY <2>2, <2>4, <3>1, <3>2
    <2>8. Silent(t)
      BY <2>2, <2>4 DEF Silent, Names
    <2>9. \A u : NamesLast(s, u) => NamesLast(w, u)
      BY <2>4, <2>6, <2>8, NamesConcat
    <2>10. Silent(w) <=> Silent(s)
      BY <2>4, <2>6, <2>8, NamesConcat
    <2>11. ShownInv'
      BY <1>1, <1>2, <1>8, <2>5, <2>6, <2>7 DEF ShownInv
    <2>12. RowInv'
      BY <1>1, <1>2, <1>4, <1>6, <1>8, <2>1, <2>5, <2>6, <2>9, <2>10 DEF RowInv, Row, Shown
    <2>13. QED
      BY <1>5, <2>11, <2>12 DEF Shown
  <1>9. QED
    BY <1>7, <1>8

LEMMA ShownComesUp ==
  ASSUME Shape, ~clash => Shown, ~clash', NEW e \in Protocol, ComesUp(e)
  PROVE  Shown'
  <1>1. /\ Shown /\ active' = active /\ ui' = ui /\ call' = call /\ admitted' = admitted
        /\ wgActive' = wgActive /\ stops' = stops /\ e # "WIREGUARD"
        /\ eng[e].phase # "off" /\ (e = "OPENVPN" => eng[e].phase = "managed")
    BY DEF ComesUp, Env
  <1>2. Revoked(e) \cap {active, "WIREGUARD"} = {}
    BY Zenon DEF ComesUp
  <1>3. /\ eng'[e].phase = "up" /\ eng'[e].uuid = eng[e].uuid
        /\ \A f \in Protocol \ {e} : f \notin Revoked(e) => eng'[f] = eng[f] /\ events'[f] = events[f]
        /\ events'[e] = Append(events[e], Says("CONNECTED"))
    BY <1>1, UpFacts DEF ComesUp
  <1>4. QED
    BY <1>1, <1>2, <1>3, ShownUp

LEMMA ShownOvertakenUp ==
  ASSUME Shape, ~clash => Shown, ~clash', NEW p \in Profile, OvertakenUp(p)
  PROVE  Shown'
  <1>1. /\ Shown /\ active' = active /\ ui' = ui /\ call' = call /\ admitted' = admitted
        /\ wgActive' = wgActive /\ stops' = stops
    BY DEF OvertakenUp, Env
  <1>2. Revoked("XRAY") \cap {active, "WIREGUARD"} = {}
    BY Zenon DEF OvertakenUp
  <1>3. QED
    BY <1>1, <1>2, OvertakenFacts, Names4, ShownUp

LEMMA ShownClaim ==
  ASSUME Shape, ~clash => Shown, ~clash', NEW c \in Caller, ClaimProtocol(c)
  PROVE  Shown'
  <1>1. /\ Shown /\ \A e \in Protocol : admitted[e] = None
    BY Zenon DEF ClaimProtocol
  <1>2. StateOK /\ "start" \in Place /\ Goto(c, "start")
    BY DEF Shape, Place, ClaimProtocol
  <1>3. call'[c].at = "start" /\ call'[c].uuid = call[c].uuid /\ \A d \in Caller \ {c} : call'[d] = call[d]
    BY <1>2, GotoFacts
  <1>4. call[c].at = "protocol"
    BY DEF ClaimProtocol
  <1>5. Alone' /\ \A d \in Caller \ {c} : call'[d].at = "idle"
    BY <1>1, <1>3, <1>4, AloneMoves DEF Shown
  <1>6. /\ active' = ProtocolOf[call[c].uuid] /\ events' = events /\ admitted' = admitted
    BY DEF ClaimProtocol
  <1>7. OrderInv'
    BY <1>1, <1>3, <1>5, <1>6 DEF OrderInv, Alone, Shown
  <1>8. ~Settled'
    BY <1>3 DEF Settled
  <1>9. QED
    BY <1>7, <1>8 DEF Shown, ShownInv, RowInv

LEMMA ShownStart ==
  ASSUME Shape, ~clash => Shown, ~clash', NEW c \in Caller,
         ConnectXray(c) \/ ConnectOpenVpn(c) \/ ConnectOpenVpnFails(c) \/ ConnectIkev2(c)
  PROVE  Shown'
  <1> USE DEF ConnectXray, ConnectOpenVpn, ConnectOpenVpnFails, ConnectIkev2
  <1>1. StateOK /\ CallInv /\ Shown
    BY DEF Shape
  <1>2. /\ call[c].at = "start" /\ call[c].uuid \in Profile /\ active' = active /\ events' = events
        /\ admitted' = admitted /\ wgActive' = wgActive /\ stops' = stops
    BY <1>1 DEF CallInv
  <1>3. call'[c].at = "idle" /\ \A d \in Caller \ {c} : call'[d] = call[d]
    BY <1>1, ReturnFacts
  <1>4. \A d \in Caller : call'[d].at = "idle"
    BY <1>1, <1>2, <1>3, AloneMoves DEF Shown
  <1>5. OrderInv'
    BY <1>1, <1>2, <1>4 DEF OrderInv, Shown
  <1>6. PICK p \in Protocol : p = active
    BY <1>1 DEF StateOK
  <1>7. ProtocolOf[call[c].uuid] = p
    BY <1>1, <1>2, <1>6 DEF OrderInv, Shown
  <1>8. ASSUME NEW x \in {"posted", "replacing"}, eng' = Posted(c, x)
        PROVE  eng'[p].phase = x /\ eng'[p].uuid = call[c].uuid
    <2>1. x \in Phase \ {"off"}
      BY DEF Phase
    <2>2. QED
      BY <1>1, <1>2, <1>7, <1>8, <2>1, PostedFacts
  <1>9. PICK x \in {"posted", "replacing"} : eng' = Posted(c, x)
    BY Zenon
  <1>10. ShownInv'
    BY <1>2, <1>6, <1>8, <1>9 DEF ShownInv
  <1>11. p \in {"XRAY", "IKEV2"} => ui'.connected = call[c].uuid
    <2>1. PICK a \in Ui : a = ApplyState(ui, "CONNECTING")
      BY <1>1, Types, ApplyStateFacts DEF State
    <2>2. p \in {"XRAY", "IKEV2"} => ui' = [a EXCEPT !.connected = call[c].uuid]
      BY <1>7, <2>1 DEF Keeps
    <2>3. QED
      BY <2>2 DEF Ui
  <1>12. RowInv'
    BY <1>2, <1>6, <1>8, <1>9, <1>11 DEF RowInv, Row
  <1>13. QED
    BY <1>5, <1>10, <1>12 DEF Shown

LEMMA ShownConnectWireGuard ==
  ASSUME Shape, ~clash => Shown, ~clash', NEW c \in Caller, ConnectWireGuard(c)
  PROVE  Shown'
  <1>1. StateOK /\ Shown /\ "wgLock" \in Place
    BY DEF Shape, ConnectWireGuard, Place
  <1>2. /\ call[c].at = "start" /\ active' = active /\ events' = events /\ admitted' = admitted
        /\ wgActive' = wgActive /\ stops' = stops /\ Goto(c, "wgLock")
    BY DEF ConnectWireGuard
  <1>3. call'[c].at = "wgLock" /\ call'[c].uuid = call[c].uuid /\ \A d \in Caller \ {c} : call'[d] = call[d]
    BY <1>1, <1>2, GotoFacts
  <1>4. Alone' /\ \A d \in Caller \ {c} : call'[d].at = "idle"
    BY <1>1, <1>2, <1>3, AloneMoves DEF Shown
  <1>5. OrderInv'
    BY <1>1, <1>2, <1>3, <1>4 DEF OrderInv, Alone, Shown
  <1>6. ~Settled'
    BY <1>3 DEF Settled
  <1>7. QED
    BY <1>5, <1>6 DEF Shown, ShownInv, RowInv

LEMMA ShownWgLock ==
  ASSUME Shape, ~clash => Shown, ~clash', NEW c \in Caller, WgLock(c)
  PROVE  Shown'
  <1>1. StateOK /\ CallInv /\ Shown /\ "wgUp" \in Place /\ "posted" \in Phase \ {"off"}
    BY DEF Shape, WgLock, Place, Phase
  <1>2. /\ call[c].at = "wgLock" /\ active' = active /\ events' = events /\ admitted' = admitted
        /\ Goto(c, "wgUp") /\ wgActive' = TRUE /\ eng' = Posted(c, "posted")
        /\ stops' = [stops EXCEPT !["WIREGUARD"] = 0]
    BY DEF WgLock
  <1>3. call'[c].at = "wgUp" /\ call'[c].uuid = call[c].uuid /\ \A d \in Caller \ {c} : call'[d] = call[d]
    BY <1>1, <1>2, GotoFacts
  <1>4. Alone' /\ \A d \in Caller \ {c} : call'[d].at = "idle"
    BY <1>1, <1>2, <1>3, AloneMoves DEF Shown
  <1>5. ProtocolOf[call[c].uuid] = "WIREGUARD" /\ active = "WIREGUARD"
    BY <1>1, <1>2 DEF CallInv, OrderInv, Shown
  <1>6. stops'["WIREGUARD"] = 0
    BY <1>1, <1>2, Names4 DEF StateOK
  <1>7. OrderInv'
    BY <1>1, <1>2, <1>3, <1>4, <1>5, <1>6 DEF OrderInv, Alone, Shown
  <1>8. eng'["WIREGUARD"].phase = "posted"
    BY <1>1, <1>2, <1>5, Names4, PostedFacts
  <1>9. QED
    BY <1>2, <1>5, <1>7, <1>8 DEF Shown, ShownInv, RowInv

LEMMA ShownWgUp ==
  ASSUME Shape, ~clash => Shown, ~clash', NEW c \in Caller, WgUp(c)
  PROVE  Shown'
  <1>1. StateOK /\ CallInv /\ Shown
    BY DEF Shape, WgUp
  <1>2. /\ call[c].at = "wgUp" /\ active' = active /\ admitted' = admitted /\ stops' = stops
    BY DEF WgUp
  <1>3. /\ ProtocolOf[call[c].uuid] = "WIREGUARD" /\ active = "WIREGUARD"
        /\ wgActive /\ stops["WIREGUARD"] = 0
        /\ eng["WIREGUARD"].phase = "posted" /\ eng["WIREGUARD"].uuid = call[c].uuid
    BY <1>1, <1>2 DEF CallInv, OrderInv, Shown
  <1>4. CASE /\ eng' = Up("WIREGUARD") /\ events' = UpReports("WIREGUARD") /\ wgActive' = wgActive
             /\ ui' = WgSays(ui, "CONNECTED") /\ Goto(c, "wgDone")
    <2>1. "wgDone" \in Place
      BY DEF Place
    <2>2. call'[c].at = "wgDone" /\ call'[c].uuid = call[c].uuid /\ \A d \in Caller \ {c} : call'[d] = call[d]
      BY <1>1, <1>4, <2>1, GotoFacts
    <2>3. Alone' /\ \A d \in Caller \ {c} : call'[d].at = "idle"
      BY <1>1, <1>2, <2>2, AloneMoves DEF Shown
    <2>4. /\ eng'["WIREGUARD"].phase = "up" /\ eng'["WIREGUARD"].uuid = eng["WIREGUARD"].uuid
          /\ events'["WIREGUARD"] = events["WIREGUARD"]
      BY <1>2, <1>3, <1>4, Names4, UpFacts
    <2>5. OrderInv'
      BY <1>1, <1>2, <1>3, <1>4, <2>2, <2>3, <2>4 DEF OrderInv, Alone, Shown
    <2>6. ui'.state = "CONNECTED"
      BY <1>1, <1>3, <1>4, Types, WgSaysFacts, ApplyStateFacts DEF State
    <2>7. ShownInv'
      BY <1>2, <1>3, <1>4, <2>6 DEF ShownInv
    <2>8. RowInv'
      BY <1>2, <1>3, <2>2 DEF RowInv
    <2>9. QED
      BY <2>5, <2>7, <2>8 DEF Shown
  <1>5. CASE /\ eng' = [eng EXCEPT !["WIREGUARD"] = [phase |-> "off", uuid |-> NoProfile]]
             /\ Return(c) /\ events' = events
    <2>1. \A d \in Caller \ {c} : call'[d] = call[d]
      BY <1>1, <1>5, ReturnFacts
    <2>2. \A d \in Caller : call'[d].at = "idle"
      BY <1>1, <1>2, <1>5, <2>1, AloneMoves, ReturnFacts DEF Shown
    <2>3. OrderInv'
      BY <1>1, <1>2, <1>5, <2>2 DEF OrderInv, Shown
    <2>4. eng'["WIREGUARD"].phase = "off"
      BY <1>1, <1>5, Names4, Types
    <2>5. QED
      BY <1>2, <1>3, <2>3, <2>4 DEF Shown, ShownInv, RowInv
  <1>6. QED
    BY <1>4, <1>5, Zenon DEF WgUp

LEMMA ShownWgDone ==
  ASSUME Shape, ~clash => Shown, ~clash', NEW c \in Caller, WgDone(c)
  PROVE  Shown'
  <1>1. StateOK /\ CallInv /\ Shown
    BY DEF Shape, WgDone
  <1>2. /\ call[c].at = "wgDone" /\ active' = active /\ admitted' = admitted /\ stops' = stops
        /\ events' = events /\ eng' = eng /\ wgActive' = wgActive
        /\ ui' = [ui EXCEPT !.connected = call[c].uuid] /\ Return(c)
    BY DEF WgDone
  <1>3. /\ active = "WIREGUARD" /\ eng["WIREGUARD"].uuid = call[c].uuid
        /\ wgActive /\ stops["WIREGUARD"] = 0
    BY <1>1, <1>2 DEF CallInv, OrderInv, Shown
  <1>4. /\ \A d \in Caller \ {c} : call'[d] = call[d] /\ call[d].at = "idle"
        /\ call'[c].at = "idle"
    BY <1>1, <1>2, AloneMoves, ReturnFacts DEF Shown
  <1>5. OrderInv'
    BY <1>1, <1>2, <1>4 DEF OrderInv, Shown
  <1>6. ui'.state = ui.state /\ ui'.connected = call[c].uuid
    BY <1>1, <1>2, Types DEF Ui
  <1>7. Settled
    BY <1>2, <1>4 DEF Settled
  <1>8. ShownInv'
    BY <1>1, <1>2, <1>3, <1>6, <1>7 DEF ShownInv, Shown
  <1>9. RowInv'
    BY <1>2, <1>3, <1>6 DEF RowInv, Row
  <1>10. QED
    BY <1>5, <1>8, <1>9 DEF Shown

LEMMA ShownStopWireGuard ==
  ASSUME Shape, ~clash => Shown, ~clash', NEW c \in Caller, StopWireGuard(c)
  PROVE  Shown'
  <1>1. StateOK /\ CallInv /\ Shown /\ "stopIkev2" \in Place
    BY DEF Shape, StopWireGuard, Place
  <1>2. /\ call[c].at = "stopWireGuard" /\ active' = active /\ admitted' = admitted
        /\ stops' = stops /\ events' = events /\ Goto(c, "stopIkev2")
    BY DEF StopWireGuard
  <1>3. call'[c].at = "stopIkev2" /\ \A d \in Caller \ {c} : call'[d] = call[d]
    BY <1>1, <1>2, GotoFacts
  <1>4. Alone' /\ \A d \in Caller \ {c} : call'[d].at = "idle" /\ call[d].at = "idle"
    BY <1>1, <1>2, <1>3, AloneMoves DEF Shown
  <1>5. CASE ui' = ui /\ wgActive' = wgActive /\ eng' = eng
    BY <1>1, <1>2, <1>3, <1>4, <1>5, Calm DEF Early
  <1>6. CASE /\ ui' = WgSays(ui, "DISCONNECTED")
             /\ eng' = [eng EXCEPT !["WIREGUARD"] = [phase |-> "off", uuid |-> NoProfile]]
    <2>1. OrderInv'
      BY <1>1, <1>2, <1>3, <1>4 DEF OrderInv, Alone, Shown
    <2>2. PICK p \in Protocol : p = active
      BY <1>1 DEF StateOK
    <2>3. CASE p = "WIREGUARD"
      <3>1. eng'["WIREGUARD"].phase = "off"
        BY <1>1, <1>6, Names4, Types
      <3>2. QED
        BY <1>2, <2>1, <2>2, <2>3, <3>1 DEF Shown, ShownInv, RowInv
    <2>4. CASE p # "WIREGUARD"
      <3>1. eng'[p] = eng[p]
        BY <1>1, <1>6, <2>4, Types
      <3>2. ui' = ui
        BY <1>6, <2>2, <2>4 DEF WgSays
      <3>3. Settled
        BY <1>2, <1>4 DEF Settled
      <3>4. ShownInv'
        BY <1>1, <1>2, <2>2, <2>4, <3>1, <3>2, <3>3 DEF ShownInv, Shown
      <3>5. RowInv'
        BY <1>1, <1>2, <2>2, <2>4, <3>1, <3>2, <3>3 DEF RowInv, Row, Shown
      <3>6. QED
        BY <2>1, <3>4, <3>5 DEF Shown
    <2>5. QED
      BY <2>3, <2>4
  <1>7. QED
    BY <1>5, <1>6 DEF StopWireGuard

\* The first report of s is taken in.
LEMMA NamesTail ==
  ASSUME NEW s \in Seq(Msg), s # <<>>, NEW u
  PROVE  /\ NamesLast(s, u) => NamesLast(Tail(s), u)
         /\ NamesLast(s, u) /\ Silent(Tail(s)) => Names1(Head(s), u)
         /\ Silent(Tail(s)) /\ ~Names(Head(s)) => Silent(s)
  <1>1. PICK t \in Seq(Msg) : t = Tail(s)
    BY TailFacts
  <1>2. /\ Head(s) = s[1] /\ Len(s) \in Nat /\ Len(s) > 0
        /\ DOMAIN s = 1 .. Len(s) /\ DOMAIN t = 1 .. Len(s) - 1
        /\ \A i \in DOMAIN t : i + 1 \in DOMAIN s /\ t[i] = s[i + 1]
    BY <1>1, TailFacts
  <1>3. \A j \in DOMAIN s : j = 1 \/ (j - 1 \in DOMAIN t /\ s[j] = t[j - 1])
    <2> SUFFICES ASSUME NEW j \in DOMAIN s, j # 1 PROVE j - 1 \in DOMAIN t /\ s[j] = t[j - 1]
      OBVIOUS
    <2>1. j - 1 \in DOMAIN t /\ (j - 1) + 1 = j
      BY <1>2
    <2>2. QED
      BY <1>2, <2>1
  <1>4. ASSUME NamesLast(s, u)
        PROVE  NamesLast(t, u)
    <2> SUFFICES ASSUME NEW i \in DOMAIN t, \A j \in DOMAIN t : j > i => ~Names(t[j])
                 PROVE  Names1(t[i], u)
      BY DEF NamesLast
    <2>1. i + 1 \in DOMAIN s /\ t[i] = s[i + 1]
      BY <1>2
    <2>2. ASSUME NEW j \in DOMAIN s, j > i + 1
          PROVE  ~Names(s[j])
      <3>1. j # 1 /\ j - 1 > i
        BY <1>2, <2>2
      <3>2. QED
        BY <1>3, <3>1
    <2>3. QED
      BY <1>4, <2>1, <2>2 DEF NamesLast
  <1>5. ASSUME NamesLast(s, u), Silent(t)
        PROVE  Names1(s[1], u)
    <2>1. 1 \in DOMAIN s
      BY <1>2
    <2>2. \A j \in DOMAIN s : j > 1 => ~Names(s[j])
      BY <1>2, <1>3, <1>5 DEF Silent
    <2>3. QED
      BY <1>5, <2>1, <2>2 DEF NamesLast
  <1>6. ASSUME Silent(t), ~Names(s[1])
        PROVE  Silent(s)
    BY <1>3, <1>6 DEF Silent
  <1>7. QED
    BY <1>1, <1>2, <1>4, <1>5, <1>6

LEMMA ShownGate ==
  ASSUME Shape, ~clash => Shown, ~clash', NEW e \in Protocol, Gate(e)
  PROVE  Shown'
  <1>1. /\ Shown /\ active' = active /\ ui' = ui /\ call' = call /\ eng' = eng
        /\ wgActive' = wgActive /\ stops' = stops
    BY DEF Gate
  <1>2. PICK p \in Protocol : p = active
    BY DEF Shape, StateOK
  <1>3. /\ events[e] \in Seq(Msg) /\ events[e] # <<>> /\ admitted[e] = None
        /\ events'[e] = Tail(events[e]) /\ \A f \in Protocol \ {e} : events'[f] = events[f]
        /\ \A f \in Protocol \ {e} : admitted'[f] = admitted[f]
        /\ p = e => admitted'[e] = Head(events[e])
        /\ p # e => admitted'[e] = None
    BY <1>2, GateFacts
  <1>4. e # "WIREGUARD"
    BY <1>1, <1>3 DEF OrderInv, Shown
  <1>5. OrderInv'
    BY <1>1, <1>2, <1>3, <1>4, Names4 DEF OrderInv, Shown
  <1>6. Settled' <=> Settled
    BY <1>1 DEF Settled
  <1>7. CASE p # e
    <2>1. events'[p] = events[p] /\ admitted'[p] = admitted[p]
      BY <1>3, <1>7
    <2>2. ShownInv'
      BY <1>1, <1>2, <1>6, <2>1 DEF ShownInv, Shown
    <2>3. RowInv'
      BY <1>1, <1>2, <1>6, <2>1 DEF RowInv, Row, Shown
    <2>4. QED
      BY <1>5, <2>2, <2>3 DEF Shown
  <1>8. CASE p = e
    <2>1. PICK s \in Seq(Msg) : s = events[e] /\ s # <<>>
      BY <1>3
    <2>2. PICK t \in Seq(Msg) : t = Tail(s)
      BY <2>1, TailFacts
    <2>3. PICK h \in Msg : h = Head(s)
      BY <2>1, TailFacts
    <2>4. events'[e] = t /\ admitted'[e] = h /\ h # None
      BY <1>3, <1>8, <2>1, <2>2, <2>3 DEF Msg, None, State
    <2>5. IF t # <<>> THEN t[Len(t)] = s[Len(s)] ELSE h = s[Len(s)]
      <3>1. /\ Head(s) = s[1] /\ Len(s) \in Nat /\ Len(s) > 0 /\ Len(t) = Len(s) - 1
            /\ DOMAIN t = 1 .. Len(s) - 1 /\ \A i \in DOMAIN t : t[i] = s[i + 1]
        BY <2>1, <2>2, TailFacts
      <3>2. t = <<>> <=> Len(t) = 0
        BY EmptySeq
      <3>3. CASE t = <<>>
        <4>1. Len(s) = 1
          BY <3>1, <3>2, <3>3
        <4>2. QED
          BY <2>3, <3>1, <3>3, <4>1
      <3>4. CASE t # <<>>
        <4>1. Len(t) \in DOMAIN t /\ Len(t) + 1 = Len(s)
          BY <3>1, <3>2, <3>4
        <4>2. QED
          BY <3>1, <3>4, <4>1
      <3>5. QED
        BY <3>3, <3>4
    <2>6. ShownInv'
      <3>1. Settled /\ eng[p].phase = "up" => s[Len(s)].kind = "CONNECTED"
        BY <1>1, <1>2, <1>4, <1>8, <2>1 DEF ShownInv, Shown
      <3>2. Settled /\ eng[p].phase = "up" => IF t # <<>> THEN t[Len(t)].kind = "CONNECTED"
                                              ELSE h.kind = "CONNECTED"
        BY <2>5, <3>1
      <3>3. QED
        BY <1>1, <1>2, <1>4, <1>6, <1>8, <2>4, <3>2 DEF ShownInv
    <2>7. ASSUME NEW u, NamesLast(s, u), Silent(s) => Row(u)
          PROVE  /\ NamesLast(t, u)
                 /\ Silent(t) => Names1(h, u) /\ (~Names(h) => Row(u))
      BY <2>1, <2>2, <2>3, <2>7, NamesTail
    <2>8. RowInv'
      <3>1. ~Names(None)
        BY DEF Names, None
      <3>2. /\ p = "IKEV2" /\ Settled /\ eng[p].phase # "off" => Row(eng[p].uuid)
            /\ p = "OPENVPN" /\ Settled /\ eng[p].phase \in {"managed", "up"} =>
                 NamesLast(s, eng[p].uuid) /\ (Silent(s) => Row(eng[p].uuid))
        BY <1>1, <1>2, <1>3, <1>8, <2>1, <3>1 DEF RowInv, Shown
      <3>3. p = "OPENVPN" /\ Settled /\ eng[p].phase \in {"managed", "up"} =>
              /\ NamesLast(t, eng[p].uuid)
              /\ Silent(t) => Names1(h, eng[p].uuid) /\ (~Names(h) => Row(eng[p].uuid))
        BY <2>7, <3>2
      <3>4. QED
        BY <1>1, <1>2, <1>4, <1>6, <1>8, <2>4, <3>2, <3>3 DEF RowInv, Row
    <2>9. QED
      BY <1>5, <2>6, <2>8 DEF Shown
  <1>9. QED
    BY <1>7, <1>8

LEMMA ShownHandle ==
  ASSUME Shape, ~clash => Shown, ~clash', NEW e \in Protocol, Handle(e)
  PROVE  Shown'
  <1>1. /\ Shown /\ active' = active /\ events' = events /\ call' = call /\ eng' = eng
        /\ wgActive' = wgActive /\ stops' = stops /\ admitted[e] # None
    BY DEF Handle
  <1>2. /\ admitted[e] \in Msg /\ admitted'[e] = None
        /\ \A f \in Protocol \ {e} : admitted'[f] = admitted[f]
        /\ ui \in Ui /\ ui' = Consume(e, ui, admitted[e])
    BY HandleFacts
  <1>3. e = active /\ e # "WIREGUARD"
    BY <1>1 DEF OrderInv, Shown
  <1>4. OrderInv'
    BY <1>1, <1>2, <1>3, Names4 DEF OrderInv, Shown
  <1>5. Settled' <=> Settled
    BY <1>1 DEF Settled
  <1>6. PICK r \in Msg : r = admitted[e]
    BY <1>2
  <1>7. /\ r.kind = "CONNECTED" => ui'.state = "CONNECTED"
        /\ r.kind = "vpn" => ui'.connected = r.uuid
        /\ r.kind = "DISCONNECTED" => ui'.connected = NoProfile
        /\ r.kind \notin {"vpn", "DISCONNECTED"} => ui'.connected = ui.connected
    BY <1>2, <1>6, ConsumeFacts
  <1>8. ShownInv'
    BY <1>1, <1>2, <1>3, <1>5, <1>6, <1>7 DEF ShownInv, Shown
  <1>9. e \in {"XRAY", "IKEV2"} => r.kind # "vpn"
    BY <1>6 DEF Shape, ReportInv
  <1>10. Names1(None, eng[e].uuid)
    BY DEF Names1, None
  <1>11. ASSUME NEW u, Names1(r, u), ~Names(r) => Row(u)
         PROVE  Row(u)'
    BY <1>7, <1>11 DEF Row, Names, Names1
  <1>12. CASE e \in {"XRAY", "IKEV2"}
    <2>1. RowInv'
      BY <1>1, <1>3, <1>5, <1>7, <1>9, <1>12 DEF RowInv, Row, Shown
    <2>2. QED
      BY <1>4, <1>8, <2>1 DEF Shown
  <1>13. CASE e = "OPENVPN"
    <2>1. Settled /\ eng[e].phase \in {"managed", "up"} =>
            /\ NamesLast(events[e], eng[e].uuid)
            /\ Silent(events[e]) => Names1(r, eng[e].uuid) /\ (~Names(r) => Row(eng[e].uuid))
      BY <1>1, <1>3, <1>6, <1>13 DEF RowInv, Shown
    <2>2. PICK u : u = eng[e].uuid
      OBVIOUS
    <2>3. Settled /\ eng[e].phase \in {"managed", "up"} =>
            NamesLast(events[e], u) /\ (Silent(events[e]) => Row(u)')
      BY <1>11, <2>1, <2>2
    <2>4. RowInv'
      BY <1>1, <1>2, <1>3, <1>5, <1>10, <1>13, <2>2, <2>3 DEF RowInv, Row
    <2>5. QED
      BY <1>4, <1>8, <2>4 DEF Shown
  <1>14. QED
    BY <1>3, <1>12, <1>13, Names4

LEMMA ShownLaunchedDown ==
  ASSUME Shape, ~clash => Shown, ~clash', LaunchedDown
  PROVE  Shown'
  <1>1. /\ Shown /\ active' = active /\ events' = events /\ call' = call /\ admitted' = admitted
        /\ wgActive' = wgActive /\ WgFree /\ stops["WIREGUARD"] > 0
    BY DEF LaunchedDown
  <1>2. stops["WIREGUARD"] # 0
    BY <1>1, Names4 DEF Shape, StateOK
  <1>3. eng'["WIREGUARD"] = Off /\ \A f \in Protocol \ {"WIREGUARD"} : eng'[f] = eng[f]
    BY ShapeLaunchedDown
  <1>4. OrderInv'
    BY <1>1, <1>2 DEF OrderInv, Shown, WgFree
  <1>5. Settled' <=> Settled
    BY <1>1 DEF Settled
  <1>6. PICK p \in Protocol : p = active
    BY DEF Shape, StateOK
  <1>7. CASE p = "WIREGUARD"
    BY <1>1, <1>3, <1>4, <1>6, <1>7 DEF Shown, ShownInv, RowInv, Off
  <1>8. CASE p # "WIREGUARD"
    <2>1. eng'[p] = eng[p] /\ ui' = ui
      BY <1>3, <1>6, <1>8 DEF LaunchedDown, WgSays
    <2>2. ShownInv'
      BY <1>1, <1>5, <1>6, <1>8, <2>1 DEF ShownInv, Shown
    <2>3. RowInv'
      BY <1>1, <1>5, <1>6, <1>8, <2>1 DEF RowInv, Row, Shown
    <2>4. QED
      BY <1>4, <2>2, <2>3 DEF Shown
  <1>9. QED
    BY <1>7, <1>8

-----------------------------------------------------------------------------
LEMMA InitShown == Init => IInv
  <1> SUFFICES ASSUME Init PROVE IInv
    OBVIOUS
  <1>1. Shape
    BY InitShape
  <1>2. active = "OPENVPN" /\ eng[active].phase = "off" /\ \A e \in Protocol : admitted[e] = None
        /\ events["WIREGUARD"] = <<>> /\ \A c \in Caller : call[c].at = "idle"
    BY Names4 DEF Init
  <1>3. OrderInv
    BY <1>2, Names4 DEF OrderInv
  <1>4. ShownInv /\ RowInv
    BY <1>2 DEF ShownInv, RowInv
  <1>5. QED
    BY <1>1, <1>3, <1>4 DEF IInv, Shown

LEMMA ShownStutter ==
  ASSUME ~clash => Shown, UNCHANGED vars, ~clash'
  PROVE  Shown'
  BY DEF vars, Shown, OrderInv, ShownInv, RowInv, Settled, Row

LEMMA NextShown ==
  ASSUME IInv, [Next]_vars
  PROVE  IInv'
  <1>1. Shape /\ (~clash => Shown)
    BY DEF IInv
  <1>2. Shape'
    BY <1>1, NextShape
  <1> SUFFICES ASSUME ~clash' PROVE Shown'
    BY <1>2 DEF IInv
  <1>3. ASSUME NEW c \in Caller, Steps(c)
        PROVE  Shown'
    BY <1>1, <1>3, ShownEarly, ShownStopWireGuard, ShownClaim, ShownStart, ShownConnectWireGuard,
       ShownWgLock, ShownWgUp, ShownWgDone DEF Steps
  <1>4. ASSUME NEW e \in Protocol, Gate(e) \/ Handle(e) \/ ComesUp(e) \/ Stopped(e)
        PROVE  Shown'
    BY <1>1, <1>4, ShownGate, ShownHandle, ShownComesUp, ShownEnd
  <1>5. ASSUME NEW c \in Caller, NEW u \in Profile, Connect(c, u)
        PROVE  Shown'
    BY <1>1, <1>5, ShownConnect
  <1>6. CASE \/ Disconnect \/ OnServiceConnected \/ OnServiceDisconnected
             \/ OpenVpnLaunch \/ LaunchedDown \/ UNCHANGED vars
    BY <1>1, <1>6, ShownDisconnect, ShownService, ShownLaunch, ShownLaunchedDown, ShownStutter
  <1>7. ASSUME NEW p \in Profile, OpenVpnLaunchEarlier(p) \/ OvertakenUp(p) \/ OvertakenFails(p)
        PROVE  Shown'
    BY <1>1, <1>4, <1>7, ShownLaunchEarlier, ShownOvertakenUp, Names4 DEF Stopped
  <1>8. QED
    BY <1>3, <1>4, <1>5, <1>6, <1>7 DEF Next, Stopped

(* Once nothing is on its way, what the router shows agrees with the       *)
(* engine it believes in: the inductive invariant of the router            *)
(* (VpnEngine.kt connect, disconnect and the callbacks of the engines).    *)
THEOREM Inductive == Spec => []IInv
  <1>1. Init => IInv
    BY InitShown
  <1>2. IInv /\ [Next]_vars => IInv'
    BY NextShown
  <1>3. QED
    BY <1>1, <1>2, PTL DEF Spec

\* At rest the whole of what is shown is settled.
LEMMA Rest ==
  ASSUME IInv, AtRest, ~clash, eng[active].phase = "up"
  PROVE  /\ stops[active] = 0 => ui.state = "CONNECTED"
         /\ active # "XRAY" => Row(eng[active].uuid)
  <1>1. /\ Shape /\ Settled /\ admitted[active] = None /\ events[active] = <<>> /\ active \in Protocol
        /\ \A c \in Caller : call[c].at # "wgDone"
    BY DEF IInv, AtRest, Settled, Shape, StateOK
  <1>2. stops[active] \in Nat
    BY <1>1 DEF Shape, StateOK
  <1>3. stops[active] = 0 => ui.state = "CONNECTED"
    BY <1>1, <1>2 DEF IInv, Shown, ShownInv
  <1>4. ~Names(None) /\ Silent(events[active])
    BY <1>1 DEF Names, None, Silent
  <1>5. active # "XRAY" => Row(eng[active].uuid)
    BY <1>1, <1>4, Names4 DEF IInv, Shown, RowInv
  <1>6. QED
    BY <1>3, <1>5

(* Whatever late reports of replaced engines arrive, a tunnel of the       *)
(* active engine that is up is shown as connected once its reports are in  *)
(* (VpnEngine.kt: the gate on activeProtocol and applyState), as long as   *)
(* calls do not overlap.                                                   *)
THEOREM UpTunnelIsShown == Spec => []UpIsShown
  <1>1. IInv => UpIsShown
    BY Rest DEF UpIsShown
  <1>2. QED
    BY <1>1, Inductive, PTL

(* A connected router that names a profile names the one whose tunnel is   *)
(* up, whichever profiles of one engine were connected over one another    *)
(* (VpnEngine.kt setConnectedVPN and the claims of connect), as long as    *)
(* calls do not overlap; Xray apart, whose starts overtake one another.    *)
THEOREM ConnectedRowIsRight == Spec => []RightRow
  <1>1. IInv => RightRow
    BY Rest DEF RightRow, Steady, RowIsOfTunnel, Row
  <1>2. QED
    BY <1>1, Inductive, PTL

=============================================================================
