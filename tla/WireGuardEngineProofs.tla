------------------------ MODULE WireGuardEngineProofs ------------------------
(***************************************************************************)
(* Proofs that the safety properties of WireGuardEngine hold for any set   *)
(* of router threads, any number of tunnel objects and any restart cap.    *)
(***************************************************************************)
EXTENDS WireGuardEngine, TLAPS

\* Before Begin a call's tunnel object is known to that call alone.
Private == {"lock", "config", "teardown", "read", "drop", "stamp", "settle",
            "delay", "begin"}

\* Up to the publication, a call works on its `tunnel`.
Bringing == Private \cup {"prepare", "service", "up", "publish"}

\* Only the holder of stateMutex is inside a critical section.
LockInv == \A c \in Caller : connect[c] \in Locked => stateMutex = c

\* Tunnel objects are created for one call and never again.
OwnInv ==
  /\ \A c \in Caller : connect[c] \in Bringing => tunnel[c] \in made
  /\ \A c, d \in Caller :
       c # d /\ connect[c] \in Private /\ connect[d] \in Bringing
         => tunnel[c] # tunnel[d]
  /\ active \in made \cup {NoTunnel}
  /\ currentTunnel \in made \cup {NoTunnel}
  /\ mainTunnel \in made \cup {NoTunnel}
  /\ \A c \in Caller : prior[c] \in made \cup {NoTunnel}
  /\ downJobs \subseteq made
  /\ dropped \subseteq made

\* Nobody else can name the tunnel of a call that has not begun.
PrivateInv ==
  \A c \in Caller : connect[c] \in Private =>
    /\ tunnel[c] # active /\ tunnel[c] # currentTunnel /\ tunnel[c] # mainTunnel
    /\ tunnel[c] \notin downJobs /\ tunnel[c] \notin dropped
    /\ \A d \in Caller : prior[d] # tunnel[c]

\* A DOWN names a tunnel.
DownInv ==
  /\ \A c \in Caller : connect[c] \in {"drop", "b_clear", "b_down"} => prior[c] # NoTunnel
  /\ main = "clear" => mainTunnel # NoTunnel

\* What currentTunnel and the handle say agree, except for what onDestroy did: it
\* has cleared one of the two, or it has left a tunnel published without handle.
FieldsInv ==
  /\ currentTunnel # NoTunnel /\ handle = NoTunnel => currentTunnel \in lost
  /\ (\A c \in Caller : connect[c] # "publish") /\ handle # NoTunnel
       => currentTunnel = handle \/ (currentTunnel = NoTunnel /\ main = "forget")
  /\ \A c \in Caller : connect[c] = "publish" => handle \in {tunnel[c], NoTunnel}
  /\ currentTunnel \in dropped => currentTunnel \in lost

\* While a bring-up is in progress, neither its tunnel nor the one it may
\* restore has been dropped.
UpInv ==
  \A c \in Caller :
    /\ connect[c] \in {"prepare", "service", "up"} => tunnel[c] \notin dropped \ lost
    /\ connect[c] = "publish" => tunnel[c] \notin dropped \ lost
    /\ connect[c] \in {"service", "up", "publish"} => prior[c] \notin dropped \ lost

PacedInv ==
  \A c \in Caller :
    connect[c] \in {"begin", "prepare", "service", "up", "publish"} => ~recentDown

IInv ==
  /\ TypeOK /\ LockInv /\ OwnInv /\ PrivateInv /\ DownInv /\ FieldsInv /\ UpInv
  /\ PacedInv /\ DroppedStaysDown

-----------------------------------------------------------------------------
USE NoTunnelAssumption, CallerAssumption, MaxRestartsAssumption

LEMMA InitIInv == Init => IInv
  <1> SUFFICES ASSUME Init PROVE IInv
    OBVIOUS
  <1> USE DEF Init, BackendInit
  <1>1. TypeOK
    BY DEF TypeOK, BackendTypeOK, TunnelOrNull, VpnState, ConnectPc, CallbackPc, Caller, Thread
  <1>2. LockInv /\ OwnInv /\ PrivateInv /\ DownInv
    BY DEF LockInv, OwnInv, PrivateInv, DownInv, Private, Bringing, Locked
  <1>3. FieldsInv /\ UpInv /\ PacedInv /\ DroppedStaysDown
    BY DEF FieldsInv, UpInv, PacedInv, DroppedStaysDown
  <1>4. QED
    BY <1>1, <1>2, <1>3 DEF IInv

\* The callback touches the polling and the report only.
LEMMA CallbackTypes ==
  ASSUME TypeOK, NEW h \in Thread, OnStateChange(h)
  PROVE  TypeOK'
  <1> USE DEF TypeOK, BackendTypeOK, TunnelOrNull, OnStateChange, backendVars, deviceVars,
              callVars, mainVars, pollVars, In, VpnState, CallbackPc
  <1>1. CASE Report(h)
    BY <1>1 DEF Report
  <1>2. CASE StopPolling(h)
    BY <1>2 DEF StopPolling, CancelPolling, ClearPolling
  <1>3. CASE StartPolling(h)
    BY <1>3 DEF StartPolling
  <1>4. QED
    BY <1>1, <1>2, <1>3

LEMMA SettleOverTypes == TypeOK /\ SettleOver => TypeOK'
  <1> SUFFICES ASSUME TypeOK, SettleOver PROVE TypeOK'
    OBVIOUS
  <1>1. recentDown' \in BOOLEAN
    BY Zenon DEF SettleOver
  <1>2. UNCHANGED <<backendVars, stateMutex, active, pollVars, callback, stallRestarts,
                    connect, callVars, downJobs, mainVars, state, dropped>>
    BY DEF SettleOver
  <1>3. QED
    BY <1>1, <1>2 DEF TypeOK, BackendTypeOK, TunnelOrNull, backendVars, deviceVars, pollVars,
                      callVars, mainVars

LEMMA NextIInv == IInv /\ [Next]_vars => IInv'
  <1> SUFFICES ASSUME IInv, [Next]_vars PROVE IInv'
    OBVIOUS
  <1> USE DEF IInv, TypeOK, BackendTypeOK, TunnelOrNull, VpnState, ConnectPc, CallbackPc,
              Caller, Thread, LockInv, OwnInv, PrivateInv, DownInv, FieldsInv, UpInv,
              PacedInv, Private, Bringing, Locked, DroppedStaysDown, Destroying, Goto,
              backendVars, deviceVars, pollVars, callVars, mainVars
  <1>1. ASSUME NEW c \in Caller, Lock(c) PROVE IInv'
    BY <1>1 DEF Lock
  <1>2. ASSUME NEW c \in Caller, ReadConfig(c) PROVE IInv'
    BY <1>2 DEF ReadConfig
  <1>3. ASSUME NEW c \in Caller, Teardown(c) PROVE IInv'
    BY <1>3 DEF Teardown, CancelPolling, ClearPolling
  <1>4. ASSUME NEW c \in Caller, Drop(c) PROVE IInv'
    BY <1>4 DEF Drop, Down, SetStateDown, ClosedByDown, StopSelf, Calls
  <1>5. ASSUME NEW c \in Caller, Stamp(c) PROVE IInv'
    BY <1>5 DEF Stamp
  <1>6. ASSUME NEW c \in Caller, Settle(c) PROVE IInv'
    BY <1>6 DEF Settle
  <1>7. ASSUME NEW c \in Caller, DelayOver(c) PROVE IInv'
    BY <1>7 DEF DelayOver
  <1>8. ASSUME NEW c \in Caller, Aborted(c) PROVE IInv'
    BY <1>8 DEF Aborted, Ends, Forget
  <1>9. ASSUME NEW c \in Caller, Begin(c) PROVE IInv'
    BY <1>9 DEF Begin
  <1>10. ASSUME NEW c \in Caller, Prepare(c) PROVE IInv'
    BY <1>10 DEF Prepare, SetStateDown, ClosedByDown, StopSelf, Calls
  <1>11. ASSUME NEW c \in Caller, StartService(c) PROVE IInv'
    BY <1>11 DEF StartService, GetService
  <1>12. ASSUME NEW c \in Caller, TurnOn(c) PROVE IInv'
    BY <1>12 DEF TurnOn, AwgTurnOn, Returns, Restoring
  <1>13. ASSUME NEW c \in Caller, PublishTunnel(c) PROVE IInv'
    BY <1>13 DEF PublishTunnel, Publish, Calls, Returns, Restoring
  <1>14. ASSUME NEW c \in Caller, UpThrows(c) PROVE IInv'
    BY <1>14 DEF UpThrows, Restoring
  <1>15. ASSUME NEW c \in Caller, ConnectFailed(c) PROVE IInv'
    BY <1>15 DEF ConnectFailed
  <1>16. ASSUME NEW c \in Caller, Unlock(c) PROVE IInv'
    BY <1>16 DEF Unlock, Forget
  <1>17. ASSUME NEW r \in Router, RouterConnect(r) PROVE IInv'
    BY <1>17 DEF RouterConnect, Call
  <1>18. ASSUME NEW r \in Router, BlockingStop(r) PROVE IInv'
    BY <1>18 DEF BlockingStop, CancelPolling
  <1>19. ASSUME NEW r \in Router, BlockingRead(r) PROVE IInv'
    BY <1>19 DEF BlockingRead, ClearPolling
  <1>20. ASSUME NEW r \in Router, BlockingClear(r) PROVE IInv'
    BY <1>20 DEF BlockingClear
  <1>21. ASSUME NEW r \in Router, BlockingDown(r) PROVE IInv'
    BY <1>21 DEF BlockingDown, Down, SetStateDown, ClosedByDown, StopSelf, Calls, Forget
  <1>22. ASSUME NEW r \in Router, BlockingUnlock(r) PROVE IInv'
    BY <1>22 DEF BlockingUnlock
  <1>23. ASSUME NEW r \in Router, BlockingReport(r) PROVE IInv'
    BY <1>23 DEF BlockingReport
  <1>24. ASSUME NEW t \in Tunnel, LaunchedDown(t) PROVE IInv'
    BY <1>24 DEF LaunchedDown, Down, SetStateDown, ClosedByDown, StopSelf, Calls
  <1>25. ASSUME NEW t \in Tunnel, Sample(t) PROVE IInv'
    BY <1>25 DEF Sample, Ends
  <1>26. ASSUME NEW t \in Tunnel, Check(t) PROVE IInv'
    BY <1>26 DEF Check
  <1>27. ASSUME NEW t \in Tunnel, Dead(t) PROVE IInv'
    BY <1>27 DEF Dead, Ends
  <1>28. ASSUME NEW t \in Tunnel, Stall(t) PROVE IInv'
    BY <1>28 DEF Stall, Call
  <1>29. ASSUME NEW h \in Thread, OnStateChange(h) PROVE IInv'
    <2>1. TypeOK'
      BY <1>29, CallbackTypes
    <2>2. QED
      BY <1>29, <2>1 DEF OnStateChange
  <1>30. CASE DisconnectTap
    BY <1>30 DEF DisconnectTap, CancelPolling, MainGoto
  <1>31. CASE DisconnectReport
    BY <1>31 DEF DisconnectReport, ClearPolling, MainGoto
  <1>32. CASE DisconnectRead
    BY <1>32 DEF DisconnectRead, MainGoto
  <1>33. CASE DisconnectLaunch
    BY <1>33 DEF DisconnectLaunch, MainGoto
  <1>34. CASE OnDestroy
    BY <1>34 DEF OnDestroy, MainGoto
  <1>35. CASE OnDestroyStep
    BY <1>35 DEF OnDestroyStep, MainGoto, DestroyTurnOff, DestroyNull, DestroyForget, DestroyEnd, Calls
  <1>36. CASE LaunchedUnlock
    BY <1>36 DEF LaunchedUnlock
  <1>37. CASE SystemRevoke
    BY <1>37 DEF SystemRevoke, Revoke
  <1>38. CASE SettleOver
    <2>1. TypeOK'
      BY <1>38, SettleOverTypes
    <2>2. PacedInv'
      BY <1>38, Zenon DEF SettleOver
    <2>3. (LockInv /\ OwnInv /\ PrivateInv /\ DownInv)'
      BY <1>38 DEF SettleOver
    <2>4. (FieldsInv /\ UpInv /\ DroppedStaysDown)'
      BY <1>38 DEF SettleOver
    <2>5. QED
      BY <2>1, <2>2, <2>3, <2>4
  <1>39. CASE UNCHANGED vars
    BY <1>39 DEF vars
  <1>40. QED
    BY <1>1, <1>2, <1>3, <1>4, <1>5, <1>6, <1>7, <1>8, <1>9, <1>10, <1>11, <1>12,
       <1>13, <1>14, <1>15, <1>16, <1>17, <1>18, <1>19, <1>20, <1>21, <1>22, <1>23,
       <1>24, <1>25, <1>26, <1>27, <1>28, <1>29, <1>30, <1>31, <1>32, <1>33, <1>34,
       <1>35, <1>36, <1>37, <1>38, <1>39
    DEF Next, CallerStep, ConnectStep, BlockingStep, MainStep, LaunchedStep, PollStep

\* The invariant that carries every safety result below.
LEMMA Invariance == Spec => []IInv
  <1>1. QED
    BY InitIInv, NextIInv, PTL DEF Spec

-----------------------------------------------------------------------------
\* Every variable of the driver keeps its type; the interesting parts are that a
\* launched DOWN always names a tunnel object, and that an open device the
\* backend holds is the one its handle names.
THEOREM TypeCorrect == Spec => []TypeOK
  <1>1. IInv => TypeOK
    BY DEF IInv
  <1>2. QED
    BY <1>1, Invariance, PTL

\* A tunnel whose requested DOWN has run is never held by the backend again, for
\* any number of router threads, tunnels and watchdog restarts, unless onDestroy
\* cleared it from under a transition.
THEOREM DroppedIsFinal == Spec => []DroppedStaysDown
  <1>1. IInv => DroppedStaysDown
    BY DEF IInv
  <1>2. QED
    BY <1>1, Invariance, PTL

-----------------------------------------------------------------------------
\* A DOWN of t closes t's device, or finds it closed, or comes while onDestroy is
\* about to overwrite the handle.
LEMMA DownStep ==
  ASSUME IInv, NEW h \in Thread, NEW t \in Tunnel, Down(h, t),
         \A c \in Caller : connect[c] # "publish"
  PROVE  /\ dropped' = dropped \cup {t} /\ lost' = lost
         /\ \/ device' = IF device = t THEN NoTunnel ELSE device
            \/ main = "forget" /\ device' = device
  <1>1. CASE ClosedByDown(t)
    BY <1>1 DEF Down, SetStateDown, ClosedByDown, IInv, FieldsInv, TypeOK, BackendTypeOK
  <1>2. CASE ~ClosedByDown(t)
    BY <1>2 DEF Down, SetStateDown, ClosedByDown, IInv, FieldsInv, TypeOK, BackendTypeOK,
                TunnelOrNull, backendVars, deviceVars
  <1>3. QED
    BY <1>1, <1>2

\* What one step can do to the devices and to the set of dropped tunnels.
Ending == main \in Destroying
Same == UNCHANGED <<device, lost, dropped>>
Closes == device' = NoTunnel /\ UNCHANGED <<lost, dropped>>
Drops(t) ==
  /\ dropped' = dropped \cup {t} /\ lost' = lost
  /\ \/ device' = IF device = t THEN NoTunnel ELSE device
     \/ main = "forget" /\ device' = device
Opens(c, t) ==
  /\ connect[c] = "up" /\ (t \in dropped => t \in lost)
  /\ device = NoTunnel /\ device' = t
  /\ UNCHANGED <<lost, dropped>>
Tears ==
  /\ main = "forget" /\ device' = NoTunnel
  /\ lost' = lost \cup ({device, currentTunnel} \ {NoTunnel})
  /\ UNCHANGED dropped

LEMMA DeviceStep ==
  ASSUME IInv, [Next]_vars
  PROVE  \/ Same
         \/ /\ UNCHANGED Ending
            /\ \/ Closes \/ Tears
               \/ \E t \in Tunnel : Drops(t)
               \/ \E c \in Caller, t \in Tunnel : Opens(c, t)
  <1> USE DEF Goto, backendVars, deviceVars, mainVars
  <1> DEFINE Still == UNCHANGED Ending
  <1>1. ASSUME NEW c \in Caller, CallerStep(c)
        PROVE  Same \/ (Still /\ Closes) \/ Drop(c) \/ TurnOn(c)
    BY <1>1 DEF CallerStep, ConnectStep, Lock, ReadConfig, Teardown, Stamp, Settle, DelayOver,
                Aborted, Begin, Prepare, SetStateDown, StartService, GetService, PublishTunnel,
                Publish, UpThrows, ConnectFailed, Unlock, OnStateChange, Same, Closes, Ending
  <1>2. ASSUME NEW c \in Caller, Drop(c)
        PROVE  Still /\ \E t \in Tunnel : Drops(t)
    <2>1. prior[c] \in Tunnel /\ Down(c, prior[c]) /\ c \in Thread
      BY <1>2 DEF Drop, IInv, DownInv, TypeOK, TunnelOrNull, Thread
    <2>2. \A d \in Caller : connect[d] # "publish"
      BY <1>2 DEF Drop, IInv, LockInv, Locked
    <2>3. Drops(prior[c])
      BY <2>1, <2>2, DownStep DEF Drops
    <2>4. QED
      BY <1>2, <2>1, <2>3 DEF Drop, Ending
  <1>3. ASSUME NEW c \in Caller, TurnOn(c)
        PROVE  Same \/ (Still /\ \E t \in Tunnel : Opens(c, t))
    <2>1. tunnel[c] \in Tunnel /\ (tunnel[c] \in dropped => tunnel[c] \in lost)
      BY <1>3 DEF TurnOn, IInv, UpInv, OwnInv, Bringing, TypeOK
    <2>2. CASE AwgTurnOn(tunnel[c])
      <3>1. device = NoTunnel
        BY <2>2 DEF AwgTurnOn, IInv, TypeOK, BackendTypeOK
      <3>2. QED
        BY <1>3, <2>1, <2>2, <3>1 DEF TurnOn, AwgTurnOn, Opens, Ending
    <2>3. QED
      BY <1>3, <2>2 DEF TurnOn, Same
  <1>4. ASSUME NEW r \in Router, BlockingDown(r)
        PROVE  Still /\ \E t \in Tunnel : Drops(t)
    <2>1. prior[r] \in Tunnel /\ Down(r, prior[r]) /\ r \in Thread
      BY <1>4 DEF BlockingDown, IInv, DownInv, TypeOK, TunnelOrNull, Thread, Caller
    <2>2. \A d \in Caller : connect[d] # "publish"
      BY <1>4 DEF BlockingDown, IInv, LockInv, Locked, Caller
    <2>3. Drops(prior[r])
      BY <2>1, <2>2, DownStep DEF Drops
    <2>4. QED
      BY <1>4, <2>1, <2>3 DEF BlockingDown, Ending
  <1>5. ASSUME NEW r \in Router, RouterConnect(r) \/ BlockingStop(r) \/ BlockingStep(r)
        PROVE  Same \/ BlockingDown(r)
    BY <1>5 DEF RouterConnect, BlockingStop, BlockingStep, BlockingRead, BlockingClear,
                BlockingUnlock, BlockingReport, Same
  <1>6. ASSUME NEW t \in Tunnel, LaunchedDown(t)
        PROVE  Still /\ \E u \in Tunnel : Drops(u)
    <2>1. Launched \in Thread /\ Down(Launched, t)
      BY <1>6 DEF LaunchedDown, Thread
    <2>2. \A d \in Caller : connect[d] # "publish"
      BY <1>6 DEF LaunchedDown, IInv, LockInv, Locked, Caller
    <2>3. Drops(t)
      BY <2>1, <2>2, DownStep DEF Drops
    <2>4. QED
      BY <1>6, <2>3 DEF LaunchedDown, Ending
  <1>7. ASSUME NEW t \in Tunnel, PollStep(t) \/ Stall(t)
        PROVE  Same
    BY <1>7 DEF PollStep, Sample, Check, Dead, Stall, Same
  <1>8. ASSUME OnDestroyStep
        PROVE  Same \/ (Still /\ (Closes \/ Tears))
    BY <1>8 DEF OnDestroyStep, MainGoto, DestroyTurnOff, DestroyNull, DestroyForget, DestroyEnd,
                Same, Closes, Tears, Ending, Destroying
  <1>9. CASE DisconnectTap \/ MainStep
    BY <1>8, <1>9 DEF DisconnectTap, MainStep, DisconnectReport, DisconnectRead,
                      DisconnectLaunch, OnDestroy, OnStateChange, Same
  <1>10. CASE LaunchedStep \/ SystemRevoke \/ SettleOver
    BY <1>10 DEF LaunchedStep, LaunchedUnlock, OnStateChange, SystemRevoke, Revoke, SettleOver, Same
  <1>11. CASE UNCHANGED vars
    BY <1>11 DEF vars, Same
  <1>12. QED
    BY <1>1, <1>2, <1>3, <1>4, <1>5, <1>6, <1>7, <1>9, <1>10, <1>11 DEF Next

\* No device is opened within DOWN_SETTLE_MS of a stamped DOWN.
THEOREM UpIsPaced == Spec => PacedUp
  <1>1. ASSUME IInv, [Next]_vars, device' # device, device' # NoTunnel
        PROVE  ~recentDown
    <2>1. PICK c \in Caller : connect[c] = "up"
      BY <1>1, DeviceStep DEF Same, Closes, Drops, Opens, Tears
    <2>2. QED
      BY <1>1, <2>1 DEF IInv, PacedInv
  <1>2. IInv /\ [Next]_vars
          => [device' # device /\ device' # NoTunnel => ~recentDown]_vars
    BY <1>1
  <1>3. QED
    BY <1>2, Invariance, PTL DEF Spec, PacedUp

\* Refinement: the driver and the backend together are TunnelSlot.  Opening,
\* closing and dropping map to its steps one to one; onDestroy is the end of the
\* service.
THEOREM SlotRefinement == Spec => ImplementsSlot
  <1>1. Init => Slot!Init
    BY DEF Init, BackendInit, Slot!Init, Destroying
  <1>2. IInv /\ [Next]_vars => [Slot!Next]_(Slot!slotVars)
    <2> SUFFICES ASSUME IInv, [Next]_vars
                 PROVE  Slot!Next \/ UNCHANGED Slot!slotVars
      OBVIOUS
    <2> USE DEF Slot!slotVars, Ending
    <2>1. CASE Same
      <3>1. CASE UNCHANGED Ending
        BY <2>1, <3>1 DEF Same
      <3>2. CASE ~UNCHANGED Ending
        BY <2>1, <3>2 DEF Same, Slot!Next, Slot!ServiceEnds
      <3>3. QED
        BY <3>1, <3>2
    <2>2. CASE UNCHANGED Ending /\ Closes
      BY <2>2 DEF Closes, Slot!Next, Slot!Release
    <2>3. CASE UNCHANGED Ending /\ Tears
      <3>1. Ending
        BY <2>3 DEF Tears, Destroying
      <3>2. Slot!Forget(currentTunnel)
        BY <2>3, <3>1 DEF Tears, Slot!Forget
      <3>3. QED
        BY <3>2 DEF Slot!Next, IInv, TypeOK, BackendTypeOK, TunnelOrNull
    <2>4. ASSUME NEW t \in Tunnel, UNCHANGED Ending, Drops(t)
          PROVE  Slot!Next
      <3>1. Slot!Retire(t)
        BY <2>4 DEF Drops, Slot!Retire, Destroying
      <3>2. QED
        BY <3>1 DEF Slot!Next
    <2>5. ASSUME NEW c \in Caller, NEW t \in Tunnel, UNCHANGED Ending, Opens(c, t)
          PROVE  Slot!Next
      <3>1. Slot!Claim(t)
        BY <2>5 DEF Opens, Slot!Claim
      <3>2. QED
        BY <3>1 DEF Slot!Next
    <2>6. QED
      BY <2>1, <2>2, <2>3, <2>4, <2>5, DeviceStep
  <1>3. QED
    BY <1>1, <1>2, Invariance, PTL DEF Spec, ImplementsSlot, Slot!Spec
=============================================================================
