--------------------------- MODULE WireGuardEngine ---------------------------
(***************************************************************************)
(* The WireGuard driver: connect(), disconnectAsync(), disconnectBlocking()*)
(* and the polling coroutine with its stall watchdog, over one GoBackend.  *)
(*                                                                         *)
(* Threads.  A Router is a thread of VpnEngine (connect, or the blocking   *)
(* stop before another engine starts).  A Tunnel also names the polling    *)
(* coroutine bound to it, which is a caller of connect() when the watchdog *)
(* fires.  Main is the main thread, which runs disconnectAsync and the     *)
(* service's onDestroy.  Launched is the coroutine of a launched DOWN: any *)
(* number wait for stateMutex, one at a time runs.                         *)
(***************************************************************************)
EXTENDS GoBackend, Naturals

CONSTANTS
  Router,        \* threads of the router
  Main,
  Launched,
  Free,          \* stateMutex is not held
  MaxRestarts    \* the watchdog's cap, 3 in the code

ASSUME CallerAssumption ==
  /\ Router \cap Tunnel = {}
  /\ {Main, Launched, Free} \cap (Router \cup Tunnel) = {}
  /\ Main # Launched /\ Main # Free /\ Launched # Free
ASSUME MaxRestartsAssumption == MaxRestarts \in Nat

Caller == Router \cup Tunnel
Thread == Caller \cup {Main, Launched}

VARIABLES
  stateMutex,    \* the thread that holds it, or Free
  active,        \* the tunnel currently handed to the backend, if any
  recentDown,    \* lastDownAt is less than DOWN_SETTLE_MS ago
  pollJob,       \* the polling coroutine the engine can cancel, by its tunnel
  cancelled,     \* tunnels whose polling coroutine runs, but was cancelled
  poll,          \* where the polling coroutine of each tunnel stands
  stallRestarts,
  connect,       \* where each caller of connect()/disconnectBlocking() stands
  tunnel,        \* that call's local: the tunnel object it brings up
  prior,         \* that call's local: the tunnel it takes down first
  callback,      \* where each thread stands in WgTunnel.onStateChange
  newJob,        \* startPolling's coroutine before pollJob is assigned
  downJobs,      \* tunnels with a launched DOWN that has not run yet
  main,          \* where the main thread stands
  mainTunnel,    \* disconnectAsync's local `tunnel`
  state,         \* the last state reported through onState
  made,          \* tunnel objects created so far
  dropped        \* history: tunnels whose requested DOWN has run

pollVars == <<pollJob, cancelled, poll, newJob>>
callVars == <<tunnel, prior, made>>
mainVars == <<main, mainTunnel>>
vars == <<backendVars, stateMutex, active, recentDown, state, stallRestarts, connect,
          callback, downJobs, pollVars, callVars, mainVars, dropped>>

\* FAILED stands for AUTH_FAILED and NO_NETWORK.
VpnState == {"DISCONNECTED", "CONNECTING", "CONNECTED", "FAILED"}

ConnectPc == {"idle", "lock", "config", "teardown", "read", "drop", "stamp",
              "settle", "delay", "begin", "prepare", "service", "up", "publish",
              "failed", "unlock",
              "b_read", "b_clear", "b_down", "b_unlock", "b_report"}

\* A caller holds stateMutex at these points.
Locked == {"config", "teardown", "read", "drop", "stamp", "settle", "delay",
           "begin", "prepare", "service", "up", "publish", "failed", "unlock",
           "b_unlock"}

\* onStateChange reports, then runs stopPolling (cancel, clear) or startPolling
\* (check, launch, assign); "no" is outside of it.
CallbackPc == {"no", "down", "cancel", "clear", "up", "check", "launch", "assign"}

Destroying == {"off", "null", "forget", "gone"}

TypeOK ==
  /\ BackendTypeOK
  /\ stateMutex \in Caller \cup {Launched, Free}
  /\ active \in TunnelOrNull
  /\ recentDown \in BOOLEAN
  /\ pollJob \in TunnelOrNull
  /\ cancelled \subseteq Tunnel
  /\ poll \in [Tunnel -> {"off", "sample", "restart", "check", "dead"}]
  /\ stallRestarts \in Nat
  /\ connect \in [Caller -> ConnectPc]
  /\ tunnel \in [Caller -> TunnelOrNull]
  /\ prior \in [Caller -> TunnelOrNull]
  /\ callback \in [Thread -> CallbackPc]
  /\ newJob \in TunnelOrNull
  /\ downJobs \subseteq Tunnel
  /\ main \in {"idle", "clearJob", "report", "read", "clear"} \cup Destroying
  /\ mainTunnel \in TunnelOrNull
  /\ state \in VpnState
  /\ made \subseteq Tunnel
  /\ dropped \subseteq Tunnel

Init ==
  /\ BackendInit
  /\ stateMutex = Free
  /\ active = NoTunnel
  /\ recentDown = FALSE
  /\ pollJob = NoTunnel
  /\ cancelled = {}
  /\ poll = [t \in Tunnel |-> "off"]
  /\ stallRestarts = 0
  /\ connect = [c \in Caller |-> "idle"]
  /\ tunnel = [c \in Caller |-> NoTunnel]
  /\ prior = [c \in Caller |-> NoTunnel]
  /\ callback = [h \in Thread |-> "no"]
  /\ newJob = NoTunnel
  /\ downJobs = {}
  /\ main = "idle"
  /\ mainTunnel = NoTunnel
  /\ state = "DISCONNECTED"
  /\ made = {}
  /\ dropped = {}

Ends(t) == cancelled' = cancelled \ {t} /\ poll' = [poll EXCEPT ![t] = "off"]

\* A call's locals go out of scope.
Forget(c) ==
  /\ tunnel' = [tunnel EXCEPT ![c] = NoTunnel]
  /\ prior' = [prior EXCEPT ![c] = NoTunnel]
  /\ UNCHANGED made

Goto(c, from, to) ==
  /\ connect[c] = from /\ callback[c] = "no"
  /\ connect' = [connect EXCEPT ![c] = to]

-----------------------------------------------------------------------------
(* Polling and the callback a WgTunnel receives.  stopPolling() and        *)
(* startPolling() are run by any thread and under no lock of their own, so *)
(* each access to pollJob is a step.                                       *)

\* stopPolling(), first access: pollJob?.cancel().
CancelPolling ==
  /\ cancelled' = cancelled \cup {t \in Tunnel : t = pollJob /\ poll[t] # "off"}
  /\ UNCHANGED <<pollJob, poll, newJob>>

\* stopPolling(), second access.
ClearPolling ==
  /\ pollJob' = NoTunnel
  /\ UNCHANGED <<cancelled, poll, newJob>>

PollActive ==
  pollJob # NoTunnel /\ poll[pollJob] # "off" /\ pollJob \notin cancelled

In(h, from, to) ==
  /\ callback[h] = from
  /\ callback' = [callback EXCEPT ![h] = to]

\* onState?.invoke(mapped).
Report(h) ==
  /\ \/ In(h, "down", "cancel") /\ state' = "DISCONNECTED"
     \/ In(h, "up", "check") /\ state' = "CONNECTED"
  /\ UNCHANGED pollVars

StopPolling(h) ==
  /\ \/ In(h, "cancel", "clear") /\ CancelPolling
     \/ In(h, "clear", "no") /\ ClearPolling
  /\ UNCHANGED state

\* Is there a loop, is there a tunnel to bind one to, and pollJob = launch.
StartPolling(h) ==
  /\ \/ /\ In(h, "check", IF PollActive THEN "no" ELSE "launch")
        /\ UNCHANGED pollVars
     \/ /\ In(h, "launch", IF active = NoTunnel THEN "no" ELSE "assign")
        /\ poll' = [t \in Tunnel |-> IF t = active THEN "sample" ELSE poll[t]]
        /\ newJob' = active
        /\ UNCHANGED <<pollJob, cancelled>>
     \/ /\ In(h, "assign", "no")
        /\ pollJob' = newJob
        /\ newJob' = NoTunnel
        /\ UNCHANGED <<cancelled, poll>>
  /\ UNCHANGED state

OnStateChange(h) ==
  /\ Report(h) \/ StopPolling(h) \/ StartPolling(h)
  /\ UNCHANGED <<backendVars, stateMutex, active, recentDown, stallRestarts, connect,
                 callVars, downJobs, mainVars, dropped>>

\* The backend calls onStateChange on the thread that made the transition.
Calls(h, onStateChange) == callback' = [callback EXCEPT ![h] = onStateChange]

\* setState(t, DOWN) by thread h, asked for by the driver's user.
Down(h, t) ==
  /\ SetStateDown(t)
  /\ Calls(h, IF ClosedByDown(t) THEN "down" ELSE "no")
  /\ dropped' = dropped \cup {t}

-----------------------------------------------------------------------------
(* connect(uuid, store), run by a router or by the watchdog.               *)

Call(c) ==
  \E t \in Tunnel \ made :
    /\ Goto(c, "idle", "lock")
    /\ tunnel' = [tunnel EXCEPT ![c] = t]
    /\ made' = made \cup {t}

RouterConnect(r) ==
  /\ Call(r)
  /\ UNCHANGED <<backendVars, stateMutex, active, recentDown, pollVars, callback,
                 stallRestarts, prior, downJobs, mainVars, state, dropped>>

Lock(c) ==
  /\ Goto(c, "lock", "config")
  /\ stateMutex = Free
  /\ stateMutex' = c
  /\ UNCHANGED <<backendVars, active, recentDown, pollVars, callback, stallRestarts,
                 callVars, downJobs, mainVars, state, dropped>>

\* Mutant: the early returns leave without the finally.
ReadConfigKeepingLock(c) ==
  /\ \/ Goto(c, "config", "idle") /\ stallRestarts' \in {stallRestarts, 0}
     \/ Goto(c, "config", "teardown") /\ stallRestarts' = 0
  /\ UNCHANGED <<backendVars, stateMutex, active, recentDown, pollVars, callback,
                 callVars, downJobs, mainVars, state, dropped>>

\* The stored file is missing (nothing else happens), does not parse (the call
\* is remembered and the restart budget renewed all the same), or is usable.
ReadConfig(c) ==
  /\ \/ Goto(c, "config", "unlock") /\ stallRestarts' \in {stallRestarts, 0}
     \/ Goto(c, "config", "teardown") /\ stallRestarts' = 0
  /\ UNCHANGED <<backendVars, stateMutex, active, recentDown, pollVars, callback,
                 callVars, downJobs, mainVars, state, dropped>>

\* disconnectBlockingLocked: stopPolling's cancel, then its write and the read of
\* `active` (nobody assigns a pollJob while connect() holds stateMutex).
Teardown(c) ==
  /\ \/ Goto(c, "teardown", "read") /\ CancelPolling /\ UNCHANGED prior
     \/ /\ Goto(c, "read", IF active = NoTunnel THEN "settle" ELSE "drop")
        /\ ClearPolling
        /\ prior' = [prior EXCEPT ![c] = active]
  /\ UNCHANGED <<backendVars, stateMutex, active, recentDown, callback, stallRestarts,
                 tunnel, downJobs, mainVars, state, made, dropped>>

\* disconnectBlockingLocked, the rest.
Drop(c) ==
  /\ Goto(c, "drop", "stamp")
  /\ active' = NoTunnel
  /\ Down(c, prior[c])
  /\ prior' = [prior EXCEPT ![c] = NoTunnel]
  /\ UNCHANGED <<stateMutex, recentDown, pollVars, stallRestarts, state, tunnel, made,
                 downJobs, mainVars>>

Stamp(c) ==
  /\ Goto(c, "stamp", "settle")
  /\ recentDown' = TRUE
  /\ UNCHANGED <<backendVars, stateMutex, active, pollVars, callback, stallRestarts,
                 callVars, downJobs, mainVars, state, dropped>>

\* Mutant: UP straight after DOWN.
SettleNever(c) ==
  /\ Goto(c, "settle", "begin")
  /\ UNCHANGED <<backendVars, stateMutex, active, recentDown, pollVars, callback,
                 stallRestarts, callVars, downJobs, mainVars, state, dropped>>

\* The clock is read once; a recent DOWN costs a delay().
Settle(c) ==
  /\ Goto(c, "settle", IF recentDown THEN "delay" ELSE "begin")
  /\ UNCHANGED <<backendVars, stateMutex, active, recentDown, pollVars, callback,
                 stallRestarts, callVars, downJobs, mainVars, state, dropped>>

DelayOver(c) ==
  /\ Goto(c, "delay", "begin")
  /\ ~recentDown
  /\ c \notin cancelled
  /\ UNCHANGED <<backendVars, stateMutex, active, recentDown, pollVars, callback,
                 stallRestarts, callVars, downJobs, mainVars, state, dropped>>

\* Mutant: the CancellationException of delay() skips the unlock.
AbortedKeepingLock(c) ==
  /\ connect[c] \in {"lock", "delay"}
  /\ c \in cancelled
  /\ connect' = [connect EXCEPT ![c] = "idle"]
  /\ Ends(c)
  /\ Forget(c)
  /\ UNCHANGED <<backendVars, stateMutex, active, recentDown, pollJob, newJob,
                 callback, stallRestarts, downJobs, mainVars, state, dropped>>

\* CancellationException, at the two suspension points of connect(): only the
\* polling coroutine is ever cancelled, and it ends here.  `finally` unlocks.
Aborted(c) ==
  /\ connect[c] \in {"lock", "delay"}
  /\ c \in cancelled
  /\ connect' = [connect EXCEPT ![c] = "idle"]
  /\ Ends(c)
  /\ Forget(c)
  /\ stateMutex' = IF connect[c] = "delay" THEN Free ELSE stateMutex
  /\ UNCHANGED <<backendVars, active, recentDown, pollJob, newJob, callback,
                 stallRestarts, downJobs, mainVars, state, dropped>>

Begin(c) ==
  /\ Goto(c, "begin", "prepare")
  /\ active' = tunnel[c]
  /\ state' = "CONNECTING"
  /\ UNCHANGED <<backendVars, stateMutex, recentDown, pollVars, callback, stallRestarts,
                 callVars, downJobs, mainVars, dropped>>

\* setState(UP) closes whatever is still up, without a pause.
Prepare(c) ==
  /\ Goto(c, "prepare", "service")
  /\ prior' = [prior EXCEPT ![c] = currentTunnel]
  /\ SetStateDown(currentTunnel)
  /\ Calls(c, IF ClosedByDown(currentTunnel) THEN "down" ELSE "no")
  /\ UNCHANGED <<stateMutex, active, recentDown, pollVars, stallRestarts, tunnel,
                 downJobs, mainVars, state, made, dropped>>

StartService(c) ==
  /\ Goto(c, "service", "up")
  /\ GetService
  /\ UNCHANGED <<stateMutex, active, recentDown, pollVars, callback, stallRestarts,
                 callVars, downJobs, mainVars, state, dropped>>

\* The bring-up in progress is the restore of the original tunnel.
Restoring(c) == prior[c] = tunnel[c]

\* setState returns; after a restore it rethrows what made it necessary.
Returns(c) == IF Restoring(c) THEN "failed" ELSE "unlock"

\* "Tunnel already up" is a normal return, without a callback.
TurnOn(c) ==
  /\ \/ Goto(c, "up", "publish") /\ AwgTurnOn(tunnel[c])
     \/ Goto(c, "up", Returns(c)) /\ handle # NoTunnel /\ UNCHANGED backendVars
  /\ UNCHANGED <<stateMutex, active, recentDown, pollVars, callback, stallRestarts,
                 callVars, downJobs, mainVars, state, dropped>>

PublishTunnel(c) ==
  /\ Goto(c, "publish", Returns(c))
  /\ Publish(tunnel[c])
  /\ Calls(c, "up")
  /\ UNCHANGED <<stateMutex, active, recentDown, pollVars, stallRestarts, callVars,
                 downJobs, mainVars, state, dropped>>

\* setStateInternal(UP) throws: no permission, no service, no descriptor, no Go
\* device, or (at "publish") the handle is gone.  The original tunnel, if there
\* was one, is brought back the same way, once.
UpThrows(c) ==
  /\ \E from \in {"service", "up", "publish"} :
       Goto(c, from, IF Restoring(c) \/ prior[c] = NoTunnel THEN "failed" ELSE "service")
  /\ connect[c] = "publish" => handle = NoTunnel
  /\ tunnel' = [tunnel EXCEPT ![c] = IF prior[c] = NoTunnel THEN @ ELSE prior[c]]
  /\ UNCHANGED <<backendVars, stateMutex, active, recentDown, pollVars, callback,
                 stallRestarts, prior, made, downJobs, mainVars, state, dropped>>

\* Mutant: the catch blocks report nothing.
ConnectFailedSilently(c) ==
  /\ Goto(c, "failed", "unlock")
  /\ active' = NoTunnel
  /\ UNCHANGED <<backendVars, stateMutex, recentDown, pollVars, callback, stallRestarts,
                 callVars, downJobs, mainVars, state, dropped>>

\* The two catch blocks.
ConnectFailed(c) ==
  /\ Goto(c, "failed", "unlock")
  /\ active' = NoTunnel
  /\ state' \in {"FAILED", "DISCONNECTED"}
  /\ UNCHANGED <<backendVars, stateMutex, recentDown, pollVars, callback, stallRestarts,
                 callVars, downJobs, mainVars, dropped>>

\* The watchdog's loop carries on after its call returns.
Unlock(c) ==
  /\ Goto(c, "unlock", "idle")
  /\ stateMutex' = Free
  /\ Forget(c)
  /\ poll' = IF c \in Tunnel THEN [poll EXCEPT ![c] = "check"] ELSE poll
  /\ UNCHANGED <<backendVars, active, recentDown, pollJob, cancelled, newJob, callback,
                 stallRestarts, downJobs, mainVars, state, dropped>>

-----------------------------------------------------------------------------
(* disconnectBlocking(), by a router.                                      *)

BlockingStop(r) ==
  /\ Goto(r, "idle", "b_read")
  /\ CancelPolling
  /\ UNCHANGED <<backendVars, stateMutex, active, recentDown, callback, stallRestarts,
                 callVars, downJobs, mainVars, state, dropped>>

BlockingRead(r) ==
  /\ Goto(r, "b_read", IF active = NoTunnel THEN "idle" ELSE "b_clear")
  /\ ClearPolling
  /\ prior' = [prior EXCEPT ![r] = active]
  /\ UNCHANGED <<backendVars, stateMutex, active, recentDown, callback, stallRestarts,
                 tunnel, downJobs, mainVars, state, made, dropped>>

BlockingClear(r) ==
  /\ Goto(r, "b_clear", "b_down")
  /\ active' = NoTunnel
  /\ UNCHANGED <<backendVars, stateMutex, recentDown, pollVars, callback, stallRestarts,
                 callVars, downJobs, mainVars, state, dropped>>

BlockingDown(r) ==
  /\ Goto(r, "b_down", "b_unlock")
  /\ stateMutex = Free
  /\ stateMutex' = r
  /\ Down(r, prior[r])
  /\ Forget(r)
  /\ UNCHANGED <<active, recentDown, pollVars, stallRestarts, downJobs, mainVars, state>>

BlockingUnlock(r) ==
  /\ Goto(r, "b_unlock", "b_report")
  /\ stateMutex' = Free
  /\ recentDown' = TRUE
  /\ UNCHANGED <<backendVars, active, pollVars, callback, stallRestarts, callVars,
                 downJobs, mainVars, state, dropped>>

BlockingReport(r) ==
  /\ Goto(r, "b_report", "idle")
  /\ state' = "DISCONNECTED"
  /\ UNCHANGED <<backendVars, stateMutex, active, recentDown, pollVars, callback,
                 stallRestarts, callVars, downJobs, mainVars, dropped>>

-----------------------------------------------------------------------------
(* The main thread: disconnectAsync() and VpnService.onDestroy().          *)

MainGoto(from, to) == main = from /\ callback[Main] = "no" /\ main' = to

DisconnectTap ==
  /\ MainGoto("idle", "clearJob")
  /\ CancelPolling
  /\ UNCHANGED <<backendVars, stateMutex, active, recentDown, stallRestarts, connect,
                 callback, callVars, downJobs, mainTunnel, state, dropped>>

DisconnectReport ==
  /\ \/ MainGoto("clearJob", "report") /\ ClearPolling /\ UNCHANGED state
     \/ MainGoto("report", "read") /\ state' = "DISCONNECTED" /\ UNCHANGED pollVars
  /\ UNCHANGED <<backendVars, stateMutex, active, recentDown, stallRestarts, connect,
                 callback, callVars, downJobs, mainTunnel, dropped>>

\* Mutant: no null check before the launch.
DisconnectReadUnchecked ==
  /\ MainGoto("read", "clear")
  /\ mainTunnel' = active
  /\ UNCHANGED <<backendVars, stateMutex, active, recentDown, pollVars, stallRestarts,
                 connect, callback, callVars, downJobs, state, dropped>>

DisconnectRead ==
  /\ MainGoto("read", IF active = NoTunnel THEN "idle" ELSE "clear")
  /\ mainTunnel' = active
  /\ UNCHANGED <<backendVars, stateMutex, active, recentDown, pollVars, stallRestarts,
                 connect, callback, callVars, downJobs, state, dropped>>

DisconnectLaunch ==
  /\ MainGoto("clear", "idle")
  /\ active' = NoTunnel
  /\ downJobs' = downJobs \cup {mainTunnel}
  /\ mainTunnel' = NoTunnel
  /\ UNCHANGED <<backendVars, stateMutex, recentDown, pollVars, stallRestarts, connect,
                 callback, callVars, state, dropped>>

\* Mutant: the launched coroutine does not take stateMutex.
LaunchedDownUnlocked(t) ==
  /\ t \in downJobs /\ callback[Launched] = "no"
  /\ downJobs' = downJobs \ {t}
  /\ Down(Launched, t)
  /\ UNCHANGED <<stateMutex, active, recentDown, pollVars, stallRestarts, connect,
                 callVars, mainVars, state>>

\* The coroutine disconnectAsync launched: lock, setState(DOWN) ...
LaunchedDown(t) ==
  /\ t \in downJobs
  /\ stateMutex = Free
  /\ stateMutex' = Launched
  /\ downJobs' = downJobs \ {t}
  /\ Down(Launched, t)
  /\ UNCHANGED <<active, recentDown, pollVars, stallRestarts, connect, callVars,
                 mainVars, state>>

\* ... stamp, unlock.
LaunchedUnlock ==
  /\ stateMutex = Launched /\ callback[Launched] = "no"
  /\ stateMutex' = Free
  /\ recentDown' = TRUE
  /\ UNCHANGED <<backendVars, active, pollVars, stallRestarts, connect, callback,
                 callVars, downJobs, mainVars, state, dropped>>

\* onDestroy reads the tunnel, which it only needs as somebody to report to; with
\* none it has nothing to close.
OnDestroy ==
  /\ vpnService = "stopping"
  /\ MainGoto("idle", IF currentTunnel = NoTunnel THEN "gone" ELSE "off")
  /\ UNCHANGED <<backendVars, stateMutex, active, recentDown, pollVars, stallRestarts,
                 connect, callback, callVars, downJobs, mainTunnel, state, dropped>>

\* Closing the device can take a while; then the fields are cleared one by one,
\* the tunnel it read is told, and the future is replaced.
OnDestroyStep ==
  /\ \/ MainGoto("off", "null") /\ DestroyTurnOff /\ UNCHANGED callback
     \/ MainGoto("null", "forget") /\ DestroyNull /\ UNCHANGED callback
     \/ MainGoto("forget", "gone") /\ DestroyForget /\ Calls(Main, "down")
     \/ MainGoto("gone", "idle") /\ DestroyEnd /\ UNCHANGED callback
  /\ UNCHANGED <<stateMutex, active, recentDown, pollVars, stallRestarts, connect,
                 callVars, downJobs, mainTunnel, state, dropped>>

-----------------------------------------------------------------------------
(* The polling coroutine of tunnel t.                                      *)

\* Mutant: while (true).
SampleForever(t) ==
  /\ poll[t] = "sample"
  /\ poll' = [poll EXCEPT ![t] = "check"]
  /\ stallRestarts' \in {stallRestarts, 0}
  /\ UNCHANGED <<backendVars, stateMutex, active, recentDown, pollJob, cancelled, newJob,
                 connect, callback, callVars, downJobs, mainVars, state, dropped>>

\* Mutant: while (isActive), whichever tunnel is active.
SampleAnyTunnel(t) ==
  /\ poll[t] = "sample"
  /\ \/ /\ t \in cancelled
        /\ Ends(t)
        /\ UNCHANGED stallRestarts
     \/ /\ t \notin cancelled
        /\ poll' = [poll EXCEPT ![t] = "check"]
        /\ stallRestarts' \in {stallRestarts, 0}
        /\ UNCHANGED cancelled
  /\ UNCHANGED <<backendVars, stateMutex, active, recentDown, pollJob, newJob, connect,
                 callback, callVars, downJobs, mainVars, state, dropped>>

\* Top of the loop.  The statistics show traffic, or silence that is not yet
\* long enough; a stall needs the device's own counters.
Sample(t) ==
  /\ poll[t] = "sample"
  /\ \/ /\ t \in cancelled \/ active # t
        /\ Ends(t)
        /\ UNCHANGED stallRestarts
     \/ /\ t \notin cancelled /\ active = t
        /\ poll' = [poll EXCEPT ![t] = "check"]
        /\ stallRestarts' \in {stallRestarts, 0}
        /\ UNCHANGED cancelled
  /\ UNCHANGED <<backendVars, stateMutex, active, recentDown, pollJob, newJob, connect,
                 callback, callVars, downJobs, mainVars, state, dropped>>

\* The eighth silent poll: restart by calling connect() from inside the loop.
Stall(t) ==
  /\ poll[t] = "sample"
  /\ t \notin cancelled /\ active = t
  /\ currentTunnel = t /\ device # NoTunnel
  /\ stallRestarts < MaxRestarts
  /\ stallRestarts' = stallRestarts + 1
  /\ poll' = [poll EXCEPT ![t] = "restart"]
  /\ Call(t)
  /\ UNCHANGED <<backendVars, stateMutex, active, recentDown, pollJob, cancelled, newJob,
                 callback, prior, downJobs, mainVars, state, dropped>>

\* backend.getState(tunnel), then delay(POLL_INTERVAL_MS) when it is UP.
Check(t) ==
  /\ poll[t] = "check"
  /\ poll' = [poll EXCEPT ![t] = IF currentTunnel = t THEN "sample" ELSE "dead"]
  /\ UNCHANGED <<backendVars, stateMutex, active, recentDown, pollJob, cancelled, newJob,
                 callback, stallRestarts, connect, callVars, downJobs, mainVars, state,
                 dropped>>

Dead(t) ==
  /\ poll[t] = "dead"
  /\ Ends(t)
  /\ active' = NoTunnel
  /\ state' = "DISCONNECTED"
  /\ UNCHANGED <<backendVars, stateMutex, recentDown, pollJob, newJob, callback,
                 stallRestarts, connect, callVars, downJobs, mainVars, dropped>>

-----------------------------------------------------------------------------
SystemRevoke ==
  /\ Revoke
  /\ UNCHANGED <<stateMutex, active, recentDown, pollVars, callback, stallRestarts,
                 connect, callVars, downJobs, mainVars, state, dropped>>

\* DOWN_SETTLE_MS pass.
SettleOver ==
  /\ recentDown /\ recentDown' = FALSE
  /\ UNCHANGED <<backendVars, stateMutex, active, pollVars, callback, stallRestarts,
                 connect, callVars, downJobs, mainVars, state, dropped>>

ConnectStep(c) ==
  \/ ReadConfig(c) \/ Teardown(c) \/ Drop(c) \/ Stamp(c) \/ Settle(c)
  \/ DelayOver(c) \/ Aborted(c) \/ Begin(c) \/ Prepare(c) \/ StartService(c)
  \/ TurnOn(c) \/ PublishTunnel(c) \/ UpThrows(c)
  \/ ConnectFailed(c) \/ Unlock(c)

CallerStep(c) == Lock(c) \/ ConnectStep(c) \/ OnStateChange(c)

BlockingStep(r) ==
  \/ BlockingRead(r) \/ BlockingClear(r) \/ BlockingDown(r)
  \/ BlockingUnlock(r) \/ BlockingReport(r)

MainStep ==
  \/ DisconnectReport \/ DisconnectRead \/ DisconnectLaunch
  \/ OnDestroy \/ OnDestroyStep \/ OnStateChange(Main)

LaunchedStep == LaunchedUnlock \/ OnStateChange(Launched)

PollStep(t) == Sample(t) \/ Check(t) \/ Dead(t)

Next ==
  \/ \E c \in Caller : CallerStep(c)
  \/ \E r \in Router : RouterConnect(r) \/ BlockingStop(r) \/ BlockingStep(r)
  \/ DisconnectTap \/ MainStep
  \/ \E t \in Tunnel : LaunchedDown(t) \/ PollStep(t) \/ Stall(t)
  \/ LaunchedStep
  \/ SystemRevoke \/ SettleOver

Spec == Init /\ [][Next]_vars

(***************************************************************************)
(* A thread that can run is eventually run by its dispatcher, the main     *)
(* looper does not stop, and time passes.  Nothing makes a user tap, the   *)
(* system revoke, or traffic stall.                                        *)
(***************************************************************************)
Fairness ==
  /\ \A r \in Router : WF_vars(CallerStep(r) \/ BlockingStep(r))
  /\ \A t \in Tunnel : WF_vars(CallerStep(t) \/ PollStep(t)) /\ WF_vars(LaunchedDown(t))
  /\ WF_vars(LaunchedStep)
  /\ WF_vars(MainStep)
  /\ WF_vars(SettleOver)

FairSpec == Spec /\ Fairness

-----------------------------------------------------------------------------
(* What the driver promises.                                               *)

\* A tunnel that was asked down and whose DOWN has run is held by the backend no
\* more: neither a connect() that was still bringing it up when the user tapped,
\* nor the backend's restore of an earlier tunnel, revives it.  This is what
\* stateMutex around every setState buys (WireGuardEngine.stateMutex).  Left out
\* are tunnels that onDestroy, which is not under stateMutex, has cleared from
\* under a transition or is about to.
DroppedStaysDown ==
  handle \in dropped => handle \in lost \/ main = "forget"

\* The driver with its backend implements TunnelSlot: a device is only opened
\* when the backend holds none, never for a tunnel that was asked down, and the
\* DOWN of a tunnel closes its device; a tunnel escapes that, its device left open
\* and out of reach or its DOWN ignored, only when onDestroy ran into a transition.
Slot == INSTANCE TunnelSlot
          WITH holder <- device, adrift <- lost, retired <- dropped,
               ending <- main \in Destroying
ImplementsSlot == Slot!Spec

\* A device is never opened within DOWN_SETTLE_MS of a DOWN that stamped
\* lastDownAt, whichever thread ran that DOWN and whichever thread connects.
PacedUp ==
  [][device' # device /\ device' # NoTunnel => ~recentDown]_vars

\* stopPolling can miss the loop that startPolling is just assigning, and then
\* nothing can cancel it.  It ends all the same once its tunnel is no longer the
\* active one: no watchdog of a former session lives on beside the next one.
LeftoverLoopEnds ==
  \A t \in Tunnel : poll[t] # "off" /\ active # t ~> poll[t] = "off"

\* A router's call always comes back, whatever the main thread, the watchdog,
\* the backend and the system do meanwhile: nothing leaves stateMutex held.
RouterCallReturns ==
  \A r \in Router : connect[r] # "idle" ~> connect[r] = "idle"

\* A disconnect that found a tunnel takes that tunnel down in the end, even when
\* its own connect() is still in progress and holds stateMutex.
LaunchedDownHappens ==
  \A t \in Tunnel : t \in downJobs ~> t \in dropped

\* The driver never rests on CONNECTING: each bring-up it announces ends in an
\* outcome it reports.
ConnectingResolves == state = "CONNECTING" ~> state # "CONNECTING"

\* A cancelled polling coroutine ends, wherever the cancellation found it: in
\* its loop, waiting for stateMutex, or inside the restart it called itself.
CancelledLoopEnds ==
  \A t \in Tunnel : t \in cancelled ~> t \notin cancelled

\* The watchdog's restart goes on to bring a tunnel up once it has taken the
\* stalled one down ("restarting tunnel automatically").
RestartReachesUp ==
  \A t \in Tunnel : connect[t] = "drop" ~> connect[t] = "prepare"

\* When disconnectBlocking returns there is no WireGuard device left for Android
\* to revoke from under the next engine.
BlockingStopMeansDown ==
  [][\A r \in Router :
       BlockingRead(r) /\ connect'[r] = "idle" => device = NoTunnel]_vars
=============================================================================
