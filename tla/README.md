# SwiftVPN in TLA+

SwiftVPN is an Android client that drives four VPN engines behind one button.
This directory models the parts of it that keep state and are reached by several
threads or processes at once, checks them with TLC and proves the properties
that matter most with TLAPS.

## The system

| Part | State it keeps | Operations | Talks to |
|---|---|---|---|
| Router, `engine/VpnEngine.kt` | state, pending and connected uuid, active protocol, traffic, the OpenVPN binder, `disconnectPending` | `connect`, `disconnect`, callbacks of four engines | all engines, UI, tile, notification |
| WireGuard driver, `engine/WireGuardEngine.kt` | `stateMutex`, `active`, `lastDownAt`, `pollJob`, `stallRestarts` | `connect`, `disconnectAsync`, `disconnectBlocking`, polling loop with stall watchdog | router (callbacks), backend |
| WireGuard backend, `GoBackend.java` | `currentTunnel`, handle, the `vpnService` future | `setState`, `getState`, service `onCreate`/`onDestroy` | driver (`onStateChange`), Go device |
| Xray service, `xray/XrayVpnService.kt` (process `:xray`) | `scope`, `tunFd`, `controller`, `pollJob`, `stallRestarts`, `isTunnelRunning` | START, STOP, revoke, forced stop, destroy, bring-up, cleanup, polling loop with restarts | UI process (messages), libv2ray, tester |
| Xray facade and IPC, `XrayEngine`, `XrayRemote` | `activeUuid`, one pending reply, bindings | connect, test round trips, forced stop with acknowledgement | Xray service, test service |
| Xray tester, `XrayTester` | a mutex | latency, probe, download speed | libv2ray, `isTunnelRunning` |
| IKEv2 engine, `Ikev2Engine` and strongSwan | state listener, statistics job | connect, disconnect | charon |
| OpenVPN service (`de.blinkt.openvpn`, process `:openvpn`) | the session, its management socket | start, replace, stop by binder | router |
| OpenVPN control channel, `reliable.c`, `ssl.c` (vendored, built from source) | key state, send and receive buffers, pending acks | packet in, `tls_process_state`, retransmission | the peer, over UDP |
| OpenVPN packet ids, `packet_id.c`, `crypto.c` | send counter, replay window | write, test, add, reap | the peer, over UDP or TCP |
| Stores, subscriptions, usage history | files and preferences | import, refresh, remove, add | UI, router |
| Notification service, tile, crash reporter | flow subscriptions, breadcrumb file | start, stop, render | router |

What is hard here: Android has a single VPN slot, so an engine must be down
before the next one comes up, yet two of the four engines stop asynchronously.
User taps arrive on the main thread while a connect runs on an IO thread and a
polling loop decides on its own to restart the tunnel. The Xray service's fields
are shared by the main thread and any number of coroutines without a lock. The
Go runtime behind WireGuard crashes the process when transitions overlap or
follow each other too fast. `PROJECT.json` lists these places line by line under
`hazards`.

What makes each part correct, in a sentence. Driver: one paced transition at a
time, no revival of a tunnel that was taken down, nothing left waiting. Xray
service: every descriptor and core has one owner that releases it in the right
order, and the UI is told the truth. Router: the state shown belongs to the
engine that owns the slot and to the last thing the user asked for. IPC: a reply
answers the request it was sent for, and nobody waits for one that cannot come.
Control channel: an ordered stream in each direction over any network, whose
buffers never fill up for good. Packet ids: nothing accepted twice, nothing
refused without a reason. Stores: nothing deleted comes back.

## Modules

| Module | Models |
|---|---|
| `GoBackend` | `currentTunnel`, its handle, the Go devices and the backend service's life; the backend's half of each transition, as operators over the current and next state |
| `WireGuardEngine` | the driver over that backend, with its threads |
| `TunnelSlot` | abstract: one Go device, opened only when none is held and never for a retired tunnel; what the end of the hosting service can set adrift |
| `WireGuardEngineProofs` | theorems about `WireGuardEngine`, and that it implements `TunnelSlot` |
| `XrayVpnService` | one instance of the Xray service with its threads |
| `XrayVpnServiceProofs` | theorems about `XrayVpnService` |
| `VpnEngine` | the router over four engines reduced to a phase, with their reports and the OpenVPN binding |
| `VpnEngineProofs` | theorems about `VpnEngine` |
| `XrayRemote` | measurements across the process boundary: `XrayRemote.kt`, `XrayTestService.kt`, `XrayTester.kt` |
| `XrayRemoteProofs` | theorems about `XrayRemote` |
| `ControlChannel` | the OpenVPN reliability layer under the key state machine, two peers and a faulty network |
| `ControlStream` | abstract: a reliable ordered stream in each direction |
| `ControlChannelProofs` | theorems about `ControlChannel`, and that it implements `ControlStream` |
| `PacketId` | sender counter and replay window |
| `PacketIdProofs` | theorems about `PacketId`: types, no replay, no id reused |
| `ReplayTimingProofs` | theorems about `PacketId`: what is accepted in time, and only that |
| `MC*` | values, symmetry and constraint for TLC |

Definitions marked *Mutant* are not part of a specification. Each is a plausible
bug in the definition that follows it; `PROJECT.json` names the property that
notices it.

### WireGuardEngine

A router thread, a polling loop that calls `connect()`, the main thread (`Main`:
taps and `onDestroy`) and the launched DOWNs (`Launched`; one runs at a time, since
it holds the mutex) are separate threads. `connect` holds the program counter of a
caller of `connect()` or `disconnectBlocking()`, `tunnel` and `prior` its locals.
An action reaches from one access to shared state to the next: the mutex, the read
and the clearing of `active` (which the code does without the mutex), each
`setState`, and each suspension point are separate. `callback` is where each thread
stands in `onStateChange`: the report, then `stopPolling` (cancel, then the write of
`pollJob`) or `startPolling` (check, launch, assign), each access a step, because
these run unlocked on several threads; a stop can therefore null the field that a
start is just assigning, and a loop can be left that no stop reaches.

`setState(UP)` is close what is up, obtain the service, turn on, publish, report;
`onDestroy` runs between any two of these in four steps of its own (`awgTurnOff`
begins; it has returned and `currentTunnel` is nulled; the handle is forgotten; the
future is replaced). `handle` is the Java field, `device` the Go device it names.
Clearing a handle
does not close its device: `lost` records the tunnels whose device or publication
`onDestroy` wiped. `TunnelSlot` speaks of devices, not of `currentTunnel`: `holder`
is `device`, `adrift` is `lost`, `retired` the tunnels whose DOWN was asked for and
has run, `ending` that `onDestroy` is under way.

Accesses taken together: the read of `pollJob` and the `cancel()` on it; evaluating
the argument of `awgTurnOff` and Go's lookup of it; the two stores of a locked DOWN
and its `awgTurnOff`. Handles are named by the tunnel they were opened for; Go
hands out the lowest free number, which could only matter to the numbers themselves.

A `WgTunnel` is compared by identity, so it is a model value; `made` remembers which
were created. Whether a statistics sample shows traffic, silence or the eighth
silent poll is a nondeterministic choice; a stall requires that the loop's tunnel
is the backend's current one, since the backend gives zero counters otherwise.
Cancellation of a coroutine acts at suspension points only: waiting for the mutex
and `delay` in `connect()`, the top and the `delay` of the loop. Time is the flag
`recentDown`, set with `lastDownAt` and cleared by `SettleOver`; the wait in
`connect()` ends after it is cleared. `AUTH_FAILED` and `NO_NETWORK` are one state.

### XrayVpnService

A session is one pass of `bringUp()`. The main thread's handlers are sequential;
the bring-up coroutine, the polling loop and the restart run beside them.
`cleanup()` is five steps, each one access to a shared field or a native call,
and can be under way in several threads. A bring-up that was launched but not
dispatched is dropped by cancelling its scope; one that was dispatched has no
suspension point and is not. `startPolling` runs in whichever scope the field
holds by then, as in the code. Sessions with nothing left are used again. Two
timing facts are assumed: a loop stalls at most once in 16 s, so the restart it
launched has at least been dispatched before it stalls again; and messages from
one process to the UI's messenger arrive in order (binder one-way calls), so
`reported` is the last one sent. The module covers one instance of the service;
after `onDestroy` Android makes a new one with fresh fields.

A poll that is not silent resets `stallRestarts`. `PollTraffic` is the poll that saw
something come back, which needs `alive`; `PollIdle` is the poll in which no app sent
anything, which takes the same branch of the code whatever the path is like. `alive`
is whether the path to the server works and changes at any time (`PathChanges`).

`overlap` is a history variable. It becomes true when an intent is handled while
a bring-up, a cleanup or a restart is under way, when START arrives over a live
session, or when a loop stalls during a handler. The code has no protection
against these, and two of the violation runs show what then happens; the properties
of the passing run are what the service guarantees as long as it stays false.

### VpnEngine

`call` is the program counter of a coroutine in `connect()` and the profile it
was given. An action reaches from one access to a shared field or engine to the
next: the four stops of `stopOtherEngine`, the two claims (`_pendingUuid`, then
`_activeProtocol`) and the start are separate steps, because nothing locks them
against a second `connect()` or a tap. `disconnect()` runs on the main thread and
is one action. A report of OpenVPN, Xray or IKEv2 passes the gate on
`activeProtocol` in one step (`Gate`) and changes the flows in another (`Handle`);
WireGuard's callbacks run on the thread that holds the driver's mutex and are
part of its steps. The engines are external to this module and keep what the
router can tell apart: off, asked for, OpenVPN's management socket open, OpenVPN
replacing a session, up. Their stops are counters of stops on their way. When an
engine comes up, Android revokes the one that was up. `bindService` may be refused
(`BindTunnelService`), which the code logs at most.

`earlier` are the profiles of starts that a later start of the same engine has
overtaken. OpenVPN handles start intents in order, so the earlier one comes first
and is replaced (`OpenVpnLaunchEarlier`). A START of Xray neither cancels nor waits
for the bring-up under way, so the overtaken one may come up before or after the
latest, or fail and take down what is up (`OvertakenUp`, `OvertakenFails`). It is a
set: two overtaken starts of one profile are one. While the latest Xray START is
posted, a former session that is still up is part of that phase. OpenVPN's exits
without a session (profile not found, permission withdrawn) are modelled where
nothing is being replaced. `StopArrives` stands for the arrival of a stop at three
engines: `OpenVPNService.stopVPN` (513-518), `XrayVpnService.onStartCommand` and
`shutdown` (105-110, 402-406) and the IKEv2 service's disconnect; likewise
`UpReports` for the reports of Xray (`XrayVpnService.kt:221-224, 473-476`), IKEv2
(`Ikev2Engine.kt:107-129`) and OpenVPN.

`clash` is a history variable, true once calls overlap each other or a tap, a
claim overtakes a report that has passed the gate, a call is refused before it
reaches its engine (unreadable WireGuard profile, missing OpenVPN profile, refused
IKEv2 connect), or Android takes the VPN from the active engine or WireGuard. The
code has no protection there and nothing true can be said of what is shown; the
two display properties hold while it is false.

### XrayRemote

A request is one coroutine in `roundTrip()`; its place is between two accesses to
`requestMutex`, the binding, `pending` or its deferred. Replies carry no request
id in the code, so a reply completes whatever is `pending`; the model tags it with
its request to say whose it was. Death of `:xray` loses the jobs, not the replies
already sent, and is reported after them (one binder thread delivers both). `via`
is the process behind the binder a request holds, by the number of deaths before
it, because a request may still hold the binder of a process that is gone.
A timeout may win against a reply that arrives just after it fired. The callers run
in a `viewModelScope` while `XrayRemote` lives as long as the process, so a request
can also be cancelled at each place where it suspends (`Cancelled`): the mutex is
released, `pending` and the job in `:xray` stay. `left` are the requests that went
away from `await` without an answer, by timeout or cancellation.

### ControlChannel

A peer's steps are one iteration of `tls_process_state` and the arrival of one
packet (`tls_pre_decrypt`). The iteration's blocks are operators on a key state,
composed in the source's order; an early return is a step of its own (`Transmit`,
`StopProcessing`, `NegotiationTimeout`, `TlsError`), and `again` is
`continue_tls_process`, during which no packet is taken. Abstracted: timers and the
count of later acks, since `Transmit` may pick any packet that was sent before
(early is a fault, counted by `MaxFaults`; late is free); TLS records, which are a
sequence of items whose last one completes the flight; the acks on a dedicated ACK
packet, `RELIABLE_ACK_SIZE` (8) in the code (`ssl.c:3099`), which are
`DedicatedMax`. The TLS object always takes a whole packet: `ct_in` is a memory BIO
(`ssl_openssl.c:2236`), so status 0 of `key_state_write_ciphertext` does not occur.
The peer is the same code run as a server. Not modelled: the `hold` of the
management interface, the resend of the wrapped client key and `S_PRE_START_SKIP` of
tls-crypt-v2, renegotiation, payload after `S_ACTIVE`, wrap-around of the 32-bit id,
and the reset of a session after `S_ERROR`.

### PacketId

One sender and one receiver; `sent` is what the network holds, forever, and a
delivery of any of it at any time is `CheckReplay`, which reaps, tests and adds as
`crypto_check_replay` does. The circular list is a sequence, newest mark first.
Long and short form and both modes (backtrack for UDP, in order for TCP) are
chosen in `Init`. Not modelled: the persisted id file and epoch keys.

## Runs

| Run | Instance | Shows |
|---|---|---|
| `wireguard` | 1 router, 2 tunnels, cap 3, 1 stop request, fair; 101 thousand states | `TypeOK`, `DroppedStaysDown`, `PacedUp`, `ImplementsSlot`, `RouterCallReturns`, `LaunchedDownHappens`, `ConnectingResolves`, `CancelledLoopEnds`, `LeftoverLoopEnds` |
| `watchdog_restart` | same without a stop request, violated | the watchdog cancels its own coroutine and takes the tunnel down for good |
| `blocking_stop` | same with 2 stop requests, violated | `disconnectBlocking` returns with the device up after a tap |
| `xray_service` | 3 sessions, cap 3, fair, no overlap; 16 thousand states | `TypeOK`, `CoreHasTun`, `NothingLost`, `UiAgrees`, `SilentPathGivenUp`, `StartAnswered` |
| `xray_force_stop` | 2 sessions, violated | a forced stop is acknowledged with a descriptor open, detached by a bring-up that was dispatched as the stop began |
| `xray_dead_server` | 2 sessions, fair, no overlap, violated | idle polls renew the restart budget and a dead server is retried for ever |
| `xray_leak` | 2 sessions, violated | START over a session loses its descriptor and core |
| `router` | 2 profiles for each engine, 1 for IKEv2, 2 callers, 2 connects, 1 tap, 1 death, symmetric; 1.15 million states | `TypeOK`, `UpIsShown`, `RightRow` |
| `takeover` | 1 caller, 3 connects, violated | another engine is started while OpenVPN, asked for but not bound, goes on starting |
| `xray_remote` | 3 requests, 2 deaths, fair; 115 thousand states | `TypeOK`, `OneCore`, `ForeignReplyIsLate`, `SomethingComes`, `RequestReturns` |
| `control_channel` | buffers of 2, flights of 1 and 3 packets, 1 fault, fair; 21 thousand states | `TypeOK`, `NothingDropped`, `RoomForNext`, `OutputRoom`, `ActiveMeansKeys`, `ImplementsStream`, `Negotiated` |
| `replay_window` | window 2, time 1, reap 2, ids to 4, 6 packets, clock to 7; 270 thousand states | `TypeOK`, `NoReplay`, `NoFalseAlarm`, `TimelyOnly`, `NoIdReused` |

Bounds. Two tunnel objects let a session that goes and one that comes, each with its
polling loop, a restart and a launched DOWN, overlap in every way; the bound also
limits how often `connect()` is called. The four safety properties are proved for
any number of tunnels and routers, and were also checked once with three tunnels
(1.5 million states), where a stale one, a live one and one under construction
coexist. A router of one thread is used because the tile and the app reach the
driver one after the other through the mutex. `MaxEvents`, in the MC module, bounds
the taps, blocking stops and revocations; `connect()`, stalls, failures and the
DOWNs of each are not bounded by it. In `xray_service` sessions are recycled, so
restarts are unbounded, and three sessions let a stopped loop of a former session
linger next to a teardown and a bring-up. `Calm` cuts off states after an overlap:
the checked properties (other than types) are vacuous there. In `router` two
connects put every ordered pair of engines one after the other and at once,
including a second profile of the same engine, with the late reports of the first
arriving in the second; three connects of one caller were checked once over two
OpenVPN profiles and a WireGuard one (12 million states), and without taps over two
Xray profiles, an IKEv2 and a WireGuard one, and gave nothing new. In `xray_remote`
a third request can be answered by a second one's late reply, whose own was answered
by the first one's. In `control_channel` the server's flight is longer than the send
window, so the window fills, and one fault (a loss, a duplicate, an early
retransmission, a TLS error or a negotiation timeout) falls at every place; two
faults with a flight of two packets were checked once for the safety properties (390
thousand states). In `replay_window` the ids go to twice the window and roll over,
and the clock outlasts a reap after an expiry. `CHECK_DEADLOCK FALSE` is given where
the modelled run ends: a service instance ends with `onDestroy`, and the bounded
calls, requests, negotiation and packets are used up.

Fairness. Weak fairness for each thread that can take a step, because coroutine
dispatchers and the main looper run what is ready and the native calls return. Time
passes (`SettleOver`). User actions, system revocation, destruction of the Xray
service, stalls and the path are not fair. `VpnEngine` assumes none. `XrayRemote`
assumes that coroutines go on and timeouts fire, and nothing of the `:xray` process.
`ControlChannel` assumes that the event loop passes, retransmissions happen and what
is not lost is delivered; faults are finite, as no negotiation survives a network
that loses everything. No strong fairness is assumed anywhere.

### Observations

Besides the six findings in `PROJECT.json`, modelling met behaviour that no
document contradicts outright and no property can state positively:

- with three tunnels, `onDestroy` running into a `setState(UP)` can leave
  `currentTunnel` set with the handle at -1: a later DOWN of that tunnel does nothing,
  and a later connect that fails brings it back as the tunnel to restore. This is
  what `lost` exempts from `DroppedStaysDown` and `ImplementsSlot`;
- `blocking_stop` also has a shorter cause: a stale polling loop that finds its own
  tunnel down clears `active` of the new one (`WireGuardEngine.kt:371`);
- that `onDestroy` takes no lock also means that a `connect()` can open its device
  while the revoked one is still inside `Close()` (`GoBackend.java:521`), although
  `WireGuardEngine.kt:62-64` says 'the only defence is to never let transitions overlap';
- two Xray profiles connected in a row: the first bring-up is neither cancelled nor
  awaited (`XrayVpnService.kt:129, 138-141`), can finish last, and its tunnel is then up
  under the row of the second, which `connectXray` named at once. TLC finds it when
  `RightRow` is stated for Xray too;
- 'A stop requested before the binding completed must still happen' (`VpnEngine.kt:133`)
  does not always: the remembered stop can reach `OpenVPNService` before its management
  socket is open and is dropped there (`OpenVPNService.java:513-518`), or `bindService`
  is refused, which is only logged (`VpnEngine.kt:1168-1170`);
- a peer that is a server can turn active while its key material is still in the TLS
  object: a full send window is emptied by acks, and `reliable_empty` (`ssl.c:2776`)
  is true before the rest of the output moved on. The app only runs the client;
- a death of `:xray` leaves `roundTrip()` as an exception (`XrayRemote.kt:194`)
  where its comment (171-173) speaks of null;
- connecting WireGuard over WireGuard clears the pending profile on the way down;
  a late EV_STOPPED of an old Xray session clears `XrayEngine.activeUuid` of the new
  one; an unreadable WireGuard profile leaves CONNECTING on show; a refused IKEv2
  connect shows ERROR while the earlier tunnel is still up;
- `XrayTester.kt:205` looks at `isTunnelRunning` before it waits for its mutex.

## Proofs

`WireGuardEngineProofs` proves, for any sets of routers and tunnels and any cap,
type correctness, `DroppedStaysDown`, `PacedUp` and the refinement of `TunnelSlot`.
None is inductive alone. The invariant `IInv` adds that the holder of the mutex is
alone in the locked part of `connect()` and `disconnectBlocking()` (`LockInv`); that
tunnel objects are made once and belong to one call (`OwnInv`) and are unknown to
every other thread until `Begin` (`PrivateInv`), so nobody can have dropped them;
that a DOWN names a tunnel (`DownInv`); that `currentTunnel` and the handle agree,
except between turning on and publishing and for what `onDestroy` cleared
(`FieldsInv`); that neither the tunnel being brought up nor the one that may be
restored has been dropped while the mutex is held, unless `onDestroy` interfered
(`UpInv`); and that no DOWN is stamped between the settle wait and the UP
(`PacedInv`). The refinement maps every step to `Claim`, `Release`, `Retire`,
`Forget`, `ServiceEnds` or a stutter; that a device is only opened when none is held
is the backend's test of the handle, since the handle names the device it can reach;
that a DOWN closes its tunnel's device is `FieldsInv`.

`XrayVpnServiceProofs` proves type correctness outright, and `CoreHasTun`,
`NothingLost` and `UiAgrees`, for any number of sessions and any cap. The
invariant says, while `overlap` is false: one thread works at a time (`OneInv`),
everything alive belongs to the session in `scope` until it is cancelled
(`ScopeInv`), what the fields hold at each stage (`FieldInv`), and what has been
reported (`ReportInv`). `StallsAlone` is the step that needs an argument: a loop
that was not cancelled is the one in `scope`, hence nothing else is under way
when it stalls.

`XrayRemoteProofs` proves type correctness, `OneCore`, `ForeignReplyIsLate` and
`SomethingComes` for any set of requests and any number of deaths. The invariant
follows the reply of each request, its *token*: there is none before the request
is sent (`FreshInv`), at most one afterwards, as a job or as a reply, and jobs only
in a living process (`TokenInv`); a request that has its own reply or was told of
the death has no token left, and one that returned with its token outside has lost
it (`SettledInv`). `pending` is the request that waits (`PendInv`, `PublishedInv`),
so only a lost reply can reach a foreign deferred (`ForeignInv`). `ViaInv` says
that a request which was told of the death before it sent cannot send to the
process that came after; without it a woken request could leave a job behind.

`PacketIdProofs` proves type correctness, `NoReplay` and `NoIdReused` for every
window length, timeout, reap interval and counter width. `Seen(r, m)` says that
window `r` will reject `m`: it is of an earlier time, behind the window, or marked.
Each operator is shown to forget nothing: expiring marks (`ReapTestSeen`), starting
a new list (`RestartSeen`, which needs that an empty list belongs to a receiver
that has accepted nothing, `EmptyInv`), pushing marks (`AdvanceSeen`, where a mark
moves by the distance the newest id moves) and marking (`MarkSeen`); and what is
seen fails the test (`SeenFails`). `SendInv` keeps every id on the wire behind the
sender's counter and time, so that a rollover, which needs a later time, is new.

`ReplayTimingProofs` adds `NoFalseAlarm` and `TimelyOnly`. Rejecting is not enough
for them: the list of marks has to say *when* and *whether* each packet was
accepted. `TimingInv` relates it to the set of accepted packets and their times: a
time in the list is that of the packet in its place (`Truthful`), the place of an
accepted packet shows its time until it expires (`Marked`), a place expires only
because a packet there or ahead of it is too old (`Overdue`), what is behind an
expired place is expired (`Suffix`), no time ahead of an open place was too old at
the last reap (`Swept`), the list is a whole window long or reaches back to the
first id (`Covers`), and its newest id was accepted and nothing beyond it (`Top`,
`Behind`). `ReapKeeps`, `RestartKeeps`, `AdvanceKeeps` and `MarkKeeps` carry this
through the four operators, `AddKeeps` through their composition. `TimelyOnly`
then follows from `Marked`, `Suffix` and `Swept`; `NoFalseAlarm` from `Covers`,
`Truthful` and `Overdue`. `NoFalseAlarm` is a state invariant: it asks of every
reachable window and every packet on the wire what `Test` would say after the reap, so
a refusal that changes nothing is seen too.

`ControlChannelProofs` proves types, `NothingDropped`, `RoomForNext`, `OutputRoom`,
`ActiveMeansKeys` and the refinement of `ControlStream`, for all buffer sizes and
flights and any number of faults. Each peer is `Good`: it acknowledges only what
arrived (`AckInv`), its send buffers hold what it wrote within one window
(`SendInv`), its receive buffers lie within one window of the next id (`RecInv`),
and it has plaintext, or is past `S_GOT_KEY`, only with the other's key read, the
server before it sends its own (`KeyInv`). Between the peers, what one has buffered
or handed on is what the other wrote (`Link`), every packet is still buffered by
its sender or has arrived (`Kept`), and packets in flight carry what was written
and acknowledge what arrived (`NetInv`). A pass of `tls_process_state` is a
sequence of blocks: each is shown to keep `Good` and to write on, free nothing and
hand on at most one packet (`Moves`); an arriving packet frees only what it
acknowledges and buffers only itself (`Hears`). One lemma for each of the two kinds
of step then covers every action. `OutputRoom` and `RoomForNext` count: ids are
distinct and lie in a window, so there are no more of them than buffers.

`VpnEngineProofs` proves types, `UpIsShown` and `RightRow` for any profiles, callers
and number of calls, taps and deaths. The invariant has two layers. `Shape` holds
always: types, reports that say something (`ReportInv`), calls that have a profile
and a driver lock with one holder, who owns the posted tunnel (`CallInv`). `Shown`
holds until two calls overlap: one call at a time, which owns the protocol from its
claim on, with only the active engine's reports admitted (`OrderInv`); the last
report on its way is the CONNECTED of the tunnel that is up (`ShownInv`); and the
last report that names a profile names that tunnel's, or the row already does
(`RowInv`, for the engines other than Xray). `EarlierInv` says which engines' starts
can be overtaken. Most actions are *calm*: they leave the active engine and its
reports alone, or only take its reports one place further; the steps of an engine
and the claims and starts of `connect` are argued one by one.

Assumptions on constants: null values differ from objects, routers and tunnels
are disjoint, caps, bounds and timeouts are natural numbers, windows, the reap
interval and the counter width are not zero.

Model-checked only: the liveness properties (`RouterCallReturns`,
`LaunchedDownHappens`, `ConnectingResolves`, `CancelledLoopEnds`,
`LeftoverLoopEnds`, `SilentPathGivenUp`, `StartAnswered`,
`RequestReturns`, `Negotiated`), since liveness under fairness is outside the
prover's reach. Every invariant and every other property of the passing runs is a
theorem. The inductive invariants of `VpnEngine` and `ControlChannel` and
`TimingInv` were themselves checked by TLC on the instances of the runs before they
were proved.

## Plan

Done: WireGuard driver and backend; Xray service; router; Xray measurements;
OpenVPN control channel; packet ids; and the proofs of their safety properties and
refinements.

Next, in this order:

1. The steps behind the liveness properties: for `RequestReturns` and
   `StartAnswered`, the ranking of stages each action keeps or lowers, as action
   properties.
2. Stores, subscriptions and usage history: refresh against remove and import,
   add against remove, restart between two writes.
3. The tester against the tunnel: `XrayTester`'s check of `isTunnelRunning`
   composed with `XrayVpnService`.

## Not modelled

Screens and theming, share-link and JSON text, delay measurement, backup and QR
code, which are sequential or pure I/O. The stores, the usage history, the
notification service and the breadcrumb are small and left to the plan. The
vendored trees (OpenSSL, mbedTLS, LZO, lz4, strongSwan, the amneziawg Go runtime
and the rest of OpenVPN) make up nearly all of the repository's lines; they are
cryptography, option parsing and socket I/O with no state of this application, and
their observable behaviour appears as nondeterminism where the modelled code calls
them. `PROJECT.json` lists every part with its status.
