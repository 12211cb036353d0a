---------------------------- MODULE XrayVpnService ----------------------------
(***************************************************************************)
(* One instance of the Xray VPN service in the :xray process, from its     *)
(* creation to onDestroy.                                                  *)
(*                                                                         *)
(* A Session is one pass of bringUp(): it names the coroutine scope made   *)
(* for it, the TUN descriptor it detaches, the core controller it          *)
(* allocates and the polling loop it starts.  A session of which nothing   *)
(* is left can be used again, so the size of Session bounds what is alive  *)
(* or leaked at one time, not how many connects there are.                 *)
(*                                                                         *)
(* Threads.  The main thread runs the handlers (START, STOP, onRevoke,     *)
(* REQ_FORCE_STOP, onDestroy) one after the other.  Each session has its   *)
(* bring-up coroutine, its polling loop and the restart its watchdog       *)
(* launches.  cleanup() is run by any of them, without a lock.             *)
(***************************************************************************)
EXTENDS Naturals

CONSTANTS
  Session,
  None,          \* null, or -1 for tunFd
  MaxRestarts    \* the watchdog's cap, 3 in the code

ASSUME NoneAssumption == None \notin Session
ASSUME RestartsAssumption == MaxRestarts \in Nat

VARIABLES
  scope, tunFd, controller, pollJob,  \* the service's fields, by session
  stallRestarts,
  isTunnelRunning,
  up,         \* where each bring-up coroutine stands
  fd,         \* is the session's detached descriptor open?
  core,       \* is the session's core running on it?
  poll,       \* the scope each polling loop runs in, None when there is none
  stopped,    \* polling loops that were cancelled and have not noticed
  clean,      \* where each thread stands in cleanup()
  main,       \* the handler the main thread is in
  service,    \* the instance's life as Android sees it
  reported,   \* the last event the UI process got; "none" before any START
  overlap,    \* history: an intent was handled in the middle of something
  alive       \* does the path to the server carry anything back?

fieldVars == <<scope, tunFd, controller, pollJob>>
loopVars == <<poll, stopped, stallRestarts>>
lifeVars == <<main, service>>
vars == <<fieldVars, isTunnelRunning, up, fd, core, loopVars, clean, lifeVars,
          reported, overlap, alive>>

Main == <<"main">>
BringUpOf(s) == <<"up", s>>
LoopOf(s) == <<"poll", s>>
RestartOf(s) == <<"restart", s>>
Thread == {Main} \cup ({"up", "poll", "restart"} \X Session)

SessionOrNull == Session \cup {None}

TypeOK ==
  /\ scope \in SessionOrNull /\ tunFd \in SessionOrNull
  /\ controller \in SessionOrNull /\ pollJob \in SessionOrNull
  /\ stallRestarts \in 0 .. MaxRestarts + 1
  /\ isTunnelRunning \in BOOLEAN
  /\ up \in [Session -> {"none", "launched", "running", "detached", "created",
                         "started", "announced", "failing"}]
  /\ fd \in [Session -> BOOLEAN]
  /\ core \in [Session -> BOOLEAN]
  /\ poll \in [Session -> SessionOrNull]
  /\ stopped \subseteq Session
  /\ clean \in [Thread -> {"off", "cancel", "core", "field", "close", "unset", "done"}]
  /\ main \in {"idle", "stop", "force", "destroy"}
  /\ service \in {"started", "stopping", "destroyed"}
  /\ reported \in {"none", "STARTED", "CONNECTED", "ERROR", "STOPPED", "FORCE_STOPPED"}
  /\ overlap \in BOOLEAN /\ alive \in BOOLEAN

Init ==
  /\ scope = None /\ tunFd = None /\ controller = None /\ pollJob = None
  /\ stallRestarts = 0
  /\ isTunnelRunning = FALSE
  /\ up = [s \in Session |-> "none"]
  /\ fd = [s \in Session |-> FALSE]
  /\ core = [s \in Session |-> FALSE]
  /\ poll = [s \in Session |-> None]
  /\ stopped = {}
  /\ clean = [h \in Thread |-> "off"]
  /\ main = "idle"
  /\ service = "started"
  /\ reported = "none"
  /\ overlap = FALSE
  /\ alive = TRUE

\* Nothing of session s is left.
Fresh(s) ==
  /\ up[s] = "none" /\ ~fd[s] /\ ~core[s] /\ poll[s] = None
  /\ s \notin {scope, tunFd, controller, pollJob}
  /\ clean[RestartOf(s)] = "off"

\* A bring-up, a teardown or a restart is in progress.
Busy ==
  \/ \E s \in Session : up[s] # "none"
  \/ \E h \in Thread : clean[h] # "off"

Overlaps(bad) == overlap' = (overlap \/ bad)

\* The reporter is the one the first START brought.
SendEvent(e) == reported' = IF reported = "none" THEN "none" ELSE e

StopSelf == service' = IF service = "destroyed" THEN "destroyed" ELSE "stopping"

Enters(h) == clean' = [clean EXCEPT ![h] = "cancel"]

Moves(s, from, to) == up[s] = from /\ up' = [up EXCEPT ![s] = to]

-----------------------------------------------------------------------------
(* bringUp().                                                              *)

\* The main thread's or the restart's part: a new scope, and a launch in it.
BringUp ==
  \E s \in Session :
    /\ Fresh(s)
    /\ scope' = s
    /\ up' = [up EXCEPT ![s] = "launched"]
    /\ UNCHANGED <<tunFd, controller, pollJob>>

\* From here on the coroutine does not suspend, so cancelling it has no effect.
Dispatch(s) ==
  /\ Moves(s, "launched", "running")
  /\ UNCHANGED <<fieldVars, isTunnelRunning, fd, core, loopVars, clean, lifeVars,
                 reported, overlap, alive>>

\* fail(): the event, then cleanup() and stopSelfCompat() on the same thread.
Fail(h) == SendEvent("ERROR") /\ Enters(h)

\* Mutant: an early return without fail().
RefusedSilently(s) ==
  /\ Moves(s, "running", "none")
  /\ UNCHANGED <<fieldVars, isTunnelRunning, fd, core, loopVars, clean, lifeVars,
                 reported, overlap, alive>>

\* No profile, no config, no TUN interface, no runtime: nothing is detached yet.
Refused(s) ==
  /\ Moves(s, "running", "failing")
  /\ Fail(BringUpOf(s))
  /\ UNCHANGED <<fieldVars, isTunnelRunning, fd, core, loopVars, lifeVars, overlap, alive>>

\* establishTun() and detachFd().
Detach(s) ==
  /\ Moves(s, "running", "detached")
  /\ fd' = [fd EXCEPT ![s] = TRUE]
  /\ tunFd' = s
  /\ UNCHANGED <<scope, controller, pollJob, isTunnelRunning, core, loopVars,
                 clean, lifeVars, reported, overlap, alive>>

NewCoreController(s) ==
  /\ Moves(s, "detached", "created")
  /\ controller' = s
  /\ UNCHANGED <<scope, tunFd, pollJob, isTunnelRunning, fd, core, loopVars,
                 clean, lifeVars, reported, overlap, alive>>

StartLoop(s) ==
  /\ Moves(s, "created", "started")
  /\ core' = [core EXCEPT ![s] = TRUE]
  /\ UNCHANGED <<fieldVars, isTunnelRunning, fd, loopVars, clean, lifeVars,
                 reported, overlap, alive>>

\* newCoreController or startLoop throws.
Throws(s) ==
  /\ up[s] \in {"detached", "created"}
  /\ up' = [up EXCEPT ![s] = "failing"]
  /\ Fail(BringUpOf(s))
  /\ UNCHANGED <<fieldVars, isTunnelRunning, fd, core, loopVars, lifeVars, overlap, alive>>

Announce(s) ==
  /\ Moves(s, "started", "announced")
  /\ isTunnelRunning' = TRUE
  /\ SendEvent("CONNECTED")
  /\ UNCHANGED <<fieldVars, fd, core, loopVars, clean, lifeVars, overlap, alive>>

\* startPolling() launches in whichever scope the field holds by now.
StartPolling(s) ==
  /\ Moves(s, "announced", "none")
  /\ poll' = [poll EXCEPT ![s] = scope]
  /\ pollJob' = IF scope = None THEN None ELSE s
  /\ UNCHANGED <<scope, tunFd, controller, isTunnelRunning, fd, core, stopped,
                 stallRestarts, clean, lifeVars, reported, overlap, alive>>

-----------------------------------------------------------------------------
(* cleanup(), by thread h.                                                 *)

CleanStep(h, from, to) == clean[h] = from /\ clean' = [clean EXCEPT ![h] = to]

\* Mutant: the descriptor is closed before the core is stopped.
CancelThenClose(h) ==
  /\ CleanStep(h, "cancel", "close")
  /\ isTunnelRunning' = FALSE
  /\ stopped' = stopped \cup {s \in Session : poll[s] # None /\ (s = pollJob \/ poll[s] = scope)}
  /\ up' = [s \in Session |-> IF s = scope /\ up[s] = "launched" THEN "none" ELSE up[s]]
  /\ pollJob' = None
  /\ scope' = None
  /\ UNCHANGED <<tunFd, controller, fd, core, poll, stallRestarts, lifeVars,
                 reported, overlap, alive>>

\* Mutant: isTunnelRunning is not reset.
CancelStaysRunning(h) ==
  /\ CleanStep(h, "cancel", "core")
  /\ stopped' = stopped \cup {s \in Session : poll[s] # None /\ (s = pollJob \/ poll[s] = scope)}
  /\ up' = [s \in Session |-> IF s = scope /\ up[s] = "launched" THEN "none" ELSE up[s]]
  /\ pollJob' = None
  /\ scope' = None
  /\ UNCHANGED <<tunFd, controller, isTunnelRunning, fd, core, poll, stallRestarts,
                 lifeVars, reported, overlap, alive>>

\* Cancelling a scope ends the loops in it at their next suspension, and drops a
\* bring-up that was launched and not dispatched.  One that runs never suspends.
Cancel(h) ==
  /\ CleanStep(h, "cancel", "core")
  /\ isTunnelRunning' = FALSE
  /\ stopped' = stopped \cup {s \in Session : poll[s] # None /\ (s = pollJob \/ poll[s] = scope)}
  /\ up' = [s \in Session |-> IF s = scope /\ up[s] = "launched" THEN "none" ELSE up[s]]
  /\ pollJob' = None
  /\ scope' = None
  /\ UNCHANGED <<tunFd, controller, fd, core, poll, stallRestarts, lifeVars,
                 reported, overlap, alive>>

StopCore(h) ==
  /\ CleanStep(h, "core", "field")
  /\ core' = [s \in Session |-> core[s] /\ s # controller]
  /\ UNCHANGED <<fieldVars, isTunnelRunning, up, fd, loopVars, lifeVars, reported,
                 overlap, alive>>

DropController(h) ==
  /\ CleanStep(h, "field", "close")
  /\ controller' = None
  /\ UNCHANGED <<scope, tunFd, pollJob, isTunnelRunning, up, fd, core, loopVars,
                 lifeVars, reported, overlap, alive>>

\* Mutant: the descriptor is left to the Go side.
CloseFdSkipped(h) ==
  /\ CleanStep(h, "close", IF tunFd = None THEN "done" ELSE "unset")
  /\ UNCHANGED <<fieldVars, isTunnelRunning, up, fd, core, loopVars, lifeVars,
                 reported, overlap, alive>>

CloseFd(h) ==
  /\ CleanStep(h, "close", IF tunFd = None THEN "done" ELSE "unset")
  /\ fd' = [s \in Session |-> fd[s] /\ s # tunFd]
  /\ UNCHANGED <<fieldVars, isTunnelRunning, up, core, loopVars, lifeVars, reported,
                 overlap, alive>>

UnsetFd(h) ==
  /\ CleanStep(h, "unset", "done")
  /\ tunFd' = None
  /\ UNCHANGED <<scope, controller, pollJob, isTunnelRunning, up, fd, core, loopVars,
                 lifeVars, reported, overlap, alive>>

CleanupStep(h) ==
  Cancel(h) \/ StopCore(h) \/ DropController(h) \/ CloseFd(h) \/ UnsetFd(h)

-----------------------------------------------------------------------------
(* What follows cleanup() in the thread that called it.                    *)

\* fail() returns; the bring-up coroutine is over, the loop goes on to delay().
Failed(s) ==
  /\ \/ CleanStep(BringUpOf(s), "done", "off") /\ up' = [up EXCEPT ![s] = "none"]
     \/ CleanStep(LoopOf(s), "done", "off") /\ UNCHANGED up
  /\ StopSelf
  /\ UNCHANGED <<fieldVars, isTunnelRunning, fd, core, loopVars, main, reported, overlap, alive>>

\* Mutant: each restart gets a fresh budget.
RestartedAfresh(s) ==
  /\ CleanStep(RestartOf(s), "done", "off")
  /\ BringUp
  /\ stallRestarts' = 0
  /\ UNCHANGED <<isTunnelRunning, fd, core, poll, stopped, lifeVars, reported, overlap, alive>>

\* The restart brings the same profile up again, whatever happened meanwhile.
Restarted(s) ==
  /\ CleanStep(RestartOf(s), "done", "off")
  /\ BringUp
  /\ UNCHANGED <<isTunnelRunning, fd, core, loopVars, lifeVars, reported, overlap, alive>>

\* shutdown() and stopForRouter() call stopSelf; the control messenger answers.
HandlerDone ==
  /\ CleanStep(Main, "done", "off")
  /\ main' = "idle"
  /\ IF main = "destroy" THEN service' = "destroyed" ELSE StopSelf
  /\ IF main = "force" THEN SendEvent("FORCE_STOPPED") ELSE UNCHANGED reported
  /\ UNCHANGED <<fieldVars, isTunnelRunning, up, fd, core, loopVars, overlap, alive>>

-----------------------------------------------------------------------------
(* The main thread's handlers.                                             *)

\* START.  Android may or may not take a pending stopSelf back for it.
Start ==
  /\ main = "idle" /\ service # "destroyed"
  /\ BringUp
  /\ service' \in {service, "started"}
  /\ reported' = "STARTED"
  /\ Overlaps(Busy \/ scope # None)
  /\ UNCHANGED <<isTunnelRunning, fd, core, loopVars, clean, main, alive>>

Handler(name) ==
  /\ main = "idle" /\ service # "destroyed"
  /\ main' = name
  /\ Enters(Main)
  /\ Overlaps(Busy)
  /\ UNCHANGED <<fieldVars, isTunnelRunning, up, fd, core, loopVars, service, alive>>

\* The STOP intent, and onRevoke.
Shutdown == Handler("stop") /\ SendEvent("STOPPED")

\* REQ_FORCE_STOP: stopForRouter(), and no EV_STOPPED.
ForceStop == Handler("force") /\ UNCHANGED reported

OnDestroy ==
  /\ service = "stopping"
  /\ IF controller # None \/ tunFd # None
       THEN Handler("destroy") /\ SendEvent("STOPPED")
       ELSE /\ main = "idle"
            /\ service' = "destroyed"
            /\ Overlaps(Busy)
            /\ UNCHANGED <<fieldVars, isTunnelRunning, up, fd, core, loopVars,
                           clean, main, reported, alive>>

-----------------------------------------------------------------------------
(* The polling loop of session s.                                          *)

Polls(s) == poll[s] # None /\ clean[LoopOf(s)] = "off"

PollEnds(s) ==
  /\ Polls(s)
  /\ s \in stopped \/ controller = None
  /\ poll' = [poll EXCEPT ![s] = None]
  /\ stopped' = stopped \ {s}
  /\ UNCHANGED <<fieldVars, isTunnelRunning, up, fd, core, stallRestarts, clean,
                 lifeVars, reported, overlap, alive>>

\* A poll that is not silent resets silentSeconds and stallRestarts.
PollResets(s) ==
  /\ Polls(s) /\ s \notin stopped /\ controller # None
  /\ stallRestarts' = 0
  /\ UNCHANGED <<fieldVars, isTunnelRunning, up, fd, core, poll, stopped, clean,
                 lifeVars, reported, overlap, alive>>

\* down > 0: something came back through the proxy.
PollTraffic(s) == alive /\ PollResets(s)

\* down = 0 and tunUp = 0: no app sent anything in these two seconds.  The same
\* else branch, although nothing is known of the path.
PollIdle(s) == PollResets(s)

\* The eighth silent poll.  A loop stalls at most every 16 s, by which time the
\* restart it launched at its last stall has long been dispatched.
Stalls(s) ==
  /\ Polls(s) /\ s \notin stopped /\ controller # None
  /\ clean[RestartOf(s)] = "off"
  /\ Overlaps(main # "idle")
  /\ UNCHANGED <<fieldVars, isTunnelRunning, up, fd, core, poll, stopped, lifeVars,
                 alive>>

\* Mutant: no cap.
AutoRestartUncapped(s) ==
  /\ Stalls(s)
  /\ stallRestarts' = stallRestarts + 1
  /\ Enters(RestartOf(s))
  /\ UNCHANGED reported

\* autoRestart() launches its work outside the scope cleanup() cancels.
AutoRestart(s) ==
  /\ Stalls(s)
  /\ stallRestarts < MaxRestarts
  /\ stallRestarts' = stallRestarts + 1
  /\ Enters(RestartOf(s))
  /\ UNCHANGED reported

\* Only "more than MaxRestarts" matters, so the counter stays there.
GiveUp(s) ==
  /\ Stalls(s)
  /\ stallRestarts >= MaxRestarts
  /\ stallRestarts' = MaxRestarts + 1
  /\ Fail(LoopOf(s))

-----------------------------------------------------------------------------
\* The server dies or comes back, or the carrier drops the path or lets it through.
PathChanges ==
  /\ alive' = ~alive
  /\ UNCHANGED <<fieldVars, isTunnelRunning, up, fd, core, loopVars, clean, lifeVars,
                 reported, overlap>>

BringUpStep(s) ==
  \/ Dispatch(s) \/ Refused(s) \/ Detach(s) \/ NewCoreController(s)
  \/ StartLoop(s) \/ Throws(s) \/ Announce(s) \/ StartPolling(s)

LoopStep(s) == PollEnds(s) \/ PollTraffic(s) \/ PollIdle(s) \/ AutoRestart(s) \/ GiveUp(s)

Next ==
  \/ Start \/ Shutdown \/ ForceStop \/ OnDestroy \/ HandlerDone \/ PathChanges
  \/ \E h \in Thread : CleanupStep(h)
  \/ \E s \in Session : BringUpStep(s) \/ LoopStep(s) \/ Failed(s) \/ Restarted(s)

Spec == Init /\ [][Next]_vars

(***************************************************************************)
(* Every coroutine that can run is dispatched, the main looper finishes    *)
(* the handler it is in, and stopLoop and startLoop return.  Nothing makes *)
(* the user start or stop, or the path stall.                              *)
(***************************************************************************)
Fairness ==
  /\ \A h \in Thread : WF_vars(CleanupStep(h))
  /\ WF_vars(HandlerDone)
  /\ \A s \in Session :
       /\ WF_vars(BringUpStep(s))
       /\ WF_vars(LoopStep(s))
       /\ WF_vars(Failed(s))
       /\ WF_vars(Restarted(s))

FairSpec == Spec /\ Fairness

-----------------------------------------------------------------------------
(* What the service promises.  The fields are shared by all its threads    *)
(* without a lock, so most of it holds only while the intents it handles   *)
(* do not overlap a bring-up, a restart or a teardown.                     *)

\* The core is stopped before its descriptor is closed: no core ever runs on a
\* descriptor that is gone ("Order matters", cleanup).
CoreHasTun == ~overlap => \A s \in Session : core[s] => fd[s]

\* Whatever is open or running is what the fields point at, through any number
\* of connects, failures, stalls and automatic restarts: nothing leaks, and the
\* next cleanup() finds all of it.
NothingLost ==
  ~overlap => \A s \in Session : (fd[s] => tunFd = s) /\ (core[s] => controller = s)

\* When nothing is in progress the UI shows a connection exactly when a core
\* runs, and so does isTunnelRunning, which the in-process tester trusts.
UiAgrees ==
  ~overlap /\ ~Busy =>
    LET serving == \E s \in Session : core[s]
    IN  (reported = "CONNECTED" <=> serving) /\ (isTunnelRunning <=> serving)

\* A path on which every poll is silent is given up (autoRestart, "After 3
\* consecutive failures the stall is structural"): if the watchdog restarts again
\* and again, then again and again some poll was not silent.
SilentPathGivenUp ==
  []<><<\E s \in Session : AutoRestart(s)>>_vars
    => []<><<\E s \in Session : PollTraffic(s) \/ PollIdle(s)>>_vars

\* "capped at 3 tries so a dead server can't loop forever": once the user starts
\* nothing more and the path brings nothing back, the watchdog ends its restarts.
DeadServerEnds ==
  []<><<\E s \in Session : AutoRestart(s)>>_vars => []<>alive \/ []<><<Start>>_vars

\* Each START is answered: the UI does not wait on CONNECTING for ever.
StartAnswered == reported = "STARTED" ~> reported # "STARTED" \/ overlap

\* "This runs cleanup inline so the fd is closed before the caller proceeds":
\* from the acknowledgement of a forced stop until the next START, no descriptor is
\* open, so that the next engine finds the VPN slot free.
ForceStopReleases == reported = "FORCE_STOPPED" => \A s \in Session : ~fd[s]

\* "THIS is the only close in the system": when nothing is in progress an open
\* descriptor is the one tunFd will close, whatever was started over what.
ConnectLeaksNothing == ~Busy => \A s \in Session : fd[s] => tunFd = s
=============================================================================
