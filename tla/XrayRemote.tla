------------------------------ MODULE XrayRemote ------------------------------
(***************************************************************************)
(* Measuring Xray servers across the process boundary: the round trips of  *)
(* XrayRemote.kt in the UI process, the jobs of XrayTestService.kt and the *)
(* test cores of XrayTester.kt in the :xray process, which may die at any  *)
(* time.                                                                   *)
(*                                                                         *)
(* A request is one coroutine in roundTrip().  Requests take turns under   *)
(* requestMutex; the single `pending' names the one whose deferred the     *)
(* reply handler completes.  Replies carry no request id.                  *)
(***************************************************************************)
EXTENDS Naturals, Sequences, FiniteSets

CONSTANTS
  Request,    \* the requests made
  None,       \* null
  Dead,       \* the exception of onServiceDisconnected
  MaxDeaths   \* bound on the deaths of the :xray process

ASSUME RemoteAssumption ==
  /\ None \notin Request /\ Dead \notin Request /\ None # Dead
  /\ MaxDeaths \in Nat

VARIABLES
  at,        \* each request's place in roundTrip()
  lock,      \* requestMutex
  bind,      \* testService: "none", "asked" for or "bound"
  via,       \* the process whose binder each request holds, by its number
  pending,   \* the request whose deferred is pending
  deferred,  \* each request's deferred: the request whose reply completed it
  answer,    \* what each request returned
  left,      \* history: the requests that left the await: timed out or cancelled
  alive,     \* the process behind the binder lives
  job,       \* each request's job in :xray
  core,      \* XrayTester.mutex
  replies,   \* the replies on their way to the UI process
  deaths     \* deaths so far

ui == <<at, lock, via, pending, answer, left>>
xray == <<alive, job, core, deaths>>
vars == <<ui, bind, deferred, replies, xray>>

Init ==
  /\ at = [r \in Request |-> "idle"]
  /\ lock = None /\ bind = "none" /\ pending = None
  /\ via = [r \in Request |-> 0]
  /\ deferred = [r \in Request |-> None]
  /\ answer = [r \in Request |-> None]
  /\ left = {}
  /\ alive = FALSE
  /\ job = [r \in Request |-> "none"]
  /\ core = None /\ replies = <<>>
  /\ deaths = 0

-----------------------------------------------------------------------------
(* roundTrip().                                                            *)
Goto(r, place) == at' = [at EXCEPT ![r] = place]

Call(r) ==
  /\ at[r] = "idle"
  /\ Goto(r, "lock")
  /\ UNCHANGED <<lock, bind, via, pending, deferred, answer, left, replies, xray>>

(* Mutant of Lock: requests overlap.                                       *)
LockAnyway(r) ==
  /\ at[r] = "lock"
  /\ lock' = r
  /\ Goto(r, "ensure")
  /\ UNCHANGED <<bind, via, pending, deferred, answer, left, replies, xray>>

Lock(r) ==
  /\ at[r] = "lock" /\ lock = None
  /\ lock' = r
  /\ Goto(r, "ensure")
  /\ UNCHANGED <<bind, via, pending, deferred, answer, left, replies, xray>>

(* The request ends with this answer, and withLock lets go.                *)
Return(r, a) ==
  /\ Goto(r, "done")
  /\ answer' = [answer EXCEPT ![r] = a]
  /\ lock' = None

(* The request holds the binder of this process from now on: its number is *)
(* that of the deaths before it, less one if it is dead itself.            *)
Hold(r) == via' = [via EXCEPT ![r] = IF alive THEN deaths ELSE deaths - 1]

(* ensureTestBound: bound already, or the bind is asked for and awaited.   *)
EnsureTestBound(r) ==
  /\ at[r] = "ensure"
  /\ IF bind = "bound" THEN Goto(r, "send") /\ Hold(r) /\ UNCHANGED bind
     ELSE Goto(r, "binding") /\ bind' = "asked" /\ UNCHANGED via
  /\ UNCHANGED <<lock, pending, deferred, answer, left, replies, xray>>

BindRefused(r) ==
  /\ at[r] = "ensure" /\ bind # "bound"
  /\ Return(r, None)
  /\ UNCHANGED <<bind, via, pending, deferred, left, replies, xray>>

BindWaitOver(r) ==
  /\ at[r] = "binding"
  /\ IF bind = "bound" THEN Goto(r, "send") /\ Hold(r) /\ UNCHANGED <<answer, lock>>
     ELSE Return(r, None) /\ UNCHANGED via
  /\ UNCHANGED <<bind, pending, deferred, left, replies, xray>>

SetPending(r) ==
  /\ at[r] = "send"
  /\ pending' = r
  /\ Goto(r, "sending")
  /\ UNCHANGED <<lock, bind, via, deferred, answer, left, replies, xray>>

(* A binder whose process is gone throws.                                  *)
Send(r) ==
  /\ at[r] = "sending"
  /\ IF alive /\ via[r] = deaths
       THEN /\ job' = [job EXCEPT ![r] = "sent"]
            /\ Goto(r, "await")
            /\ UNCHANGED <<pending, answer, lock>>
       ELSE /\ pending' = None
            /\ Return(r, None)
            /\ UNCHANGED job
  /\ UNCHANGED <<bind, via, deferred, left, alive, core, replies, deaths>>

Reply(r) ==
  /\ at[r] = "await" /\ deferred[r] \in Request
  /\ pending' = None
  /\ Return(r, deferred[r])
  /\ UNCHANGED <<bind, via, deferred, left, replies, xray>>

(* The timeout wins over a reply that came after it fired, before the      *)
(* coroutine went on.                                                      *)
TimeOut(r) ==
  /\ at[r] = "await"
  /\ pending' = None
  /\ left' = left \cup {r}
  /\ Return(r, None)
  /\ UNCHANGED <<bind, via, deferred, replies, xray>>

(* Mutant of Thrown: the exception leaves requestMutex held.               *)
ThrownHolding(r) ==
  /\ at[r] = "await" /\ deferred[r] = Dead
  /\ Goto(r, "done")
  /\ answer' = [answer EXCEPT ![r] = Dead]
  /\ UNCHANGED <<lock, bind, via, pending, deferred, left, replies, xray>>

(* await() throws what completed the deferred: `pending' stays as it is.   *)
Thrown(r) ==
  /\ at[r] = "await" /\ deferred[r] = Dead
  /\ Return(r, Dead)
  /\ UNCHANGED <<bind, via, pending, deferred, left, replies, xray>>

(* The caller's viewModelScope is cancelled, while XrayRemote lives on: the *)
(* coroutine leaves where it suspends.  requestMutex is released; `pending' *)
(* stays as it is, and so does the job in :xray.                           *)
Cancelled(r) ==
  /\ at[r] \in {"lock", "binding", "await"}
  /\ Goto(r, "done")
  /\ lock' = IF lock = r THEN None ELSE lock
  /\ left' = IF at[r] = "await" THEN left \cup {r} ELSE left
  /\ UNCHANGED <<bind, via, pending, deferred, answer, replies, xray>>

-----------------------------------------------------------------------------
(* The main thread of the UI process.                                      *)
Complete(a) ==
  IF pending # None /\ deferred[pending] = None
    THEN deferred' = [deferred EXCEPT ![pending] = a]
    ELSE UNCHANGED deferred

HandleReply ==
  /\ replies # <<>>
  /\ Complete(Head(replies))
  /\ replies' = Tail(replies)
  /\ UNCHANGED <<ui, bind, xray>>

OnServiceConnected ==
  /\ bind = "asked"
  /\ bind' = "bound" /\ alive' = TRUE
  /\ UNCHANGED <<ui, deferred, replies, job, core, deaths>>

(* Mutant of OnServiceDisconnected: the waiter is not woken.               *)
OnServiceDisconnectedSilently ==
  /\ bind = "bound" /\ ~alive /\ replies = <<>>
  /\ bind' = "asked"
  /\ UNCHANGED <<ui, deferred, replies, xray>>

(* After the replies that were sent before the process died; Android       *)
(* starts the process again for the binding.                               *)
OnServiceDisconnected ==
  /\ bind = "bound" /\ ~alive /\ replies = <<>>
  /\ bind' = "asked"
  /\ Complete(Dead)
  /\ UNCHANGED <<ui, replies, xray>>

-----------------------------------------------------------------------------
(* The :xray process.                                                      *)
JobStep(r, from, to) == job[r] = from /\ job' = [job EXCEPT ![r] = to]

(* A probe or speed test is refused while a tunnel runs, and any test may  *)
(* give up on its profile or the runtime; else it waits for its turn.      *)
Admit(r) ==
  /\ JobStep(r, "sent", "wait")
  /\ UNCHANGED <<ui, bind, deferred, replies, alive, core, deaths>>

Refuse(r) ==
  /\ JobStep(r, "sent", "answer")
  /\ UNCHANGED <<ui, bind, deferred, replies, alive, core, deaths>>

(* Mutant of StartCore: cores are not serialised.                          *)
StartCoreAnyway(r) ==
  /\ JobStep(r, "wait", "core")
  /\ core' = r
  /\ UNCHANGED <<ui, bind, deferred, replies, alive, deaths>>

StartCore(r) ==
  /\ JobStep(r, "wait", "core")
  /\ core = None
  /\ core' = r
  /\ UNCHANGED <<ui, bind, deferred, replies, alive, deaths>>

(* The core is stopped and its cooldown over.                              *)
StopCore(r) ==
  /\ JobStep(r, "core", "answer")
  /\ core' = None
  /\ UNCHANGED <<ui, bind, deferred, replies, alive, deaths>>

SendReply(r) ==
  /\ JobStep(r, "answer", "none")
  /\ replies' = Append(replies, r)
  /\ UNCHANGED <<ui, bind, deferred, alive, core, deaths>>

(* A native fault or the low memory killer.                                *)
Die ==
  /\ alive /\ deaths < MaxDeaths
  /\ alive' = FALSE
  /\ job' = [r \in Request |-> "none"]
  /\ core' = None
  /\ deaths' = deaths + 1
  /\ UNCHANGED <<ui, bind, deferred, replies>>

-----------------------------------------------------------------------------
RoundTrip(r) ==
  \/ Lock(r) \/ EnsureTestBound(r) \/ BindRefused(r) \/ BindWaitOver(r)
  \/ SetPending(r) \/ Send(r) \/ Reply(r) \/ TimeOut(r) \/ Thrown(r)

Job(r) == Admit(r) \/ Refuse(r) \/ StartCore(r) \/ StopCore(r) \/ SendReply(r)

Next ==
  \/ \E r \in Request : Call(r) \/ RoundTrip(r) \/ Cancelled(r) \/ Job(r)
  \/ HandleReply \/ OnServiceConnected \/ OnServiceDisconnected \/ Die

Spec == Init /\ [][Next]_vars

(* The dispatchers run every coroutine that can go on, and timeouts fire;  *)
(* nothing is assumed of the :xray process, nor of the callers' scopes.    *)
Fairness == \A r \in Request : WF_vars(RoundTrip(r))

FairSpec == Spec /\ Fairness

-----------------------------------------------------------------------------
(* TypeOK: the shape of every variable; the request that is between        *)
(* taking and leaving requestMutex is the one that holds it.               *)
TypeOK ==
  /\ at \in [Request -> {"idle", "lock", "ensure", "binding", "send", "sending", "await", "done"}]
  /\ lock \in Request \cup {None}
  /\ \A r \in Request :
       at[r] \in {"ensure", "binding", "send", "sending", "await"} <=> lock = r
  /\ via \in [Request -> Nat]
  /\ bind \in {"none", "asked", "bound"} /\ alive \in BOOLEAN
  /\ pending \in Request \cup {None} /\ core \in Request \cup {None}
  /\ deferred \in [Request -> Request \cup {None, Dead}]
  /\ answer \in [Request -> Request \cup {None, Dead}]
  /\ left \in SUBSET Request
  /\ job \in [Request -> {"none", "sent", "wait", "core", "answer"}]
  /\ replies \in Seq(Request)
  /\ deaths \in 0 .. MaxDeaths

(* OneCore: at most one test core exists in the :xray process, however     *)
(* many measurements of requests that left are still going on there.       *)
OneCore == Cardinality({r \in Request : job[r] = "core"}) <= 1

(* ForeignReplyIsLate: a request is answered with the measurement of       *)
(* another one only if that one had left without it: it had timed out, or  *)
(* was cancelled while it waited, or had itself been answered with a third *)
(* one's.  So every answer is its own as long as every request that was    *)
(* sent waits until it is answered.                                        *)
ForeignReplyIsLate ==
  \A r \in Request : LET m == answer[r] IN
    m \in Request \ {r} =>
      /\ m \in left \/ answer[m] \in Request \ {m}
      /\ left # {}

(* SomethingComes: nobody waits in vain for the timeout: the job of a      *)
(* request that waits, or its reply, or the news of the death of its       *)
(* process is on its way.                                                  *)
SomethingComes ==
  \A r \in Request : at[r] = "await" =>
    \/ deferred[r] # None
    \/ job[r] # "none"
    \/ \E i \in DOMAIN replies : replies[i] = r
    \/ bind = "bound" /\ ~alive

(* RequestReturns: every request returns, whatever becomes of the :xray    *)
(* process: no path out of roundTrip() leaves requestMutex held.           *)
RequestReturns == \A r \in Request : at[r] = "lock" ~> at[r] = "done"

=============================================================================
