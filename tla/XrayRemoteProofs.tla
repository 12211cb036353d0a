--------------------------- MODULE XrayRemoteProofs ---------------------------
(***************************************************************************)
(* Proofs that the safety properties of XrayRemote hold for any set of     *)
(* requests and any number of deaths of the :xray process.                 *)
(***************************************************************************)
EXTENDS XrayRemote, FiniteSetTheorems, TLAPS

Queued(m) == \E i \in 1 .. Len(replies) : replies[i] = m

\* The reply of m is still to come.
Token(m) == job[m] # "none" \/ Queued(m)

\* m returned without its own reply.
Lost(m) == at[m] = "done" /\ (m \in left \/ answer[m] \in Request \ {m})

\* A request that has been published is the pending one until it returns.
PendInv == \A r \in Request : at[r] \in {"sending", "await"} => pending = r

\* The pending request waits, or left without clearing `pending'.
PublishedInv == pending # None => at[pending] \in {"sending", "await", "done"}

\* Nothing of a request is outside before it is sent.
FreshInv ==
  \A r \in Request :
    /\ at[r] \in {"idle", "lock", "ensure", "binding", "send"} => deferred[r] = None
    /\ at[r] \in {"idle", "lock", "ensure", "binding", "send", "sending"} => ~Token(r)
    /\ at[r] # "done" => answer[r] = None

\* Its own reply reaches a request only after it was sent.
OwnInv == \A r \in Request : deferred[r] = r => at[r] \in {"await", "done"}

\* One job or one reply for each request, and jobs only in a living process.
TokenInv ==
  /\ \A i, j \in 1 .. Len(replies) : replies[i] = replies[j] => i = j
  /\ \A r \in Request : job[r] # "none" => ~Queued(r)
  /\ ~alive => \A r \in Request : job[r] = "none"

\* Whoever was answered by its own reply or by the death has no reply to come.
SettledInv ==
  /\ \A r \in Request : deferred[r] \in {r, Dead} => ~Token(r)
  /\ \A r \in Request : at[r] = "done" /\ Token(r) => Lost(r)

\* The process behind a binder: a request whose waiter was told of the death
\* cannot send to the process that replaced it.
ViaInv ==
  /\ alive => bind = "bound"
  /\ bind = "bound" /\ ~alive => deaths > 0
  /\ \A r \in Request : at[r] \in {"send", "sending"} =>
       via[r] <= deaths /\ (via[r] = deaths => alive)
  /\ \A r \in Request : at[r] = "sending" /\ deferred[r] = Dead => via[r] < deaths

\* Replies go astray only after a request has left the await.
ForeignInv ==
  /\ \A r \in Request : deferred[r] \in Request \ {r} => Lost(deferred[r])
  /\ \A r \in Request : Lost(r) => left # {}

\* A test core belongs to the job that holds the tester's mutex.
CoreInv == \A r \in Request : job[r] = "core" => core = r

IInv ==
  /\ TypeOK /\ PendInv /\ PublishedInv /\ FreshInv /\ OwnInv /\ TokenInv /\ SettledInv /\ ViaInv
  /\ ForeignInv /\ CoreInv /\ ForeignReplyIsLate /\ SomethingComes

-----------------------------------------------------------------------------
USE RemoteAssumption

LEMMA InitIInv == Init => IInv
  <1> SUFFICES ASSUME Init PROVE IInv
    OBVIOUS
  <1> USE DEF Init
  <1>1. TypeOK
    <2>1. replies \in Seq(Request) /\ deaths \in 0 .. MaxDeaths
      OBVIOUS
    <2>2. QED
      BY <2>1 DEF TypeOK
  <1>2. Len(replies) = 0
    OBVIOUS
  <1>3. \A m \in Request : ~Token(m) /\ ~Lost(m)
    BY <1>2 DEF Token, Queued, Lost
  <1>4. PendInv /\ PublishedInv /\ FreshInv /\ OwnInv /\ TokenInv /\ SettledInv
    BY <1>2, <1>3 DEF PendInv, PublishedInv, FreshInv, OwnInv, TokenInv, SettledInv
  <1>5. ViaInv /\ ForeignInv /\ CoreInv /\ ForeignReplyIsLate /\ SomethingComes
    BY <1>3 DEF ViaInv, ForeignInv, CoreInv, ForeignReplyIsLate, SomethingComes
  <1>6. QED
    BY <1>1, <1>4, <1>5 DEF IInv

\* What Append and Tail do to the replies on their way.
LEMMA AppendQueue ==
  ASSUME NEW r \in Request, replies \in Seq(Request), replies' = Append(replies, r)
  PROVE  /\ Len(replies') = Len(replies) + 1
         /\ \A i \in 1 .. Len(replies) : replies'[i] = replies[i]
         /\ replies'[Len(replies) + 1] = r
         /\ \A m \in Request : Queued(m)' <=> Queued(m) \/ m = r
  BY DEF Queued

LEMMA TailQueue ==
  ASSUME replies \in Seq(Request), replies # <<>>, replies' = Tail(replies)
  PROVE  /\ Len(replies') = Len(replies) - 1
         /\ \A i \in 1 .. Len(replies') : replies'[i] = replies[i + 1]
         /\ Head(replies) \in Request /\ Queued(Head(replies))
         /\ \A m \in Request : Queued(m)' => Queued(m)
         /\ \A m \in Request : Queued(m) => Queued(m)' \/ m = Head(replies)
  <1>1. /\ Len(replies') = Len(replies) - 1
        /\ \A i \in 1 .. Len(replies') : replies'[i] = replies[i + 1]
        /\ Head(replies) = replies[1] /\ Len(replies) > 0
    OBVIOUS
  <1>2. ASSUME NEW m \in Request, Queued(m), m # Head(replies) PROVE Queued(m)'
    <2>1. PICK i \in 1 .. Len(replies) : replies[i] = m
      BY <1>2 DEF Queued
    <2>2. i # 1
      BY <1>1, <1>2, <2>1
    <2>3. i - 1 \in 1 .. Len(replies') /\ replies'[i - 1] = m
      BY <1>1, <2>1, <2>2
    <2>4. QED
      BY <2>3 DEF Queued
  <1>3. QED
    BY <1>1, <1>2 DEF Queued

-----------------------------------------------------------------------------
\* A request gets hold of the binder.
LEMMA BoundIInv ==
  ASSUME IInv, NEW r \in Request, at[r] \in {"ensure", "binding"}, bind = "bound", Hold(r),
         at' = [at EXCEPT ![r] = "send"],
         UNCHANGED <<lock, bind, pending, deferred, answer, left, replies, xray>>
  PROVE  IInv'
  <1> USE DEF IInv, xray
  <1>1. PICK v \in Nat : /\ via' = [via EXCEPT ![r] = v]
                         /\ v <= deaths /\ (v = deaths => alive)
    <2>1. CASE alive
      <3>1. via' = [via EXCEPT ![r] = deaths]
        BY <2>1 DEF Hold
      <3>2. deaths \in Nat /\ deaths <= deaths
        BY DEF TypeOK
      <3>3. QED
        BY <2>1, <3>1, <3>2, Zenon
    <2>2. CASE ~alive
      <3>1. via' = [via EXCEPT ![r] = deaths - 1]
        BY <2>2 DEF Hold
      <3>2. deaths > 0
        BY <2>2 DEF ViaInv
      <3>3. deaths - 1 \in Nat /\ deaths - 1 <= deaths /\ deaths - 1 # deaths
        BY <3>2 DEF TypeOK
      <3>4. QED
        BY <3>1, <3>3, Zenon
    <2>3. QED
      BY <2>1, <2>2
  <1>2. TypeOK'
    BY <1>1 DEF TypeOK
  <1>3. (PendInv /\ PublishedInv /\ FreshInv /\ OwnInv /\ TokenInv /\ SettledInv /\ ForeignInv /\ CoreInv)'
    BY DEF TypeOK, PendInv, PublishedInv, FreshInv, OwnInv, TokenInv, SettledInv, ForeignInv, CoreInv,
           Token, Queued, Lost
  <1>4. ViaInv'
    BY <1>1 DEF TypeOK, ViaInv
  <1>5. \A q \in Request : at'[q] # "await"
    BY DEF TypeOK
  <1>6. (ForeignReplyIsLate /\ SomethingComes)'
    BY <1>5 DEF ForeignReplyIsLate, SomethingComes
  <1>7. QED
    BY <1>2, <1>3, <1>4, <1>6

\* A request returns null before it was published.
LEMMA FailIInv ==
  ASSUME IInv, NEW r \in Request, at[r] \in {"ensure", "binding"},
         at' = [at EXCEPT ![r] = "done"], answer' = [answer EXCEPT ![r] = None], lock' = None,
         UNCHANGED <<bind, via, pending, deferred, left, replies, xray>>
  PROVE  IInv'
  <1> USE DEF IInv, xray
  <1>1. TypeOK'
    BY DEF TypeOK
  <1>2. (PendInv /\ PublishedInv /\ FreshInv /\ OwnInv /\ TokenInv /\ SettledInv /\ ForeignInv /\ CoreInv)'
    BY DEF TypeOK, PendInv, PublishedInv, FreshInv, OwnInv, TokenInv, SettledInv, ForeignInv, CoreInv,
           Token, Queued, Lost
  <1>3. ViaInv'
    BY DEF TypeOK, ViaInv
  <1>4. \A q \in Request : at'[q] # "await"
    BY DEF TypeOK
  <1>5. (ForeignReplyIsLate /\ SomethingComes)'
    BY <1>4 DEF TypeOK, FreshInv, ForeignReplyIsLate, SomethingComes
  <1>6. QED
    BY <1>1, <1>2, <1>3, <1>5

\* The steps of roundTrip() that leave the :xray process and the replies alone.
LEMMA RoundTripIInv ==
  ASSUME IInv, NEW r \in Request, Call(r) \/ RoundTrip(r)
  PROVE  IInv'
  <1> USE DEF IInv, Goto, Return, ui, xray
  <1>1. CASE Call(r)
    <2> USE <1>1 DEF Call
    <2>1. TypeOK'
      BY DEF TypeOK
    <2>2. (PendInv /\ PublishedInv /\ FreshInv /\ OwnInv /\ TokenInv /\ SettledInv /\ ViaInv /\ ForeignInv /\ CoreInv)'
      BY DEF TypeOK, PendInv, PublishedInv, FreshInv, OwnInv, TokenInv, SettledInv, ViaInv, ForeignInv, CoreInv,
             Token, Queued, Lost
    <2>3. (ForeignReplyIsLate /\ SomethingComes)'
      BY DEF TypeOK, ForeignReplyIsLate, SomethingComes
    <2>4. QED
      BY <2>1, <2>2, <2>3
  <1>2. CASE Lock(r)
    <2> USE <1>2 DEF Lock
    <2>1. TypeOK'
      BY DEF TypeOK
    <2>2. (PendInv /\ PublishedInv /\ FreshInv /\ OwnInv /\ TokenInv /\ SettledInv /\ ViaInv /\ ForeignInv /\ CoreInv)'
      BY DEF TypeOK, PendInv, PublishedInv, FreshInv, OwnInv, TokenInv, SettledInv, ViaInv, ForeignInv, CoreInv,
             Token, Queued, Lost
    <2>3. (ForeignReplyIsLate /\ SomethingComes)'
      BY DEF TypeOK, ForeignReplyIsLate, SomethingComes
    <2>4. QED
      BY <2>1, <2>2, <2>3
  <1>3. CASE EnsureTestBound(r)
    <2>1. CASE bind = "bound"
      <3>1. /\ at[r] = "ensure" /\ at' = [at EXCEPT ![r] = "send"] /\ Hold(r)
            /\ UNCHANGED <<lock, bind, pending, deferred, answer, left, replies, xray>>
        BY <1>3, <2>1 DEF EnsureTestBound
      <3>2. QED
        BY <2>1, <3>1, BoundIInv
    <2>2. CASE bind # "bound"
      <3>1. /\ at[r] = "ensure" /\ at' = [at EXCEPT ![r] = "binding"] /\ bind' = "asked"
            /\ UNCHANGED <<lock, via, pending, deferred, answer, left, replies, xray>>
        BY <1>3, <2>2 DEF EnsureTestBound
      <3>2. TypeOK'
        BY <3>1 DEF TypeOK
      <3>3. (PendInv /\ PublishedInv /\ FreshInv /\ OwnInv /\ TokenInv /\ SettledInv /\ ForeignInv /\ CoreInv)'
        BY <3>1 DEF TypeOK, PendInv, PublishedInv, FreshInv, OwnInv, TokenInv, SettledInv, ForeignInv, CoreInv,
                    Token, Queued, Lost
      <3>4. ViaInv'
        BY <2>2, <3>1 DEF TypeOK, ViaInv
      <3>5. \A q \in Request : at'[q] # "await"
        BY <3>1 DEF TypeOK
      <3>6. (ForeignReplyIsLate /\ SomethingComes)'
        BY <3>1, <3>5 DEF ForeignReplyIsLate, SomethingComes
      <3>7. QED
        BY <3>2, <3>3, <3>4, <3>6
    <2>3. QED
      BY <2>1, <2>2
  <1>4. CASE BindRefused(r)
    BY <1>4, FailIInv DEF BindRefused
  <1>5. CASE BindWaitOver(r)
    <2>1. CASE bind = "bound"
      <3>1. /\ at[r] = "binding" /\ at' = [at EXCEPT ![r] = "send"] /\ Hold(r)
            /\ UNCHANGED <<lock, bind, pending, deferred, answer, left, replies, xray>>
        BY <1>5, <2>1 DEF BindWaitOver
      <3>2. QED
        BY <2>1, <3>1, BoundIInv
    <2>2. CASE bind # "bound"
      <3>1. /\ at[r] = "binding" /\ at' = [at EXCEPT ![r] = "done"]
            /\ answer' = [answer EXCEPT ![r] = None] /\ lock' = None
            /\ UNCHANGED <<bind, via, pending, deferred, left, replies, xray>>
        BY <1>5, <2>2 DEF BindWaitOver
      <3>2. QED
        BY <3>1, FailIInv
    <2>3. QED
      BY <2>1, <2>2
  <1>6. CASE SetPending(r)
    <2> USE <1>6 DEF SetPending
    <2>1. TypeOK'
      BY DEF TypeOK
    <2>2. (PendInv /\ PublishedInv /\ FreshInv /\ OwnInv /\ TokenInv /\ SettledInv /\ ViaInv /\ ForeignInv /\ CoreInv)'
      BY DEF TypeOK, PendInv, PublishedInv, FreshInv, OwnInv, TokenInv, SettledInv, ViaInv, ForeignInv, CoreInv,
             Token, Queued, Lost
    <2>3. (ForeignReplyIsLate /\ SomethingComes)'
      BY DEF TypeOK, ForeignReplyIsLate, SomethingComes
    <2>4. QED
      BY <2>1, <2>2, <2>3
  <1>7. CASE Send(r)
    <2>1. CASE alive /\ via[r] = deaths
      <3>1. /\ at[r] = "sending" /\ at' = [at EXCEPT ![r] = "await"]
            /\ job' = [job EXCEPT ![r] = "sent"]
            /\ UNCHANGED <<lock, bind, via, pending, deferred, answer, left, alive, core,
                           replies, deaths>>
        BY <1>7, <2>1 DEF Send
      <3>2. TypeOK'
        BY <3>1 DEF TypeOK
      <3>3. (PendInv /\ PublishedInv /\ FreshInv /\ ForeignInv /\ CoreInv)'
        BY <3>1 DEF TypeOK, PendInv, PublishedInv, FreshInv, ForeignInv, CoreInv, Token, Queued, Lost
      <3>4. ~Queued(r) /\ job[r] = "none" /\ alive'
        BY <2>1, <3>1 DEF FreshInv, Token
      <3>5. TokenInv'
        BY <3>1, <3>4 DEF TypeOK, TokenInv, Queued
      <3>6. deferred[r] # Dead
        BY <2>1, <3>1 DEF TypeOK, ViaInv
      <3>7. deferred[r] # r
        BY <3>1 DEF TypeOK, ViaInv, OwnInv
      <3>8. SettledInv'
        BY <3>1, <3>6, <3>7 DEF TypeOK, SettledInv, Token, Queued, Lost
      <3>9. ViaInv'
        BY <3>1 DEF TypeOK, ViaInv
      <3>10. OwnInv'
        BY <3>1, <3>7 DEF TypeOK, OwnInv
      <3>11. SomethingComes'
        BY <3>1 DEF TypeOK, SomethingComes
      <3>12. ForeignReplyIsLate'
        BY <3>1 DEF ForeignReplyIsLate
      <3>13. QED
        BY <3>2, <3>3, <3>5, <3>8, <3>9, <3>10, <3>11, <3>12
    <2>2. CASE ~(alive /\ via[r] = deaths)
      <3>1. /\ at[r] = "sending" /\ at' = [at EXCEPT ![r] = "done"]
            /\ answer' = [answer EXCEPT ![r] = None] /\ lock' = None /\ pending' = None
            /\ UNCHANGED <<bind, via, deferred, left, replies, xray>>
        BY <1>7, <2>2 DEF Send
      <3>2. TypeOK'
        BY <3>1 DEF TypeOK
      <3>3. (PendInv /\ PublishedInv /\ FreshInv /\ OwnInv /\ TokenInv /\ SettledInv /\ ForeignInv /\ CoreInv)'
        BY <3>1 DEF TypeOK, PendInv, PublishedInv, FreshInv, OwnInv, TokenInv, SettledInv, ForeignInv,
                    CoreInv, Token, Queued, Lost
      <3>4. ViaInv'
        BY <3>1 DEF TypeOK, ViaInv
      <3>5. \A q \in Request : at'[q] # "await"
        BY <3>1 DEF TypeOK
      <3>6. (ForeignReplyIsLate /\ SomethingComes)'
        BY <3>1, <3>5 DEF TypeOK, FreshInv, ForeignReplyIsLate, SomethingComes
      <3>7. QED
        BY <3>2, <3>3, <3>4, <3>6
    <2>3. QED
      BY <2>1, <2>2
  <1>8. CASE Reply(r)
    <2> USE <1>8 DEF Reply
    <2>1. TypeOK'
      BY DEF TypeOK
    <2>2. (PendInv /\ PublishedInv /\ FreshInv /\ OwnInv /\ TokenInv /\ SettledInv /\ ViaInv /\ ForeignInv /\ CoreInv)'
      BY DEF TypeOK, PendInv, PublishedInv, FreshInv, OwnInv, TokenInv, SettledInv, ViaInv, ForeignInv, CoreInv,
             Token, Queued, Lost
    <2>3. (ForeignReplyIsLate /\ SomethingComes)'
      BY DEF TypeOK, FreshInv, ForeignInv, Lost, ForeignReplyIsLate, SomethingComes
    <2>4. QED
      BY <2>1, <2>2, <2>3
  <1>9. CASE TimeOut(r)
    <2> USE <1>9 DEF TimeOut
    <2>1. TypeOK'
      BY DEF TypeOK
    <2>2. (PendInv /\ PublishedInv /\ FreshInv /\ OwnInv /\ TokenInv /\ SettledInv /\ ViaInv /\ ForeignInv /\ CoreInv)'
      BY DEF TypeOK, PendInv, PublishedInv, FreshInv, OwnInv, TokenInv, SettledInv, ViaInv, ForeignInv, CoreInv,
             Token, Queued, Lost
    <2>3. (ForeignReplyIsLate /\ SomethingComes)'
      BY DEF TypeOK, FreshInv, ForeignReplyIsLate, SomethingComes
    <2>4. QED
      BY <2>1, <2>2, <2>3
  <1>10. CASE Thrown(r)
    <2> USE <1>10 DEF Thrown
    <2>1. TypeOK'
      BY DEF TypeOK
    <2>2. (PendInv /\ PublishedInv /\ FreshInv /\ OwnInv /\ TokenInv /\ SettledInv /\ ViaInv /\ ForeignInv /\ CoreInv)'
      BY DEF TypeOK, PendInv, PublishedInv, FreshInv, OwnInv, TokenInv, SettledInv, ViaInv, ForeignInv, CoreInv,
             Token, Queued, Lost
    <2>3. (ForeignReplyIsLate /\ SomethingComes)'
      BY DEF TypeOK, FreshInv, ForeignReplyIsLate, SomethingComes
    <2>4. QED
      BY <2>1, <2>2, <2>3
  <1>11. QED
    BY <1>1, <1>2, <1>3, <1>4, <1>5, <1>6, <1>7, <1>8, <1>9, <1>10 DEF RoundTrip

\* The caller's scope is cancelled where the request suspends.
LEMMA CancelledIInv == ASSUME IInv, NEW r \in Request, Cancelled(r) PROVE IInv'
  <1> USE DEF IInv, Cancelled, Goto, xray
  <1>1. at' = [at EXCEPT ![r] = "done"] /\ lock' \in Request \cup {None}
    BY DEF TypeOK
  <1>2. left' \in SUBSET Request /\ left \subseteq left'
    <2>1. CASE at[r] = "await"
      BY <2>1 DEF TypeOK
    <2>2. CASE at[r] # "await"
      BY <2>2 DEF TypeOK
    <2>3. QED
      BY <2>1, <2>2
  <1>3. TypeOK'
    <2>1. \A q \in Request :
            at'[q] \in {"ensure", "binding", "send", "sending", "await"} <=> lock' = q
      BY <1>1 DEF TypeOK
    <2>2. QED
      BY <1>1, <1>2, <2>1 DEF TypeOK
  <1>4. (PendInv /\ PublishedInv /\ FreshInv /\ OwnInv /\ TokenInv /\ ViaInv /\ CoreInv)'
    BY <1>1 DEF TypeOK, PendInv, PublishedInv, FreshInv, OwnInv, TokenInv, ViaInv, CoreInv,
           Token, Queued
  <1>5. \A q \in Request : Lost(q) => Lost(q)'
    BY <1>1, <1>2 DEF Lost, TypeOK
  <1>6. \A q \in Request : Token(q)' <=> Token(q)
    BY DEF Token, Queued
  <1>7. SettledInv'
    <2>1. ASSUME NEW q \in Request, at'[q] = "done", Token(q)' PROVE Lost(q)'
      <3>1. CASE q = r
        <4>1. at[r] = "await"
          BY <1>6, <2>1, <3>1 DEF FreshInv
        <4>2. r \in left'
          BY <4>1
        <4>3. QED
          BY <1>1, <2>1, <3>1, <4>2 DEF Lost
      <3>2. CASE q # r
        BY <1>1, <1>5, <1>6, <2>1, <3>2 DEF SettledInv, TypeOK
      <3>3. QED
        BY <3>1, <3>2
    <2>2. \A q \in Request : deferred'[q] \in {q, Dead} => ~Token(q)'
      BY <1>6 DEF SettledInv
    <2>3. QED
      BY <2>1, <2>2 DEF SettledInv
  <1>8. ForeignInv'
    <2>1. \A q, p \in Request : p # q /\ deferred'[q] = p => Lost(p)'
      <3>1. \A q, p \in Request : p # q /\ deferred[q] = p => Lost(p)
        BY DEF ForeignInv
      <3>2. QED
        BY <1>5, <3>1
    <2>2. ASSUME NEW q \in Request, Lost(q)' PROVE left' # {}
      <3>1. CASE q = r /\ at[r] = "await"
        BY <3>1
      <3>2. CASE q = r /\ at[r] # "await"
        <4>1. answer[r] = None /\ left' = left
          BY <3>2 DEF FreshInv
        <4>2. q \in left'
          BY <2>2, <3>2, <4>1 DEF Lost
        <4>3. QED
          BY <4>2
      <3>3. CASE q # r
        <4>1. CASE q \in left'
          BY <4>1
        <4>2. CASE q \notin left'
          <5>1. Lost(q)
            BY <1>1, <1>2, <2>2, <3>3, <4>2 DEF Lost, TypeOK
          <5>2. QED
            BY <1>2, <5>1 DEF ForeignInv
        <4>3. QED
          BY <4>1, <4>2
      <3>4. QED
        BY <3>1, <3>2, <3>3
    <2>3. QED
      BY <2>1, <2>2 DEF ForeignInv
  <1>9. (ForeignReplyIsLate /\ SomethingComes)'
    <2>1. ForeignReplyIsLate'
      BY <1>2 DEF ForeignReplyIsLate
    <2>2. SomethingComes'
      BY <1>1 DEF SomethingComes, TypeOK
    <2>3. QED
      BY <2>1, <2>2
  <1>10. QED
    BY <1>3, <1>4, <1>7, <1>8, <1>9

-----------------------------------------------------------------------------
\* The main thread completes the pending deferred.
LEMMA HandleReplyIInv == IInv /\ HandleReply => IInv'
  <1> SUFFICES ASSUME IInv, HandleReply PROVE IInv'
    OBVIOUS
  <1> USE DEF IInv
  <1>1. /\ replies \in Seq(Request) /\ replies # <<>> /\ replies' = Tail(replies)
        /\ UNCHANGED <<at, lock, via, pending, answer, left, bind, alive, job, core, deaths>>
    BY DEF HandleReply, TypeOK, ui, xray
  <1>0. PICK m \in Request : m = Head(replies)
    BY <1>1
  <1>2. /\ Len(replies') = Len(replies) - 1
        /\ \A i \in 1 .. Len(replies') : replies'[i] = replies[i + 1]
        /\ m \in Request /\ Queued(m)
        /\ \A q \in Request : Queued(q)' => Queued(q)
        /\ \A q \in Request : Queued(q) => Queued(q)' \/ q = m
    BY <1>0, <1>1, TailQueue
  <1>3. ~Queued(m)'
    <2> SUFFICES ASSUME NEW i \in 1 .. Len(replies'), replies'[i] = m PROVE FALSE
      BY DEF Queued
    <2>1. m = replies[1] /\ 1 \in 1 .. Len(replies) /\ i + 1 \in 1 .. Len(replies) /\ i + 1 # 1
      BY <1>0, <1>1, <1>2
    <2>2. replies[i + 1] = replies[1]
      BY <1>2, <2>1
    <2>3. QED
      BY <2>1, <2>2 DEF TokenInv
  <1>4. \A q \in Request : Token(q)' => Token(q)
    BY <1>1, <1>2 DEF Token
  <1>5. ~Token(m)'
    <2>1. job[m] = "none"
      BY <1>2 DEF TokenInv
    <2>2. job'[m] = "none"
      BY <1>1, <2>1
    <2>3. QED
      BY <1>3, <2>2 DEF Token
  <1>6. at[m] \in {"await", "done"} /\ (at[m] = "done" => Lost(m))
    BY <1>2 DEF FreshInv, SettledInv, Token, TypeOK
  <1>7. \A q \in Request : Lost(q)' <=> Lost(q)
    BY <1>1 DEF Lost
  <1>8. \/ UNCHANGED deferred /\ (pending = None \/ deferred[pending] # None)
        \/ /\ pending \in Request /\ deferred[pending] = None
           /\ deferred' = [deferred EXCEPT ![pending] = m]
    BY <1>0 DEF HandleReply, Complete, TypeOK
  <1>9. TypeOK'
    <2>1. replies' \in Seq(Request)
      BY <1>1
    <2>2. deferred' \in [Request -> Request \cup {None, Dead}]
      <3>1. deferred \in [Request -> Request \cup {None, Dead}]
        BY DEF TypeOK
      <3>2. QED
        BY <1>8, <3>1
    <2>3. QED
      BY <1>1, <2>1, <2>2 DEF TypeOK
  <1>10. pending \in Request /\ deferred[pending] = None => at[pending] \in {"sending", "await", "done"}
    BY DEF PublishedInv, TypeOK
  <1>11. at[m] = "await" => pending = m
    BY <1>2 DEF PendInv
  <1>12. (PendInv /\ PublishedInv /\ FreshInv /\ OwnInv)'
    BY <1>1, <1>4, <1>6, <1>8, <1>10, <1>2
       DEF PendInv, PublishedInv, FreshInv, OwnInv, TypeOK
  <1>13. TokenInv'
    <2>1. ASSUME NEW i \in 1 .. Len(replies'), NEW j \in 1 .. Len(replies'), replies'[i] = replies'[j]
          PROVE  i = j
      <3>1. i + 1 \in 1 .. Len(replies) /\ j + 1 \in 1 .. Len(replies)
        BY <1>1, <1>2
      <3>2. replies[i + 1] = replies[j + 1]
        BY <1>2, <2>1
      <3>3. i + 1 = j + 1
        BY <3>1, <3>2 DEF TokenInv
      <3>4. QED
        BY <3>3
    <2>2. \A q \in Request : job'[q] # "none" => ~Queued(q)'
      BY <1>1, <1>2 DEF TokenInv
    <2>3. ~alive' => \A q \in Request : job'[q] = "none"
      BY <1>1 DEF TokenInv
    <2>4. QED
      BY <2>1, <2>2, <2>3 DEF TokenInv
  <1>14. SettledInv'
    BY <1>1, <1>2, <1>4, <1>5, <1>7, <1>8 DEF SettledInv, TypeOK
  <1>15. ViaInv'
    BY <1>1, <1>2, <1>8 DEF ViaInv, TypeOK
  <1>16. (ForeignInv /\ CoreInv)'
    <2>1. ASSUME NEW q \in Request, NEW p \in Request, p # q, deferred'[q] = p PROVE Lost(p)
      <3>1. CASE deferred'[q] = deferred[q]
        BY <2>1, <3>1 DEF ForeignInv
      <3>2. CASE deferred'[q] # deferred[q]
        <4>1. q = pending /\ deferred'[q] = m
          BY <1>8, <3>2 DEF TypeOK
        <4>2. at[m] = "done"
          <5>1. m # pending
            BY <2>1, <4>1
          <5>2. QED
            BY <1>6, <1>11, <5>1
        <4>3. QED
          BY <1>6, <2>1, <4>1, <4>2
      <3>3. QED
        BY <3>1, <3>2
    <2>2. \A q, p \in Request : p # q /\ deferred'[q] = p => Lost(p)'
      BY <1>7, <2>1
    <2>3. \A q \in Request : Lost(q)' => left' # {}
      BY <1>1, <1>7 DEF ForeignInv
    <2>4. CoreInv'
      BY <1>1 DEF CoreInv
    <2>5. QED
      BY <2>2, <2>3, <2>4 DEF ForeignInv
  <1>17. ForeignReplyIsLate'
    BY <1>1 DEF ForeignReplyIsLate
  <1>18. SomethingComes'
    <2> SUFFICES ASSUME NEW r \in Request, at[r] = "await", deferred'[r] = None,
                        job[r] = "none", ~(bind = "bound" /\ ~alive)
                 PROVE  \E i \in DOMAIN replies' : replies'[i] = r
      BY <1>1 DEF SomethingComes
    <2>1. pending = r /\ deferred[r] = None
      BY <1>8 DEF PendInv, TypeOK
    <2>2. deferred'[r] = m
      BY <1>8, <2>1 DEF TypeOK
    <2>3. QED
      BY <1>2, <2>2
  <1>19. QED
    BY <1>9, <1>12, <1>13, <1>14, <1>15, <1>16, <1>17, <1>18

LEMMA ConnectionIInv == IInv /\ (OnServiceConnected \/ OnServiceDisconnected) => IInv'
  <1> SUFFICES ASSUME IInv, OnServiceConnected \/ OnServiceDisconnected PROVE IInv'
    OBVIOUS
  <1> USE DEF IInv
  <1>1. CASE OnServiceConnected
    <2>1. /\ bind = "asked" /\ bind' = "bound" /\ alive' = TRUE
          /\ UNCHANGED <<at, lock, via, pending, answer, left, deferred, replies, job, core, deaths>>
      BY <1>1 DEF OnServiceConnected, ui
    <2>2. TypeOK'
      BY <2>1 DEF TypeOK
    <2>3. (PendInv /\ PublishedInv /\ FreshInv /\ OwnInv /\ TokenInv /\ SettledInv)'
      BY <2>1 DEF PendInv, PublishedInv, FreshInv, OwnInv, TokenInv, SettledInv, Token, Queued, Lost
    <2>4. (ViaInv /\ ForeignInv /\ CoreInv)'
      BY <2>1 DEF ViaInv, ForeignInv, CoreInv, Lost
    <2>5. (ForeignReplyIsLate /\ SomethingComes)'
      BY <2>1 DEF ForeignReplyIsLate, SomethingComes
    <2>6. QED
      BY <2>2, <2>3, <2>4, <2>5
  <1>2. CASE OnServiceDisconnected
    <2>1. /\ bind = "bound" /\ ~alive /\ replies = <<>> /\ bind' = "asked"
          /\ UNCHANGED <<at, lock, via, pending, answer, left, replies, alive, job, core, deaths>>
      BY <1>2 DEF OnServiceDisconnected, ui, xray
    <2>2. \A q \in Request : ~Token(q) /\ ~Token(q)'
      <3>1. Len(replies) = 0 /\ Len(replies') = 0
        BY <2>1
      <3>2. QED
        BY <2>1, <3>1 DEF Token, Queued, TokenInv
    <2>3. \A q \in Request : Lost(q)' <=> Lost(q)
      BY <2>1 DEF Lost
    <2>4. \/ UNCHANGED deferred /\ (pending = None \/ deferred[pending] # None)
          \/ /\ pending \in Request /\ deferred[pending] = None
             /\ deferred' = [deferred EXCEPT ![pending] = Dead]
      BY <1>2 DEF OnServiceDisconnected, Complete, TypeOK
    <2>5. TypeOK'
      <3>1. deferred' \in [Request -> Request \cup {None, Dead}]
        BY <2>4 DEF TypeOK
      <3>2. QED
        BY <2>1, <3>1 DEF TypeOK
    <2>6. (PendInv /\ PublishedInv /\ FreshInv /\ OwnInv)'
      BY <2>1, <2>2, <2>4 DEF PendInv, PublishedInv, FreshInv, OwnInv, TypeOK
    <2>7. (TokenInv /\ SettledInv /\ CoreInv)'
      BY <2>1, <2>2 DEF TokenInv, SettledInv, CoreInv, Token, Queued
    <2>8. deaths > 0
      BY <2>1 DEF ViaInv
    <2>9. \A r \in Request : at[r] = "sending" => via[r] < deaths
      BY <2>1 DEF ViaInv, TypeOK
    <2>10. ViaInv'
      BY <2>1, <2>9 DEF ViaInv
    <2>11. ForeignInv'
      BY <2>1, <2>3, <2>4 DEF ForeignInv, TypeOK
    <2>12. ForeignReplyIsLate'
      BY <2>1 DEF ForeignReplyIsLate
    <2>13. SomethingComes'
      BY <2>1, <2>4 DEF SomethingComes, PendInv, TypeOK
    <2>14. QED
      BY <2>5, <2>6, <2>7, <2>10, <2>11, <2>12, <2>13
  <1>3. QED
    BY <1>1, <1>2

-----------------------------------------------------------------------------
\* A job goes on without ending.
LEMMA JobGoesOn ==
  ASSUME IInv, NEW r \in Request, NEW to \in {"wait", "core", "answer"},
         job[r] # "none", job' = [job EXCEPT ![r] = to],
         core' \in Request \cup {None}, CoreInv',
         UNCHANGED <<at, lock, via, pending, answer, left, bind, deferred, replies, alive, deaths>>
  PROVE  IInv'
  <1> USE DEF IInv
  <1>1. \A q \in Request : job'[q] = "none" <=> job[q] = "none"
    BY DEF TypeOK
  <1>2. TypeOK'
    BY DEF TypeOK
  <1>3. \A q \in Request : (Queued(q)' <=> Queued(q)) /\ (Lost(q)' <=> Lost(q))
    BY DEF Queued, Lost
  <1>4. \A q \in Request : Token(q)' <=> Token(q)
    BY <1>1, <1>3 DEF Token
  <1>5. (PendInv /\ PublishedInv /\ FreshInv /\ OwnInv /\ SettledInv)'
    BY <1>3, <1>4 DEF PendInv, PublishedInv, FreshInv, OwnInv, SettledInv
  <1>6. TokenInv'
    BY <1>1, <1>3 DEF TokenInv
  <1>7. ViaInv'
    BY DEF ViaInv
  <1>8. ForeignInv'
    BY <1>3 DEF ForeignInv
  <1>9. ForeignReplyIsLate'
    BY DEF ForeignReplyIsLate
  <1>10. SomethingComes'
    BY <1>1 DEF SomethingComes
  <1>11. QED
    BY <1>2, <1>5, <1>6, <1>7, <1>8, <1>9, <1>10

\* The job ends and its reply is on the way.
LEMMA SendReplyIInv == ASSUME IInv, NEW r \in Request, SendReply(r) PROVE IInv'
  <1> USE DEF IInv
  <1>1. /\ replies \in Seq(Request) /\ replies' = Append(replies, r)
        /\ job[r] = "answer" /\ job' = [job EXCEPT ![r] = "none"]
        /\ UNCHANGED <<at, lock, via, pending, answer, left, bind, deferred, alive, core, deaths>>
    BY DEF SendReply, JobStep, TypeOK, ui
  <1>2. /\ Len(replies') = Len(replies) + 1
        /\ \A i \in 1 .. Len(replies) : replies'[i] = replies[i]
        /\ replies'[Len(replies) + 1] = r
        /\ \A q \in Request : Queued(q)' <=> Queued(q) \/ q = r
    BY <1>1, AppendQueue
  <1>3. ~Queued(r) /\ job'[r] = "none" /\ \A q \in Request \ {r} : job'[q] = job[q]
    BY <1>1 DEF TokenInv, TypeOK
  <1>4. \A q \in Request : (Token(q)' <=> Token(q)) /\ (Lost(q)' <=> Lost(q))
    BY <1>1, <1>2, <1>3 DEF Token, Lost
  <1>5. TypeOK'
    <2>1. replies' \in Seq(Request)
      BY <1>1
    <2>2. QED
      BY <1>1, <2>1 DEF TypeOK
  <1>6. (PendInv /\ PublishedInv /\ FreshInv /\ OwnInv /\ SettledInv)'
    BY <1>1, <1>4 DEF PendInv, PublishedInv, FreshInv, OwnInv, SettledInv
  <1>7. TokenInv'
    <2>1. ASSUME NEW i \in 1 .. Len(replies'), NEW j \in 1 .. Len(replies'), replies'[i] = replies'[j]
          PROVE  i = j
      <3> DEFINE n == Len(replies)
      <3>1. n \in Nat /\ i \in 1 .. n + 1 /\ j \in 1 .. n + 1
        BY <1>1, <1>2
      <3>2. CASE i = n + 1 /\ j # n + 1
        <4>1. j \in 1 .. n /\ replies[j] = r
          BY <1>2, <2>1, <3>1, <3>2
        <4>2. QED
          BY <1>3, <4>1 DEF Queued
      <3>3. CASE j = n + 1 /\ i # n + 1
        <4>1. i \in 1 .. n /\ replies[i] = r
          BY <1>2, <2>1, <3>1, <3>3
        <4>2. QED
          BY <1>3, <4>1 DEF Queued
      <3>4. CASE i # n + 1 /\ j # n + 1
        <4>1. i \in 1 .. n /\ j \in 1 .. n
          BY <3>1, <3>4
        <4>2. replies[i] = replies[j]
          BY <1>2, <2>1, <4>1
        <4>3. QED
          BY <4>1, <4>2 DEF TokenInv
      <3>5. QED
        BY <3>2, <3>3, <3>4
    <2>2. \A q \in Request : job'[q] # "none" => ~Queued(q)'
      BY <1>2, <1>3 DEF TokenInv
    <2>3. ~alive' => \A q \in Request : job'[q] = "none"
      BY <1>1, <1>3 DEF TokenInv
    <2>4. QED
      BY <2>1, <2>2, <2>3 DEF TokenInv
  <1>8. ViaInv'
    BY <1>1 DEF ViaInv
  <1>9. (ForeignInv /\ CoreInv)'
    BY <1>1, <1>3, <1>4 DEF ForeignInv, CoreInv
  <1>10. ForeignReplyIsLate'
    BY <1>1 DEF ForeignReplyIsLate
  <1>11. SomethingComes'
    <2> SUFFICES ASSUME NEW q \in Request, at[q] = "await", deferred[q] = None,
                        job'[q] = "none", ~(bind = "bound" /\ ~alive)
                 PROVE  \E i \in DOMAIN replies' : replies'[i] = q
      BY <1>1 DEF SomethingComes
    <2>1. Queued(q)'
      <3>1. job[q] # "none" \/ \E i \in DOMAIN replies : replies[i] = q
        BY DEF SomethingComes
      <3>2. DOMAIN replies = 1 .. Len(replies)
        BY <1>1
      <3>3. job[q] # "none" \/ Queued(q)
        BY <3>1, <3>2 DEF Queued
      <3>4. QED
        BY <1>2, <1>3, <3>3
    <2>2. DOMAIN replies' = 1 .. Len(replies')
      BY <1>5 DEF TypeOK
    <2>3. QED
      BY <2>1, <2>2 DEF Queued
  <1>12. QED
    BY <1>5, <1>6, <1>7, <1>8, <1>9, <1>10, <1>11

LEMMA JobIInv == ASSUME IInv, NEW r \in Request, Job(r) PROVE IInv'
  <1> USE DEF JobStep, ui
  <1>1. CASE Admit(r)
    <2>1. CoreInv' /\ core' \in Request \cup {None}
      BY <1>1 DEF Admit, IInv, CoreInv, TypeOK
    <2>2. QED
      BY <1>1, <2>1, JobGoesOn DEF Admit
  <1>2. CASE Refuse(r)
    <2>1. CoreInv' /\ core' \in Request \cup {None}
      BY <1>2 DEF Refuse, IInv, CoreInv, TypeOK
    <2>2. QED
      BY <1>2, <2>1, JobGoesOn DEF Refuse
  <1>3. CASE StartCore(r)
    <2>1. CoreInv' /\ core' \in Request \cup {None}
      BY <1>3 DEF StartCore, IInv, CoreInv, TypeOK
    <2>2. QED
      BY <1>3, <2>1, JobGoesOn DEF StartCore
  <1>4. CASE StopCore(r)
    <2>1. CoreInv' /\ core' \in Request \cup {None}
      BY <1>4 DEF StopCore, IInv, CoreInv, TypeOK
    <2>2. QED
      BY <1>4, <2>1, JobGoesOn DEF StopCore
  <1>5. CASE SendReply(r)
    BY <1>5, SendReplyIInv
  <1>6. QED
    BY <1>1, <1>2, <1>3, <1>4, <1>5 DEF Job

\* The process takes its jobs with it; the news of it is still to come.
LEMMA DieIInv == IInv /\ Die => IInv'
  <1> SUFFICES ASSUME IInv, Die PROVE IInv'
    OBVIOUS
  <1> USE DEF IInv
  <1>1. /\ alive /\ alive' = FALSE /\ job' = [q \in Request |-> "none"] /\ core' = None
        /\ UNCHANGED <<at, lock, via, pending, answer, left, bind, deferred, replies>>
    BY DEF Die, ui
  <1>2. deaths' = deaths + 1 /\ deaths < MaxDeaths
    BY DEF Die
  <1>3. bind' = "bound"
    BY <1>1 DEF ViaInv
  <1>4. deaths \in Nat /\ deaths' \in 0 .. MaxDeaths /\ deaths' > 0 /\ deaths < deaths'
    BY <1>2 DEF TypeOK
  <1>5. TypeOK'
    BY <1>1, <1>4 DEF TypeOK
  <1>6. \A q \in Request : (Queued(q)' <=> Queued(q)) /\ (Lost(q)' <=> Lost(q)) /\ job'[q] = "none"
    BY <1>1 DEF Queued, Lost
  <1>7. \A q \in Request : Token(q)' => Token(q)
    BY <1>6 DEF Token
  <1>8. (PendInv /\ PublishedInv /\ FreshInv /\ OwnInv /\ SettledInv)'
    BY <1>1, <1>6, <1>7 DEF PendInv, PublishedInv, FreshInv, OwnInv, SettledInv
  <1>9. TokenInv'
    BY <1>1, <1>6 DEF TokenInv
  <1>10. \A q \in Request : at'[q] \in {"send", "sending"} => via'[q] < deaths'
    <2>1. \A q \in Request : at[q] \in {"send", "sending"} => via[q] <= deaths
      BY DEF ViaInv
    <2>2. \A q \in Request : via[q] \in Nat
      BY DEF TypeOK
    <2>3. \A q \in Request : via[q] <= deaths => via[q] < deaths'
      BY <1>2, <1>4, <2>2
    <2>4. QED
      BY <1>1, <2>1, <2>3
  <1>11. ViaInv'
    <2>1. \A q \in Request : at'[q] \in {"send", "sending"} =>
            via'[q] <= deaths' /\ via'[q] # deaths'
      <3>1. \A q \in Request : via'[q] \in Nat
        BY <1>5 DEF TypeOK
      <3>2. QED
        BY <1>4, <1>10, <3>1
    <2>2. QED
      BY <1>1, <1>3, <1>4, <1>10, <2>1 DEF ViaInv
  <1>12. (ForeignInv /\ CoreInv)'
    BY <1>1, <1>6 DEF ForeignInv, CoreInv
  <1>13. ForeignReplyIsLate'
    BY <1>1 DEF ForeignReplyIsLate
  <1>14. SomethingComes'
    BY <1>1, <1>3 DEF SomethingComes
  <1>15. QED
    BY <1>5, <1>8, <1>9, <1>11, <1>12, <1>13, <1>14

LEMMA StutterIInv == IInv /\ UNCHANGED vars => IInv'
  <1> SUFFICES ASSUME IInv, UNCHANGED vars PROVE IInv'
    OBVIOUS
  <1> USE DEF IInv
  <1>1. UNCHANGED <<at, lock, via, pending, answer, left, bind, deferred, replies, alive, job, core, deaths>>
    BY DEF vars, ui, xray
  <1>2. TypeOK'
    BY <1>1 DEF TypeOK
  <1>3. (PendInv /\ PublishedInv /\ FreshInv /\ OwnInv /\ TokenInv /\ SettledInv)'
    BY <1>1 DEF PendInv, PublishedInv, FreshInv, OwnInv, TokenInv, SettledInv, Token, Queued, Lost
  <1>4. (ViaInv /\ ForeignInv /\ CoreInv /\ ForeignReplyIsLate /\ SomethingComes)'
    BY <1>1 DEF ViaInv, ForeignInv, CoreInv, ForeignReplyIsLate, SomethingComes, Lost
  <1>5. QED
    BY <1>2, <1>3, <1>4

LEMMA Inductive == Spec => []IInv
  <1>1. IInv /\ [Next]_vars => IInv'
    <2> SUFFICES ASSUME IInv, [Next]_vars PROVE IInv'
      OBVIOUS
    <2>1. CASE \E r \in Request : Call(r) \/ RoundTrip(r) \/ Cancelled(r) \/ Job(r)
      BY <2>1, RoundTripIInv, CancelledIInv, JobIInv
    <2>2. CASE HandleReply \/ OnServiceConnected \/ OnServiceDisconnected \/ Die
      BY <2>2, HandleReplyIInv, ConnectionIInv, DieIInv
    <2>3. CASE UNCHANGED vars
      BY <2>3, StutterIInv
    <2>4. QED
      BY <2>1, <2>2, <2>3 DEF Next
  <1>2. QED
    BY InitIInv, <1>1, PTL DEF Spec

-----------------------------------------------------------------------------
(* TypeCorrect: every reachable state of the round trips has its type, and *)
(* the request between taking and leaving requestMutex holds it, however   *)
(* many requests are made and however often the :xray process dies.        *)
THEOREM TypeCorrect == Spec => []TypeOK
  <1>1. IInv => TypeOK
    BY DEF IInv
  <1>2. QED
    BY Inductive, <1>1, PTL

(* OneCoreOnly: XrayTester's mutex keeps at most one test core in the      *)
(* :xray process, whatever requests timed out or were cancelled meanwhile. *)
THEOREM OneCoreOnly == Spec => []OneCore
  <1>1. IInv => OneCore
    <2> SUFFICES ASSUME IInv PROVE OneCore
      OBVIOUS
    <2> DEFINE S == {r \in Request : job[r] = "core"}
    <2>1. S \subseteq {core}
      BY DEF IInv, CoreInv
    <2>2. IsFiniteSet({core}) /\ Cardinality({core}) = 1
      BY FS_Singleton
    <2>3. IsFiniteSet(S) /\ Cardinality(S) <= 1
      BY <2>1, <2>2, FS_Subset
    <2>4. QED
      BY <2>3 DEF OneCore
  <1>2. QED
    BY Inductive, <1>1, PTL

(* StrayRepliesAreLate: roundTrip() hands a caller another one's           *)
(* measurement only after some request has timed out or was cancelled      *)
(* while it waited, and only one whose own request returned without it.    *)
THEOREM StrayRepliesAreLate == Spec => []ForeignReplyIsLate
  <1>1. IInv => ForeignReplyIsLate
    BY DEF IInv
  <1>2. QED
    BY Inductive, <1>1, PTL

(* NoVainWait: while a request waits in roundTrip(), its job, its reply or *)
(* the news of the death of its process is on the way.                     *)
THEOREM NoVainWait == Spec => []SomethingComes
  <1>1. IInv => SomethingComes
    BY DEF IInv
  <1>2. QED
    BY Inductive, <1>1, PTL
=============================================================================
