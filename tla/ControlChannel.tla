---------------------------- MODULE ControlChannel ----------------------------
(***************************************************************************)
(* The OpenVPN control channel during the negotiation of one key: the      *)
(* reliability layer (reliable.c) under the key state machine of ssl.c,    *)
(* run by a client and a server over a network that loses, duplicates and  *)
(* reorders packets.                                                       *)
(*                                                                         *)
(* Each peer is one event loop thread.  Its steps are one iteration of     *)
(* tls_process_state (a "pass"), with the dedicated ACK that tls_process   *)
(* sends when the iterations are over, and the arrival of one control      *)
(* packet (tls_pre_decrypt).  `busy' says that to_link still holds a       *)
(* packet of an earlier pass, which suppresses every transmission.         *)
(*                                                                         *)
(* Packet ids are naturals: they start at 0 with every key state and one   *)
(* negotiation stays far from 2^32.  A packet carries one item, standing   *)
(* for its opcode and its piece of TLS ciphertext.                         *)
(***************************************************************************)
EXTENDS Naturals, Sequences, FiniteSets

CONSTANTS
  SendSize,     \* TLS_RELIABLE_N_SEND_BUFFERS
  RecSize,      \* TLS_RELIABLE_N_REC_BUFFERS
  AckSize,      \* RELIABLE_ACK_SIZE
  AckMax,       \* CONTROL_SEND_ACK_MAX: acks on a control packet
  DedicatedMax, \* acks on a dedicated P_ACK_V1 packet
  Hello,        \* each peer's TLS handshake flight, in packets
  Key,          \* each peer's key material record, in packets
  MaxFaults     \* bound on the packets the network loses or duplicates

Peer == {"client", "server"}

Other == [p \in Peer |-> IF p = "client" THEN "server" ELSE "client"]

(* "part" is a piece of a flight or record that a later packet completes.  *)
Item == {"reset", "part", "hello", "key", "alert"}

ASSUME SizeAssumption ==
  /\ SendSize \in Nat \ {0} /\ RecSize \in Nat \ {0}
  /\ AckSize \in Nat \ {0}
  /\ AckMax \in 1 .. AckSize /\ DedicatedMax \in 1 .. AckSize
  /\ MaxFaults \in Nat

ASSUME FlightAssumption ==
  /\ Hello \in [Peer -> Seq({"part", "hello"})]
  /\ Key \in [Peer -> Seq({"part", "key"})]

VARIABLES
  ks,      \* the key_state of each peer
  again,   \* continue_tls_process of each peer
  net,     \* the packets in flight
  faults   \* packets lost or duplicated so far

vars == <<ks, again, net, faults>>

State == {"INITIAL", "PRE_START", "START", "SENT_KEY", "GOT_KEY", "ACTIVE",
          "ERROR_PRE", "ERROR"}

Negotiating == {"PRE_START", "START", "SENT_KEY", "GOT_KEY"}

Packet == [from : Peer, item : Item \cup {"ack"}, id : Nat, acks : SUBSET Nat]

KeyState ==
  [state : State,
   known : BOOLEAN,                    \* session_id_remote and remote_addr are set
   sendId : Nat, send : SUBSET [id : Nat, item : Item, due : BOOLEAN],
   recId : Nat, rec : SUBSET [id : Nat, item : Item],
   recAck : Seq(Nat), lru : Seq(Nat),  \* rec_ack, lru_acks
   out : Seq(Item),                    \* ciphertext waiting in the TLS object
   est : BOOLEAN,                      \* the TLS object accepts plaintext
   plain : BOOLEAN,                    \* the TLS object holds plaintext to read
   readBuf : BOOLEAN, writeBuf : BOOLEAN,
   written : Seq(Item), read : Seq(Item)]

Elems(s) == {s[i] : i \in DOMAIN s}

Ids(entries) == {e.id : e \in entries}

Lesser(m, n) == IF m < n THEN m ELSE n

(* key_state_init.  The TLS object of a client has its first flight ready  *)
(* as soon as it is driven.  written and read are history: what this peer  *)
(* has numbered, and taken from its receive buffer, so far.                *)
KeyStateInit(p) ==
  [state |-> "INITIAL", known |-> FALSE,
   sendId |-> 0, send |-> {}, recId |-> 0, rec |-> {},
   recAck |-> <<>>, lru |-> <<>>,
   out |-> IF p = "client" THEN Hello[p] ELSE <<>>,
   est |-> FALSE, plain |-> FALSE, readBuf |-> FALSE, writeBuf |-> FALSE,
   written |-> <<>>, read |-> <<>>]

Init ==
  /\ ks = [p \in Peer |-> KeyStateInit(p)]
  /\ again = [p \in Peer |-> FALSE]
  /\ net = {}
  /\ faults = 0

-----------------------------------------------------------------------------
(* The reliability layer.                                                  *)

(* Mutant of Available: one packet too many.                               *)
AvailableOneMore(k, n) ==
  n <= SendSize /\ \A e \in k.send : k.sendId + n - e.id <= SendSize + 1

(* At least n more packets may be numbered: the window is counted from the *)
(* lowest unacknowledged id, not by free buffers.                          *)
Available(k, n) ==
  n <= SendSize /\ \A e \in k.send : k.sendId + n - e.id <= SendSize

(* reliable_mark_active_outgoing for each of these items.                  *)
MarkActiveOutgoing(k, items) ==
  [k EXCEPT !.send = @ \cup {[id |-> k.sendId + i - 1, item |-> items[i], due |-> TRUE] :
                               i \in 1 .. Len(items)},
            !.sendId = @ + Len(items),
            !.written = @ \o items]

(* An ack of a packet frees its buffer.  The count of later acks, which    *)
(* makes an overtaken packet due early, is not kept: Transmit may send any  *)
(* packet again at any time.                                               *)
SendPurge(k, acks) == [k EXCEPT !.send = {e \in @ : e.id \notin acks}]

ScheduleNow(k) == [k EXCEPT !.send = {[e EXCEPT !.due = TRUE] : e \in @}]

(* Mutant of NotReplay: the ids already read are not replays.              *)
NotReplayUnread(k, id) == id \notin Ids(k.rec)

NotReplay(k, id) == id >= k.recId /\ id \notin Ids(k.rec)

WontBreakSequentiality(k, id) == id < k.recId + RecSize

CanGet(k) == Cardinality(k.rec) < RecSize

(* Mutant of Acknowledge: the array has no end.                            *)
AcknowledgeUnbounded(k, id) ==
  IF id \notin Elems(k.recAck) THEN [k EXCEPT !.recAck = Append(@, id)] ELSE k

Acknowledge(k, id) ==
  IF id \notin Elems(k.recAck) /\ Len(k.recAck) < AckSize
    THEN [k EXCEPT !.recAck = Append(@, id)]
    ELSE k

(* Mutant of MarkActiveIncoming: a packet without a buffer is acknowledged *)
(* all the same.                                                           *)
MarkActiveIncomingAckFirst(k, id, item) ==
  Acknowledge(IF CanGet(k) /\ WontBreakSequentiality(k, id) /\ NotReplay(k, id)
                THEN [k EXCEPT !.rec = @ \cup {[id |-> id, item |-> item]}]
                ELSE k, id)

(* Mutant of MarkActiveIncoming: a replay is not acknowledged again.       *)
MarkActiveIncomingAckOnce(k, id, item) ==
  IF CanGet(k) /\ WontBreakSequentiality(k, id) /\ NotReplay(k, id)
    THEN Acknowledge([k EXCEPT !.rec = @ \cup {[id |-> id, item |-> item]}], id)
    ELSE k

(* An incoming packet: stored unless it is a replay, acknowledged even     *)
(* then, ignored when no buffer is free or it lies beyond the window.      *)
MarkActiveIncoming(k, id, item) ==
  IF ~CanGet(k) \/ ~WontBreakSequentiality(k, id) THEN k
  ELSE Acknowledge(IF NotReplay(k, id)
                     THEN [k EXCEPT !.rec = @ \cup {[id |-> id, item |-> item]}]
                     ELSE k, id)

Before(t, a, b) == \E i \in DOMAIN t : t[i] = a /\ \A j \in 1 .. i : t[j] # b

(* copy_acks_to_mru on lists joined into t: the first AckSize different    *)
(* ids of t, in order.  A set of exactly one sequence.                     *)
MostRecent(t) ==
  {s \in UNION {[1 .. m -> Elems(t)] : m \in 0 .. AckSize} :
     /\ \A i, j \in DOMAIN s : s[i] = s[j] => i = j
     /\ \A i \in DOMAIN s : \A b \in Elems(t) \ {s[j] : j \in 1 .. i} : Before(t, s[i], b)
     /\ Len(s) = AckSize \/ Elems(s) = Elems(t)}

(* reliable_ack_write: up to max acks leave recAck for the front of the    *)
(* list of recent ones, and the packet carries what fits of that list,     *)
(* older acks included.                                                    *)
AckWrite(k, max) ==
  LET n == Lesser(Len(k.recAck), max)
  IN  {[key |-> [k EXCEPT !.recAck = SubSeq(@, n + 1, Len(@)), !.lru = mru],
        acks |-> {mru[i] : i \in 1 .. Lesser(max, Len(mru))}] :
         mru \in MostRecent(SubSeq(k.recAck, 1, n) \o k.lru)}

Fault == faults < MaxFaults /\ faults' = faults + 1

-----------------------------------------------------------------------------
(* The blocks of tls_process_state, in order.                              *)

MovePreStart(k) ==
  IF k.state = "INITIAL"
    THEN [MarkActiveOutgoing(k, <<"reset">>) EXCEPT !.state = "PRE_START"]
    ELSE k

MoveStart(k) ==
  IF k.state = "PRE_START" /\ k.send = {} THEN [k EXCEPT !.state = "START"] ELSE k

(* Wait for ACK.                                                           *)
MoveActive(p, k) ==
  IF k.state = (IF p = "client" THEN "GOT_KEY" ELSE "SENT_KEY") /\ k.send = {}
    THEN [k EXCEPT !.state = "ACTIVE"]
    ELSE k

(* Mutant of NextInSequence: packets are read as they come.                *)
NextInSequenceAny(k) == k.rec

NextInSequence(k) == {e \in k.rec : e.id = k.recId}

(* The TLS object takes a piece of ciphertext: the end of the peer's       *)
(* flight lets a server answer with its own and makes plaintext possible,  *)
(* the end of the key record is plaintext to be read.                      *)
TlsTakes(p, k, item) ==
  [k EXCEPT !.est = @ \/ item = "hello",
            !.out = IF p = "server" /\ item = "hello" THEN @ \o Hello[p] ELSE @,
            !.plain = @ \/ item = "key"]

(* The TLS object reads from a memory BIO, whose write takes a packet      *)
(* whole: the status is 1, never 0.                                        *)
ReadCiphertext(p, k, e) ==
  [TlsTakes(p, k, e.item) EXCEPT !.rec = @ \ {e},
                                 !.recId = e.id + 1,
                                 !.read = Append(@, e.item)]

ReadIncoming(p, k) ==
  IF NextInSequence(k) = {} THEN {k} ELSE {ReadCiphertext(p, k, e) : e \in NextInSequence(k)}

ReadPlaintext(k) ==
  IF ~k.readBuf /\ k.plain THEN [k EXCEPT !.readBuf = TRUE, !.plain = FALSE] ELSE k

(* Mutant of SendKey: the server does not wait for the client's key.       *)
SendKeyEarly(p, k) ==
  IF ~k.writeBuf /\ k.state = "START"
    THEN [k EXCEPT !.writeBuf = TRUE, !.state = "SENT_KEY"]
    ELSE k

SendKey(p, k) ==
  IF ~k.writeBuf /\ k.state = (IF p = "client" THEN "START" ELSE "GOT_KEY")
    THEN [k EXCEPT !.writeBuf = TRUE, !.state = "SENT_KEY"]
    ELSE k

ReceiveKey(p, k) ==
  IF k.readBuf /\ k.state = (IF p = "client" THEN "SENT_KEY" ELSE "START")
    THEN [k EXCEPT !.readBuf = FALSE, !.state = "GOT_KEY"]
    ELSE k

WritePlaintext(p, k) ==
  IF k.writeBuf /\ k.est THEN [k EXCEPT !.writeBuf = FALSE, !.out = @ \o Key[p]] ELSE k

(* As many packets as the window admits, and no more than there are.       *)
CheckOutgoing(k) ==
  IF k.state \notin {"START", "SENT_KEY", "GOT_KEY", "ACTIVE"} THEN {k}
  ELSE {[MarkActiveOutgoing(k, SubSeq(k.out, 1, n)) EXCEPT
            !.out = SubSeq(@, n + 1, Len(@))] :
          n \in {m \in 0 .. Len(k.out) :
                   /\ Available(k, m)
                   /\ m = Len(k.out) \/ ~Available(k, m + 1)}}

(* The error exit: the TLS object is shut down, which may leave an alert   *)
(* to be sent.                                                             *)
ErrorExit(k) ==
  {[j EXCEPT !.state = "ERROR_PRE"] :
     j \in UNION {CheckOutgoing([k EXCEPT !.out = @ \o a]) : a \in {<<>>, <<"alert">>}}}

-----------------------------------------------------------------------------
(* A server is linked to its client by the first packet of the client.     *)
Running(p) ==
  /\ ks[p].state # "ERROR"
  /\ p = "client" \/ ks[p].known

Set(p, k) == ks' = [ks EXCEPT ![p] = k]

Handshake(p) == MoveActive(p, MoveStart(MovePreStart(ks[p])))

Due(k) == {e \in k.send : e.due}

(* now >= must_negotiate, which the pass that leaves S_INITIAL has set.    *)
NegotiationTimeout(p) ==
  /\ Running(p)
  /\ ks[p].state \in Negotiating
  /\ \E k \in ErrorExit(ks[p]) : Set(p, k)
  /\ again' = [again EXCEPT ![p] = TRUE]
  /\ Fault
  /\ UNCHANGED net

(* Neither this packet nor an ack of it is on its way.                     *)
Unanswered(p, e) ==
  /\ e.id \notin Elems(ks[Other[p]].recAck)
  /\ \A m \in net : IF m.from = p THEN m.item = "ack" \/ m.id # e.id ELSE e.id \notin m.acks

(* Reliable -> TCP/UDP: the due packet with the lowest id.  Beside the     *)
(* ones surely due, any packet sent before may be: its time has come, or   *)
(* enough later ones have been acknowledged.  That is a fault when it      *)
(* happens before an answer could arrive.                                  *)
Transmit(p) ==
  LET k == Handshake(p)
  IN  /\ Running(p)
      /\ \E e \in k.send :
           /\ \A f \in Due(k) : e.id <= f.id
           /\ \E w \in AckWrite(k, AckMax) :
                /\ Set(p, [w.key EXCEPT !.send = (@ \ {e}) \cup {[e EXCEPT !.due = FALSE]}])
                /\ net' = net \cup {[from |-> p, item |-> e.item, id |-> e.id,
                                     acks |-> w.acks]}
           /\ IF e.due \/ Unanswered(p, e) THEN UNCHANGED faults ELSE Fault
      /\ again' = [again EXCEPT ![p] = FALSE]

(* One last chance to send what is due, then the key state is given up.    *)
StopProcessing(p, busy) ==
  /\ Running(p)
  /\ ks[p].state = "ERROR_PRE"
  /\ busy \/ Due(ks[p]) = {}
  /\ Set(p, [ks[p] EXCEPT !.state = "ERROR"])
  /\ again' = [again EXCEPT ![p] = FALSE]
  /\ UNCHANGED <<net, faults>>

(* The blocks that follow a transmission run when nothing is sent.         *)
PassGoesOn(p, busy) ==
  /\ Running(p)
  /\ ks[p].state # "ERROR_PRE"
  /\ busy \/ Due(Handshake(p)) = {}

(* The rest of a pass.  It asks for another one when a block did           *)
(* something, except that taking the reset packet of the peer does not.    *)
(* The last pass is followed by a dedicated ACK if acks are waiting.       *)
Pass(p, busy) ==
  /\ PassGoesOn(p, busy)
  /\ \E j \in ReadIncoming(p, Handshake(p)) :
     \E k \in CheckOutgoing(WritePlaintext(p, ReceiveKey(p, SendKey(p, ReadPlaintext(j))))) :
       LET cont == \/ Handshake(p) # ks[p]
                   \/ \E e \in NextInSequence(ks[p]) : e.item # "reset"
                   \/ k # j
       IN  /\ again' = [again EXCEPT ![p] = cont]
           /\ IF cont \/ busy \/ k.recAck = <<>>
                THEN /\ Set(p, k)
                     /\ UNCHANGED <<net, faults>>
                ELSE \E w \in AckWrite(k, DedicatedMax) :
                       /\ Set(p, w.key)
                       /\ net' = net \cup {[from |-> p, item |-> "ack", id |-> 0,
                                            acks |-> w.acks]}
                       /\ UNCHANGED faults

(* The key states from which a pass may go to the error exit: where it     *)
(* calls the TLS object or reads or writes key material.                   *)
Broken(p, h) ==
  UNION {LET r == ReadPlaintext(j)
             s == SendKey(p, r)
             g == ReceiveKey(p, s)
         IN  {h} \cup {j} \cup {r} \cup {s} \cup {g} \cup {WritePlaintext(p, g)} :
           j \in ReadIncoming(p, h)}

TlsError(p, busy) ==
  /\ PassGoesOn(p, busy)
  /\ \E b \in Broken(p, Handshake(p)) : \E k \in ErrorExit(b) : Set(p, k)
  /\ again' = [again EXCEPT ![p] = TRUE]
  /\ Fault
  /\ UNCHANGED net

(* tls_pre_decrypt.  A packet from an unknown session is dropped unless it *)
(* opens one; that one makes everything pending due at once.               *)
Deliver(p, m) ==
  LET k == ks[p]
      linked == IF k.known THEN k ELSE [ScheduleNow(k) EXCEPT !.known = TRUE]
      purged == SendPurge(linked, m.acks)
  IN  IF ~k.known /\ m.item # "reset" THEN k
      ELSE IF m.item = "ack" THEN purged
      ELSE MarkActiveIncoming(purged, m.id, m.item)

Receive(p, m) ==
  /\ m \in net /\ m.from = Other[p]
  /\ ks[p].state # "ERROR" /\ ~again[p]
  /\ Set(p, Deliver(p, m))
  /\ \/ net' = net \ {m} /\ UNCHANGED faults
     \/ Fault /\ UNCHANGED net
  /\ UNCHANGED again

Lose(m) ==
  /\ Fault
  /\ net' = net \ {m}
  /\ UNCHANGED <<ks, again>>

ProcessState(p) ==
  \/ NegotiationTimeout(p)
  \/ Transmit(p)
  \/ \E busy \in BOOLEAN : StopProcessing(p, busy)
  \/ \E busy \in BOOLEAN : Pass(p, busy)
  \/ \E busy \in BOOLEAN : TlsError(p, busy)

Next ==
  \E p \in Peer : \/ ProcessState(p)
                  \/ \E m \in net : Receive(p, m) \/ Lose(m)

Spec == Init /\ [][Next]_vars

(* The event loop keeps calling tls_multi_process, retransmission timers   *)
(* fire, and the network delivers what it does not lose; nothing makes a   *)
(* negotiation time out or a TLS object fail.                              *)
Fairness ==
  \A p \in Peer :
    /\ WF_vars(Transmit(p)) /\ WF_vars(Pass(p, FALSE))
    /\ WF_vars(\E m \in net : Receive(p, m))

FairSpec == Spec /\ Fairness

-----------------------------------------------------------------------------
(* TypeOK: the shape of every variable; the two ack lists never outgrow    *)
(* their arrays.                                                           *)
TypeOK ==
  /\ ks \in [Peer -> KeyState]
  /\ again \in [Peer -> BOOLEAN]
  /\ net \in SUBSET Packet
  /\ faults \in 0 .. MaxFaults
  /\ \A p \in Peer : Len(ks[p].recAck) <= AckSize /\ Len(ks[p].lru) <= AckSize

(* NothingDropped: a peer that frees a send buffer because of an ack can   *)
(* rely on it: the other side has the packet, in its receive buffer or     *)
(* already handed on.                                                      *)
NothingDropped ==
  \A p \in Peer : \A i \in 0 .. (ks[p].sendId - 1) :
    i \in Ids(ks[p].send) \/ i < ks[Other[p]].recId \/ i \in Ids(ks[Other[p]].rec)

(* RoomForNext: the receive buffers are never all taken by packets that    *)
(* wait for one that no longer fits.                                       *)
RoomForNext ==
  \A p \in Peer : ~CanGet(ks[p]) => NextInSequence(ks[p]) # {}

(* OutputRoom: the ASSERT in write_outgoing_tls_ciphertext: as many send   *)
(* buffers are free as the id window promises.                             *)
OutputRoom ==
  \A p \in Peer : \A n \in 0 .. SendSize :
    Available(ks[p], n) => Cardinality(ks[p].send) + n <= SendSize

(* ActiveMeansKeys: a client that is active, or only waits for acks to be, *)
(* has the server's key material and the server has the client's.          *)
ActiveMeansKeys ==
  ks["client"].state \in {"GOT_KEY", "ACTIVE"} =>
    "key" \in Elems(ks["client"].read) /\ "key" \in Elems(ks["server"].read)

(* ImplementsStream: the control channel gives each TLS object the other's *)
(* output, in order, nothing skipped and nothing twice.                    *)
Stream == INSTANCE ControlStream WITH
  written <- [p \in Peer |-> ks[p].written],
  read <- [p \in Peer |-> ks[p].read]

ImplementsStream == Stream!Spec

(* Negotiated: unless one side gives up, both become active, whatever the  *)
(* network lost before.                                                    *)
Negotiated ==
  <>(\/ \E p \in Peer : ks[p].state \in {"ERROR_PRE", "ERROR"}
     \/ \A p \in Peer : ks[p].state = "ACTIVE")

=============================================================================
