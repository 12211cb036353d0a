------------------------------- MODULE PacketId -------------------------------
(***************************************************************************)
(* OpenVPN packet ids (packet_id.c): the sender's counter and the          *)
(* receiver's replay window, over a network that delivers packets late,    *)
(* out of order, repeatedly or never.                                      *)
(*                                                                         *)
(* A packet carries an id and, in the long form, the time of the sender's  *)
(* last rollover.  The receiver remembers the highest time and id and, in  *)
(* backtrack mode (UDP), a list of marks for the ids below it, newest      *)
(* first: UNSEEN, EXPIRED or the time of arrival.  Without backtrack (TCP) *)
(* ids must follow each other.                                             *)
(***************************************************************************)
EXTENDS Naturals, Sequences, FiniteSets

CONSTANTS
  SeqBacktrack,   \* seq_backtrack, the length of the window
  TimeBacktrack,  \* time_backtrack, seconds
  ReapInterval,   \* SEQ_REAP_INTERVAL, seconds
  IdMax,          \* PACKET_ID_MAX
  MaxNow,         \* bound on the clock
  MaxSent         \* bound on the packets sent

UNSEEN == 0
EXPIRED == 1

ASSUME PacketIdAssumption ==
  /\ SeqBacktrack \in Nat \ {0} /\ TimeBacktrack \in Nat
  /\ ReapInterval \in Nat \ {0} /\ IdMax \in Nat \ {0} /\ MaxNow \in Nat
  /\ MaxSent \in Nat

VARIABLES
  now,        \* the clock, always past the two special marks
  longForm,   \* CO_PACKET_ID_LONG_FORM
  backtrack,  \* seq_backtrack # 0
  send,       \* struct packet_id_send
  rec,        \* struct packet_id_rec
  sent,       \* the packet ids put on the wire
  hits,       \* history: how often each was accepted
  at          \* history: when each was last accepted

vars == <<now, longForm, backtrack, send, rec, sent, hits, at>>

Pin == [time : Nat, id : Nat]

Init ==
  /\ now = EXPIRED + 1
  /\ longForm \in BOOLEAN
  /\ backtrack \in BOOLEAN
  /\ send = [time |-> 0, id |-> 0]
  /\ rec = [time |-> 0, id |-> 0, list |-> <<>>, lastReap |-> 0]
  /\ sent = {}
  /\ hits = << >>
  /\ at = << >>

Tick ==
  /\ now < MaxNow
  /\ now' = now + 1
  /\ UNCHANGED <<longForm, backtrack, send, rec, sent, hits, at>>

-----------------------------------------------------------------------------
(* Mutant of Rollover: the counter rolls over within one second.           *)
RolloverAnytime(s) ==
  IF s.id = IdMax THEN longForm ELSE TRUE

(* packet_id_send_update: no id beyond the last one unless the time went   *)
(* on and is sent along; the caller drops the packet otherwise.            *)
Rollover(s) ==
  IF s.id = IdMax THEN longForm /\ now > s.time ELSE TRUE

SendUpdate(s) ==
  LET t == IF s.time = 0 THEN now ELSE s.time
  IN  IF s.id = IdMax THEN [time |-> now, id |-> 1] ELSE [time |-> t, id |-> s.id + 1]

(* packet_id_write, and packet_id_read at the other end.                   *)
Wire(s) == [time |-> IF longForm THEN s.time ELSE 0, id |-> s.id]

Write ==
  /\ Cardinality(sent) < MaxSent
  /\ Rollover(send)
  /\ send' = SendUpdate(send)
  /\ LET pin == Wire(send')
     IN  /\ sent' = sent \cup {pin}
         /\ hits' = [m \in sent' |-> IF m \in sent THEN hits[m] ELSE 0]
         /\ at' = [m \in sent' |-> IF m \in sent THEN at[m] ELSE 0]
  /\ UNCHANGED <<now, longForm, backtrack, rec>>

-----------------------------------------------------------------------------
(* packet_id_reap: from the newest mark that is too old on, everything     *)
(* that is not expired yet expires.                                        *)
TooOld(mark) == mark \notin {UNSEEN, EXPIRED} /\ mark + TimeBacktrack < now

(* Mutant of Reap: only the marks of arrival expire.                       *)
ReapSeenOnly(r) ==
  [r EXCEPT !.list = [i \in 1 .. Len(@) |-> IF TooOld(@[i]) THEN EXPIRED ELSE @[i]],
            !.lastReap = now]

Reap(r) ==
  [r EXCEPT
     !.list = IF TimeBacktrack = 0 THEN @
              ELSE [i \in 1 .. Len(@) |->
                      IF /\ \E j \in 1 .. i : TooOld(@[j])
                         /\ \A j \in 1 .. i : @[j] # EXPIRED
                        THEN EXPIRED ELSE @[i]],
     !.lastReap = now]

ReapTest(r) == IF r.lastReap + ReapInterval <= now THEN Reap(r) ELSE r

(* packet_id_test.  The list holds the ids r.id, r.id - 1 and so on.       *)
TestBacktrack(r, pin) ==
  \/ pin.time > r.time
  \/ /\ pin.time = r.time
     /\ \/ pin.id > r.id
        \/ /\ r.id - pin.id < Len(r.list)
           /\ r.list[r.id - pin.id + 1] = UNSEEN

TestInOrder(r, pin) ==
  \/ pin.time > r.time /\ pin.id = 1
  \/ pin.time = r.time /\ (r.id = 0 \/ pin.id = r.id + 1)

Test(r, pin) ==
  /\ pin.id # 0
  /\ IF backtrack THEN TestBacktrack(r, pin) ELSE TestInOrder(r, pin)

(* packet_id_add: a later time, an empty list or a jump of more than the   *)
(* window start a new list.                                                *)
StartsAnew(r, pin) ==
  \/ r.list = <<>>
  \/ pin.time > r.time
  \/ pin.id >= SeqBacktrack /\ pin.id - SeqBacktrack > r.id

(* Mutant of Restart: the new list begins with the packet itself.          *)
RestartAtPacket(r, pin) ==
  [r EXCEPT !.time = pin.time, !.id = pin.id - 1, !.list = <<>>]

Restart(r, pin) ==
  [r EXCEPT !.time = pin.time,
            !.id = IF pin.id > SeqBacktrack THEN pin.id - SeqBacktrack ELSE 0,
            !.list = <<>>]

(* Mutant of Advance: the list grows past its capacity.                    *)
AdvanceUnbounded(r, pin) ==
  LET d == pin.id - r.id
  IN  IF pin.id <= r.id THEN r
      ELSE [r EXCEPT !.id = pin.id,
                     !.list = [i \in 1 .. Len(@) + d |-> IF i <= d THEN UNSEEN ELSE @[i - d]]]

(* The loop that pushes UNSEEN marks until the newest is the packet's.     *)
Advance(r, pin) ==
  LET d == pin.id - r.id
      size == IF Len(r.list) + d < SeqBacktrack THEN Len(r.list) + d ELSE SeqBacktrack
  IN  IF pin.id <= r.id THEN r
      ELSE [r EXCEPT !.id = pin.id,
                     !.list = [i \in 1 .. size |-> IF i <= d THEN UNSEEN ELSE @[i - d]]]

(* Mutant of Mark: a packet that fills a gap is not marked.                *)
MarkNewestOnly(r, pin) ==
  IF r.id = pin.id THEN [r EXCEPT !.list[1] = now] ELSE r

Mark(r, pin) ==
  IF r.id - pin.id < Len(r.list)
    THEN [r EXCEPT !.list[r.id - pin.id + 1] = now]
    ELSE r

Add(r, pin) ==
  IF backtrack
    THEN Mark(Advance(IF StartsAnew(r, pin) THEN Restart(r, pin) ELSE r, pin), pin)
    ELSE [r EXCEPT !.time = pin.time, !.id = pin.id]

(* crypto_check_replay.                                                    *)
CheckReplay(pin) ==
  LET r == ReapTest(rec)
  IN  /\ pin \in sent
      /\ IF Test(r, pin)
           THEN /\ rec' = Add(r, pin)
                /\ hits' = [hits EXCEPT ![pin] = @ + 1]
                /\ at' = [at EXCEPT ![pin] = now]
           ELSE rec' = r /\ UNCHANGED <<hits, at>>
      /\ UNCHANGED <<now, longForm, backtrack, send, sent>>

Next == Tick \/ Write \/ \E pin \in sent : CheckReplay(pin)

Spec == Init /\ [][Next]_vars

-----------------------------------------------------------------------------
(* TypeOK: the shape of every variable; the list stays within its window.  *)
TypeOK ==
  /\ now \in Nat \ {UNSEEN, EXPIRED}
  /\ longForm \in BOOLEAN /\ backtrack \in BOOLEAN
  /\ send \in [time : Nat, id : 0 .. IdMax]
  /\ rec \in [time : Nat, id : Nat, list : Seq(Nat), lastReap : Nat]
  /\ Len(rec.list) <= SeqBacktrack
  /\ sent \in SUBSET Pin
  /\ hits \in [sent -> Nat] /\ at \in [sent -> Nat]

(* NoReplay: no packet id is accepted twice, however late, often and out   *)
(* of order the network delivers it.                                       *)
NoReplay == \A m \in sent : hits[m] <= 1

(* Later(m): accepted packets of the same time with a higher id.           *)
Later(m) == {n \in sent : hits[n] > 0 /\ n.time = m.time /\ n.id > m.id}

(* NoFalseAlarm: in backtrack mode packet_id_test always lets through a    *)
(* packet that was never accepted and comes neither after one of a later   *)
(* time, nor behind one a whole window ahead, nor TimeBacktrack after one  *)
(* ahead of it: whatever the window has been through, were the packet to   *)
(* arrive now, the reap that comes first and the test would pass it.       *)
NoFalseAlarm ==
  backtrack =>
    \A m \in sent :
      /\ hits[m] = 0
      /\ \A n \in sent : hits[n] > 0 => n.time <= m.time
      /\ \A n \in Later(m) : n.id < m.id + SeqBacktrack /\ now <= at[n] + TimeBacktrack
      => Test(ReapTest(rec), m)

(* TimelyOnly: in backtrack mode, a packet is accepted out of order only   *)
(* within TimeBacktrack of the packets it follows, give or take the time   *)
(* between two reaps.                                                      *)
TimelyOnly ==
  [][\A m \in sent :
       /\ backtrack /\ TimeBacktrack > 0
       /\ hits'[m] > hits[m]
       => \A n \in Later(m) : now < at[n] + TimeBacktrack + ReapInterval]_vars

(* NoIdReused: the sender never puts the same id and time on the wire      *)
(* twice, not even when its counter rolls over.                            *)
NoIdReused ==
  [][send' # send => \E pin \in sent' : pin \notin sent]_vars

=============================================================================
