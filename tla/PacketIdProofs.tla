---------------------------- MODULE PacketIdProofs ----------------------------
(***************************************************************************)
(* Proofs that the replay window of PacketId accepts no packet id twice    *)
(* and that the sender reuses none, for any window, timeout, counter width *)
(* and length of the run.                                                  *)
(***************************************************************************)
EXTENDS PacketId, SequenceTheorems, TLAPS

Rec == [time : Nat, id : Nat, list : Seq(Nat), lastReap : Nat]

\* The window r rejects m from now on.
Seen(r, m) ==
  \/ m.time < r.time
  \/ /\ m.time = r.time /\ m.id <= r.id
     /\ ~backtrack \/ r.id - m.id >= Len(r.list) \/ r.list[r.id - m.id + 1] # UNSEEN

\* An empty list is that of a receiver that has accepted nothing.
EmptyInv == backtrack /\ Len(rec.list) = 0 => rec.id = 0 /\ rec.time = 0

\* Whatever was accepted was accepted once and is rejected from now on.
WindowInv == \A m \in sent : m.id > 0 /\ hits[m] <= 1 /\ (hits[m] > 0 => Seen(rec, m))

\* Every id on the wire is behind the sender's counter.
SendInv ==
  /\ send.time <= now
  /\ send.time = 0 => send.id = 0 /\ sent = {}
  /\ \A m \in sent : \/ longForm /\ m.time < send.time
                     \/ m.time = Wire(send).time /\ m.id <= send.id

IInv == TypeOK /\ EmptyInv /\ WindowInv /\ SendInv

-----------------------------------------------------------------------------
USE PacketIdAssumption DEF UNSEEN, EXPIRED

LEMMA FunctionIsSeq ==
  ASSUME NEW n \in Nat, NEW f \in [1 .. n -> Nat]
  PROVE  f \in Seq(Nat) /\ Len(f) = n
  <1>1. f \in Seq(Nat)
    BY SeqDef
  <1>2. QED
    BY <1>1, LenProperties

LEMMA InitIInv == Init => IInv
  <1> SUFFICES ASSUME Init PROVE IInv
    OBVIOUS
  <1> USE DEF Init
  <1>1. TypeOK
    <2>1. rec \in Rec /\ Len(rec.list) = 0
      BY EmptySeq DEF Rec
    <2>2. send \in [time : Nat, id : 0 .. IdMax] /\ now \in Nat \ {0, 1}
      OBVIOUS
    <2>3. hits \in [sent -> Nat] /\ at \in [sent -> Nat]
      OBVIOUS
    <2>4. QED
      BY <2>1, <2>2, <2>3 DEF TypeOK, Rec
  <1>2. EmptyInv /\ WindowInv /\ SendInv
    BY DEF EmptyInv, WindowInv, SendInv
  <1>3. QED
    BY <1>1, <1>2 DEF IInv

-----------------------------------------------------------------------------
\* Expiring marks forgets no packet.
LEMMA ReapTestSeen ==
  ASSUME NEW r \in Rec, now \in Nat
  PROVE  /\ ReapTest(r) \in Rec
         /\ ReapTest(r).time = r.time /\ ReapTest(r).id = r.id
         /\ Len(ReapTest(r).list) = Len(r.list)
         /\ \A m \in Pin : Seen(r, m) => Seen(ReapTest(r), m)
  <1> DEFINE n == Len(r.list)
             f == [i \in 1 .. n |-> IF /\ \E j \in 1 .. i : TooOld(r.list[j])
                                       /\ \A j \in 1 .. i : r.list[j] # EXPIRED
                                      THEN EXPIRED ELSE r.list[i]]
  <1>1. n \in Nat /\ r.list \in [1 .. n -> Nat] /\ r.time \in Nat /\ r.id \in Nat
    BY LenProperties DEF Rec
  <1>2. f \in [1 .. n -> Nat]
    BY <1>1
  <1>3. f \in Seq(Nat) /\ Len(f) = n
    <2> HIDE DEF f, n
    <2> QED
      BY <1>1, <1>2, FunctionIsSeq
  <1>4. PICK l \in Seq(Nat) : /\ ReapTest(r).list = l /\ Len(l) = n
                              /\ \A i \in 1 .. n : r.list[i] # UNSEEN => l[i] # UNSEEN
    <2>1. ReapTest(r).list \in {r.list, f}
      BY DEF ReapTest, Reap, Rec
    <2>2. \A i \in 1 .. n : r.list[i] # UNSEEN => f[i] # UNSEEN
      BY <1>1
    <2>3. r.list \in Seq(Nat)
      BY DEF Rec
    <2> HIDE DEF f
    <2>4. QED
      BY <1>3, <2>1, <2>2, <2>3
  <1>5. /\ ReapTest(r).time = r.time /\ ReapTest(r).id = r.id
        /\ ReapTest(r).lastReap \in Nat
        /\ ReapTest(r) = [time |-> ReapTest(r).time, id |-> ReapTest(r).id,
                          list |-> ReapTest(r).list, lastReap |-> ReapTest(r).lastReap]
    BY DEF ReapTest, Reap, Rec
  <1>6. ReapTest(r) \in Rec
    BY <1>1, <1>4, <1>5 DEF Rec
  <1>7. ASSUME NEW m \in Pin, Seen(r, m) PROVE Seen(ReapTest(r), m)
    <2>1. m.time \in Nat /\ m.id \in Nat
      BY DEF Pin
    <2>2. CASE m.time < r.time
      BY <1>5, <2>2 DEF Seen
    <2>3. CASE m.time = r.time /\ m.id <= r.id /\ backtrack /\ r.id - m.id < n
      <3>1. r.id - m.id + 1 \in 1 .. n /\ r.list[r.id - m.id + 1] # UNSEEN
        BY <1>1, <1>7, <2>1, <2>3 DEF Seen
      <3>2. ReapTest(r).list[r.id - m.id + 1] # UNSEEN
        BY <1>4, <3>1
      <3>3. QED
        BY <1>5, <2>3, <3>2 DEF Seen
    <2>4. CASE m.time = r.time /\ m.id <= r.id /\ (~backtrack \/ r.id - m.id >= n)
      BY <1>4, <1>5, <2>4 DEF Seen
    <2>5. QED
      BY <1>1, <1>7, <2>1, <2>2, <2>3, <2>4 DEF Seen
  <1>8. QED
    BY <1>4, <1>5, <1>6, <1>7

\* A new list starts only where it forgets no packet.
LEMMA RestartSeen ==
  ASSUME NEW r \in Rec, NEW pin \in Pin, backtrack, Test(r, pin), StartsAnew(r, pin),
         Len(r.list) = 0 => r.id = 0 /\ r.time = 0
  PROVE  /\ Restart(r, pin) \in Rec
         /\ Restart(r, pin).time = pin.time /\ Restart(r, pin).id < pin.id
         /\ Len(Restart(r, pin).list) = 0
         /\ \A m \in Pin : m.id > 0 /\ Seen(r, m) => Seen(Restart(r, pin), m)
  <1> DEFINE i == IF pin.id > SeqBacktrack THEN pin.id - SeqBacktrack ELSE 0
  <1>1. /\ r.time \in Nat /\ r.id \in Nat /\ r.lastReap \in Nat /\ pin.time \in Nat /\ pin.id \in Nat
        /\ pin.id # 0
    BY DEF Rec, Pin, Test
  <1>2. i \in Nat /\ i < pin.id
    BY <1>1
  <1>3. <<>> \in Seq(Nat) /\ Len(<<>>) = 0
    BY EmptySeq
  <1>4. /\ Restart(r, pin) \in Rec
        /\ Restart(r, pin).time = pin.time /\ Restart(r, pin).id = i /\ Restart(r, pin).list = <<>>
    <2>1. PICK j \in Nat, e \in Seq(Nat) : j = i /\ e = <<>>
      <3> HIDE DEF i
      <3> QED
        BY <1>2, <1>3, Zenon
    <2>2. Restart(r, pin) = [r EXCEPT !.time = pin.time, !.id = j, !.list = e]
      BY <2>1 DEF Restart
    <2>3. /\ Restart(r, pin) \in Rec
          /\ Restart(r, pin).time = pin.time /\ Restart(r, pin).id = j /\ Restart(r, pin).list = e
      BY <1>1, <2>2 DEF Rec
    <2>4. QED
      BY <2>1, <2>3
  <1>6. ASSUME NEW m \in Pin, m.id > 0, Seen(r, m) PROVE Seen(Restart(r, pin), m)
    <2>1. m.time \in Nat /\ m.id \in Nat
      BY DEF Pin
    <2>2. m.time < r.time \/ (m.time = r.time /\ m.id <= r.id)
      BY <1>6 DEF Seen
    <2>3. Restart(r, pin).time = pin.time /\ Restart(r, pin).id = i /\ Len(Restart(r, pin).list) = 0
      BY <1>3, <1>4, Zenon
    <2>4. CASE r.list = <<>>
      BY <1>1, <1>3, <1>6, <2>1, <2>2, <2>4
    <2>5. CASE pin.time > r.time
      BY <1>1, <2>1, <2>2, <2>3, <2>5 DEF Seen
    <2>6. CASE pin.time <= r.time /\ pin.id >= SeqBacktrack /\ pin.id - SeqBacktrack > r.id
      <3>1. pin.time = r.time
        BY <1>1, <2>6 DEF Test, TestBacktrack
      <3>2. i > r.id
        BY <1>1, <2>6
      <3>3. CASE m.time < r.time
        BY <2>3, <3>1, <3>3 DEF Seen
      <3>4. CASE m.time = r.time /\ m.id <= r.id
        <4>1. m.id <= i /\ i - m.id >= 0
          BY <1>1, <1>2, <2>1, <3>2, <3>4
        <4>2. QED
          BY <2>3, <3>1, <3>4, <4>1 DEF Seen
      <3>5. QED
        BY <2>2, <3>3, <3>4
    <2>7. QED
      BY <1>1, <2>4, <2>5, <2>6 DEF StartsAnew
  <1>7. QED
    BY <1>2, <1>3, <1>4, <1>6

\* Where a mark goes when the newest id becomes p.
LEMMA Shift ==
  ASSUME NEW p \in Nat, NEW q \in Nat, NEW c \in Nat, NEW s \in Nat, NEW n \in Nat,
         c <= q, q < p, p - c < s, s <= n + (p - q)
  PROVE  /\ q - c < n /\ c <= p
         /\ p - c + 1 \in 1 .. s /\ ~(p - c + 1 <= p - q)
         /\ (p - c + 1) - (p - q) = q - c + 1
  OBVIOUS

\* Pushing marks keeps those that stay and forgets none that leave.
LEMMA AdvanceSeen ==
  ASSUME NEW r \in Rec, NEW pin \in Pin, backtrack, r.time = pin.time,
         Len(r.list) <= SeqBacktrack, Len(r.list) = 0 => r.id < pin.id
  PROVE  /\ Advance(r, pin) \in Rec
         /\ Advance(r, pin).time = pin.time /\ pin.id <= Advance(r, pin).id
         /\ Len(Advance(r, pin).list) \in 1 .. SeqBacktrack
         /\ \A m \in Pin : Seen(r, m) => Seen(Advance(r, pin), m)
  <1> DEFINE n == Len(r.list)
             d == pin.id - r.id
             size == IF n + d < SeqBacktrack THEN n + d ELSE SeqBacktrack
             f == [i \in 1 .. size |-> IF i <= d THEN UNSEEN ELSE r.list[i - d]]
  <1>1. /\ n \in Nat /\ r.list \in Seq(Nat) /\ r.list \in [1 .. n -> Nat]
        /\ r.time \in Nat /\ r.id \in Nat /\ r.lastReap \in Nat
        /\ pin.time \in Nat /\ pin.id \in Nat
    BY LenProperties DEF Rec, Pin
  <1>2. CASE pin.id <= r.id
    <2>1. Advance(r, pin) = r
      BY <1>2 DEF Advance
    <2>2. QED
      BY <1>1, <1>2, <2>1
  <1>3. CASE r.id < pin.id
    <2>1. d \in Nat /\ d > 0 /\ size \in 1 .. SeqBacktrack /\ size <= n + d
      BY <1>1, <1>3
    <2>2. f \in [1 .. size -> Nat]
      <3> SUFFICES ASSUME NEW i \in 1 .. size PROVE f[i] \in Nat
        OBVIOUS
      <3>1. CASE i <= d
        BY <3>1
      <3>2. CASE i > d
        <4>1. i - d \in 1 .. n
          BY <1>1, <2>1, <3>2
        <4>2. QED
          BY <1>1, <2>1, <3>2, <4>1
      <3>3. QED
        BY <2>1, <3>1, <3>2
    <2>3. f \in Seq(Nat) /\ Len(f) = size
      <3>1. size \in Nat
        BY <2>1
      <3> HIDE DEF f, size
      <3> QED
        BY <2>2, <3>1, FunctionIsSeq
    <2>4. ~(pin.id <= r.id)
      BY <1>1, <1>3
    <2>5. Advance(r, pin) = [time |-> r.time, id |-> pin.id, list |-> f, lastReap |-> r.lastReap]
      BY <2>4 DEF Advance, Rec
    <2>6. Advance(r, pin) \in Rec
      <3> HIDE DEF f
      <3> QED
        BY <1>1, <2>3, <2>5 DEF Rec
    <2>7. /\ Advance(r, pin).time = r.time /\ Advance(r, pin).id = pin.id
          /\ Advance(r, pin).list = f /\ Len(Advance(r, pin).list) = size
      <3> HIDE DEF f, size
      <3> QED
        BY <2>3, <2>5
    <2>8. ASSUME NEW m \in Pin, Seen(r, m) PROVE Seen(Advance(r, pin), m)
      <3>1. m.time \in Nat /\ m.id \in Nat
        BY DEF Pin
      <3>2. CASE m.time < r.time
        BY <2>7, <3>2 DEF Seen
      <3>3. CASE m.time = r.time /\ m.id <= r.id /\ pin.id - m.id >= size
        <4>1. m.id <= pin.id
          BY <1>1, <1>3, <3>1, <3>3
        <4> HIDE DEF f, size
        <4> QED
          BY <2>7, <3>3, <4>1 DEF Seen
      <3>4. CASE m.time = r.time /\ m.id <= r.id /\ pin.id - m.id < size
        <4>0. size \in Nat /\ size <= n + (pin.id - r.id)
          BY <2>1
        <4>1. /\ r.id - m.id < n /\ m.id <= pin.id
              /\ pin.id - m.id + 1 \in 1 .. size /\ ~(pin.id - m.id + 1 <= d)
              /\ (pin.id - m.id + 1) - d = r.id - m.id + 1
          <5>1. /\ pin.id \in Nat /\ r.id \in Nat /\ m.id \in Nat /\ n \in Nat
                /\ m.id <= r.id /\ r.id < pin.id /\ pin.id - m.id < size
            BY <1>1, <1>3, <3>1, <3>4
          <5> HIDE DEF n, size, f
          <5>2. PICK p \in Nat, q \in Nat, c \in Nat, s \in Nat, k \in Nat :
                  p = pin.id /\ q = r.id /\ c = m.id /\ s = size /\ k = n
            BY <4>0, <5>1
          <5>3. c <= q /\ q < p /\ p - c < s /\ s <= k + (p - q)
            BY <4>0, <5>1, <5>2
          <5>4. /\ q - c < k /\ c <= p
                /\ p - c + 1 \in 1 .. s /\ ~(p - c + 1 <= p - q)
                /\ (p - c + 1) - (p - q) = q - c + 1
            BY <5>3, Shift
          <5>5. QED
            BY <5>2, <5>4, Zenon
        <4>2. r.list[r.id - m.id + 1] # UNSEEN
          BY <1>1, <2>8, <3>1, <3>4, <4>1 DEF Seen
        <4>3. f[pin.id - m.id + 1] = r.list[(pin.id - m.id + 1) - d]
          <5> HIDE DEF size, d
          <5> QED
            BY <4>1
        <4>4. f[pin.id - m.id + 1] = r.list[r.id - m.id + 1]
          <5> HIDE DEF size, d, f
          <5> QED
            BY <4>1, <4>3
        <4>5. Advance(r, pin).list[pin.id - m.id + 1] # UNSEEN
          BY <2>7, <4>2, <4>4
        <4> HIDE DEF f, size
        <4>6. QED
          BY <2>7, <3>4, <4>1, <4>5 DEF Seen
      <3>5. m.time < r.time \/ (m.time = r.time /\ m.id <= r.id)
        BY <2>8 DEF Seen
      <3>6. QED
        BY <1>1, <2>1, <3>1, <3>2, <3>3, <3>4, <3>5
    <2> HIDE DEF f, size
    <2>9. QED
      BY <1>1, <2>1, <2>6, <2>7, <2>8
  <1>4. QED
    BY <1>1, <1>2, <1>3

\* The packet is marked, or already out of the window.
LEMMA MarkSeen ==
  ASSUME NEW r \in Rec, NEW pin \in Pin, r.time = pin.time, pin.id <= r.id, now \in Nat \ {0, 1}
  PROVE  /\ Mark(r, pin) \in Rec
         /\ Len(Mark(r, pin).list) = Len(r.list)
         /\ \A m \in Pin : Seen(r, m) \/ m = pin => Seen(Mark(r, pin), m)
  <1> DEFINE n == Len(r.list)
             k == r.id - pin.id + 1
             f == [r.list EXCEPT ![k] = now]
  <1>1. /\ n \in Nat /\ r.list \in Seq(Nat) /\ r.list \in [1 .. n -> Nat]
        /\ r.time \in Nat /\ r.id \in Nat /\ r.lastReap \in Nat
        /\ pin.time \in Nat /\ pin.id \in Nat
    BY LenProperties DEF Rec, Pin
  <1>2. CASE r.id - pin.id >= n
    <2>1. Mark(r, pin) = r
      BY <1>1, <1>2 DEF Mark
    <2>2. Seen(r, pin)
      BY <1>2 DEF Seen
    <2>3. QED
      BY <2>1, <2>2
  <1>3. CASE r.id - pin.id < n
    <2>1. k \in 1 .. n
      BY <1>1, <1>3
    <2>2. /\ f \in Seq(Nat) /\ Len(f) = n /\ f[k] = now
          /\ \A j \in 1 .. n : r.list[j] # UNSEEN => f[j] # UNSEEN
      BY <1>1, <2>1, LenProperties
    <2>3. Mark(r, pin) = [time |-> r.time, id |-> r.id, list |-> f, lastReap |-> r.lastReap]
      BY <1>3 DEF Mark, Rec
    <2> HIDE DEF f
    <2>4. Mark(r, pin) \in Rec
      BY <1>1, <2>2, <2>3 DEF Rec
    <2>5. Mark(r, pin).time = r.time /\ Mark(r, pin).id = r.id /\ Mark(r, pin).list = f
      BY <2>3
    <2>6. Seen(Mark(r, pin), pin)
      BY <2>2, <2>5 DEF Seen
    <2>7. ASSUME NEW m \in Pin, Seen(r, m) PROVE Seen(Mark(r, pin), m)
      <3>1. m.time \in Nat /\ m.id \in Nat
        BY DEF Pin
      <3>2. CASE m.time = r.time /\ m.id <= r.id /\ r.id - m.id < n /\ backtrack
        <4>1. r.id - m.id + 1 \in 1 .. n /\ r.list[r.id - m.id + 1] # UNSEEN
          BY <1>1, <2>7, <3>1, <3>2 DEF Seen
        <4>2. QED
          BY <2>2, <2>5, <3>2, <4>1 DEF Seen
      <3>3. CASE m.time < r.time
        BY <2>5, <3>3 DEF Seen
      <3>4. CASE m.time = r.time /\ m.id <= r.id /\ (r.id - m.id >= n \/ ~backtrack)
        BY <2>2, <2>5, <3>4 DEF Seen
      <3>5. QED
        BY <1>1, <2>7, <3>1, <3>2, <3>3, <3>4 DEF Seen
    <2>8. QED
      BY <2>2, <2>4, <2>5, <2>6, <2>7
  <1>4. QED
    BY <1>1, <1>2, <1>3

\* What an accepted packet does to the window.
LEMMA AddSeen ==
  ASSUME NEW r \in Rec, NEW pin \in Pin, Test(r, pin), now \in Nat \ {0, 1}, backtrack \in BOOLEAN,
         Len(r.list) <= SeqBacktrack,
         backtrack /\ Len(r.list) = 0 => r.id = 0 /\ r.time = 0
  PROVE  /\ Add(r, pin) \in Rec
         /\ Len(Add(r, pin).list) <= SeqBacktrack
         /\ backtrack => Len(Add(r, pin).list) # 0
         /\ \A m \in Pin : m.id > 0 /\ (Seen(r, m) \/ m = pin) => Seen(Add(r, pin), m)
  <1>1. /\ r.time \in Nat /\ r.id \in Nat /\ Len(r.list) \in Nat
        /\ pin.time \in Nat /\ pin.id \in Nat /\ pin.id # 0
    BY LenProperties DEF Rec, Pin, Test
  <1>2. CASE backtrack
    <2>1. PICK b \in Rec : /\ b = IF StartsAnew(r, pin) THEN Restart(r, pin) ELSE r
                           /\ b.time = pin.time /\ Len(b.list) <= SeqBacktrack
                           /\ Len(b.list) = 0 => b.id < pin.id
                           /\ \A m \in Pin : m.id > 0 /\ Seen(r, m) => Seen(b, m)
      <3>1. CASE StartsAnew(r, pin)
        <4>1. /\ Restart(r, pin) \in Rec
              /\ Restart(r, pin).time = pin.time /\ Restart(r, pin).id < pin.id
              /\ Len(Restart(r, pin).list) = 0
              /\ \A m \in Pin : m.id > 0 /\ Seen(r, m) => Seen(Restart(r, pin), m)
          BY <1>2, <3>1, RestartSeen
        <4>2. Len(Restart(r, pin).list) <= SeqBacktrack
          BY <4>1
        <4>3. QED
          BY <3>1, <4>1, <4>2, Zenon
      <3>2. CASE ~StartsAnew(r, pin)
        <4>1. r.list # <<>> /\ ~(pin.time > r.time)
          BY <3>2 DEF StartsAnew
        <4>2. Len(r.list) # 0
          BY <4>1, EmptySeq DEF Rec
        <4>3. r.time = pin.time
          BY <1>1, <1>2, <4>1 DEF Test, TestBacktrack
        <4>4. QED
          BY <3>2, <4>2, <4>3, Zenon
      <3>3. QED
        BY <3>1, <3>2
    <2>2. PICK a \in Rec : /\ a = Advance(b, pin)
                           /\ a.time = pin.time /\ pin.id <= a.id
                           /\ Len(a.list) \in 1 .. SeqBacktrack
                           /\ \A m \in Pin : Seen(b, m) => Seen(a, m)
      <3>1. /\ Advance(b, pin) \in Rec
            /\ Advance(b, pin).time = pin.time /\ pin.id <= Advance(b, pin).id
            /\ Len(Advance(b, pin).list) \in 1 .. SeqBacktrack
            /\ \A m \in Pin : Seen(b, m) => Seen(Advance(b, pin), m)
        BY <1>2, <2>1, AdvanceSeen
      <3>2. QED
        BY <3>1, Zenon
    <2>3. /\ Mark(a, pin) \in Rec /\ Len(Mark(a, pin).list) = Len(a.list)
          /\ \A m \in Pin : Seen(a, m) \/ m = pin => Seen(Mark(a, pin), m)
      BY <2>2, MarkSeen
    <2>4. Add(r, pin) = Mark(a, pin)
      BY <1>2, <2>1, <2>2 DEF Add
    <2>5. Len(Mark(a, pin).list) <= SeqBacktrack /\ Len(Mark(a, pin).list) # 0
      BY <2>2, <2>3
    <2>6. QED
      BY <2>1, <2>2, <2>3, <2>4, <2>5
  <1>3. CASE ~backtrack
    <2>1. Add(r, pin) = [r EXCEPT !.time = pin.time, !.id = pin.id]
      BY <1>3 DEF Add
    <2>2. /\ Add(r, pin) \in Rec /\ Add(r, pin).time = pin.time /\ Add(r, pin).id = pin.id
          /\ Add(r, pin).list = r.list
      BY <1>1, <2>1 DEF Rec
    <2>3. pin.time > r.time \/ (pin.time = r.time /\ (r.id = 0 \/ pin.id = r.id + 1))
      BY <1>3 DEF Test, TestInOrder
    <2>4. ASSUME NEW m \in Pin, m.id > 0, Seen(r, m) \/ m = pin PROVE Seen(Add(r, pin), m)
      <3>1. m.time \in Nat /\ m.id \in Nat
        BY DEF Pin
      <3>2. CASE m = pin
        BY <1>1, <1>3, <2>2, <3>2 DEF Seen
      <3>3. CASE Seen(r, m)
        <4>1. m.time < r.time \/ (m.time = r.time /\ m.id <= r.id)
          BY <3>3 DEF Seen
        <4>2. m.time < pin.time \/ (m.time = pin.time /\ m.id <= pin.id)
          BY <1>1, <2>3, <2>4, <3>1, <4>1
        <4>3. QED
          BY <1>3, <2>2, <4>2 DEF Seen
      <3>4. QED
        BY <2>4, <3>2, <3>3
    <2>5. QED
      BY <1>3, <2>2, <2>4
  <1>4. QED
    BY <1>2, <1>3

\* A packet the window rejects for good does not pass the test.
LEMMA SeenFails ==
  ASSUME NEW r \in Rec, NEW pin \in Pin, backtrack \in BOOLEAN, Seen(r, pin) PROVE ~Test(r, pin)
  <1> SUFFICES ASSUME Test(r, pin) PROVE FALSE
    OBVIOUS
  <1>1. /\ r.time \in Nat /\ r.id \in Nat /\ Len(r.list) \in Nat
        /\ pin.time \in Nat /\ pin.id \in Nat /\ pin.id # 0
    BY LenProperties DEF Rec, Pin, Test
  <1>2. CASE backtrack
    <2>1. TestBacktrack(r, pin)
      BY <1>2 DEF Test
    <2>2. QED
      BY <1>1, <1>2, <2>1 DEF TestBacktrack, Seen
  <1>3. CASE ~backtrack
    <2>1. TestInOrder(r, pin)
      BY <1>3 DEF Test
    <2>2. QED
      BY <1>1, <2>1 DEF TestInOrder, Seen
  <1>4. QED
    BY <1>2, <1>3

-----------------------------------------------------------------------------
LEMMA TickIInv == IInv /\ Tick => IInv'
  <1> SUFFICES ASSUME IInv, Tick PROVE IInv'
    OBVIOUS
  <1> USE DEF IInv
  <1>1. now' = now + 1 /\ UNCHANGED <<longForm, backtrack, send, rec, sent, hits, at>>
    BY DEF Tick
  <1>2. now \in Nat \ {0, 1} /\ now' \in Nat \ {0, 1} /\ now <= now'
    BY <1>1 DEF TypeOK
  <1>3. TypeOK'
    BY <1>1, <1>2 DEF TypeOK
  <1>4. (EmptyInv /\ WindowInv)'
    BY <1>1 DEF EmptyInv, WindowInv, Seen
  <1>5. SendInv'
    <2>1. send'.time <= now'
      BY <1>1, <1>2 DEF TypeOK, SendInv
    <2>2. QED
      BY <1>1, <2>1 DEF SendInv, Wire
  <1>6. QED
    BY <1>3, <1>4, <1>5

\* The counter moves on past every id on the wire.
LEMMA SendUpdateFresh ==
  ASSUME IInv, Write
  PROVE  /\ send' \in [time : Nat, id : 1 .. IdMax]
         /\ 0 < send'.time /\ send'.time <= now
         /\ \/ send'.id = send.id + 1 /\ (send.time = 0 \/ send'.time = send.time)
            \/ longForm /\ send'.time > send.time
  <1> USE DEF IInv
  <1>1. /\ send.time \in Nat /\ send.id \in 0 .. IdMax /\ now \in Nat \ {0, 1} /\ send.time <= now
    BY DEF TypeOK, SendInv
  <1>2. send' = SendUpdate(send) /\ Rollover(send)
    BY DEF Write
  <1>3. CASE send.id = IdMax
    <2>1. send' = [time |-> now, id |-> 1]
      BY <1>2, <1>3 DEF SendUpdate
    <2>2. longForm /\ now > send.time
      BY <1>2, <1>3 DEF Rollover
    <2>3. QED
      BY <1>1, <2>1, <2>2
  <1>4. CASE send.id # IdMax
    <2>1. CASE send.time = 0
      <3>1. send' = [time |-> now, id |-> send.id + 1]
        BY <1>2, <1>4, <2>1 DEF SendUpdate
      <3>2. QED
        BY <1>1, <1>4, <2>1, <3>1
    <2>2. CASE send.time # 0
      <3>1. send' = [time |-> send.time, id |-> send.id + 1]
        BY <1>2, <1>4, <2>2 DEF SendUpdate
      <3>2. QED
        BY <1>1, <1>4, <2>2, <3>1
    <2>3. QED
      BY <2>1, <2>2
  <1>5. QED
    BY <1>3, <1>4

\* The id of the packet being written is new, and the older ones stay behind.
LEMMA WriteFresh ==
  ASSUME IInv, Write
  PROVE  /\ Wire(send') \notin sent
         /\ \A m \in sent : \/ longForm /\ m.time < send'.time
                            \/ m.time = Wire(send').time /\ m.id <= send'.id
  <1> USE DEF IInv
  <1>1. /\ send'.time \in Nat /\ send'.id \in Nat /\ send.time \in Nat /\ send.id \in Nat
        /\ longForm \in BOOLEAN
        /\ \A m \in sent : m.time \in Nat /\ m.id \in Nat
    BY SendUpdateFresh DEF TypeOK, Pin
  <1>2. \/ send'.id = send.id + 1 /\ (send.time = 0 \/ send'.time = send.time)
        \/ longForm /\ send'.time > send.time
    BY SendUpdateFresh
  <1>3. \A m \in sent : send.time # 0
    BY DEF SendInv
  <1>4. CASE longForm
    <2>1. Wire(send).time = send.time /\ Wire(send').time = send'.time /\ Wire(send').id = send'.id
      BY <1>4 DEF Wire
    <2>2. \A m \in sent : m.time < send.time \/ (m.time = send.time /\ m.id <= send.id)
      BY <2>1 DEF SendInv
    <2>3. \A m \in sent : m.time < send'.time \/ (m.time = send'.time /\ m.id < send'.id)
      BY <1>1, <1>2, <1>3, <2>2
    <2>4. Wire(send') \notin sent
      BY <1>1, <2>1, <2>3
    <2>5. \A m \in sent : m.id < send'.id => m.id <= send'.id
      BY <1>1
    <2>6. QED
      BY <1>4, <2>1, <2>3, <2>4, <2>5
  <1>5. CASE ~longForm
    <2>1. Wire(send).time = 0 /\ Wire(send').time = 0 /\ Wire(send').id = send'.id
      BY <1>5 DEF Wire
    <2>2. \A m \in sent : m.time = 0 /\ m.id <= send.id
      BY <1>5, <2>1 DEF SendInv
    <2>3. send'.id = send.id + 1
      BY <1>2, <1>5
    <2>4. \A m \in sent : m.id < send'.id /\ m.id <= send'.id
      BY <1>1, <2>2, <2>3
    <2>5. Wire(send') \notin sent
      BY <1>1, <2>1, <2>4
    <2>6. QED
      BY <2>1, <2>2, <2>4, <2>5
  <1>6. QED
    BY <1>1, <1>4, <1>5

LEMMA WriteIInv == IInv /\ Write => IInv'
  <1> SUFFICES ASSUME IInv, Write PROVE IInv'
    OBVIOUS
  <1> USE DEF IInv
  <1>1. PICK pin \in Pin : /\ pin = Wire(send') /\ pin.id > 0 /\ pin.id = send'.id
                           /\ pin.time = Wire(send').time
    <2>1. Wire(send') \in Pin /\ Wire(send').id > 0 /\ Wire(send').id = send'.id
      BY SendUpdateFresh DEF Wire, Pin
    <2>2. QED
      BY <2>1, Zenon
  <1>2. /\ sent' = sent \cup {pin}
        /\ hits' = [m \in sent' |-> IF m \in sent THEN hits[m] ELSE 0]
        /\ at' = [m \in sent' |-> IF m \in sent THEN at[m] ELSE 0]
        /\ UNCHANGED <<now, longForm, backtrack, rec>>
    BY <1>1 DEF Write
  <1>3. /\ send' \in [time : Nat, id : 0 .. IdMax] /\ send'.time # 0 /\ send'.time <= now
    BY SendUpdateFresh
  <1>4. pin \notin sent
    BY <1>1, WriteFresh
  <1>5. TypeOK'
    <2>1. sent' \in SUBSET Pin
      BY <1>2 DEF TypeOK
    <2>2. hits' \in [sent' -> Nat] /\ at' \in [sent' -> Nat]
      BY <1>2 DEF TypeOK
    <2>3. QED
      BY <1>2, <1>3, <2>1, <2>2 DEF TypeOK
  <1>6. EmptyInv'
    BY <1>2 DEF EmptyInv
  <1>7. WindowInv'
    <2>1. \A m \in sent' : hits'[m] = IF m \in sent THEN hits[m] ELSE 0
      BY <1>2
    <2>2. \A m : Seen(rec, m)' <=> Seen(rec, m)
      BY <1>2 DEF Seen
    <2>3. QED
      BY <1>1, <1>2, <1>4, <2>1, <2>2 DEF WindowInv
  <1>8. SendInv'
    <2>1. \A m \in sent' : \/ longForm' /\ m.time < send'.time
                           \/ m.time = Wire(send').time /\ m.id <= send'.id
      <3>1. send'.id <= send'.id
        BY <1>3
      <3>2. QED
        BY <1>1, <1>2, <3>1, WriteFresh
    <2>2. Wire(send)' = Wire(send')
      BY <1>2 DEF Wire
    <2>3. send'.time <= now'
      BY <1>2, <1>3
    <2>4. QED
      BY <1>3, <2>1, <2>2, <2>3 DEF SendInv
  <1>9. QED
    BY <1>5, <1>6, <1>7, <1>8

LEMMA CheckReplayIInv == ASSUME IInv, NEW pin \in sent, CheckReplay(pin) PROVE IInv'
  <1> USE DEF IInv
  <1>1. /\ rec \in Rec /\ Len(rec.list) <= SeqBacktrack /\ now \in Nat \ {0, 1}
        /\ pin \in Pin /\ backtrack \in BOOLEAN /\ sent \subseteq Pin
        /\ hits \in [sent -> Nat] /\ at \in [sent -> Nat]
    BY DEF TypeOK, Rec
  <1>2. UNCHANGED <<now, longForm, backtrack, send, sent>>
    BY DEF CheckReplay
  <1>3. PICK r \in Rec : /\ r = ReapTest(rec) /\ r.time = rec.time /\ r.id = rec.id
                         /\ Len(r.list) = Len(rec.list)
                         /\ \A m \in Pin : Seen(rec, m) => Seen(r, m)
    <2>1. /\ ReapTest(rec) \in Rec
          /\ ReapTest(rec).time = rec.time /\ ReapTest(rec).id = rec.id
          /\ Len(ReapTest(rec).list) = Len(rec.list)
          /\ \A m \in Pin : Seen(rec, m) => Seen(ReapTest(rec), m)
      BY <1>1, ReapTestSeen
    <2>2. QED
      BY <2>1, Zenon
  <1>4. \A q, m : Seen(q, m)' <=> Seen(q', m)
    BY <1>2 DEF Seen
  <1>5. SendInv'
    BY <1>2 DEF SendInv, Wire
  <1>6. CASE ~Test(r, pin)
    <2>1. rec' = r /\ UNCHANGED <<hits, at>>
      BY <1>3, <1>6 DEF CheckReplay
    <2>2. TypeOK'
      BY <1>1, <1>2, <1>3, <2>1 DEF TypeOK, Rec
    <2>3. EmptyInv'
      BY <1>2, <1>3, <2>1 DEF EmptyInv
    <2>4. WindowInv'
      <3>1. \A m \in sent : hits[m] > 0 => Seen(rec, m)'
        BY <1>1, <1>3, <1>4, <2>1 DEF WindowInv
      <3>2. QED
        BY <1>2, <2>1, <3>1 DEF WindowInv
    <2>5. QED
      BY <1>5, <2>2, <2>3, <2>4
  <1>7. CASE Test(r, pin)
    <2>1. /\ rec' = Add(r, pin) /\ hits' = [hits EXCEPT ![pin] = @ + 1]
          /\ at' = [at EXCEPT ![pin] = now]
      BY <1>3, <1>7 DEF CheckReplay
    <2>2. /\ rec' \in Rec /\ Len(rec'.list) <= SeqBacktrack
          /\ backtrack => Len(rec'.list) # 0
          /\ \A m \in Pin : m.id > 0 /\ (Seen(r, m) \/ m = pin) => Seen(rec', m)
      <3>1. backtrack /\ Len(r.list) = 0 => r.id = 0 /\ r.time = 0
        BY <1>3 DEF EmptyInv
      <3>2. QED
        BY <1>1, <1>3, <1>7, <2>1, <3>1, AddSeen
    <2>3. hits[pin] = 0
      <3>1. ~Seen(rec, pin)
        BY <1>1, <1>3, <1>7, SeenFails
      <3>2. ~(hits[pin] > 0) /\ hits[pin] \in Nat
        BY <1>1, <3>1 DEF WindowInv
      <3>3. QED
        BY <3>2
    <2>4. TypeOK'
      <3>1. hits' \in [sent -> Nat] /\ at' \in [sent -> Nat]
        BY <1>1, <2>1
      <3>2. QED
        BY <1>1, <1>2, <2>2, <3>1 DEF TypeOK, Rec
    <2>5. EmptyInv'
      BY <1>2, <2>2 DEF EmptyInv
    <2>6. WindowInv'
      <3>1. \A m \in sent : hits'[m] <= 1 /\ (hits'[m] > 0 => m = pin \/ hits[m] > 0)
        BY <1>1, <2>1, <2>3 DEF WindowInv
      <3>2. \A m \in sent : hits'[m] > 0 => Seen(rec', m)
        BY <1>1, <1>3, <2>2, <3>1 DEF WindowInv
      <3>3. QED
        BY <1>2, <1>4, <3>1, <3>2 DEF WindowInv
    <2>7. QED
      BY <1>5, <2>4, <2>5, <2>6
  <1>8. QED
    BY <1>6, <1>7

LEMMA Inductive == Spec => []IInv
  <1>1. IInv /\ [Next]_vars => IInv'
    <2> SUFFICES ASSUME IInv, [Next]_vars PROVE IInv'
      OBVIOUS
    <2>1. CASE UNCHANGED vars
      <3>1. UNCHANGED <<now, longForm, backtrack, send, rec, sent, hits, at>>
        BY <2>1 DEF vars
      <3>2. QED
        BY <3>1 DEF IInv, TypeOK, EmptyInv, WindowInv, SendInv, Seen, Wire
    <2>2. QED
      BY <2>1, TickIInv, WriteIInv, CheckReplayIInv DEF Next
  <1>2. QED
    BY InitIInv, <1>1, PTL DEF Spec

-----------------------------------------------------------------------------
(* TypeCorrect: the packet id state keeps its types, the counter its width *)
(* and the list of marks the length of the window.                         *)
THEOREM TypeCorrect == Spec => []TypeOK
  <1>1. IInv => TypeOK
    BY DEF IInv
  <1>2. QED
    BY Inductive, <1>1, PTL

(* NoPacketTwice: packet_id_test and packet_id_add accept no packet id     *)
(* twice, for every window, timeout, reap interval and counter width and   *)
(* every order of delivery.                                                *)
THEOREM NoPacketTwice == Spec => []NoReplay
  <1>1. IInv => NoReplay
    BY DEF IInv, WindowInv, NoReplay
  <1>2. QED
    BY Inductive, <1>1, PTL

(* EveryIdIsNew: packet_id_send_update never repeats an id with its time,  *)
(* rollovers of the counter included.                                      *)
THEOREM EveryIdIsNew == Spec => NoIdReused
  <1>1. IInv /\ [Next]_vars => [send' # send => \E pin \in sent' : pin \notin sent]_vars
    <2> SUFFICES ASSUME IInv, Next, send' # send PROVE \E pin \in sent' : pin \notin sent
      OBVIOUS
    <2>1. Write
      BY DEF Next, Tick, CheckReplay
    <2>2. Wire(send') \in sent'
      BY <2>1 DEF Write
    <2>3. QED
      BY <2>1, <2>2, WriteFresh
  <1>2. QED
    BY Inductive, <1>1, PTL DEF Spec, NoIdReused
=============================================================================
