-------------------------- MODULE ReplayTimingProofs --------------------------
(***************************************************************************)
(* Proofs that the replay window of PacketId accepts what it should, and   *)
(* nothing too late, for any window, timeout, reap interval and counter    *)
(* width and every order of delivery.                                      *)
(*                                                                         *)
(* The invariant ties the list of marks to the packets that were accepted: *)
(* H is their set and a[n] the time n was accepted at.                     *)
(***************************************************************************)
EXTENDS PacketIdProofs

Accepted == {n \in sent : hits[n] > 0}

\* A time in the list is that of the packet in its place.
Truthful(r, H, a) ==
  \A i \in DOMAIN r.list : r.list[i] \notin {UNSEEN, EXPIRED} =>
    \E n \in H : n.time = r.time /\ n.id + i = r.id + 1 /\ a[n] = r.list[i]

\* A place expires because of a packet there or ahead of it that is too old.
Overdue(r, H, a) ==
  \A i \in DOMAIN r.list : r.list[i] = EXPIRED =>
    \E n \in H : n.time = r.time /\ n.id + i >= r.id + 1 /\ a[n] + TimeBacktrack < now

\* The place of an accepted packet shows its time until it expires.
Marked(r, H, a) ==
  \A n \in H : \A i \in DOMAIN r.list :
    n.time = r.time /\ n.id + i = r.id + 1 => r.list[i] \in {EXPIRED, a[n]}

\* What is behind an expired place is expired.
Suffix(r) == \A i, j \in DOMAIN r.list : i <= j /\ r.list[i] = EXPIRED => r.list[j] = EXPIRED

\* At the last reap no time with an open place behind it was too old.
Swept(r) ==
  /\ r.lastReap <= now
  /\ TimeBacktrack > 0 =>
       \A i, j \in DOMAIN r.list :
         i < j /\ r.list[i] \notin {UNSEEN, EXPIRED} /\ r.list[j] = UNSEEN =>
           r.lastReap <= r.list[i] + TimeBacktrack

\* The list is a whole window long, or reaches back to the first id.
Covers(r) == Len(r.list) = SeqBacktrack \/ r.id <= Len(r.list)

\* Everything accepted is at or behind the newest id, and that was accepted.
Behind(r, H) == \A n \in H : n.time < r.time \/ (n.time = r.time /\ n.id <= r.id)

Top(r, H) == \/ \E n \in H : n.time = r.time /\ n.id = r.id
             \/ H = {} /\ r.time = 0 /\ r.id = 0

Kept(r, H, a) ==
  Truthful(r, H, a) /\ Overdue(r, H, a) /\ Marked(r, H, a) /\ Suffix(r) /\ Swept(r) /\ Behind(r, H)

Told(r, H, a) == Kept(r, H, a) /\ Covers(r) /\ Top(r, H)

TimingInv ==
  backtrack => /\ Told(rec, Accepted, at)
               /\ \A n \in Accepted : at[n] \in Nat \ {UNSEEN, EXPIRED}

-----------------------------------------------------------------------------
USE PacketIdAssumption DEF UNSEEN, EXPIRED

\* What packet_id_reap_test makes of the list.
LEMMA ReapForm ==
  ASSUME NEW r \in Rec, now \in Nat
  PROVE  \E q \in Rec :
           /\ q = ReapTest(r) /\ q.time = r.time /\ q.id = r.id
           /\ Len(q.list) = Len(r.list) /\ Len(r.list) \in Nat
           /\ DOMAIN q.list = 1 .. Len(r.list) /\ DOMAIN r.list = 1 .. Len(r.list)
           /\ \/ q = r /\ now < q.lastReap + ReapInterval
              \/ q.lastReap = now /\ TimeBacktrack = 0 /\ q.list = r.list
              \/ /\ q.lastReap = now /\ TimeBacktrack > 0
                 /\ \A i \in 1 .. Len(r.list) :
                      q.list[i] = IF /\ \E j \in 1 .. i : TooOld(r.list[j])
                                     /\ \A j \in 1 .. i : r.list[j] # EXPIRED
                                    THEN EXPIRED ELSE r.list[i]
  <1> DEFINE n == Len(r.list)
             f == [i \in 1 .. n |-> IF /\ \E j \in 1 .. i : TooOld(r.list[j])
                                       /\ \A j \in 1 .. i : r.list[j] # EXPIRED
                                      THEN EXPIRED ELSE r.list[i]]
  <1>1. PICK q \in Rec : q = ReapTest(r) /\ q.time = r.time /\ q.id = r.id /\ Len(q.list) = n
    <2>1. /\ ReapTest(r) \in Rec /\ ReapTest(r).time = r.time /\ ReapTest(r).id = r.id
          /\ Len(ReapTest(r).list) = n
      BY ReapTestSeen
    <2> HIDE DEF n
    <2>2. QED
      BY <2>1, Zenon
  <1>2. n \in Nat /\ DOMAIN q.list = 1 .. n /\ DOMAIN r.list = 1 .. n /\ r.lastReap \in Nat
    BY <1>1, LenProperties DEF Rec
  <1>3. CASE r.lastReap + ReapInterval <= now
    <2>1. q = Reap(r)
      BY <1>1, <1>3 DEF ReapTest
    <2>2. q.lastReap = now
      BY <2>1 DEF Reap, Rec
    <2>3. CASE TimeBacktrack = 0
      <3>1. q.list = r.list
        BY <2>1, <2>3 DEF Reap, Rec
      <3>2. QED
        BY <1>1, <1>2, <2>2, <2>3, <3>1
    <2>4. CASE TimeBacktrack # 0
      <3>1. q.list = f
        BY <2>1, <2>4 DEF Reap, Rec
      <3>2. \A i \in 1 .. n : q.list[i] = f[i]
        BY <3>1
      <3>3. TimeBacktrack > 0
        BY <2>4
      <3>4. QED
        BY <1>1, <1>2, <2>2, <3>2, <3>3
    <2>5. QED
      BY <2>3, <2>4
  <1>4. CASE ~(r.lastReap + ReapInterval <= now)
    <2>1. q = r
      BY <1>1, <1>4 DEF ReapTest
    <2>2. now < q.lastReap + ReapInterval
      BY <1>2, <1>4, <2>1
    <2>3. QED
      BY <1>1, <1>2, <2>1, <2>2
  <1>5. QED
    BY <1>3, <1>4

\* Reaping keeps what the list says about the packets.
LEMMA ReapKeeps ==
  ASSUME NEW r \in Rec, now \in Nat, NEW H \in SUBSET Pin, NEW a, Told(r, H, a)
  PROVE  Told(ReapTest(r), H, a)
  <1> DEFINE n == Len(r.list)
  <1>1. PICK q \in Rec :
           /\ q = ReapTest(r) /\ q.time = r.time /\ q.id = r.id /\ Len(q.list) = n /\ n \in Nat
           /\ DOMAIN q.list = 1 .. n /\ DOMAIN r.list = 1 .. n
           /\ \/ q = r /\ now < q.lastReap + ReapInterval
              \/ q.lastReap = now /\ TimeBacktrack = 0 /\ q.list = r.list
              \/ /\ q.lastReap = now /\ TimeBacktrack > 0
                 /\ \A i \in 1 .. n :
                      q.list[i] = IF /\ \E j \in 1 .. i : TooOld(r.list[j])
                                     /\ \A j \in 1 .. i : r.list[j] # EXPIRED
                                    THEN EXPIRED ELSE r.list[i]
    BY ReapForm
  <1> USE DEF Told, Kept
  <1>2. Covers(q) /\ Behind(q, H) /\ Top(q, H)
    BY <1>1 DEF Covers, Behind, Top
  <1>3. CASE q = r
    BY <1>1, <1>3
  <1>4. CASE q.lastReap = now /\ TimeBacktrack = 0 /\ q.list = r.list
    <2>1. Truthful(q, H, a) /\ Overdue(q, H, a) /\ Marked(q, H, a) /\ Suffix(q)
      BY <1>1, <1>4 DEF Truthful, Overdue, Marked, Suffix
    <2>2. q.lastReap <= now /\ ~(TimeBacktrack > 0)
      BY <1>4
    <2>3. Swept(q)
      BY <2>2 DEF Swept
    <2>4. QED
      BY <1>1, <1>2, <2>1, <2>3
  <1>5. CASE /\ q.lastReap = now /\ TimeBacktrack > 0
             /\ \A i \in 1 .. n :
                  q.list[i] = IF /\ \E j \in 1 .. i : TooOld(r.list[j])
                                 /\ \A j \in 1 .. i : r.list[j] # EXPIRED
                                THEN EXPIRED ELSE r.list[i]
    <2>0. /\ \A i \in 1 .. n : r.list[i] \in Nat
          /\ \A m \in H : m.id \in Nat /\ m.time \in Nat
      BY <1>1 DEF Rec, Pin
    <2>1. \A i \in 1 .. n : q.list[i] # EXPIRED => q.list[i] = r.list[i]
      BY <1>5
    <2>2. \A i \in 1 .. n : r.list[i] = EXPIRED => q.list[i] = EXPIRED
      BY <1>5
    <2>3. Truthful(q, H, a)
      BY <1>1, <2>1 DEF Truthful
    <2>4. Marked(q, H, a)
      BY <1>1, <2>1 DEF Marked
    <2>5. Overdue(q, H, a)
      <3> SUFFICES ASSUME NEW i \in 1 .. n, q.list[i] = EXPIRED
                   PROVE  \E m \in H : m.time = r.time /\ m.id + i >= r.id + 1 /\ a[m] + TimeBacktrack < now
        BY <1>1 DEF Overdue
      <3>1. CASE r.list[i] = EXPIRED
        BY <1>1, <3>1 DEF Overdue
      <3>2. CASE r.list[i] # EXPIRED
        <4>1. PICK j \in 1 .. i : TooOld(r.list[j])
          BY <1>5, <3>2
        <4>2. j \in 1 .. n /\ j <= i
          BY <1>1
        <4>3. PICK m \in H : m.time = r.time /\ m.id + j = r.id + 1 /\ a[m] = r.list[j]
          BY <1>1, <4>1, <4>2 DEF TooOld, Truthful
        <4>4. m.id + i >= r.id + 1
          <5>1. PICK c \in Nat, e \in Nat : c = m.id /\ e = r.id
            BY <2>0, <4>3 DEF Rec
          <5>2. c + j = e + 1 => c + i >= e + 1
            BY <1>1, <4>2
          <5>3. QED
            BY <4>3, <5>1, <5>2
        <4>5. a[m] + TimeBacktrack < now
          BY <4>1, <4>3 DEF TooOld
        <4>6. QED
          BY <4>3, <4>4, <4>5
      <3>3. QED
        BY <3>1, <3>2
    <2>6. Suffix(q)
      <3> SUFFICES ASSUME NEW i \in 1 .. n, NEW j \in 1 .. n, i <= j, q.list[i] = EXPIRED
                   PROVE  q.list[j] = EXPIRED
        BY <1>1 DEF Suffix
      <3>1. CASE \E k \in 1 .. j : r.list[k] = EXPIRED
        <4>1. PICK k \in 1 .. j : r.list[k] = EXPIRED
          BY <3>1
        <4>2. k \in 1 .. n /\ k <= j
          BY <1>1
        <4>3. r.list[j] = EXPIRED
          BY <1>1, <4>1, <4>2 DEF Suffix
        <4>4. QED
          BY <2>2, <4>3
      <3>2. CASE \A k \in 1 .. j : r.list[k] # EXPIRED
        <4>1. r.list[i] # EXPIRED
          BY <3>2
        <4>2. PICK k \in 1 .. i : TooOld(r.list[k])
          BY <1>5, <4>1
        <4>3. k \in 1 .. j
          OBVIOUS
        <4>4. QED
          BY <1>5, <3>2, <4>2, <4>3
      <3>3. QED
        BY <3>1, <3>2
    <2>7. Swept(q)
      <3> SUFFICES ASSUME NEW i \in 1 .. n, NEW j \in 1 .. n, i < j,
                          q.list[i] \notin {UNSEEN, EXPIRED}, q.list[j] = UNSEEN
                   PROVE  now <= q.list[i] + TimeBacktrack
        BY <1>1, <1>5 DEF Swept
      <3>1. q.list[i] = r.list[i] /\ r.list[j] = UNSEEN
        BY <2>1
      <3>2. \A k \in 1 .. j : r.list[k] # EXPIRED
        <4> SUFFICES ASSUME NEW k \in 1 .. j, r.list[k] = EXPIRED PROVE FALSE
          OBVIOUS
        <4>1. k \in 1 .. n /\ k <= j
          BY <1>1
        <4>2. QED
          BY <1>1, <3>1, <4>1 DEF Suffix
      <3>3. i \in 1 .. j
        OBVIOUS
      <3>4. ~TooOld(r.list[i])
        BY <1>5, <3>2, <3>3
      <3>5. ~(r.list[i] + TimeBacktrack < now) /\ r.list[i] \in Nat
        BY <2>0, <3>1, <3>4 DEF TooOld
      <3>6. QED
        BY <3>1, <3>5
    <2>8. QED
      BY <1>1, <1>2, <2>3, <2>4, <2>5, <2>6, <2>7
  <1>6. QED
    BY <1>1, <1>3, <1>4, <1>5

\* How far the window moves.
LEMMA Step ==
  ASSUME NEW p \in Nat, NEW q \in Nat, NEW n \in Nat, NEW w \in Nat, q < p, w > 0
  PROVE  /\ p - q \in Nat /\ p - q > 0 /\ p = q + (p - q)
         /\ (IF n + (p - q) < w THEN n + (p - q) ELSE w) \in 1 .. w
         /\ (IF n + (p - q) < w THEN n + (p - q) ELSE w) <= n + (p - q)
  OBVIOUS

\* Pushing marks moves every place back.
LEMMA AdvanceForm ==
  ASSUME NEW r \in Rec, NEW pin \in Pin, r.id < pin.id, Len(r.list) <= SeqBacktrack, backtrack,
         r.time = pin.time
  PROVE  \E q \in Rec, d \in Nat :
           /\ q = Advance(r, pin) /\ q.time = pin.time /\ q.id = pin.id /\ q.lastReap = r.lastReap
           /\ d > 0 /\ q.id = r.id + d
           /\ Len(q.list) = IF Len(r.list) + d < SeqBacktrack THEN Len(r.list) + d ELSE SeqBacktrack
           /\ \A i \in DOMAIN q.list : i <= d => q.list[i] = UNSEEN
           /\ \A i \in DOMAIN q.list : i > d => i - d \in DOMAIN r.list /\ q.list[i] = r.list[i - d]
  <1> DEFINE n == Len(r.list)
             d == pin.id - r.id
             size == IF n + d < SeqBacktrack THEN n + d ELSE SeqBacktrack
             f == [i \in 1 .. size |-> IF i <= d THEN UNSEEN ELSE r.list[i - d]]
  <1>1. /\ n \in Nat /\ r.list \in Seq(Nat) /\ DOMAIN r.list = 1 .. n
        /\ r.time \in Nat /\ r.id \in Nat /\ r.lastReap \in Nat
        /\ pin.time \in Nat /\ pin.id \in Nat
    BY LenProperties DEF Rec, Pin
  <1>2. d \in Nat /\ d > 0 /\ pin.id = r.id + d /\ size \in 1 .. SeqBacktrack /\ size <= n + d
    <2>1. SeqBacktrack \in Nat /\ SeqBacktrack > 0
      OBVIOUS
    <2> HIDE DEF n
    <2>2. QED
      BY <1>1, <2>1, Step
  <1>3. PICK q \in Rec : q = Advance(r, pin)
    <2>1. Advance(r, pin) \in Rec
      <3>1. Len(r.list) = 0 => r.id < pin.id
        OBVIOUS
      <3>2. QED
        BY <3>1, AdvanceSeen
    <2>2. QED
      BY <2>1, Zenon
  <1>4. q = [time |-> r.time, id |-> pin.id, list |-> f, lastReap |-> r.lastReap]
    <2>1. ~(pin.id <= r.id)
      BY <1>1
    <2>2. QED
      BY <1>3, <2>1 DEF Advance, Rec
  <1>5. q.time = r.time /\ q.id = pin.id /\ q.list = f /\ q.lastReap = r.lastReap
    <2> HIDE DEF f
    <2> QED
      BY <1>4
  <1>6. DOMAIN q.list = 1 .. size
    <2>1. DOMAIN f = 1 .. size
      OBVIOUS
    <2> HIDE DEF f, size
    <2>2. QED
      BY <1>5, <2>1
  <1>7. Len(q.list) = size
    <2>1. q.list \in Seq(Nat) /\ size \in Nat
      BY <1>2 DEF Rec
    <2> HIDE DEF size
    <2>2. QED
      BY <1>6, <2>1, LenProperties
  <1>8. \A i \in 1 .. size : q.list[i] = IF i <= d THEN UNSEEN ELSE r.list[i - d]
    BY <1>5
  <1>9. \A i \in 1 .. size : i > d => i - d \in 1 .. n
    BY <1>1, <1>2
  <1>10. \A i \in 1 .. size : i > d => ~(i <= d)
    BY <1>2
  <1> HIDE DEF f
  <1>11. \A i \in DOMAIN q.list : i <= d => q.list[i] = UNSEEN
    BY <1>6, <1>8
  <1>12. \A i \in DOMAIN q.list : i > d => i - d \in DOMAIN r.list /\ q.list[i] = r.list[i - d]
    BY <1>1, <1>6, <1>8, <1>9, <1>10
  <1> HIDE DEF d
  <1>13. QED
    BY <1>2, <1>3, <1>5, <1>7, <1>11, <1>12

\* A packet keeps its mark when the places move back by d.
LEMMA Moved ==
  ASSUME NEW c \in Nat, NEW e \in Nat, NEW d \in Nat, NEW i \in Nat
  PROVE  /\ i > d /\ c + (i - d) = e + 1 => c + i = e + d + 1
         /\ i > d /\ c + (i - d) >= e + 1 => c + i >= e + d + 1
         /\ c <= e /\ c + i = e + d + 1 => i > d /\ c + (i - d) = e + 1
         /\ c <= e => c <= e + d
  OBVIOUS

LEMMA AdvanceKeeps ==
  ASSUME NEW r \in Rec, NEW pin \in Pin, r.id < pin.id, Len(r.list) <= SeqBacktrack, backtrack,
         r.time = pin.time, NEW H \in SUBSET Pin, NEW a, Kept(r, H, a)
  PROVE  /\ Kept(Advance(r, pin), H, a)
         /\ Covers(r) \/ r.id + SeqBacktrack <= pin.id => Covers(Advance(r, pin))
  <1>1. PICK q \in Rec, d \in Nat :
           /\ q = Advance(r, pin) /\ q.time = pin.time /\ q.id = pin.id /\ q.lastReap = r.lastReap
           /\ d > 0 /\ q.id = r.id + d
           /\ Len(q.list) = IF Len(r.list) + d < SeqBacktrack THEN Len(r.list) + d ELSE SeqBacktrack
           /\ \A i \in DOMAIN q.list : i <= d => q.list[i] = UNSEEN
           /\ \A i \in DOMAIN q.list : i > d => i - d \in DOMAIN r.list /\ q.list[i] = r.list[i - d]
    BY AdvanceForm
  <1>2. /\ r.id \in Nat /\ q.id \in Nat /\ Len(r.list) \in Nat /\ Len(q.list) \in Nat
        /\ DOMAIN q.list \subseteq Nat /\ \A m \in H : m.id \in Nat /\ m.time \in Nat
    BY LenProperties DEF Rec, Pin
  <1>3. \A i \in DOMAIN q.list : q.list[i] # UNSEEN =>
           i > d /\ i - d \in DOMAIN r.list /\ q.list[i] = r.list[i - d]
    <2>1. \A i \in Nat : i <= d \/ i > d
      OBVIOUS
    <2>2. QED
      BY <1>1, <1>2, <2>1
  <1>4. PICK e \in Nat : e = r.id /\ q.id = e + d
    BY <1>1, <1>2
  <1> USE DEF Kept
  <1>5. Truthful(q, H, a)
    <2> SUFFICES ASSUME NEW i \in DOMAIN q.list, q.list[i] \notin {UNSEEN, EXPIRED}
                 PROVE  \E m \in H : m.time = q.time /\ m.id + i = q.id + 1 /\ a[m] = q.list[i]
      BY DEF Truthful
    <2>1. i \in Nat /\ i > d /\ i - d \in DOMAIN r.list /\ q.list[i] = r.list[i - d]
      BY <1>2, <1>3
    <2>2. PICK m \in H : m.time = r.time /\ m.id + (i - d) = r.id + 1 /\ a[m] = r.list[i - d]
      BY <2>1 DEF Truthful
    <2>3. PICK c \in Nat : c = m.id
      BY <1>2
    <2>4. c + i = e + d + 1
      <3>1. c + (i - d) = e + 1
        BY <1>4, <2>2, <2>3
      <3>2. i \in Nat /\ i > d
        BY <2>1
      <3>3. QED
        BY <3>1, <3>2, Moved
    <2>5. QED
      BY <1>1, <1>4, <2>1, <2>2, <2>3, <2>4
  <1>6. Overdue(q, H, a)
    <2> SUFFICES ASSUME NEW i \in DOMAIN q.list, q.list[i] = EXPIRED
                 PROVE  \E m \in H : /\ m.time = q.time /\ m.id + i >= q.id + 1
                                     /\ a[m] + TimeBacktrack < now
      BY DEF Overdue
    <2>1. i \in Nat /\ i > d /\ i - d \in DOMAIN r.list /\ q.list[i] = r.list[i - d]
      BY <1>2, <1>3
    <2>2. PICK m \in H : /\ m.time = r.time /\ m.id + (i - d) >= r.id + 1
                         /\ a[m] + TimeBacktrack < now
      BY <2>1 DEF Overdue
    <2>3. PICK c \in Nat : c = m.id
      BY <1>2
    <2>4. c + i >= e + d + 1
      <3>1. c + (i - d) >= e + 1
        BY <1>4, <2>2, <2>3
      <3>2. i \in Nat /\ i > d
        BY <2>1
      <3>3. QED
        BY <3>1, <3>2, Moved
    <2>5. QED
      BY <1>1, <1>4, <2>1, <2>2, <2>3, <2>4
  <1>7. Marked(q, H, a)
    <2> SUFFICES ASSUME NEW m \in H, NEW i \in DOMAIN q.list, m.time = q.time, m.id + i = q.id + 1
                 PROVE  q.list[i] \in {EXPIRED, a[m]}
      BY DEF Marked
    <2>1. PICK c \in Nat : c = m.id
      BY <1>2
    <2>2. c <= e
      <3>1. m.time = r.time /\ ~(m.time < r.time)
        BY <1>1, <1>2
      <3>2. QED
        BY <1>4, <2>1, <3>1 DEF Behind
    <2>3. i > d /\ c + (i - d) = e + 1
      <3>1. i \in Nat /\ c + i = e + d + 1
        BY <1>2, <1>4, <2>1
      <3>2. QED
        BY <2>2, <3>1, Moved
    <2>4. i - d \in DOMAIN r.list /\ q.list[i] = r.list[i - d]
      BY <1>1, <2>3
    <2>5. QED
      BY <1>1, <1>4, <2>1, <2>3, <2>4 DEF Marked
  <1>8. Suffix(q)
    <2> SUFFICES ASSUME NEW i \in DOMAIN q.list, NEW j \in DOMAIN q.list, i <= j, q.list[i] = EXPIRED
                 PROVE  q.list[j] = EXPIRED
      BY DEF Suffix
    <2>1. i \in Nat /\ j \in Nat /\ i > d /\ i - d \in DOMAIN r.list /\ q.list[i] = r.list[i - d]
      BY <1>2, <1>3
    <2>2. j > d /\ i - d <= j - d
      BY <2>1
    <2>3. j - d \in DOMAIN r.list /\ q.list[j] = r.list[j - d]
      BY <1>1, <2>2
    <2>4. QED
      BY <2>1, <2>2, <2>3 DEF Suffix
  <1>9. Swept(q)
    <2>1. q.lastReap <= now
      BY <1>1 DEF Swept
    <2> SUFFICES ASSUME TimeBacktrack > 0, NEW i \in DOMAIN q.list, NEW j \in DOMAIN q.list, i < j,
                        q.list[i] \notin {UNSEEN, EXPIRED}, q.list[j] = UNSEEN
                 PROVE  q.lastReap <= q.list[i] + TimeBacktrack
      BY <2>1 DEF Swept
    <2>2. i \in Nat /\ j \in Nat /\ i > d /\ i - d \in DOMAIN r.list /\ q.list[i] = r.list[i - d]
      BY <1>2, <1>3
    <2>3. j > d /\ i - d < j - d
      BY <2>2
    <2>4. j - d \in DOMAIN r.list /\ q.list[j] = r.list[j - d]
      BY <1>1, <2>3
    <2>5. QED
      BY <1>1, <2>2, <2>3, <2>4 DEF Swept
  <1>10. Behind(q, H)
    <2> SUFFICES ASSUME NEW m \in H PROVE m.time < q.time \/ (m.time = q.time /\ m.id <= q.id)
      BY DEF Behind
    <2>1. PICK c \in Nat : c = m.id
      BY <1>2
    <2>2. c <= e => c <= e + d
      OBVIOUS
    <2>3. QED
      BY <1>1, <1>4, <2>1, <2>2 DEF Behind
  <1>11. Covers(r) \/ r.id + SeqBacktrack <= pin.id => Covers(q)
    <2>1. PICK n \in Nat, k \in Nat : n = Len(r.list) /\ k = Len(q.list)
      BY <1>2
    <2>2. k = IF n + d < SeqBacktrack THEN n + d ELSE SeqBacktrack
      BY <1>1, <2>1
    <2>3. n = SeqBacktrack \/ e <= n \/ e + SeqBacktrack <= e + d => k = SeqBacktrack \/ e + d <= k
      BY <2>2
    <2>4. QED
      BY <1>1, <1>4, <2>1, <2>3 DEF Covers
  <1>12. QED
    BY <1>1, <1>5, <1>6, <1>7, <1>8, <1>9, <1>10, <1>11

\* A new list starts below the packet and above everything accepted.
LEMMA RestartKeeps ==
  ASSUME NEW r \in Rec, NEW pin \in Pin, backtrack, Test(r, pin), StartsAnew(r, pin),
         Len(r.list) = 0 => r.id = 0 /\ r.time = 0,
         NEW H \in SUBSET Pin, \A m \in H : m.id > 0, NEW a, Kept(r, H, a)
  PROVE  /\ Kept(Restart(r, pin), H, a)
         /\ Covers(Restart(r, pin)) \/ Restart(r, pin).id + SeqBacktrack <= pin.id
  <1> DEFINE i == IF pin.id > SeqBacktrack THEN pin.id - SeqBacktrack ELSE 0
  <1>1. /\ r.time \in Nat /\ r.id \in Nat /\ r.lastReap \in Nat /\ pin.time \in Nat /\ pin.id \in Nat
        /\ \A m \in H : m.id \in Nat /\ m.time \in Nat
    BY DEF Rec, Pin
  <1>2. PICK j \in Nat, e \in Seq(Nat) :
           /\ j = i /\ e = <<>> /\ Len(e) = 0 /\ DOMAIN e = {}
           /\ j = 0 \/ j + SeqBacktrack <= pin.id
    <2>1. i \in Nat /\ (i = 0 \/ i + SeqBacktrack <= pin.id)
      BY <1>1
    <2>2. <<>> \in Seq(Nat) /\ Len(<<>>) = 0 /\ DOMAIN <<>> = {}
      BY EmptySeq, LenProperties
    <2> HIDE DEF i
    <2>3. QED
      BY <2>1, <2>2, Zenon
  <1>3. PICK q \in Rec : /\ q = Restart(r, pin) /\ q.time = pin.time /\ q.id = j /\ q.list = e
                         /\ q.lastReap = r.lastReap
    <2>1. Restart(r, pin) = [r EXCEPT !.time = pin.time, !.id = j, !.list = e]
      BY <1>2 DEF Restart
    <2>2. /\ Restart(r, pin) \in Rec
          /\ Restart(r, pin).time = pin.time /\ Restart(r, pin).id = j /\ Restart(r, pin).list = e
          /\ Restart(r, pin).lastReap = r.lastReap
      BY <1>1, <2>1 DEF Rec
    <2>3. QED
      BY <2>2, Zenon
  <1>4. Truthful(q, H, a) /\ Overdue(q, H, a) /\ Marked(q, H, a) /\ Suffix(q)
    BY <1>2, <1>3 DEF Truthful, Overdue, Marked, Suffix
  <1>5. Swept(q)
    BY <1>2, <1>3 DEF Kept, Swept
  <1>6. Behind(q, H)
    <2> SUFFICES ASSUME NEW m \in H PROVE m.time < q.time \/ (m.time = q.time /\ m.id <= q.id)
      BY DEF Behind
    <2>1. m.time < r.time \/ (m.time = r.time /\ m.id <= r.id)
      BY DEF Kept, Behind
    <2>2. CASE r.list = <<>>
      <3>1. r.id = 0 /\ r.time = 0
        BY <2>2, EmptySeq
      <3>2. QED
        BY <1>1, <2>1, <3>1
    <2>3. CASE pin.time > r.time
      BY <1>1, <1>3, <2>1, <2>3
    <2>4. CASE ~(pin.time > r.time) /\ pin.id >= SeqBacktrack /\ pin.id - SeqBacktrack > r.id
      <3>1. pin.time = r.time
        BY <1>1, <2>4 DEF Test, TestBacktrack
      <3>2. i > r.id
        BY <1>1, <2>4
      <3>3. j > r.id
        BY <1>2, <3>2
      <3>4. m.id <= r.id => m.id <= j
        BY <1>1, <3>3
      <3>5. QED
        BY <1>3, <2>1, <3>1, <3>4
    <2>5. QED
      BY <2>2, <2>3, <2>4 DEF StartsAnew
  <1>7. Covers(q) \/ q.id + SeqBacktrack <= pin.id
    BY <1>2, <1>3 DEF Covers
  <1>8. QED
    BY <1>3, <1>4, <1>5, <1>6, <1>7 DEF Kept

\* The accepted packet joins the others in an open place.
LEMMA MarkKeeps ==
  ASSUME NEW r \in Rec, NEW pin \in Pin, r.time = pin.time, pin.id <= r.id, now \in Nat \ {0, 1},
         r.id - pin.id < Len(r.list), r.list[r.id - pin.id + 1] = UNSEEN,
         NEW H \in SUBSET Pin, pin \notin H, NEW a, Kept(r, H, a), Covers(r),
         pin.id = r.id \/ Top(r, H),
         NEW b, b[pin] = now, \A m \in H : b[m] = a[m]
  PROVE  Told(Mark(r, pin), H \cup {pin}, b)
  <1> DEFINE n == Len(r.list)
             f == [r.list EXCEPT ![r.id - pin.id + 1] = now]
  <1>1. /\ n \in Nat /\ r.list \in Seq(Nat) /\ r.list \in [1 .. n -> Nat]
        /\ r.time \in Nat /\ r.id \in Nat /\ r.lastReap \in Nat
        /\ pin.time \in Nat /\ pin.id \in Nat /\ \A m \in H : m.id \in Nat /\ m.time \in Nat
    BY LenProperties DEF Rec, Pin
  <1>2. PICK k \in 1 .. n : /\ k = r.id - pin.id + 1 /\ pin.id + k = r.id + 1
                            /\ \A c \in Nat : c + k = r.id + 1 => c = pin.id
    <2>1. /\ r.id - pin.id + 1 \in 1 .. n /\ pin.id + (r.id - pin.id + 1) = r.id + 1
          /\ \A c \in Nat : c + (r.id - pin.id + 1) = r.id + 1 => c = pin.id
      BY <1>1
    <2>2. QED
      BY <2>1
  <1>3. r.list[k] = UNSEEN
    BY <1>2
  <1>4. /\ f \in Seq(Nat) /\ f \in [1 .. n -> Nat] /\ Len(f) = n /\ f[k] = now
        /\ \A j \in 1 .. n : j # k => f[j] = r.list[j]
    BY <1>1, <1>2, LenProperties
  <1>5. PICK q \in Rec : /\ q = Mark(r, pin) /\ q.time = r.time /\ q.id = r.id
                         /\ q.list = f /\ q.lastReap = r.lastReap
    <2>1. Mark(r, pin) = [time |-> r.time, id |-> r.id, list |-> f, lastReap |-> r.lastReap]
      BY DEF Mark, Rec
    <2> HIDE DEF f
    <2>2. /\ Mark(r, pin) \in Rec /\ Mark(r, pin).time = r.time /\ Mark(r, pin).id = r.id
          /\ Mark(r, pin).list = f /\ Mark(r, pin).lastReap = r.lastReap
      BY <1>1, <1>4, <2>1 DEF Rec
    <2>3. QED
      BY <2>2, Zenon
  <1> HIDE DEF f
  <1>6. /\ DOMAIN q.list = 1 .. n /\ DOMAIN r.list = 1 .. n /\ Len(q.list) = n
        /\ q.list[k] = now
        /\ \A j \in 1 .. n : j # k => q.list[j] = r.list[j]
    BY <1>1, <1>4, <1>5
  <1> DEFINE G == H \cup {pin}
  <1> USE DEF Kept
  <1>7. Truthful(q, G, b)
    <2> SUFFICES ASSUME NEW i \in 1 .. n, q.list[i] \notin {UNSEEN, EXPIRED}
                 PROVE  \E m \in G : m.time = q.time /\ m.id + i = q.id + 1 /\ b[m] = q.list[i]
      BY <1>6 DEF Truthful
    <2>1. CASE i = k
      BY <1>2, <1>5, <1>6, <2>1
    <2>2. CASE i # k
      <3>1. PICK m \in H : m.time = r.time /\ m.id + i = r.id + 1 /\ a[m] = r.list[i]
        BY <1>6, <2>2 DEF Truthful
      <3>2. QED
        BY <1>5, <1>6, <2>2, <3>1
    <2>3. QED
      BY <2>1, <2>2
  <1>8. Overdue(q, G, b)
    <2> SUFFICES ASSUME NEW i \in 1 .. n, q.list[i] = EXPIRED
                 PROVE  \E m \in G : /\ m.time = q.time /\ m.id + i >= q.id + 1
                                     /\ b[m] + TimeBacktrack < now
      BY <1>6 DEF Overdue
    <2>1. i # k
      BY <1>6
    <2>2. PICK m \in H : m.time = r.time /\ m.id + i >= r.id + 1 /\ a[m] + TimeBacktrack < now
      BY <1>6, <2>1 DEF Overdue
    <2>3. QED
      BY <1>5, <2>2
  <1>9. Marked(q, G, b)
    <2> SUFFICES ASSUME NEW m \in G, NEW i \in 1 .. n, m.time = r.time, m.id + i = r.id + 1
                 PROVE  q.list[i] \in {EXPIRED, b[m]}
      BY <1>5, <1>6 DEF Marked
    <2>1. CASE m = pin
      <3>1. PICK c \in Nat, e \in Nat : c = pin.id /\ e = r.id
        BY <1>1
      <3>2. c + i = e + 1 /\ c + k = e + 1
        BY <1>2, <2>1, <3>1
      <3>3. i = k
        BY <1>1, <3>1, <3>2
      <3>4. QED
        BY <1>6, <2>1, <3>3
    <2>2. CASE m \in H
      <3>1. i # k
        <4> SUFFICES ASSUME i = k PROVE FALSE
          OBVIOUS
        <4>1. m.id = pin.id /\ m.time = pin.time
          BY <1>1, <1>2, <2>2
        <4>2. m = pin
          BY <2>2, <4>1 DEF Pin
        <4>3. QED
          BY <2>2, <4>2
      <3>2. r.list[i] \in {EXPIRED, a[m]}
        BY <1>6, <2>2 DEF Marked
      <3>3. QED
        BY <1>6, <2>2, <3>1, <3>2
    <2>3. QED
      BY <2>1, <2>2
  <1>10. Suffix(q)
    <2> SUFFICES ASSUME NEW i \in 1 .. n, NEW j \in 1 .. n, i <= j, q.list[i] = EXPIRED
                 PROVE  q.list[j] = EXPIRED
      BY <1>6 DEF Suffix
    <2>1. i # k /\ r.list[i] = EXPIRED
      BY <1>6
    <2>2. r.list[j] = EXPIRED
      BY <1>6, <2>1 DEF Suffix
    <2>3. QED
      BY <1>3, <1>6, <2>2
  <1>11. Swept(q)
    <2>1. q.lastReap <= now
      BY <1>5 DEF Swept
    <2> SUFFICES ASSUME TimeBacktrack > 0, NEW i \in 1 .. n, NEW j \in 1 .. n, i < j,
                        q.list[i] \notin {UNSEEN, EXPIRED}, q.list[j] = UNSEEN
                 PROVE  q.lastReap <= q.list[i] + TimeBacktrack
      BY <1>6, <2>1 DEF Swept
    <2>2. j # k /\ r.list[j] = UNSEEN
      BY <1>6
    <2>3. CASE i = k
      <3>1. q.lastReap \in Nat /\ q.list[i] = now
        BY <1>1, <1>5, <1>6, <2>3
      <3>2. \A t \in Nat : t <= now => t <= now + TimeBacktrack
        OBVIOUS
      <3>3. QED
        BY <2>1, <3>1, <3>2
    <2>4. CASE i # k
      BY <1>5, <1>6, <2>2, <2>4 DEF Swept
    <2>5. QED
      BY <2>3, <2>4
  <1>12. Behind(q, G)
    BY <1>1, <1>5 DEF Behind
  <1>13. Covers(q)
    BY <1>5, <1>6 DEF Covers
  <1>14. Top(q, G)
    <2>1. CASE pin.id = r.id
      BY <1>5, <2>1 DEF Top
    <2>2. CASE Top(r, H)
      <3>1. CASE r.time = 0 /\ r.id = 0
        <4>1. pin.id = r.id
          BY <1>1, <3>1
        <4>2. QED
          BY <2>1, <4>1
      <3>2. CASE \E m \in H : m.time = r.time /\ m.id = r.id
        BY <1>5, <3>2 DEF Top
      <3>3. QED
        BY <2>2, <3>1, <3>2 DEF Top
    <2>3. QED
      BY <2>1, <2>2
  <1>15. QED
    BY <1>5, <1>7, <1>8, <1>9, <1>10, <1>11, <1>12, <1>13, <1>14 DEF Told

\* What packet_id_add does to the list.
LEMMA AddKeeps ==
  ASSUME NEW r \in Rec, NEW pin \in Pin, backtrack, Test(r, pin), now \in Nat \ {0, 1},
         Len(r.list) <= SeqBacktrack, Len(r.list) = 0 => r.id = 0 /\ r.time = 0,
         NEW H \in SUBSET Pin, \A m \in H : m.id > 0, pin \notin H,
         NEW a, Told(r, H, a), NEW b, b[pin] = now, \A m \in H : b[m] = a[m]
  PROVE  Told(Add(r, pin), H \cup {pin}, b)
  <1>1. /\ r.time \in Nat /\ r.id \in Nat /\ Len(r.list) \in Nat
        /\ pin.time \in Nat /\ pin.id \in Nat /\ pin.id # 0
    BY LenProperties DEF Rec, Pin, Test
  <1>2. PICK s \in Rec : /\ s = IF StartsAnew(r, pin) THEN Restart(r, pin) ELSE r
                         /\ s.time = pin.time /\ Len(s.list) <= SeqBacktrack
                         /\ Kept(s, H, a) /\ (Covers(s) \/ s.id + SeqBacktrack <= pin.id)
                         /\ pin.id <= s.id => s = r
    <2>1. CASE StartsAnew(r, pin)
      <3>1. /\ Restart(r, pin) \in Rec
            /\ Restart(r, pin).time = pin.time /\ Restart(r, pin).id < pin.id
            /\ Len(Restart(r, pin).list) = 0
        BY <2>1, RestartSeen
      <3>2. /\ Kept(Restart(r, pin), H, a)
            /\ Covers(Restart(r, pin)) \/ Restart(r, pin).id + SeqBacktrack <= pin.id
        BY <2>1, RestartKeeps DEF Told
      <3>3. PICK s \in Rec : s = Restart(r, pin)
        BY <3>1, Zenon
      <3>4. Len(s.list) <= SeqBacktrack
        BY <3>1, <3>3
      <3>5. ~(pin.id <= s.id)
        BY <1>1, <3>1, <3>3 DEF Rec
      <3>6. s = IF StartsAnew(r, pin) THEN Restart(r, pin) ELSE r
        BY <2>1, <3>3
      <3>7. QED
        BY <3>1, <3>2, <3>3, <3>4, <3>5, <3>6, Zenon
    <2>2. CASE ~StartsAnew(r, pin)
      <3>1. ~(pin.time > r.time)
        BY <2>2 DEF StartsAnew
      <3>2. r.time = pin.time
        BY <1>1, <3>1 DEF Test, TestBacktrack
      <3>3. Kept(r, H, a) /\ Covers(r)
        BY DEF Told
      <3>4. QED
        BY <2>2, <3>2, <3>3, Zenon
    <2>3. QED
      BY <2>1, <2>2
  <1>3. s.id \in Nat
    BY DEF Rec
  <1>4. PICK t \in Rec : /\ t = Advance(s, pin) /\ t.time = pin.time /\ pin.id <= t.id
                         /\ Kept(t, H, a) /\ Covers(t) /\ (pin.id = t.id \/ Top(t, H))
                         /\ t.id - pin.id < Len(t.list) /\ t.list[t.id - pin.id + 1] = UNSEEN
    <2>1. CASE pin.id <= s.id
      <3>1. s = r /\ Advance(s, pin) = r
        BY <1>2, <2>1 DEF Advance
      <3>2. r.time = pin.time /\ pin.id <= r.id
        BY <1>2, <2>1, <3>1
      <3>3. r.id - pin.id < Len(r.list) /\ r.list[r.id - pin.id + 1] = UNSEEN
        BY <1>1, <3>2 DEF Test, TestBacktrack
      <3>4. Kept(r, H, a) /\ Covers(r) /\ Top(r, H)
        BY DEF Told
      <3>5. QED
        BY <3>1, <3>2, <3>3, <3>4
    <2>2. CASE s.id < pin.id
      <3>1. PICK t \in Rec, d \in Nat :
               /\ t = Advance(s, pin) /\ t.time = pin.time /\ t.id = pin.id /\ t.lastReap = s.lastReap
               /\ d > 0 /\ t.id = s.id + d
               /\ Len(t.list) = IF Len(s.list) + d < SeqBacktrack THEN Len(s.list) + d ELSE SeqBacktrack
               /\ \A i \in DOMAIN t.list : i <= d => t.list[i] = UNSEEN
               /\ \A i \in DOMAIN t.list : i > d => i - d \in DOMAIN s.list /\ t.list[i] = s.list[i - d]
        BY <1>2, <2>2, AdvanceForm
      <3>2. Len(t.list) \in Nat /\ DOMAIN t.list = 1 .. Len(t.list) /\ Len(s.list) \in Nat
        BY LenProperties DEF Rec
      <3>3. Len(t.list) > 0
        <4>1. PICK n \in Nat : n = Len(s.list)
          BY <3>2
        <4>2. (IF n + d < SeqBacktrack THEN n + d ELSE SeqBacktrack) > 0
          BY <3>1
        <4>3. QED
          BY <3>1, <4>1, <4>2
      <3>4. 1 \in DOMAIN t.list /\ 1 <= d
        BY <3>1, <3>2, <3>3
      <3>5. t.list[1] = UNSEEN
        BY <3>1, <3>4
      <3>6. t.id - pin.id = 0 /\ t.id - pin.id + 1 = 1 /\ pin.id <= t.id
        BY <1>1, <3>1
      <3>7. Kept(t, H, a) /\ Covers(t)
        BY <1>2, <2>2, <3>1, AdvanceKeeps
      <3>8. QED
        BY <3>1, <3>3, <3>5, <3>6, <3>7
    <2>3. QED
      BY <1>1, <1>3, <2>1, <2>2
  <1>5. Add(r, pin) = Mark(t, pin)
    BY <1>2, <1>4 DEF Add
  <1>6. Told(Mark(t, pin), H \cup {pin}, b)
    BY <1>4, MarkKeeps
  <1>7. QED
    BY <1>5, <1>6

-----------------------------------------------------------------------------
LEMMA TickTiming == IInv /\ TimingInv /\ Tick => TimingInv'
  <1> SUFFICES ASSUME IInv, TimingInv, Tick, backtrack'
               PROVE  /\ Told(rec, Accepted, at)'
                      /\ (\A n \in Accepted : at[n] \in Nat \ {UNSEEN, EXPIRED})'
    BY DEF TimingInv
  <1>1. /\ now' = now + 1 /\ UNCHANGED <<longForm, backtrack, send, rec, sent, hits, at>>
        /\ now \in Nat /\ rec.lastReap \in Nat
    BY DEF Tick, IInv, TypeOK
  <1>2. Accepted' = Accepted
    BY <1>1 DEF Accepted
  <1>3. Told(rec, Accepted, at) /\ \A n \in Accepted : at[n] \in Nat \ {UNSEEN, EXPIRED}
    BY <1>1 DEF TimingInv
  <1> HIDE DEF Accepted
  <1>4. Overdue(rec, Accepted, at)'
    <2>1. \A n \in Accepted : at[n] + TimeBacktrack < now => at[n] + TimeBacktrack < now'
      <3>1. \A t \in Nat : t + TimeBacktrack < now => t + TimeBacktrack < now + 1
        BY <1>1
      <3>2. QED
        BY <1>1, <1>3, <3>1
    <2>2. QED
      BY <1>1, <1>2, <1>3, <2>1 DEF Told, Kept, Overdue
  <1>5. Swept(rec)'
    <2>1. rec.lastReap <= now => rec.lastReap <= now'
      BY <1>1
    <2>2. QED
      BY <1>1, <1>3, <2>1 DEF Told, Kept, Swept
  <1>6. (/\ Truthful(rec, Accepted, at) /\ Marked(rec, Accepted, at) /\ Suffix(rec)
         /\ Behind(rec, Accepted) /\ Covers(rec) /\ Top(rec, Accepted))'
    BY <1>1, <1>2, <1>3 DEF Told, Kept, Truthful, Marked, Suffix, Behind, Covers, Top
  <1>7. QED
    BY <1>1, <1>2, <1>3, <1>4, <1>5, <1>6 DEF Told, Kept

\* A list that fits the packets fits them in the next state if time stands still.
LEMMA ToldNext ==
  ASSUME NEW r, NEW H, NEW a, Told(r, H, a), NEW b, \A n \in H : b[n] = a[n], UNCHANGED now,
         rec' = r, Accepted' = H, at' = b
  PROVE  Told(rec, Accepted, at)'
  <1> USE DEF Told, Kept
  <1> HIDE DEF Accepted
  <1>1. (Truthful(rec, Accepted, at) /\ Overdue(rec, Accepted, at) /\ Marked(rec, Accepted, at))'
    BY DEF Truthful, Overdue, Marked
  <1>2. (Suffix(rec) /\ Swept(rec) /\ Behind(rec, Accepted) /\ Covers(rec) /\ Top(rec, Accepted))'
    BY DEF Suffix, Swept, Behind, Covers, Top
  <1>3. QED
    BY <1>1, <1>2

LEMMA WriteTiming == IInv /\ TimingInv /\ Write => TimingInv'
  <1> SUFFICES ASSUME IInv, TimingInv, Write, backtrack'
               PROVE  /\ Told(rec, Accepted, at)'
                      /\ (\A n \in Accepted : at[n] \in Nat \ {UNSEEN, EXPIRED})'
    BY DEF TimingInv
  <1>1. PICK pin \in Pin : pin = Wire(send') /\ pin \notin sent
    <2>1. Wire(send') \in Pin
      BY SendUpdateFresh DEF Wire, Pin
    <2>2. QED
      BY <2>1, WriteFresh, Zenon
  <1>2. /\ sent' = sent \cup {pin}
        /\ hits' = [m \in sent' |-> IF m \in sent THEN hits[m] ELSE 0]
        /\ at' = [m \in sent' |-> IF m \in sent THEN at[m] ELSE 0]
        /\ UNCHANGED <<now, longForm, backtrack, rec>>
    BY <1>1 DEF Write
  <1>3. Accepted' = Accepted
    <2>1. \A m \in sent' : hits'[m] = IF m \in sent THEN hits[m] ELSE 0
      BY <1>2
    <2>2. QED
      BY <1>2, <2>1 DEF Accepted
  <1>4. \A m \in Accepted : at'[m] = at[m]
    BY <1>2 DEF Accepted
  <1>5. Told(rec, Accepted, at) /\ \A n \in Accepted : at[n] \in Nat \ {UNSEEN, EXPIRED}
    BY <1>2 DEF TimingInv
  <1> HIDE DEF Accepted
  <1>6. PICK r, H, a, b : r = rec /\ H = Accepted /\ a = at /\ b = at'
    OBVIOUS
  <1>7. Told(rec, Accepted, at)'
    <2>1. Told(r, H, a) /\ \A n \in H : b[n] = a[n]
      BY <1>4, <1>5, <1>6
    <2>2. rec' = r /\ Accepted' = H /\ at' = b /\ UNCHANGED now
      BY <1>2, <1>3, <1>6
    <2>3. QED
      BY <2>1, <2>2, ToldNext
  <1>8. QED
    BY <1>3, <1>4, <1>5, <1>7

LEMMA CheckReplayTiming == ASSUME IInv, TimingInv, NEW pin \in sent, CheckReplay(pin) PROVE TimingInv'
  <1> SUFFICES ASSUME backtrack'
               PROVE  /\ Told(rec, Accepted, at)'
                      /\ (\A n \in Accepted : at[n] \in Nat \ {UNSEEN, EXPIRED})'
    BY DEF TimingInv
  <1>1. /\ rec \in Rec /\ Len(rec.list) <= SeqBacktrack /\ now \in Nat \ {0, 1}
        /\ pin \in Pin /\ backtrack /\ sent \subseteq Pin
        /\ hits \in [sent -> Nat] /\ at \in [sent -> Nat]
        /\ UNCHANGED <<now, longForm, backtrack, send, sent>>
    BY DEF IInv, TypeOK, Rec, CheckReplay
  <1>2. PICK r \in Rec : /\ r = ReapTest(rec) /\ r.time = rec.time /\ r.id = rec.id
                         /\ Len(r.list) = Len(rec.list)
                         /\ \A m \in Pin : Seen(rec, m) => Seen(r, m)
    <2>1. /\ ReapTest(rec) \in Rec
          /\ ReapTest(rec).time = rec.time /\ ReapTest(rec).id = rec.id
          /\ Len(ReapTest(rec).list) = Len(rec.list)
          /\ \A m \in Pin : Seen(rec, m) => Seen(ReapTest(rec), m)
      BY <1>1, ReapTestSeen
    <2>2. QED
      BY <2>1, Zenon
  <1>3. /\ \A n \in Accepted : at[n] \in Nat \ {UNSEEN, EXPIRED}
        /\ Accepted \subseteq Pin /\ \A m \in Accepted : m.id > 0
    BY <1>1 DEF TimingInv, Accepted, IInv, WindowInv
  <1>4. PICK H \in SUBSET Pin : H = Accepted
    BY <1>3
  <1>5. PICK a, b : a = at /\ b = at'
    OBVIOUS
  <1>6. Told(r, H, a)
    <2>1. Told(rec, Accepted, at)
      BY <1>1 DEF TimingInv
    <2>2. PICK o \in Rec : o = rec
      BY <1>1
    <2>3. Told(o, H, a) /\ now \in Nat
      BY <1>1, <1>4, <1>5, <2>1, <2>2
    <2>4. Told(ReapTest(o), H, a)
      BY <2>3, ReapKeeps
    <2>5. QED
      BY <1>2, <2>2, <2>4
  <1>7. CASE ~Test(r, pin)
    <2>1. rec' = r /\ UNCHANGED <<hits, at>>
      BY <1>2, <1>7 DEF CheckReplay
    <2>2. Accepted' = Accepted
      BY <1>1, <2>1 DEF Accepted
    <2>3. rec' = r /\ Accepted' = H /\ at' = b /\ UNCHANGED now /\ \A n \in H : b[n] = a[n]
      BY <1>1, <1>4, <1>5, <2>1, <2>2
    <2>4. Told(rec, Accepted, at)'
      BY <1>6, <2>3, ToldNext
    <2>5. QED
      BY <1>3, <2>1, <2>2, <2>4
  <1>8. CASE Test(r, pin)
    <2>1. /\ rec' = Add(r, pin) /\ hits' = [hits EXCEPT ![pin] = @ + 1]
          /\ at' = [at EXCEPT ![pin] = now]
      BY <1>2, <1>8 DEF CheckReplay
    <2>2. hits[pin] = 0
      <3>1. ~Seen(rec, pin)
        BY <1>1, <1>2, <1>8, SeenFails
      <3>2. ~(hits[pin] > 0) /\ hits[pin] \in Nat
        BY <1>1, <3>1 DEF IInv, WindowInv
      <3>3. QED
        BY <3>2
    <2>3. Accepted' = Accepted \cup {pin} /\ pin \notin Accepted
      <3>1. hits'[pin] > 0 /\ \A m \in sent : m # pin => hits'[m] = hits[m]
        BY <1>1, <2>1, <2>2
      <3>2. ~(hits[pin] > 0)
        BY <2>2
      <3>3. QED
        BY <1>1, <3>1, <3>2 DEF Accepted
    <2>4. b[pin] = now /\ \A m \in H : b[m] = a[m]
      <3>1. Accepted \subseteq sent
        BY DEF Accepted
      <3>2. at'[pin] = now /\ \A m \in sent : m # pin => at'[m] = at[m]
        BY <1>1, <2>1
      <3>3. QED
        BY <1>4, <1>5, <2>3, <3>1, <3>2
    <2>5. Told(Add(r, pin), H \cup {pin}, b)
      <3>1. Len(r.list) = 0 => r.id = 0 /\ r.time = 0
        BY <1>1, <1>2 DEF IInv, EmptyInv
      <3>2. PICK p \in Pin : p = pin
        BY <1>1
      <3>3. /\ Test(r, p) /\ Len(r.list) <= SeqBacktrack /\ (\A m \in H : m.id > 0) /\ p \notin H
            /\ b[p] = now /\ \A m \in H : b[m] = a[m]
        BY <1>1, <1>2, <1>3, <1>4, <1>5, <1>8, <2>3, <2>4, <3>2
      <3>4. Told(Add(r, p), H \cup {p}, b)
        BY <1>1, <1>6, <3>1, <3>3, AddKeeps
      <3>5. QED
        BY <3>2, <3>4
    <2>6. PICK q, G : q = Add(r, pin) /\ G = H \cup {pin}
      OBVIOUS
    <2>7. Told(rec, Accepted, at)'
      <3>1. Told(q, G, b) /\ \A n \in G : b[n] = b[n]
        BY <2>5, <2>6
      <3>2. rec' = q /\ Accepted' = G /\ at' = b /\ UNCHANGED now
        BY <1>1, <1>4, <1>5, <2>1, <2>3, <2>6
      <3>3. QED
        BY <3>1, <3>2, ToldNext
    <2>8. \A n \in Accepted' : at'[n] \in Nat \ {UNSEEN, EXPIRED}
      BY <1>1, <1>3, <1>4, <1>5, <2>3, <2>4
    <2>9. QED
      BY <2>7, <2>8
  <1>9. QED
    BY <1>7, <1>8

LEMMA InitTiming == Init => TimingInv
  <1> SUFFICES ASSUME Init PROVE TimingInv
    OBVIOUS
  <1>1. Accepted = {}
    BY DEF Init, Accepted
  <1>2. /\ rec.list = <<>> /\ rec.time = 0 /\ rec.id = 0 /\ rec.lastReap = 0 /\ now = 2
        /\ Len(rec.list) = 0 /\ DOMAIN rec.list = {}
    BY EmptySeq, LenProperties DEF Init
  <1>3. Kept(rec, Accepted, at)
    BY <1>1, <1>2 DEF Kept, Truthful, Overdue, Marked, Suffix, Swept, Behind
  <1>4. QED
    BY <1>1, <1>2, <1>3 DEF TimingInv, Told, Covers, Top

LEMMA InductiveTiming == Spec => [](IInv /\ TimingInv)
  <1>1. IInv /\ TimingInv /\ [Next]_vars => TimingInv'
    <2> SUFFICES ASSUME IInv, TimingInv, [Next]_vars PROVE TimingInv'
      OBVIOUS
    <2>1. CASE UNCHANGED vars
      <3>1. UNCHANGED <<now, longForm, backtrack, send, rec, sent, hits, at>>
        BY <2>1 DEF vars
      <3>2. Accepted' = Accepted
        BY <3>1 DEF Accepted
      <3>3. QED
        BY <3>1, <3>2 DEF TimingInv, Told, Kept, Truthful, Overdue, Marked, Suffix, Swept, Behind,
                          Covers, Top
    <2>2. QED
      BY <2>1, TickTiming, WriteTiming, CheckReplayTiming DEF Next
  <1>2. QED
    BY Inductive, InitTiming, <1>1, PTL DEF Spec

-----------------------------------------------------------------------------
\* The list packet_id_test looks at, and when it was last reaped.
LEMMA Looked ==
  ASSUME IInv, TimingInv, backtrack
  PROVE  \E r \in Rec : /\ r = ReapTest(rec) /\ Told(r, Accepted, at)
                        /\ now < r.lastReap + ReapInterval
  <1>1. PICK o \in Rec, H \in SUBSET Pin : o = rec /\ H = Accepted /\ now \in Nat
    <2>1. rec \in Rec /\ Accepted \in SUBSET Pin /\ now \in Nat
      BY DEF IInv, TypeOK, Rec, Accepted
    <2>2. QED
      BY <2>1, Zenon
  <1>2. PICK a : a = at
    OBVIOUS
  <1>3. Told(o, H, a)
    BY <1>1, <1>2 DEF TimingInv
  <1>4. PICK q \in Rec : /\ q = ReapTest(o)
                         /\ now < q.lastReap + ReapInterval \/ q.lastReap = now
    BY <1>1, ReapForm
  <1>5. now < q.lastReap + ReapInterval
    BY <1>1, <1>4
  <1>6. Told(ReapTest(o), H, a)
    BY <1>1, <1>3, ReapKeeps
  <1>7. QED
    BY <1>1, <1>2, <1>4, <1>5, <1>6

\* The place of an id in the list.
LEMMA Place ==
  ASSUME NEW p \in Nat, NEW c \in Nat, c <= p
  PROVE  /\ p - c + 1 \in Nat \ {0} /\ c + (p - c + 1) = p + 1
         /\ \A n \in Nat : p - c < n => p - c + 1 \in 1 .. n
         /\ \A x \in Nat : x + (p - c + 1) >= p + 1 => x >= c
         /\ \A x \in Nat : x + (p - c + 1) = p + 1 => x = c
  OBVIOUS

(* InTimeOnly: packet_id_test accepts a packet behind another one only     *)
(* within time_backtrack seconds of that one's arrival, give or take the   *)
(* interval between two reaps, for every window, timeout and interval.     *)
THEOREM InTimeOnly == Spec => TimelyOnly
  <1>1. IInv /\ TimingInv /\ [Next]_vars =>
          [\A m \in sent :
             /\ backtrack /\ TimeBacktrack > 0
             /\ hits'[m] > hits[m]
             => \A n \in Later(m) : now < at[n] + TimeBacktrack + ReapInterval]_vars
    <2> SUFFICES ASSUME IInv, TimingInv, Next, NEW m \in sent, backtrack, TimeBacktrack > 0,
                        hits'[m] > hits[m], NEW n \in Later(m)
                 PROVE  now < at[n] + TimeBacktrack + ReapInterval
      OBVIOUS
    <2>1. /\ sent \subseteq Pin /\ hits \in [sent -> Nat] /\ now \in Nat
      BY DEF IInv, TypeOK
    <2>2. PICK pin \in sent : CheckReplay(pin)
      <3>1. ~Tick
        <4> SUFFICES ASSUME Tick PROVE FALSE
          OBVIOUS
        <4>1. hits' = hits /\ hits[m] \in Nat
          BY <2>1 DEF Tick
        <4>2. QED
          BY <4>1
      <3>2. ~Write
        <4> SUFFICES ASSUME Write PROVE FALSE
          OBVIOUS
        <4>1. hits' = [k \in sent' |-> IF k \in sent THEN hits[k] ELSE 0] /\ m \in sent'
          BY DEF Write
        <4>2. hits'[m] = hits[m] /\ hits[m] \in Nat
          BY <2>1, <4>1
        <4>3. QED
          BY <4>2
      <3>3. QED
        BY <3>1, <3>2 DEF Next
    <2>3. PICK r \in Rec : /\ r = ReapTest(rec) /\ Told(r, Accepted, at)
                           /\ now < r.lastReap + ReapInterval
      BY Looked
    <2>4. Test(r, pin)
      <3> SUFFICES ASSUME ~Test(r, pin) PROVE FALSE
        OBVIOUS
      <3>1. hits' = hits /\ hits[m] \in Nat
        BY <2>1, <2>2, <2>3 DEF CheckReplay
      <3>2. QED
        BY <3>1
    <2>5. m = pin
      <3> SUFFICES ASSUME m # pin PROVE FALSE
        OBVIOUS
      <3>1. hits' = [hits EXCEPT ![pin] = @ + 1]
        BY <2>2, <2>3, <2>4 DEF CheckReplay
      <3>2. hits'[m] = hits[m] /\ hits[m] \in Nat
        BY <2>1, <3>1
      <3>3. QED
        BY <3>2
    <2>6. n \in Accepted /\ n.time = m.time /\ n.id > m.id
      BY DEF Later, Accepted
    <2>7. PICK p \in Nat, c \in Nat, x \in Nat, l \in Nat :
             /\ p = r.id /\ c = m.id /\ x = n.id /\ l = Len(r.list) /\ DOMAIN r.list = 1 .. l
             /\ r.time \in Nat /\ m.time \in Nat /\ r.lastReap \in Nat
             /\ at[n] \in Nat \ {UNSEEN, EXPIRED}
      <3>1. m \in Pin /\ n \in Pin
        BY <2>1 DEF Later
      <3>2. at[n] \in Nat \ {UNSEEN, EXPIRED}
        BY <2>6 DEF TimingInv
      <3>3. /\ r.id \in Nat /\ m.id \in Nat /\ n.id \in Nat /\ Len(r.list) \in Nat
            /\ DOMAIN r.list = 1 .. Len(r.list) /\ r.time \in Nat /\ m.time \in Nat /\ r.lastReap \in Nat
        BY <3>1, LenProperties DEF Rec, Pin
      <3>4. QED
        BY <3>2, <3>3
    <2>8. m.time < r.time \/ (m.time = r.time /\ x <= p)
      BY <2>3, <2>6, <2>7 DEF Told, Kept, Behind
    <2>9. /\ m.time = r.time /\ x <= p /\ c < x /\ p - c < l /\ r.list[p - c + 1] = UNSEEN
      <3>1. TestBacktrack(r, m)
        BY <2>4, <2>5 DEF Test
      <3>2. c < x
        BY <2>6, <2>7
      <3>3. m.time = r.time /\ x <= p
        BY <2>7, <2>8, <3>1 DEF TestBacktrack
      <3>4. ~(c > p)
        BY <3>2, <3>3
      <3>5. ~(m.time > r.time)
        BY <2>7, <3>3
      <3>6. p - c < l /\ r.list[p - c + 1] = UNSEEN
        BY <2>7, <3>1, <3>4, <3>5 DEF TestBacktrack
      <3>7. QED
        BY <3>2, <3>3, <3>6
    <2>10. PICK i \in 1 .. l, j \in 1 .. l : i < j /\ i = p - x + 1 /\ j = p - c + 1 /\ x + i = p + 1
      <3>1. p - x + 1 \in 1 .. l /\ p - c + 1 \in 1 .. l /\ p - x + 1 < p - c + 1 /\ x + (p - x + 1) = p + 1
        BY <2>9
      <3>2. QED
        BY <3>1, Zenon
    <2>11. r.list[j] = UNSEEN
      BY <2>9, <2>10
    <2>12. r.list[i] \in {EXPIRED, at[n]}
      BY <2>3, <2>6, <2>7, <2>9, <2>10 DEF Told, Kept, Marked
    <2>13. r.list[i] # EXPIRED
      <3>1. i \in DOMAIN r.list /\ j \in DOMAIN r.list /\ i <= j
        BY <2>7, <2>10
      <3>2. Suffix(r)
        BY <2>3 DEF Told, Kept
      <3>3. QED
        BY <2>11, <3>1, <3>2 DEF Suffix
    <2>14. r.lastReap <= at[n] + TimeBacktrack
      BY <2>3, <2>7, <2>10, <2>11, <2>12, <2>13 DEF Told, Kept, Swept
    <2>15. PICK t \in Nat, u \in Nat : t = at[n] /\ u = r.lastReap
      BY <2>7
    <2>16. now < u + ReapInterval /\ u <= t + TimeBacktrack
      BY <2>3, <2>14, <2>15
    <2>17. now < t + TimeBacktrack + ReapInterval
      BY <2>1, <2>16
    <2>18. QED
      BY <2>15, <2>17
  <1>2. QED
    BY InductiveTiming, <1>1, PTL DEF Spec, TimelyOnly

(* TimelyPasses: a packet never accepted, behind none of a later time,     *)
(* less than a window behind the newest and within time_backtrack of all   *)
(* ahead of it would pass packet_id_test in every state the receiver       *)
(* reaches, for every window and timeout.                                  *)
THEOREM TimelyPasses == Spec => []NoFalseAlarm
  <1>1. IInv /\ TimingInv => NoFalseAlarm
    <2> SUFFICES ASSUME IInv, TimingInv, NEW m \in sent, backtrack, hits[m] = 0,
                        \A n \in sent : hits[n] > 0 => n.time <= m.time,
                        \A n \in Later(m) : /\ n.id < m.id + SeqBacktrack
                                            /\ now <= at[n] + TimeBacktrack
                 PROVE  Test(ReapTest(rec), m)
      BY DEF NoFalseAlarm
    <2>1. /\ sent \subseteq Pin /\ hits \in [sent -> Nat] /\ now \in Nat /\ m \in Pin /\ m.id > 0
      BY DEF IInv, TypeOK, WindowInv
    <2>2. PICK r \in Rec : r = ReapTest(rec) /\ Told(r, Accepted, at)
      BY Looked
    <2>3. m \notin Accepted /\ \A n \in Accepted : n \in Pin /\ at[n] \in Nat
      BY <2>1 DEF Accepted, TimingInv
    <2>4. PICK p \in Nat, c \in Nat, l \in Nat :
             /\ p = r.id /\ c = m.id /\ l = Len(r.list) /\ DOMAIN r.list = 1 .. l
             /\ r.time \in Nat /\ m.time \in Nat /\ c > 0
      <3>1. /\ r.id \in Nat /\ m.id \in Nat /\ Len(r.list) \in Nat
            /\ DOMAIN r.list = 1 .. Len(r.list) /\ r.time \in Nat /\ m.time \in Nat
        BY <2>1, LenProperties DEF Rec, Pin
      <3>2. QED
        BY <2>1, <3>1
    <2>5. \A n \in Accepted : n.time = m.time /\ n.id = m.id => FALSE
      BY <2>1, <2>3 DEF Pin
    <2>6. \A n \in Accepted : n.time = m.time /\ n.id >= c =>
             n.id < c + SeqBacktrack /\ ~(at[n] + TimeBacktrack < now)
      <3> SUFFICES ASSUME NEW n \in Accepted, n.time = m.time, n.id >= c
                   PROVE  n.id < c + SeqBacktrack /\ ~(at[n] + TimeBacktrack < now)
        OBVIOUS
      <3>1. PICK x \in Nat, t \in Nat : x = n.id /\ t = at[n]
        BY <2>3 DEF Pin
      <3>2. x # c
        BY <2>4, <2>5, <3>1
      <3>3. x > c
        BY <3>1, <3>2
      <3>4. n \in Later(m)
        BY <2>4, <3>1, <3>3 DEF Later, Accepted
      <3>5. x < c + SeqBacktrack /\ now <= t + TimeBacktrack
        BY <2>4, <3>1, <3>4
      <3>6. ~(t + TimeBacktrack < now)
        BY <2>1, <3>5
      <3>7. QED
        BY <3>1, <3>5, <3>6
    <2>7. TestBacktrack(r, m)
      <3>1. CASE m.time > r.time
        BY <3>1 DEF TestBacktrack
      <3>2. CASE m.time = r.time /\ c > p
        BY <2>4, <3>2 DEF TestBacktrack
      <3>3. CASE m.time = r.time /\ c <= p
        <4>1. PICK n \in Accepted : n.time = r.time /\ n.id = p
          <5>1. ~(p = 0)
            BY <2>4, <3>3
          <5>2. QED
            BY <2>2, <2>4, <5>1 DEF Told, Top
        <4>2. p < c + SeqBacktrack
          BY <2>4, <2>6, <3>3, <4>1
        <4>3. p - c < l
          <5>1. l = SeqBacktrack \/ p <= l
            BY <2>2, <2>4 DEF Told, Covers
          <5>2. c <= p /\ c > 0
            BY <2>4, <3>3
          <5>3. QED
            BY <4>2, <5>1, <5>2
        <4>4. PICK k \in 1 .. l : /\ k = p - c + 1
                                  /\ \A x \in Nat : x + k >= p + 1 => x >= c
                                  /\ \A x \in Nat : x + k = p + 1 => x = c
          BY <3>3, <4>3, Place
        <4>5. r.list[k] = UNSEEN
          <5>1. CASE r.list[k] = EXPIRED
            <6>1. PICK o \in Accepted : /\ o.time = r.time /\ o.id + k >= r.id + 1
                                        /\ at[o] + TimeBacktrack < now
              BY <2>2, <2>4, <5>1 DEF Told, Kept, Overdue
            <6>2. o.id \in Nat
              BY <2>3 DEF Pin
            <6>3. o.id >= c
              BY <2>4, <4>4, <6>1, <6>2
            <6>4. QED
              BY <2>6, <3>3, <6>1, <6>3
          <5>2. CASE r.list[k] \notin {UNSEEN, EXPIRED}
            <6>1. PICK o \in Accepted : o.time = r.time /\ o.id + k = r.id + 1
              BY <2>2, <2>4, <5>2 DEF Told, Kept, Truthful
            <6>2. o.id \in Nat
              BY <2>3 DEF Pin
            <6>3. o.id = c
              BY <2>4, <4>4, <6>1, <6>2
            <6>4. QED
              BY <2>4, <2>5, <3>3, <6>1, <6>3
          <5>3. QED
            BY <5>1, <5>2
        <4>6. QED
          BY <2>4, <3>3, <4>3, <4>4, <4>5 DEF TestBacktrack
      <3>4. ~(m.time < r.time)
        <4>1. CASE \E n \in Accepted : n.time = r.time /\ n.id = r.id
          <5>1. PICK n \in Accepted : n.time = r.time
            BY <4>1
          <5>2. r.time <= m.time
            BY <5>1 DEF Accepted
          <5>3. QED
            BY <2>4, <5>2
        <4>2. CASE r.time = 0
          BY <2>4, <4>2
        <4>3. QED
          BY <2>2, <4>1, <4>2 DEF Told, Top
      <3>5. QED
        BY <2>4, <3>1, <3>2, <3>3, <3>4
    <2>8. Test(r, m)
      BY <2>4, <2>7 DEF Test
    <2>9. QED
      BY <2>2, <2>8
  <1>2. QED
    BY InductiveTiming, <1>1, PTL

=============================================================================
