------------------------- MODULE ControlChannelProofs -------------------------
(***************************************************************************)
(* Proofs that the OpenVPN control channel implements an ordered stream in *)
(* each direction and that its buffers never run out, for any buffer       *)
(* sizes, flights and number of faults.                                    *)
(***************************************************************************)
EXTENDS ControlChannel, SequenceTheorems, FiniteSetTheorems, TLAPS

Entry == [id : Nat, item : Item, due : BOOLEAN]

\* The peer has received the packet with this id.
Has(k, i) == i < k.recId \/ i \in Ids(k.rec)

\* Only packets that arrived are acknowledged.
AckInv(k) ==
  /\ Len(k.recAck) <= AckSize /\ Len(k.lru) <= AckSize
  /\ \A i \in Elems(k.recAck) \cup Elems(k.lru) : Has(k, i)

\* The send buffers hold what was written, within one window.
SendInv(k) ==
  /\ k.sendId = Len(k.written)
  /\ \A e \in k.send : /\ e.id < k.sendId /\ k.sendId <= e.id + SendSize
                       /\ k.written[e.id + 1] = e.item
  /\ \A e, f \in k.send : e.id = f.id => e = f

\* The receive buffers hold packets of one window from the next one on.
RecInv(k) ==
  /\ k.recId = Len(k.read)
  /\ \A e \in k.rec : k.recId <= e.id /\ e.id < k.recId + RecSize
  /\ \A e, f \in k.rec : e.id = f.id => e = f

GotKey(k) == "key" \in Elems(k.read)

\* Plaintext is the other's key, and a server has it before it sends its own.
KeyInv(p, k) ==
  /\ k.plain \/ k.readBuf \/ k.state \in {"GOT_KEY", "ACTIVE"} => GotKey(k)
  /\ /\ p = "server"
     /\ k.state = "SENT_KEY" \/ k.writeBuf \/ "key" \in Elems(k.out) \/ "key" \in Elems(k.written)
     => GotKey(k)

Good(p, k) == k \in KeyState /\ AckInv(k) /\ SendInv(k) /\ RecInv(k) /\ KeyInv(p, k)

\* Nothing is sent before the first pass.
Fresh(k) == k.state = "INITIAL" => k.send = {}

\* What k holds and has handed on is what o wrote.
Link(k, o) ==
  /\ k.recId <= o.sendId
  /\ \A i \in 1 .. k.recId : k.read[i] = o.written[i]
  /\ \A e \in k.rec : e.id < o.sendId /\ o.written[e.id + 1] = e.item

\* Every packet of o is still buffered there or has reached k.
Kept(o, k) == \A i \in 0 .. (o.sendId - 1) : i \in Ids(o.send) \/ Has(k, i)

\* Packets in flight carry what was written and acknowledge what arrived.
NetInv ==
  \A m \in net :
    /\ \A i \in m.acks : Has(ks[m.from], i)
    /\ m.item # "ack" => /\ m.id < ks[m.from].sendId
                         /\ ks[m.from].written[m.id + 1] = m.item

IInv ==
  /\ ks \in [Peer -> KeyState] /\ again \in [Peer -> BOOLEAN]
  /\ net \in SUBSET Packet /\ faults \in 0 .. MaxFaults
  /\ \A p \in Peer : /\ Good(p, ks[p]) /\ Fresh(ks[p])
                     /\ Link(ks[p], ks[Other[p]]) /\ Kept(ks[Other[p]], ks[p])
  /\ NetInv

\* k becomes j without freeing a send buffer: it may have written on.
Writes(k, j) ==
  /\ Stream!Extends(j.written, k.written)
  /\ \A i \in Nat : i \in Ids(k.send) \/ (k.sendId <= i /\ i < j.sendId) => i \in Ids(j.send)
  /\ k.state # "INITIAL" => j.state # "INITIAL"

\* Beside that it leaves the receiving side alone, ...
Goes(k, j) ==
  /\ Writes(k, j)
  /\ j.recId = k.recId /\ j.rec = k.rec /\ j.read = k.read

\* ... or hands on the next packet.
Reads(k, j) ==
  \E e \in k.rec : /\ e.id = k.recId /\ j.recId = k.recId + 1
                    /\ j.rec = k.rec \ {e} /\ j.read = Append(k.read, e.item)

Moves(k, j) == Writes(k, j) /\ (Goes(k, j) \/ Reads(k, j))

\* k becomes j by a change of its control state only.
Control(k, j) ==
  /\ j \in KeyState
  /\ j.sendId = k.sendId /\ j.send = k.send /\ j.written = k.written
  /\ j.recId = k.recId /\ j.rec = k.rec /\ j.read = k.read
  /\ j.recAck = k.recAck /\ j.lru = k.lru
  /\ k.state # "INITIAL" => j.state # "INITIAL"

\* k becomes j by a change of its send buffers' contents only.
Rebuffers(k, j) ==
  /\ j \in KeyState
  /\ j.sendId = k.sendId /\ j.written = k.written
  /\ j.recId = k.recId /\ j.rec = k.rec /\ j.read = k.read
  /\ j.recAck = k.recAck /\ j.lru = k.lru
  /\ j.state = k.state /\ j.out = k.out /\ j.plain = k.plain
  /\ j.readBuf = k.readBuf /\ j.writeBuf = k.writeBuf
  /\ \A f \in j.send : \E e \in k.send : f.id = e.id /\ f.item = e.item
  /\ \A f, g \in j.send : f.id = g.id => f = g

\* k becomes j by the arrival of packet m.
Hears(k, j, m) ==
  /\ j.state = k.state /\ j.sendId = k.sendId /\ j.written = k.written
  /\ j.recId = k.recId /\ j.read = k.read
  /\ \A i \in Ids(k.send) : i \in m.acks \/ i \in Ids(j.send)
  /\ k.send = {} => j.send = {}
  /\ k.rec \subseteq j.rec
  /\ \A e \in j.rec \ k.rec : m.item # "ack" /\ e.id = m.id /\ e.item = m.item

-----------------------------------------------------------------------------
(* Sequences and windows.                                                  *)

LEMMA ElemsConcat ==
  ASSUME NEW S, NEW s \in Seq(S), NEW t \in Seq(S)
  PROVE  s \o t \in Seq(S) /\ Elems(s \o t) = Elems(s) \cup Elems(t)
  <1>1. s \o t \in Seq(S) /\ Len(s \o t) = Len(s) + Len(t)
        /\ \A i \in 1 .. Len(s) + Len(t) :
             (s \o t)[i] = IF i <= Len(s) THEN s[i] ELSE t[i - Len(s)]
    BY ConcatProperties
  <1>2. /\ DOMAIN s = 1 .. Len(s) /\ DOMAIN t = 1 .. Len(t)
        /\ DOMAIN (s \o t) = 1 .. Len(s \o t)
        /\ Len(s) \in Nat /\ Len(t) \in Nat
    BY <1>1, LenProperties
  <1>3. ASSUME NEW i \in DOMAIN t
        PROVE  Len(s) + i \in DOMAIN (s \o t) /\ (s \o t)[Len(s) + i] = t[i]
    BY <1>1, <1>2
  <1>4. ASSUME NEW i \in DOMAIN s
        PROVE  i \in DOMAIN (s \o t) /\ (s \o t)[i] = s[i]
    BY <1>1, <1>2
  <1>5. ASSUME NEW i \in DOMAIN (s \o t)
        PROVE  (s \o t)[i] \in Elems(s) \cup Elems(t)
    <2>1. CASE i <= Len(s)
      BY <2>1, <1>1, <1>2 DEF Elems
    <2>2. CASE ~(i <= Len(s))
      <3>1. i - Len(s) \in DOMAIN t /\ (s \o t)[i] = t[i - Len(s)]
        BY <2>2, <1>1, <1>2
      <3>2. QED
        BY <3>1 DEF Elems
    <2>3. QED
      BY <2>1, <2>2
  <1>6. Elems(s \o t) \subseteq Elems(s) \cup Elems(t)
    BY <1>5 DEF Elems
  <1>7. Elems(s) \subseteq Elems(s \o t)
    BY <1>4 DEF Elems
  <1>8. Elems(t) \subseteq Elems(s \o t)
    BY <1>3 DEF Elems
  <1>9. QED
    BY <1>1, <1>6, <1>7, <1>8

LEMMA ElemsSubSeq ==
  ASSUME NEW S, NEW s \in Seq(S), NEW m \in Nat, NEW n \in Nat, m > 0, n <= Len(s)
  PROVE  /\ SubSeq(s, m, n) \in Seq(S)
         /\ Elems(SubSeq(s, m, n)) \subseteq Elems(s)
         /\ Len(SubSeq(s, m, n)) = IF m <= n THEN n - m + 1 ELSE 0
  <1>0. Len(s) \in Nat /\ DOMAIN s = 1 .. Len(s) /\ s \in [1 .. Len(s) -> S]
    BY LenProperties
  <1>1. CASE m <= n
    <2>1. \A i \in m .. n : s[i] \in S
      BY <1>0
    <2>2. /\ SubSeq(s, m, n) \in Seq(S)
          /\ Len(SubSeq(s, m, n)) = n - m + 1
          /\ \A i \in 1 .. n - m + 1 : SubSeq(s, m, n)[i] = s[m + i - 1]
      BY <1>0, <1>1, <2>1, SubSeqProperties
    <2>3. DOMAIN SubSeq(s, m, n) = 1 .. n - m + 1
      BY <2>2, LenProperties
    <2>4. ASSUME NEW i \in DOMAIN SubSeq(s, m, n)
          PROVE  m + i - 1 \in DOMAIN s /\ SubSeq(s, m, n)[i] = s[m + i - 1]
      BY <1>0, <1>1, <2>2, <2>3
    <2>5. Elems(SubSeq(s, m, n)) \subseteq Elems(s)
      BY <2>4 DEF Elems
    <2>6. QED
      BY <1>1, <2>2, <2>5
  <1>2. CASE m > n
    <2>1. SubSeq(s, m, n) = <<>>
      BY <1>2, SubSeqEmpty
    <2>2. QED
      BY <2>1, <1>2, EmptySeq DEF Elems
  <1>3. QED
    BY <1>1, <1>2

LEMMA ElemsAppend ==
  ASSUME NEW S, NEW s \in Seq(S), NEW x \in S
  PROVE  /\ Append(s, x) \in Seq(S) /\ Len(Append(s, x)) = Len(s) + 1
         /\ Elems(Append(s, x)) = Elems(s) \cup {x}
         /\ \A i \in 1 .. Len(s) : Append(s, x)[i] = s[i]
         /\ Append(s, x)[Len(s) + 1] = x
  <1>1. /\ Append(s, x) \in Seq(S) /\ Len(Append(s, x)) = Len(s) + 1
        /\ \A i \in 1 .. Len(s) : Append(s, x)[i] = s[i]
        /\ Append(s, x)[Len(s) + 1] = x
    BY AppendProperties
  <1>2. /\ DOMAIN s = 1 .. Len(s) /\ Len(s) \in Nat
        /\ DOMAIN Append(s, x) = 1 .. Len(s) + 1
    BY <1>1, LenProperties
  <1>3. Elems(Append(s, x)) \subseteq Elems(s) \cup {x}
    <2>1. ASSUME NEW i \in 1 .. Len(s) + 1
          PROVE  Append(s, x)[i] \in Elems(s) \cup {x}
      <3>1. CASE i \in 1 .. Len(s)
        BY <3>1, <1>1, <1>2 DEF Elems
      <3>2. CASE i = Len(s) + 1
        BY <3>2, <1>1
      <3>3. QED
        BY <3>1, <3>2, <1>2
    <2>2. QED
      BY <2>1, <1>2 DEF Elems
  <1>4. Elems(s) \subseteq Elems(Append(s, x))
    <2>1. \A i \in DOMAIN s : i \in DOMAIN Append(s, x) /\ Append(s, x)[i] = s[i]
      BY <1>1, <1>2
    <2>2. QED
      BY <2>1 DEF Elems
  <1>5. x \in Elems(Append(s, x))
    <2>1. Len(s) + 1 \in DOMAIN Append(s, x)
      BY <1>2
    <2>2. QED
      BY <2>1, <1>1 DEF Elems
  <1>6. QED
    BY <1>1, <1>3, <1>4, <1>5

\* Entries with different ids within a window fit the buffers.
LEMMA Window ==
  ASSUME NEW E, NEW a \in Nat, NEW b \in Nat,
         \A e \in E : e.id \in a .. b,
         \A e, f \in E : e.id = f.id => e = f
  PROVE  /\ IsFiniteSet(E) /\ Cardinality(E) \in Nat
         /\ Cardinality(E) <= IF a > b THEN 0 ELSE b - a + 1
  <1> DEFINE g == [e \in E |-> e.id]
  <1>1. g \in Injection(E, a .. b)
    BY DEF Injection, IsInjective
  <1>2. /\ IsFiniteSet(a .. b)
        /\ Cardinality(a .. b) = IF a > b THEN 0 ELSE b - a + 1
    BY FS_Interval
  <1> HIDE DEF g
  <1>3. IsFiniteSet(E) /\ Cardinality(E) <= Cardinality(a .. b)
    BY <1>1, <1>2, FS_Injection
  <1>4. QED
    BY <1>2, <1>3, FS_CardinalityType

-----------------------------------------------------------------------------
(* One peer, one block of a pass.                                          *)

LEMMA WritesTransitive ==
  ASSUME NEW k \in KeyState, NEW j \in KeyState, NEW l \in KeyState,
         Writes(k, j), Writes(j, l),
         SendInv(k), SendInv(j), SendInv(l)
  PROVE  Writes(k, l)
  <1>1. /\ k.sendId \in Nat /\ j.sendId \in Nat /\ l.sendId \in Nat
        /\ k.sendId = Len(k.written) /\ j.sendId = Len(j.written) /\ l.sendId = Len(l.written)
    BY DEF KeyState, SendInv
  <1>2. Stream!Extends(l.written, k.written)
    BY <1>1 DEF Writes, Stream!Extends
  <1>3. ASSUME NEW i \in Nat, i \in Ids(k.send) \/ (k.sendId <= i /\ i < l.sendId)
        PROVE  i \in Ids(l.send)
    <2>1. CASE i \in Ids(k.send)
      BY <2>1 DEF Writes
    <2>2. CASE k.sendId <= i /\ i < j.sendId
      BY <2>2 DEF Writes
    <2>3. CASE j.sendId <= i /\ i < l.sendId
      BY <2>3 DEF Writes
    <2>4. QED
      BY <1>1, <1>3, <2>1, <2>2, <2>3
  <1>4. QED
    BY <1>2, <1>3 DEF Writes

LEMMA GoesTransitive ==
  ASSUME NEW k \in KeyState, NEW j \in KeyState, NEW l \in KeyState,
         Goes(k, j), Goes(j, l),
         SendInv(k), SendInv(j), SendInv(l)
  PROVE  Goes(k, l)
  BY WritesTransitive DEF Goes

LEMMA ControlGood ==
  ASSUME NEW p \in Peer, NEW k, Good(p, k), NEW j, Control(k, j), KeyInv(p, j)
  PROVE  Good(p, j) /\ Goes(k, j)
  <1>1. k \in KeyState /\ AckInv(k) /\ SendInv(k) /\ RecInv(k)
    BY DEF Good
  <1>2. AckInv(j)
    BY <1>1 DEF AckInv, Control, Has, Ids
  <1>3. SendInv(j)
    BY <1>1 DEF SendInv, Control
  <1>4. RecInv(j)
    BY <1>1 DEF RecInv, Control
  <1>5. Len(k.written) \in Nat /\ k.sendId \in Nat
    BY <1>1, LenProperties DEF KeyState
  <1>6. Stream!Extends(j.written, k.written)
    BY <1>5 DEF Control, Stream!Extends
  <1>7. \A i \in Nat : ~(k.sendId <= i /\ i < k.sendId)
    BY <1>5
  <1>8. Goes(k, j)
    BY <1>6, <1>7 DEF Control, Goes, Writes
  <1>9. QED
    BY <1>2, <1>3, <1>4, <1>8 DEF Good, Control

LEMMA Shift ==
  ASSUME NEW a \in Nat, NEW n \in Nat, NEW i \in Nat, NEW z \in Nat
  PROVE  a + n - i <= z <=> a + n <= i + z
  OBVIOUS

LEMMA Numbering ==
  ASSUME NEW a \in Nat, NEW n \in Nat, NEW z \in Nat, n <= z, NEW i \in 1 .. n
  PROVE  /\ a + i - 1 \in Nat /\ a + i - 1 >= a /\ a + i - 1 < a + n
         /\ a + n <= a + i - 1 + z /\ (a + i - 1) + 1 = a + i
         /\ \A l \in 1 .. n : a + i - 1 = a + l - 1 => i = l
  OBVIOUS

\* Numbering packets within the window keeps the send buffers in order.
LEMMA MarkActiveOutgoingGood ==
  ASSUME NEW p \in Peer, NEW k, Good(p, k), NEW s \in Seq(Item),
         Len(s) <= SendSize,
         \A e \in k.send : k.sendId + Len(s) <= e.id + SendSize,
         p = "server" /\ "key" \in Elems(s) => GotKey(k)
  PROVE  LET j == MarkActiveOutgoing(k, s)
         IN  /\ Good(p, j) /\ Goes(k, j)
             /\ j.state = k.state /\ j.out = k.out /\ j.recAck = k.recAck /\ j.lru = k.lru
             /\ j.known = k.known /\ j.est = k.est /\ j.plain = k.plain
             /\ j.readBuf = k.readBuf /\ j.writeBuf = k.writeBuf
  <1> DEFINE N == {[id |-> k.sendId + i - 1, item |-> s[i], due |-> TRUE] : i \in 1 .. Len(s)}
  <1>1. k \in KeyState /\ AckInv(k) /\ SendInv(k) /\ RecInv(k) /\ KeyInv(p, k)
    BY DEF Good
  <1>2. /\ Len(s) \in Nat /\ k.sendId \in Nat /\ SendSize \in Nat
        /\ k.written \in Seq(Item) /\ k.send \in SUBSET Entry
        /\ k.sendId = Len(k.written)
    BY <1>1, LenProperties, SizeAssumption DEF KeyState, SendInv, Entry
  <1>3. \A i \in 1 .. Len(s) : s[i] \in Item
    BY ElementOfSeq
  <1>4. N \in SUBSET Entry
    <2>1. ASSUME NEW i \in 1 .. Len(s)
          PROVE  [id |-> k.sendId + i - 1, item |-> s[i], due |-> TRUE] \in Entry
      <3>1. k.sendId + i - 1 \in Nat
        BY <1>2, Numbering
      <3>2. QED
        BY <1>3, <3>1 DEF Entry
    <2>2. QED
      BY <2>1
  <1>5. PICK w \in Seq(Item) :
          /\ w = k.written \o s /\ Len(w) = k.sendId + Len(s)
          /\ \A i \in 1 .. k.sendId : w[i] = k.written[i]
          /\ \A i \in 1 .. Len(s) : w[k.sendId + i] = s[i]
          /\ Elems(w) = Elems(k.written) \cup Elems(s)
    <2>1. /\ k.written \o s \in Seq(Item) /\ Len(k.written \o s) = k.sendId + Len(s)
          /\ \A i \in 1 .. k.sendId + Len(s) :
               (k.written \o s)[i] = IF i <= k.sendId THEN k.written[i] ELSE s[i - k.sendId]
      BY <1>2, ConcatProperties
    <2>2. \A i \in 1 .. k.sendId : (k.written \o s)[i] = k.written[i]
      BY <1>2, <2>1
    <2>3. \A i \in 1 .. Len(s) : (k.written \o s)[k.sendId + i] = s[i]
      BY <1>2, <2>1
    <2>4. Elems(k.written \o s) = Elems(k.written) \cup Elems(s)
      BY <1>2, ElemsConcat
    <2>5. QED
      BY <2>1, <2>2, <2>3, <2>4
  <1>6. PICK n \in Nat : n = k.sendId + Len(s)
    BY <1>2
  <1>7. PICK S \in SUBSET Entry : S = k.send \cup N
    BY <1>2, <1>4
  <1>8. PICK j : j = MarkActiveOutgoing(k, s)
    OBVIOUS
  <1>9. j = [k EXCEPT !.send = S, !.sendId = n, !.written = w]
    BY <1>5, <1>6, <1>7, <1>8, <1>1 DEF MarkActiveOutgoing, KeyState
  <1>10. /\ j \in KeyState
         /\ j.sendId = n /\ j.send = S /\ j.written = w
         /\ j.recId = k.recId /\ j.rec = k.rec /\ j.read = k.read
         /\ j.state = k.state /\ j.out = k.out /\ j.recAck = k.recAck /\ j.lru = k.lru
         /\ j.known = k.known /\ j.est = k.est /\ j.plain = k.plain
         /\ j.readBuf = k.readBuf /\ j.writeBuf = k.writeBuf
    BY <1>9, <1>1 DEF KeyState, Entry
  <1>11. ASSUME NEW e \in N
         PROVE  \E i \in 1 .. Len(s) : e.id = k.sendId + i - 1 /\ e.item = s[i] /\ e.due = TRUE
    OBVIOUS
  <1>12. ASSUME NEW i \in 1 .. Len(s)
         PROVE  k.sendId + i - 1 \in Ids(N)
    <2>1. PICK e \in N : e = [id |-> k.sendId + i - 1, item |-> s[i], due |-> TRUE]
      OBVIOUS
    <2>2. QED
      BY <2>1 DEF Ids
  <1> HIDE DEF N
  <1>13. SendInv(j)
    <2>1. ASSUME NEW e \in k.send
          PROVE  e.id \in Nat /\ e.id < k.sendId /\ e.id < n /\ n <= e.id + SendSize
                 /\ w[e.id + 1] = e.item
      <3>1. e.id \in Nat /\ e.id < k.sendId /\ k.written[e.id + 1] = e.item
        BY <1>1, <1>2 DEF SendInv, Entry
      <3>2. QED
        BY <3>1, <1>2, <1>5, <1>6
    <2>2. ASSUME NEW e \in N
          PROVE  e.id \in Nat /\ e.id >= k.sendId /\ e.id < n /\ n <= e.id + SendSize
                 /\ w[e.id + 1] = e.item
      <3>1. PICK i \in 1 .. Len(s) : e.id = k.sendId + i - 1 /\ e.item = s[i]
        BY <1>11
      <3>2. /\ k.sendId + i - 1 \in Nat /\ k.sendId + i - 1 >= k.sendId
            /\ k.sendId + i - 1 < k.sendId + Len(s)
            /\ k.sendId + Len(s) <= k.sendId + i - 1 + SendSize
            /\ (k.sendId + i - 1) + 1 = k.sendId + i
        BY <1>2, Numbering
      <3>3. e.id + 1 = k.sendId + i /\ w[k.sendId + i] = s[i]
        BY <3>1, <3>2, <1>5
      <3>4. QED
        BY <3>1, <3>2, <3>3, <1>6
    <2>3. ASSUME NEW e \in N, NEW f \in N, e.id = f.id
          PROVE  e = f
      <3>1. PICK i \in 1 .. Len(s) : e.id = k.sendId + i - 1 /\ e.item = s[i] /\ e.due = TRUE
        BY <1>11
      <3>2. PICK l \in 1 .. Len(s) : f.id = k.sendId + l - 1 /\ f.item = s[l] /\ f.due = TRUE
        BY <1>11
      <3>3. i = l
        <4>1. k.sendId + i - 1 = k.sendId + l - 1
          BY <2>3, <3>1, <3>2
        <4>2. QED
          BY <4>1, <1>2, Numbering
      <3>4. e \in Entry /\ f \in Entry
        BY <1>4
      <3>5. QED
        BY <2>3, <3>1, <3>2, <3>3, <3>4 DEF Entry
    <2>4. ASSUME NEW e \in S, NEW f \in S, e.id = f.id
          PROVE  e = f
      <3>1. CASE e \in k.send /\ f \in k.send
        BY <3>1, <2>4, <1>1 DEF SendInv
      <3>2. CASE e \in N /\ f \in N
        BY <3>2, <2>4, <2>3
      <3>3. ASSUME NEW x \in k.send, NEW y \in N
            PROVE  x.id # y.id
        BY <2>1, <2>2, <1>2
      <3>4. QED
        BY <1>7, <2>4, <3>1, <3>2, <3>3
    <2>5. ASSUME NEW e \in S
          PROVE  e.id < n /\ n <= e.id + SendSize /\ w[e.id + 1] = e.item
      BY <1>7, <2>1, <2>2
    <2>6. QED
      BY <2>4, <2>5, <1>5, <1>6, <1>10 DEF SendInv
  <1>14. AckInv(j) /\ RecInv(j)
    <2>1. AckInv(j)
      BY <1>1, <1>10 DEF AckInv, Has, Ids
    <2>2. RecInv(j)
      BY <1>1, <1>10 DEF RecInv
    <2>3. QED
      BY <2>1, <2>2
  <1>15. KeyInv(p, j)
    <2>1. GotKey(j) <=> GotKey(k)
      BY <1>10 DEF GotKey
    <2>2. "key" \in Elems(j.written) => "key" \in Elems(k.written) \/ "key" \in Elems(s)
      BY <1>5, <1>10
    <2>3. QED
      BY <1>1, <1>10, <2>1, <2>2, Zenon DEF KeyInv
  <1>16. Goes(k, j)
    <2>1. Stream!Extends(w, k.written)
      BY <1>2, <1>5 DEF Stream!Extends
    <2>2. ASSUME NEW i \in Nat, k.sendId <= i /\ i < n
          PROVE  i \in Ids(N)
      <3>1. PICK l \in 1 .. Len(s) : k.sendId + l - 1 = i
        <4>1. i - k.sendId + 1 \in 1 .. Len(s) /\ k.sendId + (i - k.sendId + 1) - 1 = i
          BY <1>2, <1>6, <2>2
        <4>2. QED
          BY <4>1
      <3>2. QED
        BY <3>1, <1>12
    <2>3. Ids(S) = Ids(k.send) \cup Ids(N)
      BY <1>7 DEF Ids
    <2>4. QED
      BY <1>10, <2>1, <2>2, <2>3 DEF Goes, Writes
  <1>17. QED
    BY <1>8, <1>10, <1>13, <1>14, <1>15, <1>16 DEF Good

LEMMA Stays ==
  ASSUME NEW p \in Peer, NEW k, Good(p, k)
  PROVE  Goes(k, k)
  BY ControlGood DEF Good, Control

LEMMA MovePreStartGood ==
  ASSUME NEW p \in Peer, NEW k, Good(p, k), Fresh(k)
  PROVE  /\ Good(p, MovePreStart(k)) /\ Goes(k, MovePreStart(k))
         /\ MovePreStart(k).state # "INITIAL"
  <1>1. CASE k.state # "INITIAL"
    BY <1>1, Stays DEF MovePreStart
  <1>2. CASE k.state = "INITIAL"
    <2> DEFINE m == MarkActiveOutgoing(k, <<"reset">>)
               j == [m EXCEPT !.state = "PRE_START"]
    <2>1. /\ <<"reset">> \in Seq(Item) /\ Len(<<"reset">>) = 1
          /\ Elems(<<"reset">>) = {"reset"}
      BY DEF Item, Elems
    <2>2. Good(p, m) /\ Goes(k, m) /\ m.state = "INITIAL"
      <3>1. Len(<<"reset">>) <= SendSize
        BY <2>1, SizeAssumption
      <3>2. k.send = {}
        BY <1>2 DEF Fresh
      <3>3. "key" \notin Elems(<<"reset">>)
        BY <2>1
      <3>4. QED
        BY <1>2, <2>1, <3>1, <3>2, <3>3, MarkActiveOutgoingGood
    <2> HIDE DEF m
    <2>3. m \in KeyState
      BY <2>2 DEF Good
    <2>4. /\ Control(m, j) /\ j.state = "PRE_START" /\ j.plain = m.plain
          /\ j.readBuf = m.readBuf /\ j.writeBuf = m.writeBuf /\ j.out = m.out
      BY <2>3 DEF KeyState, State, Control
    <2> HIDE DEF j
    <2>5. KeyInv(p, j)
      BY <2>2, <2>4 DEF Good, KeyInv, Control, GotKey
    <2>6. Good(p, j) /\ Goes(m, j)
      BY <2>2, <2>4, <2>5, ControlGood
    <2>7. Goes(k, j)
      BY <2>2, <2>6, GoesTransitive DEF Good
    <2>8. MovePreStart(k) = j
      BY <1>2 DEF MovePreStart, j, m
    <2>9. QED
      BY <2>4, <2>6, <2>7, <2>8
  <1>3. QED
    BY <1>1, <1>2

LEMMA MoveStartGood ==
  ASSUME NEW p \in Peer, NEW k, Good(p, k)
  PROVE  Good(p, MoveStart(k)) /\ Goes(k, MoveStart(k))
  <1> DEFINE j == [k EXCEPT !.state = "START"]
  <1>1. k \in KeyState
    BY DEF Good
  <1>2. /\ Control(k, j) /\ j.state = "START" /\ j.plain = k.plain
        /\ j.readBuf = k.readBuf /\ j.writeBuf = k.writeBuf /\ j.out = k.out
    BY <1>1 DEF KeyState, State, Control
  <1> HIDE DEF j
  <1>3. KeyInv(p, j)
    BY <1>2 DEF Good, KeyInv, Control, GotKey
  <1>4. Good(p, j) /\ Goes(k, j)
    BY <1>2, <1>3, ControlGood
  <1>5. QED
    BY <1>4, Stays DEF MoveStart, j

LEMMA MoveActiveGood ==
  ASSUME NEW p \in Peer, NEW k, Good(p, k)
  PROVE  Good(p, MoveActive(p, k)) /\ Goes(k, MoveActive(p, k))
  <1>1. CASE MoveActive(p, k) = k
    BY <1>1, Stays
  <1>2. CASE k.state = (IF p = "client" THEN "GOT_KEY" ELSE "SENT_KEY") /\ k.send = {}
    <2> DEFINE j == [k EXCEPT !.state = "ACTIVE"]
    <2>1. k \in KeyState
      BY DEF Good
    <2>2. /\ Control(k, j) /\ j.state = "ACTIVE" /\ j.plain = k.plain
          /\ j.readBuf = k.readBuf /\ j.writeBuf = k.writeBuf /\ j.out = k.out
      BY <2>1 DEF KeyState, State, Control
    <2> HIDE DEF j
    <2>3. GotKey(k)
      BY <1>2 DEF Good, KeyInv, Peer
    <2>4. KeyInv(p, j)
      BY <2>2, <2>3 DEF KeyInv, Control, GotKey
    <2>5. MoveActive(p, k) = j
      BY <1>2 DEF MoveActive, j
    <2>6. QED
      BY <2>2, <2>4, <2>5, ControlGood
  <1>3. QED
    BY <1>1, <1>2 DEF MoveActive

LEMMA ReadPlaintextGood ==
  ASSUME NEW p \in Peer, NEW k, Good(p, k)
  PROVE  Good(p, ReadPlaintext(k)) /\ Goes(k, ReadPlaintext(k))
  <1>1. CASE ~(~k.readBuf /\ k.plain)
    BY <1>1, Stays DEF ReadPlaintext
  <1>2. CASE ~k.readBuf /\ k.plain
    <2> DEFINE j == [k EXCEPT !.readBuf = TRUE, !.plain = FALSE]
    <2>1. k \in KeyState
      BY DEF Good
    <2>2. /\ Control(k, j) /\ j.state = k.state
          /\ j.writeBuf = k.writeBuf /\ j.out = k.out
      BY <2>1 DEF KeyState, Control
    <2> HIDE DEF j
    <2>3. GotKey(k)
      BY <1>2 DEF Good, KeyInv
    <2>4. KeyInv(p, j)
      BY <2>2, <2>3 DEF KeyInv, Control, GotKey
    <2>5. ReadPlaintext(k) = j
      BY <1>2 DEF ReadPlaintext, j
    <2>6. QED
      BY <2>2, <2>4, <2>5, ControlGood
  <1>3. QED
    BY <1>1, <1>2

LEMMA SendKeyGood ==
  ASSUME NEW p \in Peer, NEW k, Good(p, k)
  PROVE  Good(p, SendKey(p, k)) /\ Goes(k, SendKey(p, k))
  <1> DEFINE c == ~k.writeBuf /\ k.state = (IF p = "client" THEN "START" ELSE "GOT_KEY")
  <1>1. CASE ~c
    BY <1>1, Stays DEF SendKey
  <1>2. CASE c
    <2> DEFINE j == [k EXCEPT !.writeBuf = TRUE, !.state = "SENT_KEY"]
    <2>1. k \in KeyState
      BY DEF Good
    <2>2. /\ Control(k, j) /\ j.state = "SENT_KEY" /\ j.plain = k.plain
          /\ j.readBuf = k.readBuf /\ j.out = k.out
      BY <2>1 DEF KeyState, State, Control
    <2>3. SendKey(p, k) = j
      BY <1>2 DEF SendKey
    <2> HIDE DEF j
    <2>4. p = "server" => GotKey(k)
      BY <1>2 DEF Good, KeyInv
    <2>5. KeyInv(p, j)
      BY <2>2, <2>4 DEF Good, KeyInv, Control, GotKey
    <2>6. QED
      BY <2>2, <2>3, <2>5, ControlGood
  <1>3. QED
    BY <1>1, <1>2

LEMMA ReceiveKeyGood ==
  ASSUME NEW p \in Peer, NEW k, Good(p, k)
  PROVE  Good(p, ReceiveKey(p, k)) /\ Goes(k, ReceiveKey(p, k))
  <1> DEFINE c == k.readBuf /\ k.state = (IF p = "client" THEN "SENT_KEY" ELSE "START")
  <1>1. CASE ~c
    BY <1>1, Stays DEF ReceiveKey
  <1>2. CASE c
    <2> DEFINE j == [k EXCEPT !.readBuf = FALSE, !.state = "GOT_KEY"]
    <2>1. k \in KeyState
      BY DEF Good
    <2>2. Control(k, j)
      BY <2>1 DEF KeyState, State, Control
    <2>3. ReceiveKey(p, k) = j
      BY <1>2 DEF ReceiveKey
    <2> HIDE DEF j
    <2>4. GotKey(k)
      BY <1>2 DEF Good, KeyInv
    <2>5. KeyInv(p, j)
      BY <2>2, <2>4 DEF KeyInv, Control, GotKey
    <2>6. QED
      BY <2>2, <2>3, <2>5, ControlGood
  <1>3. QED
    BY <1>1, <1>2

\* More ciphertext in the TLS object.
LEMMA OutGood ==
  ASSUME NEW p \in Peer, NEW k, Good(p, k), NEW s \in Seq(Item),
         p = "server" /\ "key" \in Elems(s) => GotKey(k)
  PROVE  LET j == [k EXCEPT !.out = @ \o s] IN Good(p, j) /\ Goes(k, j)
  <1>1. k \in KeyState /\ k.out \in Seq(Item)
    BY DEF Good, KeyState
  <1>2. PICK o \in Seq(Item) : o = k.out \o s /\ Elems(o) = Elems(k.out) \cup Elems(s)
    BY <1>1, ElemsConcat
  <1>3. PICK j : j = [k EXCEPT !.out = @ \o s]
    OBVIOUS
  <1>4. j = [k EXCEPT !.out = o]
    BY <1>1, <1>2, <1>3 DEF KeyState
  <1>5. /\ Control(k, j) /\ j.state = k.state /\ j.plain = k.plain
        /\ j.readBuf = k.readBuf /\ j.writeBuf = k.writeBuf /\ j.out = o
    BY <1>1, <1>4 DEF KeyState, Control
  <1>6. KeyInv(p, j)
    BY <1>2, <1>5 DEF Good, KeyInv, Control, GotKey
  <1>7. QED
    BY <1>3, <1>5, <1>6, ControlGood

LEMMA Flights ==
  ASSUME NEW p \in Peer
  PROVE  Hello[p] \in Seq(Item) /\ Key[p] \in Seq(Item) /\ "key" \notin Elems(Hello[p])
  <1>1. Hello[p] \in Seq({"part", "hello"}) /\ Key[p] \in Seq({"part", "key"})
    BY FlightAssumption
  <1>2. {"part", "hello"} \subseteq Item /\ {"part", "key"} \subseteq Item
    BY DEF Item
  <1>3. Hello[p] \in Seq(Item) /\ Key[p] \in Seq(Item)
    BY <1>1, <1>2, SeqMonotonic
  <1>4. \A i \in DOMAIN Hello[p] : Hello[p][i] \in {"part", "hello"}
    BY <1>1, ElementOfSeq, LenProperties
  <1>5. QED
    BY <1>3, <1>4 DEF Elems

LEMMA WritePlaintextGood ==
  ASSUME NEW p \in Peer, NEW k, Good(p, k)
  PROVE  Good(p, WritePlaintext(p, k)) /\ Goes(k, WritePlaintext(p, k))
  <1>1. CASE ~(k.writeBuf /\ k.est)
    BY <1>1, Stays DEF WritePlaintext
  <1>2. CASE k.writeBuf /\ k.est
    <2> DEFINE j == [k EXCEPT !.writeBuf = FALSE, !.out = @ \o Key[p]]
    <2>1. k \in KeyState /\ k.out \in Seq(Item) /\ Key[p] \in Seq(Item)
      BY Flights DEF Good, KeyState
    <2>2. PICK o \in Seq(Item) : o = k.out \o Key[p]
      BY <2>1, ElemsConcat
    <2>3. j = [k EXCEPT !.writeBuf = FALSE, !.out = o]
      BY <2>1, <2>2 DEF KeyState
    <2>4. WritePlaintext(p, k) = j
      BY <1>2 DEF WritePlaintext
    <2> HIDE DEF j
    <2>5. /\ Control(k, j) /\ j.state = k.state /\ j.plain = k.plain
          /\ j.readBuf = k.readBuf
      BY <2>1, <2>3 DEF KeyState, Control
    <2>6. p = "server" => GotKey(k)
      BY <1>2 DEF Good, KeyInv
    <2>7. KeyInv(p, j)
      BY <2>5, <2>6 DEF Good, KeyInv, Control, GotKey
    <2>8. QED
      BY <2>4, <2>5, <2>7, ControlGood
  <1>3. QED
    BY <1>1, <1>2

LEMMA CheckOutgoingGood ==
  ASSUME NEW p \in Peer, NEW k, Good(p, k), NEW j \in CheckOutgoing(k)
  PROVE  Good(p, j) /\ Goes(k, j)
  <1>0. /\ k \in KeyState /\ k.out \in Seq(Item) /\ k.sendId \in Nat /\ k.send \in SUBSET Entry
        /\ Len(k.out) \in Nat
    BY LenProperties DEF Good, KeyState, Entry
  <1>1. CASE j = k
    BY <1>1, Stays
  <1>2. ASSUME NEW n \in 0 .. Len(k.out), Available(k, n),
               j = [MarkActiveOutgoing(k, SubSeq(k.out, 1, n)) EXCEPT
                      !.out = SubSeq(@, n + 1, Len(@))]
        PROVE  Good(p, j) /\ Goes(k, j)
    <2>1. PICK s \in Seq(Item) : s = SubSeq(k.out, 1, n) /\ Elems(s) \subseteq Elems(k.out) /\ Len(s) = n
      <3>1. 1 \in Nat /\ n \in Nat /\ 1 > 0 /\ n <= Len(k.out)
        BY <1>0
      <3>2. (IF 1 <= n THEN n - 1 + 1 ELSE 0) = n
        BY <3>1
      <3>3. /\ SubSeq(k.out, 1, n) \in Seq(Item)
            /\ Elems(SubSeq(k.out, 1, n)) \subseteq Elems(k.out)
            /\ Len(SubSeq(k.out, 1, n)) = IF 1 <= n THEN n - 1 + 1 ELSE 0
        BY <1>0, <3>1, ElemsSubSeq
      <3>4. QED
        BY <3>2, <3>3
    <2>2. PICK m : m = MarkActiveOutgoing(k, s)
      OBVIOUS
    <2>3. n <= SendSize /\ \A e \in k.send : k.sendId + n <= e.id + SendSize
      <3>1. n <= SendSize /\ SendSize \in Nat /\ n \in Nat
        BY <1>0, <1>2, SizeAssumption DEF Available
      <3>2. ASSUME NEW e \in k.send
            PROVE  k.sendId + n <= e.id + SendSize
        <4>1. e.id \in Nat /\ k.sendId + n - e.id <= SendSize
          BY <1>0, <1>2 DEF Entry, Available
        <4>2. QED
          BY <1>0, <3>1, <4>1, Shift
      <3>3. QED
        BY <3>1, <3>2
    <2>4. p = "server" /\ "key" \in Elems(s) => GotKey(k)
      BY <2>1 DEF Good, KeyInv
    <2>5. /\ Good(p, m) /\ Goes(k, m) /\ m.out = k.out
      BY <2>1, <2>2, <2>3, <2>4, MarkActiveOutgoingGood
    <2>6. PICK o \in Seq(Item) : o = SubSeq(k.out, n + 1, Len(k.out)) /\ Elems(o) \subseteq Elems(k.out)
      <3>1. n + 1 \in Nat /\ n + 1 > 0 /\ Len(k.out) <= Len(k.out)
        BY <1>0
      <3>2. /\ SubSeq(k.out, n + 1, Len(k.out)) \in Seq(Item)
            /\ Elems(SubSeq(k.out, n + 1, Len(k.out))) \subseteq Elems(k.out)
        BY <1>0, <3>1, ElemsSubSeq
      <3>3. QED
        BY <3>2
    <2>7. m \in KeyState
      BY <2>5 DEF Good
    <2>8. j = [m EXCEPT !.out = o]
      BY <1>2, <2>1, <2>2, <2>5, <2>6, <2>7 DEF KeyState
    <2>9. /\ Control(m, j) /\ j.state = m.state /\ j.plain = m.plain
          /\ j.readBuf = m.readBuf /\ j.writeBuf = m.writeBuf /\ j.out = o
      BY <2>7, <2>8 DEF KeyState, Control
    <2>10. KeyInv(p, j)
      BY <2>5, <2>6, <2>9 DEF Good, KeyInv, Control, GotKey
    <2>11. Good(p, j) /\ Goes(m, j)
      BY <2>5, <2>9, <2>10, ControlGood
    <2>12. Goes(k, j)
      BY <1>0, <2>5, <2>11, GoesTransitive DEF Good
    <2>13. QED
      BY <2>11, <2>12
  <1>3. QED
    BY <1>1, <1>2 DEF CheckOutgoing

\* The error exit, from any point of a pass.
LEMMA ErrorExitGood ==
  ASSUME NEW p \in Peer, NEW k, Good(p, k), NEW j \in ErrorExit(k)
  PROVE  Good(p, j) /\ Goes(k, j) /\ j.state = "ERROR_PRE"
  <1>1. PICK a \in {<<>>, <<"alert">>} : \E l \in CheckOutgoing([k EXCEPT !.out = @ \o a]) :
          j = [l EXCEPT !.state = "ERROR_PRE"]
    BY DEF ErrorExit
  <1>2. a \in Seq(Item) /\ "key" \notin Elems(a)
    <2>1. CASE a = <<>>
      BY <2>1 DEF Elems
    <2>2. CASE a = <<"alert">>
      <3>1. <<"alert">> \in Seq(Item) /\ Elems(<<"alert">>) = {"alert"}
        BY DEF Item, Elems
      <3>2. QED
        BY <2>2, <3>1
    <2>3. QED
      BY <2>1, <2>2
  <1>3. PICK b : b = [k EXCEPT !.out = @ \o a] /\ Good(p, b) /\ Goes(k, b)
    BY <1>2, OutGood
  <1>4. PICK l \in CheckOutgoing(b) : j = [l EXCEPT !.state = "ERROR_PRE"]
    BY <1>1, <1>3
  <1>5. Good(p, l) /\ Goes(b, l)
    BY <1>3, CheckOutgoingGood
  <1>6. l \in KeyState
    BY <1>5 DEF Good
  <1>7. /\ Control(l, j) /\ j.state = "ERROR_PRE" /\ j.plain = l.plain
        /\ j.readBuf = l.readBuf /\ j.writeBuf = l.writeBuf /\ j.out = l.out
    BY <1>4, <1>6 DEF KeyState, State, Control
  <1>8. KeyInv(p, j)
    BY <1>5, <1>7 DEF Good, KeyInv, Control, GotKey
  <1>9. Good(p, j) /\ Goes(l, j)
    BY <1>5, <1>7, <1>8, ControlGood
  <1>10. Goes(k, l)
    BY <1>3, <1>5, GoesTransitive DEF Good
  <1>11. Goes(k, j)
    BY <1>5, <1>9, <1>10, GoesTransitive DEF Good
  <1>12. QED
    BY <1>7, <1>9, <1>11

\* Handing the next packet to the TLS object forgets no packet.
LEMMA ReadIncomingGood ==
  ASSUME NEW p \in Peer, NEW k, Good(p, k), NEW j \in ReadIncoming(p, k)
  PROVE  Good(p, j) /\ Moves(k, j)
  <1>1. CASE j = k
    BY <1>1, Stays DEF Moves, Goes
  <1>2. ASSUME NEW e \in k.rec, e.id = k.recId, j = ReadCiphertext(p, k, e)
        PROVE  Good(p, j) /\ Moves(k, j)
    <2>1. /\ k \in KeyState /\ k.rec \in SUBSET [id : Nat, item : Item] /\ k.recId \in Nat
          /\ k.read \in Seq(Item) /\ k.out \in Seq(Item) /\ e.item \in Item
      BY DEF Good, KeyState
    <2>2. PICK o \in Seq(Item) : /\ o = IF p = "server" /\ e.item = "hello" THEN k.out \o Hello[p] ELSE k.out
                                 /\ "key" \in Elems(o) => "key" \in Elems(k.out)
      <3>1. /\ k.out \o Hello[p] \in Seq(Item)
            /\ "key" \in Elems(k.out \o Hello[p]) => "key" \in Elems(k.out)
        BY <2>1, Flights, ElemsConcat
      <3>2. QED
        BY <2>1, <3>1
    <2>3. PICK t \in Seq(Item) : t = Append(k.read, e.item) /\ Elems(t) = Elems(k.read) \cup {e.item}
                                 /\ Len(t) = Len(k.read) + 1
      <3>1. /\ Append(k.read, e.item) \in Seq(Item)
            /\ Elems(Append(k.read, e.item)) = Elems(k.read) \cup {e.item}
            /\ Len(Append(k.read, e.item)) = Len(k.read) + 1
        BY <2>1, ElemsAppend
      <3>2. QED
        BY <3>1
    <2>4. PICK es \in BOOLEAN : es = (k.est \/ e.item = "hello")
      OBVIOUS
    <2>5. PICK pl \in BOOLEAN : pl = (k.plain \/ e.item = "key")
      OBVIOUS
    <2>6. PICK R \in SUBSET [id : Nat, item : Item] : R = k.rec \ {e}
      BY <2>1
    <2>7. PICK n \in Nat : n = k.recId + 1
      BY <2>1
    <2>8. PICK m : m = [k EXCEPT !.est = es, !.out = o, !.plain = pl]
      OBVIOUS
    <2>9. m = TlsTakes(p, k, e.item)
      BY <2>1, <2>2, <2>4, <2>5, <2>8 DEF TlsTakes, KeyState
    <2>10. /\ m \in KeyState /\ m.state = k.state /\ m.sendId = k.sendId /\ m.send = k.send
           /\ m.written = k.written /\ m.rec = k.rec /\ m.recId = k.recId /\ m.read = k.read
           /\ m.recAck = k.recAck /\ m.lru = k.lru /\ m.out = o /\ m.plain = pl
           /\ m.readBuf = k.readBuf /\ m.writeBuf = k.writeBuf
      BY <2>1, <2>8 DEF KeyState
    <2>11. j = [m EXCEPT !.rec = R, !.recId = n, !.read = t]
      BY <1>2, <2>3, <2>6, <2>7, <2>9, <2>10 DEF ReadCiphertext, KeyState
    <2>12. /\ j \in KeyState /\ j.state = k.state /\ j.sendId = k.sendId /\ j.send = k.send
           /\ j.written = k.written /\ j.rec = R /\ j.recId = n /\ j.read = t
           /\ j.recAck = k.recAck /\ j.lru = k.lru /\ j.out = o /\ j.plain = pl
           /\ j.readBuf = k.readBuf /\ j.writeBuf = k.writeBuf
      BY <2>10, <2>11 DEF KeyState
    <2>13. SendInv(j)
      BY <2>12 DEF Good, SendInv
    <2>14. AckInv(j)
      <3>1. ASSUME NEW i \in Nat, Has(k, i)
            PROVE  Has(j, i)
        <4>1. CASE i < k.recId
          BY <4>1, <2>1, <2>7, <2>12 DEF Has
        <4>2. CASE i \in Ids(k.rec)
          BY <4>2, <1>2, <2>1, <2>6, <2>7, <2>12 DEF Has, Ids
        <4>3. QED
          BY <3>1, <4>1, <4>2 DEF Has
      <3>2. Elems(k.recAck) \subseteq Nat /\ Elems(k.lru) \subseteq Nat
        <4>1. k.recAck \in Seq(Nat) /\ k.lru \in Seq(Nat)
          BY <2>1 DEF KeyState
        <4>2. QED
          BY <4>1, ElementOfSeq, LenProperties DEF Elems
      <3>3. QED
        BY <2>12, <3>1, <3>2 DEF Good, AckInv
    <2>15. RecInv(j)
      <3>1. ASSUME NEW f \in R
            PROVE  n <= f.id /\ f.id < n + RecSize
        <4>1. f.id \in Nat /\ k.recId <= f.id /\ f.id < k.recId + RecSize
          BY <2>1, <2>6 DEF Good, RecInv
        <4>2. f.id # k.recId
          BY <1>2, <2>6 DEF Good, RecInv
        <4>3. QED
          BY <4>1, <4>2, <2>1, <2>7, SizeAssumption
      <3>2. n = Len(t)
        BY <2>1, <2>3, <2>7 DEF Good, RecInv
      <3>3. \A f, g \in R : f.id = g.id => f = g
        BY <2>6 DEF Good, RecInv
      <3>4. QED
        BY <2>12, <3>1, <3>2, <3>3 DEF RecInv
    <2>16. KeyInv(p, j)
      <3>1. GotKey(k) => GotKey(j)
        BY <2>3, <2>12 DEF GotKey
      <3>2. e.item = "key" => GotKey(j)
        BY <2>3, <2>12 DEF GotKey
      <3>3. QED
        BY <2>2, <2>5, <2>12, <3>1, <3>2, Zenon DEF Good, KeyInv
    <2>17. Writes(k, j)
      <3>1. Writes(k, k)
        BY Stays DEF Goes
      <3>2. QED
        BY <2>12, <3>1 DEF Writes
    <2>18. Reads(k, j)
      BY <1>2, <2>3, <2>6, <2>7, <2>12 DEF Reads
    <2>19. QED
      BY <2>12, <2>13, <2>14, <2>15, <2>16, <2>17, <2>18 DEF Good, Moves
  <1>3. QED
    BY <1>1, <1>2 DEF ReadIncoming, NextInSequence

LEMMA RebuffersGood ==
  ASSUME NEW p \in Peer, NEW k, Good(p, k), NEW j, Rebuffers(k, j)
  PROVE  Good(p, j)
  <1>1. SendInv(j)
    <2>1. k.sendId = Len(k.written) /\ j.sendId = k.sendId /\ j.written = k.written
      BY DEF Good, SendInv, Rebuffers
    <2>2. ASSUME NEW f \in j.send
          PROVE  /\ f.id < k.sendId /\ k.sendId <= f.id + SendSize
                 /\ k.written[f.id + 1] = f.item
      <3>1. PICK e \in k.send : f.id = e.id /\ f.item = e.item
        BY DEF Rebuffers
      <3>2. /\ e.id < k.sendId /\ k.sendId <= e.id + SendSize
            /\ k.written[e.id + 1] = e.item
        BY DEF Good, SendInv
      <3>3. QED
        BY <3>1, <3>2
    <2>3. QED
      BY <2>1, <2>2 DEF SendInv, Rebuffers
  <1>2. AckInv(j)
    BY DEF Good, AckInv, Rebuffers, Has, Ids
  <1>3. RecInv(j)
    BY DEF Good, RecInv, Rebuffers
  <1>4. KeyInv(p, j)
    BY DEF Good, KeyInv, Rebuffers, GotKey
  <1>5. QED
    BY <1>1, <1>2, <1>3, <1>4 DEF Good, Rebuffers

\* Only acks of packets that arrived are written, and all of them stay so.
LEMMA AckWriteGood ==
  ASSUME NEW p \in Peer, NEW k, Good(p, k), NEW max \in 1 .. AckSize, NEW w \in AckWrite(k, max)
  PROVE  /\ Good(p, w.key) /\ Goes(k, w.key)
         /\ w.key.send = k.send /\ w.key.sendId = k.sendId /\ w.key.written = k.written
         /\ w.key.state = k.state
         /\ w.acks \in SUBSET Nat /\ \A i \in w.acks : Has(k, i)
  <1>1. /\ k \in KeyState /\ k.recAck \in Seq(Nat) /\ k.lru \in Seq(Nat)
        /\ Len(k.recAck) \in Nat /\ Len(k.lru) \in Nat /\ AckSize \in Nat
        /\ Len(k.recAck) <= AckSize
        /\ \A i \in Elems(k.recAck) \cup Elems(k.lru) : Has(k, i)
    BY LenProperties, SizeAssumption DEF Good, KeyState, AckInv
  <1>2. PICK n \in Nat : n = Lesser(Len(k.recAck), max) /\ n <= Len(k.recAck)
    BY <1>1 DEF Lesser
  <1>3. PICK t : t = SubSeq(k.recAck, 1, n) \o k.lru
    OBVIOUS
  <1>4. t \in Seq(Nat) /\ Elems(t) \subseteq Elems(k.recAck) \cup Elems(k.lru)
    <2>1. SubSeq(k.recAck, 1, n) \in Seq(Nat) /\ Elems(SubSeq(k.recAck, 1, n)) \subseteq Elems(k.recAck)
      <3>1. 1 \in Nat /\ 1 > 0
        OBVIOUS
      <3>2. QED
        BY <1>1, <1>2, <3>1, ElemsSubSeq
    <2>2. PICK a \in Seq(Nat) : a = SubSeq(k.recAck, 1, n) /\ Elems(a) \subseteq Elems(k.recAck)
      BY <2>1
    <2>3. a \o k.lru \in Seq(Nat) /\ Elems(a \o k.lru) = Elems(a) \cup Elems(k.lru)
      BY <1>1, ElemsConcat
    <2>4. QED
      BY <1>3, <2>2, <2>3
  <1>5. Elems(t) \subseteq Nat
    BY <1>4, ElementOfSeq, LenProperties DEF Elems
  <1>6. PICK mru \in MostRecent(t) :
          w = [key |-> [k EXCEPT !.recAck = SubSeq(@, n + 1, Len(@)), !.lru = mru],
               acks |-> {mru[i] : i \in 1 .. Lesser(max, Len(mru))}]
    <2> DEFINE Wr(l, u) == [key |-> [k EXCEPT !.recAck = SubSeq(@, l + 1, Len(@)), !.lru = u],
                            acks |-> {u[i] : i \in 1 .. Lesser(max, Len(u))}]
    <2>1. \E u \in MostRecent(SubSeq(k.recAck, 1, Lesser(Len(k.recAck), max)) \o k.lru) :
            w = Wr(Lesser(Len(k.recAck), max), u)
      BY Zenon DEF AckWrite
    <2> HIDE DEF Wr
    <2>2. \E u \in MostRecent(t) : w = Wr(n, u)
      BY <1>2, <1>3, <2>1
    <2>3. QED
      BY <2>2, Zenon DEF Wr
  <1>7. PICK m \in 0 .. AckSize : mru \in [1 .. m -> Elems(t)]
    BY DEF MostRecent
  <1>8. mru \in Seq(Nat) /\ Len(mru) = m /\ Elems(mru) \subseteq Elems(t)
    <2>1. m \in Nat
      BY <1>1
    <2>2. mru \in [1 .. m -> Nat]
      BY <1>5, <1>7
    <2>3. mru \in Seq(Nat)
      BY <2>1, <2>2, SeqDef
    <2>4. Len(mru) = m
      BY <2>1, <2>2, <2>3, LenProperties
    <2>5. Elems(mru) \subseteq Elems(t)
      BY <1>7 DEF Elems
    <2>6. QED
      BY <2>3, <2>4, <2>5
  <1>9. PICK r \in Seq(Nat) : /\ r = SubSeq(k.recAck, n + 1, Len(k.recAck))
                              /\ Elems(r) \subseteq Elems(k.recAck) /\ Len(r) <= AckSize
    <2>1. n + 1 \in Nat /\ n + 1 > 0 /\ Len(k.recAck) <= Len(k.recAck)
      BY <1>1
    <2>2. /\ SubSeq(k.recAck, n + 1, Len(k.recAck)) \in Seq(Nat)
          /\ Elems(SubSeq(k.recAck, n + 1, Len(k.recAck))) \subseteq Elems(k.recAck)
          /\ Len(SubSeq(k.recAck, n + 1, Len(k.recAck))) =
               IF n + 1 <= Len(k.recAck) THEN Len(k.recAck) - (n + 1) + 1 ELSE 0
      BY <1>1, <2>1, ElemsSubSeq
    <2>3. (IF n + 1 <= Len(k.recAck) THEN Len(k.recAck) - (n + 1) + 1 ELSE 0) <= AckSize
      BY <1>1
    <2>4. QED
      BY <2>2, <2>3
  <1>10. PICK j : j = [k EXCEPT !.recAck = r, !.lru = mru]
    OBVIOUS
  <1>11. w.key = j
    BY <1>1, <1>6, <1>9, <1>10 DEF KeyState
  <1>12. /\ j \in KeyState
         /\ j.sendId = k.sendId /\ j.send = k.send /\ j.written = k.written
         /\ j.recId = k.recId /\ j.rec = k.rec /\ j.read = k.read
         /\ j.recAck = r /\ j.lru = mru
         /\ j.state = k.state /\ j.out = k.out /\ j.plain = k.plain
         /\ j.readBuf = k.readBuf /\ j.writeBuf = k.writeBuf
    BY <1>1, <1>8, <1>10 DEF KeyState
  <1>13. AckInv(j)
    <2>1. \A i \in Elems(r) \cup Elems(mru) : Has(k, i)
      BY <1>1, <1>4, <1>8, <1>9
    <2>2. \A i : Has(k, i) <=> Has(j, i)
      BY <1>12 DEF Has, Ids
    <2>3. Len(r) <= AckSize /\ Len(mru) <= AckSize
      BY <1>1, <1>7, <1>8, <1>9
    <2>4. QED
      BY <1>12, <2>1, <2>2, <2>3 DEF AckInv
  <1>14. Good(p, j)
    BY <1>12, <1>13 DEF Good, SendInv, RecInv, KeyInv, GotKey
  <1>15. Goes(k, j)
    BY <1>12, Stays DEF Goes, Writes
  <1>16. w.acks \subseteq Elems(mru)
    <2>1. w.acks = {mru[i] : i \in 1 .. Lesser(max, Len(mru))}
      BY <1>6
    <2>2. 1 .. Lesser(max, Len(mru)) \subseteq DOMAIN mru
      <3>1. max \in Nat /\ m \in Nat
        BY <1>1
      <3>2. Lesser(max, m) <= m /\ Lesser(max, m) \in Nat
        BY <3>1 DEF Lesser
      <3>3. DOMAIN mru = 1 .. m
        BY <1>7
      <3>4. QED
        BY <3>1, <3>2, <3>3, <1>8
    <2>3. QED
      BY <2>1, <2>2 DEF Elems
  <1>17. w.acks \in SUBSET Nat /\ \A i \in w.acks : Has(k, i)
    BY <1>1, <1>4, <1>5, <1>8, <1>16
  <1>18. QED
    BY <1>11, <1>12, <1>14, <1>15, <1>17

LEMMA AcknowledgeGood ==
  ASSUME NEW p \in Peer, NEW k, Good(p, k), NEW id \in Nat, Has(k, id)
  PROVE  LET j == Acknowledge(k, id)
         IN  /\ Good(p, j) /\ j.state = k.state
             /\ j.sendId = k.sendId /\ j.send = k.send /\ j.written = k.written
             /\ j.recId = k.recId /\ j.rec = k.rec /\ j.read = k.read
  <1>1. CASE Acknowledge(k, id) = k
    BY <1>1
  <1>2. CASE id \notin Elems(k.recAck) /\ Len(k.recAck) < AckSize
    <2>1. k \in KeyState /\ k.recAck \in Seq(Nat) /\ Len(k.recAck) \in Nat /\ AckSize \in Nat
      BY LenProperties, SizeAssumption DEF Good, KeyState
    <2>2. PICK r \in Seq(Nat) : /\ r = Append(k.recAck, id) /\ Elems(r) = Elems(k.recAck) \cup {id}
                                /\ Len(r) <= AckSize
      <3>1. /\ Append(k.recAck, id) \in Seq(Nat)
            /\ Elems(Append(k.recAck, id)) = Elems(k.recAck) \cup {id}
            /\ Len(Append(k.recAck, id)) = Len(k.recAck) + 1
        BY <2>1, ElemsAppend
      <3>2. Len(k.recAck) + 1 <= AckSize
        BY <1>2, <2>1
      <3>3. QED
        BY <3>1, <3>2
    <2>3. PICK j : j = [k EXCEPT !.recAck = r]
      OBVIOUS
    <2>4. Acknowledge(k, id) = j
      BY <1>2, <2>1, <2>2, <2>3 DEF Acknowledge, KeyState
    <2>5. /\ j \in KeyState
          /\ j.sendId = k.sendId /\ j.send = k.send /\ j.written = k.written
          /\ j.recId = k.recId /\ j.rec = k.rec /\ j.read = k.read
          /\ j.recAck = r /\ j.lru = k.lru
          /\ j.state = k.state /\ j.out = k.out /\ j.plain = k.plain
          /\ j.readBuf = k.readBuf /\ j.writeBuf = k.writeBuf
      BY <2>1, <2>3 DEF KeyState
    <2>6. AckInv(j)
      <3>1. \A i : Has(k, i) <=> Has(j, i)
        BY <2>5 DEF Has, Ids
      <3>2. QED
        BY <2>2, <2>5, <3>1 DEF Good, AckInv
    <2>7. Good(p, j)
      BY <2>5, <2>6 DEF Good, SendInv, RecInv, KeyInv, GotKey
    <2>8. QED
      BY <2>4, <2>5, <2>7
  <1>3. QED
    BY <1>1, <1>2 DEF Acknowledge

\* A packet is stored at most once and acknowledged only if it is stored or
\* was before.
LEMMA MarkActiveIncomingGood ==
  ASSUME NEW p \in Peer, NEW k, Good(p, k), NEW id \in Nat, NEW item \in Item
  PROVE  LET j == MarkActiveIncoming(k, id, item)
         IN  /\ Good(p, j) /\ j.state = k.state
             /\ j.sendId = k.sendId /\ j.send = k.send /\ j.written = k.written
             /\ j.recId = k.recId /\ j.read = k.read
             /\ k.rec \subseteq j.rec
             /\ \A e \in j.rec \ k.rec : e.id = id /\ e.item = item
  <1>1. CASE ~CanGet(k) \/ ~WontBreakSequentiality(k, id)
    BY <1>1 DEF MarkActiveIncoming
  <1>2. CASE CanGet(k) /\ WontBreakSequentiality(k, id) /\ ~NotReplay(k, id)
    <2>1. Has(k, id)
      <3>1. k.recId \in Nat
        BY DEF Good, KeyState
      <3>2. QED
        BY <1>2, <3>1 DEF NotReplay, Has
    <2>2. MarkActiveIncoming(k, id, item) = Acknowledge(k, id)
      BY <1>2 DEF MarkActiveIncoming
    <2>3. QED
      BY <2>1, <2>2, AcknowledgeGood
  <1>3. CASE CanGet(k) /\ WontBreakSequentiality(k, id) /\ NotReplay(k, id)
    <2>1. k \in KeyState /\ k.rec \in SUBSET [id : Nat, item : Item] /\ k.recId \in Nat
      BY DEF Good, KeyState
    <2>2. PICK n \in [id : Nat, item : Item] : n = [id |-> id, item |-> item]
      OBVIOUS
    <2>3. PICK R \in SUBSET [id : Nat, item : Item] : R = k.rec \cup {n}
      BY <2>1
    <2>4. PICK j : j = [k EXCEPT !.rec = R]
      OBVIOUS
    <2>5. MarkActiveIncoming(k, id, item) = Acknowledge(j, id)
      <3>1. [k EXCEPT !.rec = @ \cup {[id |-> id, item |-> item]}] = j
        BY <2>1, <2>2, <2>3, <2>4 DEF KeyState
      <3>2. QED
        BY <1>3, <3>1 DEF MarkActiveIncoming
    <2>6. /\ j \in KeyState
          /\ j.sendId = k.sendId /\ j.send = k.send /\ j.written = k.written
          /\ j.recId = k.recId /\ j.rec = R /\ j.read = k.read
          /\ j.recAck = k.recAck /\ j.lru = k.lru
          /\ j.state = k.state /\ j.out = k.out /\ j.plain = k.plain
          /\ j.readBuf = k.readBuf /\ j.writeBuf = k.writeBuf
      BY <2>1, <2>4 DEF KeyState
    <2>7. \A i : Has(k, i) => Has(j, i)
      BY <2>3, <2>6 DEF Has, Ids
    <2>8. AckInv(j)
      BY <2>6, <2>7 DEF Good, AckInv
    <2>9. RecInv(j)
      <3>1. n.id = id /\ k.recId <= n.id /\ n.id < k.recId + RecSize
        BY <1>3, <2>1, <2>2 DEF NotReplay, WontBreakSequentiality
      <3>2. \A e \in k.rec : e.id # n.id
        BY <1>3, <3>1 DEF NotReplay, Ids
      <3>3. QED
        BY <2>3, <2>6, <3>1, <3>2 DEF Good, RecInv
    <2>10. Good(p, j)
      BY <2>6, <2>8, <2>9 DEF Good, SendInv, KeyInv, GotKey
    <2>11. Has(j, id)
      BY <2>2, <2>3, <2>6 DEF Has, Ids
    <2>12. QED
      BY <2>2, <2>3, <2>5, <2>6, <2>10, <2>11, AcknowledgeGood
  <1>4. QED
    BY <1>1, <1>2, <1>3

LEMMA DeliverGood ==
  ASSUME NEW p \in Peer, NEW m \in Packet, Good(p, ks[p])
  PROVE  Good(p, Deliver(p, m)) /\ Hears(ks[p], Deliver(p, m), m)
  <1> DEFINE linked == IF ks[p].known THEN ks[p] ELSE [ScheduleNow(ks[p]) EXCEPT !.known = TRUE]
  <1>1. PICK k : k = ks[p]
    OBVIOUS
  <1>2. Good(p, k) /\ k \in KeyState /\ k.send \in SUBSET Entry
    BY <1>1 DEF Good, KeyState, Entry
  <1>3. PICK l : l = linked
    OBVIOUS
  <1>4. /\ Good(p, l) /\ Ids(l.send) = Ids(k.send) /\ Hears(k, l, m)
    <2>1. CASE k.known
      BY <1>1, <1>2, <1>3, <2>1 DEF Hears
    <2>2. CASE ~k.known
      <3>1. PICK S \in SUBSET Entry : S = {[e EXCEPT !.due = TRUE] : e \in k.send}
        <4>1. \A e \in k.send : [e EXCEPT !.due = TRUE] \in Entry
          BY <1>2 DEF Entry
        <4>2. QED
          BY <4>1
      <3>2. l = [[k EXCEPT !.send = S] EXCEPT !.known = TRUE]
        BY <1>1, <1>2, <1>3, <2>2, <3>1 DEF ScheduleNow, KeyState
      <3>3. /\ l \in KeyState
            /\ l.sendId = k.sendId /\ l.send = S /\ l.written = k.written
            /\ l.recId = k.recId /\ l.rec = k.rec /\ l.read = k.read
            /\ l.recAck = k.recAck /\ l.lru = k.lru
            /\ l.state = k.state /\ l.out = k.out /\ l.plain = k.plain
            /\ l.readBuf = k.readBuf /\ l.writeBuf = k.writeBuf
        BY <1>2, <3>2 DEF KeyState, Entry
      <3>4. \A f \in S : \E e \in k.send : f = [e EXCEPT !.due = TRUE]
        BY <3>1
      <3>5. \A e \in k.send : [e EXCEPT !.due = TRUE] \in S
        BY <3>1
      <3>6. ASSUME NEW e \in k.send
            PROVE  /\ [e EXCEPT !.due = TRUE].id = e.id /\ [e EXCEPT !.due = TRUE].item = e.item
        BY <1>2 DEF Entry
      <3>7. \A f, g \in S : f.id = g.id => f = g
        <4>1. SUFFICES ASSUME NEW f \in S, NEW g \in S, f.id = g.id
                       PROVE  f = g
          OBVIOUS
        <4>2. PICK a \in k.send : f = [a EXCEPT !.due = TRUE] /\ f.id = a.id
          BY <3>4, <3>6
        <4>3. PICK b \in k.send : g = [b EXCEPT !.due = TRUE] /\ g.id = b.id
          BY <3>4, <3>6
        <4>4. a = b
          BY <1>2, <4>1, <4>2, <4>3 DEF Good, SendInv
        <4>5. QED
          BY <4>2, <4>3, <4>4
      <3>8. \A f \in S : \E e \in k.send : f.id = e.id /\ f.item = e.item
        BY <3>4, <3>6
      <3>9. Ids(l.send) = Ids(k.send)
        <4>1. \A e \in k.send : \E f \in S : f.id = e.id
          BY <3>5, <3>6
        <4>2. QED
          BY <3>3, <3>8, <4>1 DEF Ids
      <3>10. Rebuffers(k, l)
        BY <3>3, <3>7, <3>8 DEF Rebuffers
      <3>11. k.send = {} => S = {}
        BY <3>1
      <3>12. QED
        BY <1>2, <3>3, <3>9, <3>10, <3>11, RebuffersGood DEF Hears
    <2>3. QED
      BY <2>1, <2>2
  <1>5. PICK q : q = SendPurge(l, m.acks)
    OBVIOUS
  <1>6. Good(p, q) /\ Hears(k, q, m)
    <2>1. l \in KeyState /\ l.send \in SUBSET Entry
      BY <1>4 DEF Good, KeyState, Entry
    <2>2. PICK S \in SUBSET Entry : S = {e \in l.send : e.id \notin m.acks}
      BY <2>1
    <2>3. q = [l EXCEPT !.send = S]
      BY <1>5, <2>1, <2>2 DEF SendPurge, KeyState
    <2>4. /\ q \in KeyState
          /\ q.sendId = l.sendId /\ q.send = S /\ q.written = l.written
          /\ q.recId = l.recId /\ q.rec = l.rec /\ q.read = l.read
          /\ q.recAck = l.recAck /\ q.lru = l.lru
          /\ q.state = l.state /\ q.out = l.out /\ q.plain = l.plain
          /\ q.readBuf = l.readBuf /\ q.writeBuf = l.writeBuf
      BY <2>1, <2>3 DEF KeyState, Entry
    <2>5. Rebuffers(l, q)
      BY <1>4, <2>2, <2>4 DEF Rebuffers, Good, SendInv
    <2>6. \A i \in Ids(k.send) : i \in m.acks \/ i \in Ids(S)
      BY <1>4, <2>2 DEF Ids
    <2>7. k.send = {} => S = {}
      BY <1>4, <2>2 DEF Hears
    <2>8. QED
      BY <1>4, <2>4, <2>5, <2>6, <2>7, RebuffersGood DEF Hears
  <1>7. CASE ~k.known /\ m.item # "reset"
    <2>1. Deliver(p, m) = k
      BY <1>1, <1>7 DEF Deliver
    <2>2. QED
      BY <1>1, <1>2, <2>1 DEF Hears
  <1>8. CASE ~(~k.known /\ m.item # "reset") /\ m.item = "ack"
    <2>1. Deliver(p, m) = q
      BY <1>1, <1>3, <1>5, <1>8 DEF Deliver
    <2>2. QED
      BY <1>1, <1>6, <2>1
  <1>9. CASE ~(~k.known /\ m.item # "reset") /\ m.item # "ack"
    <2>1. Deliver(p, m) = MarkActiveIncoming(q, m.id, m.item)
      BY <1>1, <1>3, <1>5, <1>9 DEF Deliver
    <2>2. m.id \in Nat /\ m.item \in Item
      BY <1>9 DEF Packet
    <2>3. PICK j : j = MarkActiveIncoming(q, m.id, m.item)
      OBVIOUS
    <2>4. /\ Good(p, j) /\ j.state = q.state
          /\ j.sendId = q.sendId /\ j.send = q.send /\ j.written = q.written
          /\ j.recId = q.recId /\ j.read = q.read
          /\ q.rec \subseteq j.rec
          /\ \A e \in j.rec \ q.rec : e.id = m.id /\ e.item = m.item
      BY <1>6, <2>2, <2>3, MarkActiveIncomingGood
    <2>5. Hears(k, j, m)
      BY <1>6, <1>9, <2>4 DEF Hears
    <2>6. QED
      BY <1>1, <2>1, <2>3, <2>4, <2>5
  <1>10. QED
    BY <1>7, <1>8, <1>9

LEMMA HandshakeGood ==
  ASSUME NEW p \in Peer, Good(p, ks[p]), Fresh(ks[p])
  PROVE  /\ Good(p, Handshake(p)) /\ Goes(ks[p], Handshake(p))
         /\ Handshake(p).state # "INITIAL"
  <1>1. PICK k : k = ks[p]
    OBVIOUS
  <1>2. PICK a : a = MovePreStart(k)
    OBVIOUS
  <1>3. Good(p, a) /\ Goes(k, a) /\ a.state # "INITIAL"
    BY <1>1, <1>2, MovePreStartGood
  <1>4. PICK b : b = MoveStart(a)
    OBVIOUS
  <1>5. Good(p, b) /\ Goes(a, b)
    BY <1>3, <1>4, MoveStartGood
  <1>6. PICK c : c = MoveActive(p, b)
    OBVIOUS
  <1>7. Good(p, c) /\ Goes(b, c)
    BY <1>5, <1>6, MoveActiveGood
  <1>8. Goes(a, c)
    BY <1>3, <1>5, <1>7, GoesTransitive DEF Good
  <1>9. Goes(k, c)
    BY <1>1, <1>3, <1>7, <1>8, GoesTransitive DEF Good
  <1>10. c.state # "INITIAL"
    BY <1>3, <1>8 DEF Goes, Writes
  <1>11. Handshake(p) = c
    BY <1>1, <1>2, <1>4, <1>6 DEF Handshake
  <1>12. QED
    BY <1>1, <1>7, <1>9, <1>10, <1>11

LEMMA MovesThenGoes ==
  ASSUME NEW p \in Peer, NEW k, NEW a, NEW b, NEW j,
         Good(p, k), Good(p, a), Good(p, b), Good(p, j),
         Goes(k, a), Moves(a, b), Goes(b, j)
  PROVE  Moves(k, j)
  <1>1. Writes(k, a) /\ Writes(a, b) /\ Writes(b, j)
    BY DEF Goes, Moves
  <1>2. Writes(k, b)
    BY <1>1, WritesTransitive DEF Good
  <1>3. Writes(k, j)
    BY <1>1, <1>2, WritesTransitive DEF Good
  <1>4. CASE Goes(a, b)
    BY <1>3, <1>4 DEF Moves, Goes
  <1>5. CASE Reads(a, b)
    <2>1. Reads(k, j)
      BY <1>5 DEF Reads, Goes
    <2>2. QED
      BY <1>3, <2>1 DEF Moves
  <1>6. QED
    BY <1>4, <1>5 DEF Moves

-----------------------------------------------------------------------------
(* The two peers and the network.                                          *)

LEMMA Others ==
  ASSUME NEW p \in Peer
  PROVE  Other[p] \in Peer /\ Other[Other[p]] = p /\ Other[p] # p /\ Peer = {p, Other[p]}
  BY DEF Peer, Other

\* It is enough to look at the peer that moves.
LEMMA PeerStep ==
  ASSUME IInv, NEW p \in Peer, NEW j, Good(p, j), Fresh(j),
         Link(j, ks[Other[p]]), Kept(ks[Other[p]], j),
         Link(ks[Other[p]], j), Kept(j, ks[Other[p]]),
         \A i \in Nat : Has(ks[p], i) => Has(j, i),
         Stream!Extends(j.written, ks[p].written),
         Set(p, j), again' \in [Peer -> BOOLEAN], faults' \in 0 .. MaxFaults,
         net' \in SUBSET Packet,
         \A m \in net' \ net :
           /\ m.from = p
           /\ \A i \in m.acks : Has(j, i)
           /\ m.item # "ack" => m.id < j.sendId /\ j.written[m.id + 1] = m.item
  PROVE  IInv'
  <1>1. /\ ks \in [Peer -> KeyState] /\ net \in SUBSET Packet /\ NetInv
        /\ \A q \in Peer : /\ Good(q, ks[q]) /\ Fresh(ks[q])
                           /\ Link(ks[q], ks[Other[q]]) /\ Kept(ks[Other[q]], ks[q])
    BY DEF IInv
  <1>2. PICK o \in Peer : o = Other[p] /\ Other[o] = p /\ o # p /\ Peer = {p, o}
    BY Others
  <1>3. j \in KeyState
    BY DEF Good
  <1>4. ks' \in [Peer -> KeyState] /\ ks'[p] = j /\ ks'[o] = ks[o]
    BY <1>1, <1>2, <1>3 DEF Set
  <1>5. ASSUME NEW q \in Peer
        PROVE  /\ Good(q, ks'[q]) /\ Fresh(ks'[q])
               /\ Link(ks'[q], ks'[Other[q]]) /\ Kept(ks'[Other[q]], ks'[q])
    <2>1. CASE q = p
      BY <1>2, <1>4, <2>1
    <2>2. CASE q = o
      BY <1>1, <1>2, <1>4, <2>2
    <2>3. QED
      BY <1>2, <2>1, <2>2
  <1>6. ASSUME NEW m \in net'
        PROVE  /\ \A i \in m.acks : Has(ks'[m.from], i)
               /\ m.item # "ack" => /\ m.id < ks'[m.from].sendId
                                    /\ ks'[m.from].written[m.id + 1] = m.item
    <2>1. m \in Packet /\ m.from \in Peer /\ m.id \in Nat /\ m.acks \subseteq Nat
      BY DEF Packet
    <2>2. CASE m \notin net
      BY <1>4, <2>2
    <2>3. CASE m \in net /\ m.from = o
      BY <1>1, <1>4, <2>3 DEF NetInv
    <2>4. CASE m \in net /\ m.from = p
      <3>1. /\ \A i \in m.acks : Has(ks[p], i)
            /\ m.item # "ack" => m.id < ks[p].sendId /\ ks[p].written[m.id + 1] = m.item
        BY <1>1, <2>4 DEF NetInv
      <3>2. /\ ks[p].sendId \in Nat /\ j.sendId \in Nat
            /\ ks[p].sendId = Len(ks[p].written) /\ j.sendId = Len(j.written)
        BY <1>1 DEF Good, SendInv, KeyState
      <3>3. ASSUME m.id < ks[p].sendId
            PROVE  m.id < j.sendId /\ j.written[m.id + 1] = ks[p].written[m.id + 1]
        <4>1. m.id + 1 \in 1 .. Len(ks[p].written) /\ m.id < j.sendId
          BY <2>1, <3>2, <3>3 DEF Stream!Extends
        <4>2. QED
          BY <4>1 DEF Stream!Extends
      <3>4. QED
        BY <1>4, <2>1, <2>4, <3>1, <3>3
    <2>5. QED
      BY <1>2, <2>1, <2>2, <2>3, <2>4
  <1>7. NetInv'
    BY <1>6 DEF NetInv, Has, Ids
  <1>8. \A q \in Peer : /\ Good(q, ks[q])' /\ Fresh(ks[q])'
                        /\ Link(ks[q], ks[Other[q]])' /\ Kept(ks[Other[q]], ks[q])'
    BY <1>5 DEF Good, Fresh, Link, Kept, AckInv, SendInv, RecInv, KeyInv, GotKey, Has, Other
  <1>9. QED
    BY <1>4, <1>7, <1>8 DEF IInv

\* A pass keeps what both peers know of each other.
LEMMA MovesStep ==
  ASSUME IInv, NEW p \in Peer, NEW j, Good(p, j), Moves(ks[p], j), j.state # "INITIAL",
         Set(p, j), again' \in [Peer -> BOOLEAN], faults' \in 0 .. MaxFaults,
         net' \in SUBSET Packet,
         \A m \in net' \ net :
           /\ m.from = p
           /\ \A i \in m.acks : Has(j, i)
           /\ m.item # "ack" => m.id < j.sendId /\ j.written[m.id + 1] = m.item
  PROVE  IInv'
  <1>1. PICK k : k = ks[p]
    OBVIOUS
  <1>2. PICK o : o = ks[Other[p]]
    OBVIOUS
  <1>3. Good(p, k) /\ Link(k, o) /\ Kept(o, k) /\ Link(o, k) /\ Kept(k, o) /\ Moves(k, j)
    BY <1>1, <1>2, Others DEF IInv
  <1>4. Good(Other[p], o)
    BY <1>2, Others DEF IInv
  <1>5. /\ k.recId \in Nat /\ k.recId = Len(k.read) /\ k.read \in Seq(Item)
        /\ k.rec \in SUBSET [id : Nat, item : Item]
        /\ k.sendId \in Nat /\ k.sendId = Len(k.written)
    BY <1>3 DEF Good, KeyState, RecInv, SendInv
  <1>6. /\ j.sendId \in Nat /\ j.sendId = Len(j.written) /\ j.rec \in SUBSET [id : Nat, item : Item]
    BY DEF Good, KeyState, SendInv
  <1>7. o.sendId \in Nat /\ o.recId \in Nat /\ o.rec \in SUBSET [id : Nat, item : Item]
    BY <1>4 DEF Good, KeyState
  <1>8. \A i \in Nat : Has(k, i) => Has(j, i)
    <2>1. CASE Goes(k, j)
      BY <2>1 DEF Goes, Has, Ids
    <2>2. CASE Reads(k, j)
      <3>1. PICK e \in k.rec : e.id = k.recId /\ j.recId = k.recId + 1 /\ j.rec = k.rec \ {e}
        BY <2>2 DEF Reads
      <3>2. ASSUME NEW i \in Nat, i \in Ids(k.rec)
            PROVE  i \in Ids(j.rec) \/ i = k.recId
        BY <3>1, <3>2 DEF Ids
      <3>3. \A i \in Nat : i < k.recId \/ i = k.recId => i < j.recId
        BY <1>5, <3>1
      <3>4. QED
        BY <3>2, <3>3 DEF Has
    <2>3. QED
      BY <1>3, <2>1, <2>2 DEF Moves
  <1>9. Link(j, o)
    <2>1. CASE Goes(k, j)
      BY <1>3, <2>1 DEF Goes, Link
    <2>2. CASE Reads(k, j)
      <3>1. PICK e \in k.rec : /\ e.id = k.recId /\ j.recId = k.recId + 1 /\ j.rec = k.rec \ {e}
                               /\ j.read = Append(k.read, e.item)
        BY <2>2 DEF Reads
      <3>2. e.id < o.sendId /\ o.written[e.id + 1] = e.item
        BY <1>3 DEF Link
      <3>3. j.recId <= o.sendId
        BY <1>5, <1>7, <3>1, <3>2
      <3>4. e.item \in Item
        BY <1>5
      <3>5. /\ \A i \in 1 .. Len(k.read) : j.read[i] = k.read[i]
            /\ j.read[Len(k.read) + 1] = e.item
        BY <1>5, <3>1, <3>4, ElemsAppend
      <3>6. ASSUME NEW i \in 1 .. j.recId
            PROVE  j.read[i] = o.written[i]
        <4>1. CASE i \in 1 .. k.recId
          BY <1>3, <1>5, <3>5, <4>1 DEF Link
        <4>2. CASE i = k.recId + 1
          BY <1>5, <3>1, <3>2, <3>5, <4>2
        <4>3. QED
          BY <1>5, <3>1, <4>1, <4>2
      <3>7. \A f \in j.rec : f.id < o.sendId /\ o.written[f.id + 1] = f.item
        BY <1>3, <3>1 DEF Link
      <3>8. QED
        BY <3>3, <3>6, <3>7 DEF Link
    <2>3. QED
      BY <1>3, <2>1, <2>2 DEF Moves
  <1>10. Kept(o, j)
    BY <1>3, <1>7, <1>8 DEF Kept
  <1>11. Stream!Extends(j.written, k.written)
    BY <1>3 DEF Moves, Writes
  <1>12. Link(o, j)
    <2>1. o.recId <= k.sendId /\ k.sendId <= j.sendId
      BY <1>3, <1>5, <1>6, <1>11 DEF Link, Stream!Extends
    <2>2. \A i \in 1 .. k.sendId : j.written[i] = k.written[i]
      BY <1>5, <1>11 DEF Stream!Extends
    <2>3. \A i \in 1 .. o.recId : i \in 1 .. k.sendId
      BY <1>5, <1>7, <2>1
    <2>4. ASSUME NEW e \in o.rec
          PROVE  e.id < j.sendId /\ j.written[e.id + 1] = e.item
      <3>1. e.id \in Nat /\ e.id < k.sendId /\ k.written[e.id + 1] = e.item
        BY <1>3, <1>7 DEF Link
      <3>2. e.id + 1 \in 1 .. k.sendId /\ e.id < j.sendId
        BY <1>5, <1>6, <2>1, <3>1
      <3>3. QED
        BY <2>2, <3>1, <3>2
    <2>5. o.recId <= j.sendId
      BY <1>5, <1>6, <1>7, <2>1
    <2>6. QED
      BY <1>3, <2>2, <2>3, <2>4, <2>5 DEF Link
  <1>13. Kept(j, o)
    <2>1. ASSUME NEW i \in 0 .. (j.sendId - 1)
          PROVE  i \in Ids(j.send) \/ Has(o, i)
      <3>1. i \in Nat /\ (i \in 0 .. (k.sendId - 1) \/ (k.sendId <= i /\ i < j.sendId))
        BY <1>5, <1>6
      <3>2. CASE i \in 0 .. (k.sendId - 1)
        BY <1>3, <3>1, <3>2 DEF Kept, Moves, Writes
      <3>3. CASE k.sendId <= i /\ i < j.sendId
        BY <1>3, <3>1, <3>3 DEF Moves, Writes
      <3>4. QED
        BY <3>1, <3>2, <3>3
    <2>2. QED
      BY <2>1 DEF Kept
  <1>14. Fresh(j)
    BY DEF Fresh
  <1>15. QED
    BY <1>1, <1>2, <1>8, <1>9, <1>10, <1>11, <1>12, <1>13, <1>14, PeerStep

\* An arriving packet was written by the other and acknowledges what it has.
LEMMA HearsStep ==
  ASSUME IInv, NEW p \in Peer, NEW m \in net, m.from = Other[p], NEW j,
         Good(p, j), Hears(ks[p], j, m),
         Set(p, j), again' \in [Peer -> BOOLEAN], faults' \in 0 .. MaxFaults,
         net' \subseteq net
  PROVE  IInv'
  <1>1. PICK k : k = ks[p]
    OBVIOUS
  <1>2. PICK o : o = ks[Other[p]]
    OBVIOUS
  <1>3. Good(p, k) /\ Link(k, o) /\ Kept(o, k) /\ Link(o, k) /\ Kept(k, o) /\ Hears(k, j, m) /\ Fresh(k)
    BY <1>1, <1>2, Others DEF IInv
  <1>4. o.sendId \in Nat
    BY <1>2, Others DEF IInv, KeyState
  <1>5. /\ \A i \in m.acks : Has(o, i)
        /\ m.item # "ack" => m.id < o.sendId /\ o.written[m.id + 1] = m.item
    BY <1>2 DEF IInv, NetInv
  <1>6. \A i \in Nat : Has(k, i) => Has(j, i)
    BY <1>3 DEF Hears, Has, Ids
  <1>7. Link(j, o)
    <2>1. \A e \in j.rec : e.id < o.sendId /\ o.written[e.id + 1] = e.item
      BY <1>3, <1>5 DEF Hears, Link
    <2>2. QED
      BY <1>3, <2>1 DEF Hears, Link
  <1>8. Kept(o, j)
    BY <1>3, <1>4, <1>6 DEF Kept
  <1>9. Link(o, j)
    BY <1>3 DEF Hears, Link
  <1>10. Kept(j, o)
    BY <1>3, <1>5 DEF Hears, Kept
  <1>11. Stream!Extends(j.written, k.written)
    <2>1. Len(k.written) \in Nat
      BY <1>3, LenProperties DEF Good, KeyState
    <2>2. QED
      BY <1>3, <2>1 DEF Hears, Stream!Extends
  <1>12. Fresh(j)
    BY <1>3 DEF Hears, Fresh
  <1>13. net' \in SUBSET Packet /\ net' \ net = {}
    BY DEF IInv
  <1>14. QED
    BY <1>1, <1>2, <1>6, <1>7, <1>8, <1>9, <1>10, <1>11, <1>12, <1>13, PeerStep

-----------------------------------------------------------------------------
LEMMA InitIInv == Init => IInv
  <1> SUFFICES ASSUME Init PROVE IInv
    OBVIOUS
  <1>1. ASSUME NEW p \in Peer
        PROVE  /\ ks[p] \in KeyState
               /\ ks[p].state = "INITIAL" /\ ks[p].sendId = 0 /\ ks[p].send = {}
               /\ ks[p].recId = 0 /\ ks[p].rec = {} /\ ks[p].recAck = <<>> /\ ks[p].lru = <<>>
               /\ "key" \notin Elems(ks[p].out)
               /\ ~ks[p].plain /\ ~ks[p].readBuf /\ ~ks[p].writeBuf
               /\ ks[p].written = <<>> /\ ks[p].read = <<>>
    <2>1. ks[p] = KeyStateInit(p)
      BY DEF Init
    <2>2. PICK o \in Seq(Item) : o = (IF p = "client" THEN Hello[p] ELSE <<>>) /\ "key" \notin Elems(o)
      <3>1. <<>> \in Seq(Item) /\ "key" \notin Elems(<<>>)
        BY DEF Elems
      <3>2. QED
        BY <3>1, Flights
    <2>3. <<>> \in Seq(Nat) /\ <<>> \in Seq(Item)
      OBVIOUS
    <2>4. QED
      BY <2>1, <2>2, <2>3 DEF KeyStateInit, KeyState, State
  <1>2. ks \in [Peer -> KeyState]
    BY <1>1 DEF Init
  <1>3. again \in [Peer -> BOOLEAN] /\ net \in SUBSET Packet /\ faults \in 0 .. MaxFaults
    BY SizeAssumption DEF Init
  <1>4. Len(<<>>) = 0 /\ Elems(<<>>) = {}
    BY DEF Elems
  <1>5. ASSUME NEW p \in Peer
        PROVE  Good(p, ks[p]) /\ Fresh(ks[p])
    <2>1. AckInv(ks[p])
      BY <1>1, <1>4, SizeAssumption DEF AckInv
    <2>2. SendInv(ks[p]) /\ RecInv(ks[p])
      BY <1>1, <1>4 DEF SendInv, RecInv
    <2>3. KeyInv(p, ks[p])
      BY <1>1, <1>4 DEF KeyInv
    <2>4. QED
      BY <1>1, <2>1, <2>2, <2>3 DEF Good, Fresh
  <1>6. ASSUME NEW p \in Peer
        PROVE  Link(ks[p], ks[Other[p]]) /\ Kept(ks[Other[p]], ks[p])
    <2>1. Other[p] \in Peer
      BY Others
    <2>2. QED
      BY <1>1, <2>1 DEF Link, Kept
  <1>7. NetInv
    BY DEF NetInv, Init
  <1>8. QED
    BY <1>2, <1>3, <1>5, <1>6, <1>7 DEF IInv

LEMMA TransmitIInv ==
  ASSUME IInv, NEW p \in Peer, Transmit(p)
  PROVE  IInv' /\ \E j : Set(p, j) /\ Good(p, j) /\ Moves(ks[p], j)
  <1>1. Good(p, ks[p]) /\ Fresh(ks[p])
    BY DEF IInv
  <1>2. PICK h : h = Handshake(p)
    OBVIOUS
  <1>3. Good(p, h) /\ Goes(ks[p], h) /\ h.state # "INITIAL"
    BY <1>1, <1>2, HandshakeGood
  <1>4. PICK e \in h.send : \E w \in AckWrite(h, AckMax) :
          /\ Set(p, [w.key EXCEPT !.send = (@ \ {e}) \cup {[e EXCEPT !.due = FALSE]}])
          /\ net' = net \cup {[from |-> p, item |-> e.item, id |-> e.id, acks |-> w.acks]}
    BY <1>2 DEF Transmit
  <1>5. PICK w \in AckWrite(h, AckMax) :
          /\ Set(p, [w.key EXCEPT !.send = (@ \ {e}) \cup {[e EXCEPT !.due = FALSE]}])
          /\ net' = net \cup {[from |-> p, item |-> e.item, id |-> e.id, acks |-> w.acks]}
    BY <1>4
  <1>6. PICK a : a = w.key
    OBVIOUS
  <1>7. /\ Good(p, a) /\ Goes(h, a) /\ a.send = h.send /\ a.sendId = h.sendId
        /\ a.written = h.written /\ a.state = h.state
        /\ w.acks \in SUBSET Nat /\ \A i \in w.acks : Has(h, i)
    <2>1. AckMax \in 1 .. AckSize
      BY SizeAssumption
    <2>2. QED
      BY <1>3, <1>6, <2>1, AckWriteGood
  <1>8. a \in KeyState /\ a.send \in SUBSET Entry /\ e \in Entry
    BY <1>7 DEF Good, KeyState, Entry
  <1>9. PICK f \in Entry : f = [e EXCEPT !.due = FALSE] /\ f.id = e.id /\ f.item = e.item
    <2>1. /\ [e EXCEPT !.due = FALSE] \in Entry
          /\ [e EXCEPT !.due = FALSE].id = e.id /\ [e EXCEPT !.due = FALSE].item = e.item
      BY <1>8 DEF Entry
    <2>2. QED
      BY <2>1
  <1>10. PICK S \in SUBSET Entry : S = (a.send \ {e}) \cup {f}
    BY <1>8
  <1>11. PICK j : j = [a EXCEPT !.send = S]
    OBVIOUS
  <1>12. Set(p, j)
    <2>1. [w.key EXCEPT !.send = (@ \ {e}) \cup {[e EXCEPT !.due = FALSE]}] = j
      BY <1>6, <1>8, <1>9, <1>10, <1>11 DEF KeyState
    <2>2. QED
      BY <1>5, <2>1
  <1>13. /\ j \in KeyState
         /\ j.sendId = a.sendId /\ j.send = S /\ j.written = a.written
         /\ j.recId = a.recId /\ j.rec = a.rec /\ j.read = a.read
         /\ j.recAck = a.recAck /\ j.lru = a.lru
         /\ j.state = a.state /\ j.out = a.out /\ j.plain = a.plain
         /\ j.readBuf = a.readBuf /\ j.writeBuf = a.writeBuf
    BY <1>8, <1>11 DEF KeyState, Entry
  <1>14. Rebuffers(a, j)
    <2>1. \A x, y \in a.send : x.id = y.id => x = y
      BY <1>7 DEF Good, SendInv
    <2>2. \A x \in a.send \ {e} : x.id # f.id
      BY <1>7, <1>9, <2>1
    <2>3. \A x, y \in S : x.id = y.id => x = y
      BY <1>10, <2>1, <2>2
    <2>4. \A x \in S : \E y \in a.send : x.id = y.id /\ x.item = y.item
      BY <1>7, <1>9, <1>10
    <2>5. QED
      BY <1>13, <2>3, <2>4 DEF Rebuffers
  <1>15. Good(p, j)
    BY <1>7, <1>14, RebuffersGood
  <1>16. Goes(a, j)
    <2>1. Ids(a.send) \subseteq Ids(S)
      BY <1>9, <1>10 DEF Ids
    <2>2. Goes(a, a)
      BY <1>7, Stays
    <2>3. QED
      BY <1>13, <2>1, <2>2 DEF Goes, Writes
  <1>17. Goes(ks[p], j)
    <2>1. Goes(h, j)
      BY <1>3, <1>7, <1>15, <1>16, GoesTransitive DEF Good
    <2>2. QED
      BY <1>1, <1>3, <1>15, <2>1, GoesTransitive DEF Good
  <1>18. j.state # "INITIAL"
    BY <1>3, <1>7, <1>13
  <1>19. PICK m : m = [from |-> p, item |-> e.item, id |-> e.id, acks |-> w.acks]
    OBVIOUS
  <1>20. /\ m \in Packet /\ m.from = p
         /\ \A i \in m.acks : Has(j, i)
         /\ m.id < j.sendId /\ j.written[m.id + 1] = m.item
    <2>1. m \in Packet /\ m.from = p /\ m.id = e.id /\ m.item = e.item /\ m.acks = w.acks
      BY <1>7, <1>8, <1>19 DEF Packet, Entry
    <2>2. e.id < h.sendId /\ h.written[e.id + 1] = e.item
      BY <1>3 DEF Good, SendInv
    <2>3. \A i : Has(h, i) => Has(j, i)
      BY <1>7, <1>13 DEF Goes, Has, Ids
    <2>4. QED
      BY <1>7, <1>13, <2>1, <2>2, <2>3
  <1>21. net' \in SUBSET Packet /\ net' \ net \subseteq {m}
    BY <1>5, <1>19, <1>20 DEF IInv
  <1>22. again' \in [Peer -> BOOLEAN] /\ faults' \in 0 .. MaxFaults
    <2>1. again' \in [Peer -> BOOLEAN]
      BY DEF Transmit, IInv
    <2>2. faults' = faults \/ Fault
      BY DEF Transmit
    <2>3. faults' \in 0 .. MaxFaults
      BY <2>2, SizeAssumption DEF Fault, IInv
    <2>4. QED
      BY <2>1, <2>3
  <1>23. Moves(ks[p], j)
    BY <1>17 DEF Moves, Goes
  <1>24. IInv'
    BY <1>12, <1>15, <1>18, <1>20, <1>21, <1>22, <1>23, MovesStep
  <1>25. QED
    BY <1>12, <1>15, <1>23, <1>24

LEMMA BlocksGood ==
  ASSUME NEW p \in Peer, NEW j, Good(p, j)
  PROVE  LET r == ReadPlaintext(j)
             s == SendKey(p, r)
             g == ReceiveKey(p, s)
             w == WritePlaintext(p, g)
         IN  \A x \in {j, r, s, g, w} : Good(p, x) /\ Goes(j, x)
  <1>1. PICK r : r = ReadPlaintext(j)
    OBVIOUS
  <1>2. Good(p, r) /\ Goes(j, r)
    BY <1>1, ReadPlaintextGood
  <1>3. PICK s : s = SendKey(p, r)
    OBVIOUS
  <1>4. Good(p, s) /\ Goes(r, s)
    BY <1>2, <1>3, SendKeyGood
  <1>5. Goes(j, s)
    BY <1>2, <1>4, GoesTransitive DEF Good
  <1>6. PICK g : g = ReceiveKey(p, s)
    OBVIOUS
  <1>7. Good(p, g) /\ Goes(s, g)
    BY <1>4, <1>6, ReceiveKeyGood
  <1>8. Goes(j, g)
    BY <1>4, <1>5, <1>7, GoesTransitive DEF Good
  <1>9. PICK w : w = WritePlaintext(p, g)
    OBVIOUS
  <1>10. Good(p, w) /\ Goes(g, w)
    BY <1>7, <1>9, WritePlaintextGood
  <1>11. Goes(j, w)
    BY <1>7, <1>8, <1>10, GoesTransitive DEF Good
  <1>12. Goes(j, j)
    BY Stays
  <1>13. QED
    BY <1>1, <1>2, <1>3, <1>4, <1>5, <1>6, <1>7, <1>8, <1>9, <1>10, <1>11, <1>12

LEMMA PassIInv ==
  ASSUME IInv, NEW p \in Peer, NEW busy \in BOOLEAN, Pass(p, busy)
  PROVE  IInv' /\ \E j : Set(p, j) /\ Good(p, j) /\ Moves(ks[p], j)
  <1>1. Good(p, ks[p]) /\ Fresh(ks[p]) /\ net \in SUBSET Packet /\ again \in [Peer -> BOOLEAN]
        /\ faults \in 0 .. MaxFaults
    BY DEF IInv
  <1>2. PICK h : h = Handshake(p)
    OBVIOUS
  <1>3. Good(p, h) /\ Goes(ks[p], h) /\ h.state # "INITIAL"
    BY <1>1, <1>2, HandshakeGood
  <1>4. PICK j \in ReadIncoming(p, h) :
        \E k \in CheckOutgoing(WritePlaintext(p, ReceiveKey(p, SendKey(p, ReadPlaintext(j))))) :
          /\ \E c \in BOOLEAN : again' = [again EXCEPT ![p] = c]
          /\ faults' = faults
          /\ \/ Set(p, k) /\ net' = net
             \/ \E w \in AckWrite(k, DedicatedMax) :
                  /\ Set(p, w.key)
                  /\ net' = net \cup {[from |-> p, item |-> "ack", id |-> 0, acks |-> w.acks]}
    BY <1>2 DEF Pass
  <1>5. PICK d : d = WritePlaintext(p, ReceiveKey(p, SendKey(p, ReadPlaintext(j))))
    OBVIOUS
  <1>6. PICK k \in CheckOutgoing(d) :
          /\ \E c \in BOOLEAN : again' = [again EXCEPT ![p] = c]
          /\ faults' = faults
          /\ \/ Set(p, k) /\ net' = net
             \/ \E w \in AckWrite(k, DedicatedMax) :
                  /\ Set(p, w.key)
                  /\ net' = net \cup {[from |-> p, item |-> "ack", id |-> 0, acks |-> w.acks]}
    BY <1>4, <1>5
  <1>7. Good(p, j) /\ Moves(h, j)
    BY <1>3, ReadIncomingGood
  <1>8. Good(p, d) /\ Goes(j, d)
    BY <1>5, <1>7, BlocksGood
  <1>9. Good(p, k) /\ Goes(d, k)
    BY <1>8, CheckOutgoingGood
  <1>10. Goes(j, k)
    BY <1>7, <1>8, <1>9, GoesTransitive DEF Good
  <1>11. again' \in [Peer -> BOOLEAN] /\ faults' \in 0 .. MaxFaults
    BY <1>1, <1>6
  <1>12. ASSUME NEW x, Good(p, x), Goes(k, x)
         PROVE  Moves(ks[p], x) /\ x.state # "INITIAL"
    <2>1. Goes(j, x)
      BY <1>7, <1>9, <1>10, <1>12, GoesTransitive DEF Good
    <2>2. Moves(ks[p], x)
      BY <1>1, <1>3, <1>7, <1>12, <2>1, MovesThenGoes
    <2>3. x.state # "INITIAL"
      BY <1>3, <1>7, <2>1 DEF Moves, Goes, Writes
    <2>4. QED
      BY <2>2, <2>3
  <1>13. CASE Set(p, k) /\ net' = net
    <2>1. Goes(k, k)
      BY <1>9, Stays
    <2>2. Moves(ks[p], k) /\ k.state # "INITIAL"
      BY <1>9, <1>12, <2>1
    <2>3. net' \in SUBSET Packet /\ net' \ net = {}
      BY <1>1, <1>13
    <2>4. IInv'
      BY <1>9, <1>11, <1>13, <2>2, <2>3, MovesStep
    <2>5. QED
      BY <1>9, <1>13, <2>2, <2>4
  <1>14. ASSUME NEW w \in AckWrite(k, DedicatedMax), Set(p, w.key),
                net' = net \cup {[from |-> p, item |-> "ack", id |-> 0, acks |-> w.acks]}
         PROVE  IInv' /\ \E x : Set(p, x) /\ Good(p, x) /\ Moves(ks[p], x)
    <2>1. PICK x : x = w.key
      OBVIOUS
    <2>2. DedicatedMax \in 1 .. AckSize
      BY SizeAssumption
    <2>3. Good(p, x) /\ Goes(k, x) /\ w.acks \in SUBSET Nat /\ \A i \in w.acks : Has(k, i)
      BY <1>9, <2>1, <2>2, AckWriteGood
    <2>4. Moves(ks[p], x) /\ x.state # "INITIAL"
      BY <1>12, <2>3
    <2>5. \A i \in w.acks : Has(x, i)
      BY <2>3 DEF Goes, Has, Ids
    <2>6. PICK m : m = [from |-> p, item |-> "ack", id |-> 0, acks |-> w.acks]
      OBVIOUS
    <2>7. m \in Packet /\ m.from = p /\ m.item = "ack" /\ m.acks = w.acks
      BY <2>3, <2>6 DEF Packet
    <2>8. net' \in SUBSET Packet /\ net' \ net \subseteq {m}
      BY <1>1, <1>14, <2>6, <2>7
    <2>9. IInv'
      BY <1>11, <1>14, <2>1, <2>3, <2>4, <2>5, <2>7, <2>8, MovesStep
    <2>10. QED
      BY <1>14, <2>1, <2>3, <2>4, <2>9
  <1>15. QED
    BY <1>6, <1>13, <1>14

\* The error exit and the end of processing.
LEMMA FailIInv ==
  ASSUME IInv, NEW p \in Peer,
         \/ NegotiationTimeout(p)
         \/ \E busy \in BOOLEAN : StopProcessing(p, busy) \/ TlsError(p, busy)
  PROVE  IInv' /\ \E j : Set(p, j) /\ Good(p, j) /\ Moves(ks[p], j)
  <1>1. Good(p, ks[p]) /\ Fresh(ks[p]) /\ net \in SUBSET Packet /\ again \in [Peer -> BOOLEAN]
        /\ faults \in 0 .. MaxFaults
    BY DEF IInv
  <1>2. net' = net /\ again' \in [Peer -> BOOLEAN]
    BY <1>1 DEF NegotiationTimeout, StopProcessing, TlsError
  <1>3. faults' \in 0 .. MaxFaults
    <2>1. faults' = faults \/ Fault
      BY DEF NegotiationTimeout, StopProcessing, TlsError
    <2>2. QED
      BY <1>1, <2>1, SizeAssumption DEF Fault
  <1>4. net' \in SUBSET Packet /\ net' \ net = {}
    BY <1>1, <1>2
  <1>5. SUFFICES \E j : Set(p, j) /\ Good(p, j) /\ Moves(ks[p], j) /\ j.state # "INITIAL"
    BY <1>2, <1>3, <1>4, MovesStep
  <1>6. CASE NegotiationTimeout(p)
    <2>1. PICK j \in ErrorExit(ks[p]) : Set(p, j)
      BY <1>6 DEF NegotiationTimeout
    <2>2. Good(p, j) /\ Goes(ks[p], j) /\ j.state = "ERROR_PRE"
      BY <1>1, ErrorExitGood
    <2>3. QED
      BY <2>1, <2>2 DEF Moves, Goes
  <1>7. ASSUME NEW busy \in BOOLEAN, StopProcessing(p, busy)
        PROVE  \E j : Set(p, j) /\ Good(p, j) /\ Moves(ks[p], j) /\ j.state # "INITIAL"
    <2>1. PICK k : k = ks[p]
      OBVIOUS
    <2>2. PICK j : j = [k EXCEPT !.state = "ERROR"]
      OBVIOUS
    <2>3. Set(p, j)
      BY <1>7, <2>1, <2>2 DEF StopProcessing
    <2>4. k \in KeyState
      BY <1>1, <2>1 DEF Good
    <2>5. /\ Control(k, j) /\ j.state = "ERROR" /\ j.plain = k.plain
          /\ j.readBuf = k.readBuf /\ j.writeBuf = k.writeBuf /\ j.out = k.out
      BY <2>2, <2>4 DEF KeyState, State, Control
    <2>6. KeyInv(p, j)
      BY <1>1, <2>1, <2>5 DEF Good, KeyInv, Control, GotKey
    <2>7. Good(p, j) /\ Goes(k, j)
      BY <1>1, <2>1, <2>5, <2>6, ControlGood
    <2>8. QED
      BY <2>1, <2>3, <2>5, <2>7 DEF Moves, Goes
  <1>8. ASSUME NEW busy \in BOOLEAN, TlsError(p, busy)
        PROVE  \E j : Set(p, j) /\ Good(p, j) /\ Moves(ks[p], j) /\ j.state # "INITIAL"
    <2>1. PICK h : h = Handshake(p)
      OBVIOUS
    <2>2. Good(p, h) /\ Goes(ks[p], h)
      BY <1>1, <2>1, HandshakeGood
    <2>3. PICK b \in Broken(p, h) : \E k \in ErrorExit(b) : Set(p, k)
      BY <1>8, <2>1 DEF TlsError
    <2>4. PICK l \in ErrorExit(b) : Set(p, l)
      BY <2>3
    <2>5. ASSUME NEW j \in ReadIncoming(p, h), Good(p, b), b = h \/ Goes(j, b)
          PROVE  Moves(ks[p], l) /\ Good(p, l) /\ l.state # "INITIAL"
      <3>1. Good(p, l) /\ Goes(b, l) /\ l.state = "ERROR_PRE"
        BY <2>5, ErrorExitGood
      <3>2. Good(p, j) /\ Moves(h, j)
        BY <2>2, ReadIncomingGood
      <3>3. CASE b = h
        <4>1. Moves(h, h)
          BY <2>2, Stays DEF Moves, Goes
        <4>2. QED
          BY <1>1, <2>2, <3>1, <3>3, <4>1, MovesThenGoes
      <3>4. CASE Goes(j, b)
        <4>1. Goes(j, l)
          BY <2>5, <3>1, <3>2, <3>4, GoesTransitive DEF Good
        <4>2. QED
          BY <1>1, <2>2, <3>1, <3>2, <4>1, MovesThenGoes
      <3>5. QED
        BY <2>5, <3>3, <3>4
    <2>6. PICK j \in ReadIncoming(p, h) :
            \/ b = h
            \/ LET r == ReadPlaintext(j)
                   s == SendKey(p, r)
                   g == ReceiveKey(p, s)
                   w == WritePlaintext(p, g)
               IN  b \in {j, r, s, g, w}
      BY Zenon DEF Broken
    <2>7. Good(p, j)
      BY <2>2, ReadIncomingGood
    <2>8. Good(p, b) /\ (b = h \/ Goes(j, b))
      BY <2>2, <2>6, <2>7, BlocksGood
    <2>9. QED
      BY <2>4, <2>5, <2>8
  <1>9. QED
    BY <1>6, <1>7, <1>8

LEMMA ReceiveIInv ==
  ASSUME IInv, NEW p \in Peer, NEW m \in net, Receive(p, m)
  PROVE  IInv' /\ \E j : Set(p, j) /\ Good(p, j) /\ Hears(ks[p], j, m)
  <1>1. Good(p, ks[p]) /\ m \in Packet /\ again \in [Peer -> BOOLEAN] /\ faults \in 0 .. MaxFaults
    BY DEF IInv
  <1>2. PICK j : j = Deliver(p, m)
    OBVIOUS
  <1>3. Set(p, j) /\ m.from = Other[p] /\ again' = again /\ net' \subseteq net
    BY <1>2 DEF Receive
  <1>4. Good(p, j) /\ Hears(ks[p], j, m)
    BY <1>1, <1>2, DeliverGood
  <1>5. faults' \in 0 .. MaxFaults
    <2>1. faults' = faults \/ Fault
      BY DEF Receive
    <2>2. QED
      BY <1>1, <2>1, SizeAssumption DEF Fault
  <1>6. IInv'
    BY <1>1, <1>3, <1>4, <1>5, HearsStep
  <1>7. QED
    BY <1>3, <1>4, <1>6

LEMMA LoseIInv ==
  ASSUME IInv, NEW m, Lose(m)
  PROVE  IInv' /\ ks' = ks
  <1>1. ks' = ks /\ again' = again /\ net' \subseteq net
    BY DEF Lose
  <1>2. faults' \in 0 .. MaxFaults
    BY SizeAssumption DEF Lose, Fault, IInv
  <1>3. NetInv'
    BY <1>1 DEF IInv, NetInv, Has, Ids
  <1>4. \A q \in Peer : /\ Good(q, ks[q])' /\ Fresh(ks[q])'
                        /\ Link(ks[q], ks[Other[q]])' /\ Kept(ks[Other[q]], ks[q])'
    BY <1>1 DEF IInv, Good, Fresh, Link, Kept, AckInv, SendInv, RecInv, KeyInv, GotKey, Has, Other
  <1>5. QED
    BY <1>1, <1>2, <1>3, <1>4 DEF IInv

\* What a step does to the key states.
LEMMA NextShape ==
  ASSUME IInv, Next
  PROVE  /\ IInv'
         /\ \/ ks' = ks
            \/ \E p \in Peer : \E j : /\ Set(p, j) /\ Good(p, j)
                                      /\ \/ Moves(ks[p], j)
                                         \/ j.written = ks[p].written /\ j.read = ks[p].read
  <1>1. ASSUME NEW p \in Peer, ProcessState(p)
        PROVE  IInv' /\ \E j : Set(p, j) /\ Good(p, j) /\ Moves(ks[p], j)
    BY <1>1, TransmitIInv, PassIInv, FailIInv DEF ProcessState
  <1>2. ASSUME NEW p \in Peer, NEW m \in net, Receive(p, m)
        PROVE  /\ IInv'
               /\ \E j : Set(p, j) /\ Good(p, j) /\ j.written = ks[p].written /\ j.read = ks[p].read
    BY <1>2, ReceiveIInv DEF Hears
  <1>3. ASSUME NEW m, Lose(m)
        PROVE  IInv' /\ ks' = ks
    BY <1>3, LoseIInv
  <1>4. QED
    BY <1>1, <1>2, <1>3, Zenon DEF Next

LEMMA NextIInv == IInv /\ [Next]_vars => IInv'
  <1> SUFFICES ASSUME IInv, [Next]_vars PROVE IInv'
    OBVIOUS
  <1>1. CASE Next
    BY <1>1, NextShape
  <1>2. CASE UNCHANGED vars
    <2>1. \A q \in Peer : /\ Good(q, ks[q])' /\ Fresh(ks[q])'
                          /\ Link(ks[q], ks[Other[q]])' /\ Kept(ks[Other[q]], ks[q])'
      BY <1>2 DEF vars, IInv, Good, Fresh, Link, Kept, AckInv, SendInv, RecInv, KeyInv, GotKey, Has, Other
    <2>2. NetInv'
      BY <1>2 DEF vars, IInv, NetInv, Has, Ids
    <2>3. QED
      BY <1>2, <2>1, <2>2 DEF vars, IInv
  <1>3. QED
    BY <1>1, <1>2

-----------------------------------------------------------------------------
(* The inductive invariant: buffers within their windows, packets in       *)
(* flight and received packets equal to what their sender numbered, acks   *)
(* only of what arrived.                                                   *)
THEOREM Inductive == Spec => []IInv
  BY InitIInv, NextIInv, PTL DEF Spec

(* Every variable keeps its shape, and the two ack lists of reliable.c     *)
(* never outgrow their arrays.                                             *)
THEOREM TypeCorrect == Spec => []TypeOK
  <1>1. IInv => TypeOK
    BY DEF IInv, TypeOK, Good, AckInv
  <1>2. QED
    BY <1>1, Inductive, PTL

(* A send buffer is freed only when the other side has the packet:         *)
(* reliable_send_purge never loses one, whatever acks are lost, repeated   *)
(* or late.                                                                *)
THEOREM NoPacketDropped == Spec => []NothingDropped
  <1>1. IInv => NothingDropped
    <2> SUFFICES ASSUME IInv, NEW p \in Peer
                 PROVE  Kept(ks[p], ks[Other[p]])
      BY DEF NothingDropped, Kept, Has
    <2>1. QED
      BY Others DEF IInv
  <1>2. QED
    BY <1>1, Inductive, PTL

(* The receive buffers never fill up with packets that wait for one that   *)
(* reliable_can_get would refuse.                                          *)
THEOREM NextPacketFits == Spec => []RoomForNext
  <1>1. IInv => RoomForNext
    <2> SUFFICES ASSUME IInv, NEW p \in Peer, ~CanGet(ks[p]), NextInSequence(ks[p]) = {}
                 PROVE  FALSE
      BY DEF RoomForNext
    <2>1. PICK k : k = ks[p]
      OBVIOUS
    <2>2. k \in KeyState /\ RecInv(k)
      BY <2>1 DEF IInv, Good
    <2>3. PICK r \in Nat : r = k.recId
      BY <2>2 DEF KeyState
    <2>4. PICK z \in Nat : z = RecSize /\ z > 0
      BY SizeAssumption
    <2>5. PICK b \in Nat : b = r + z - 1
      BY <2>4
    <2>6. r + 1 \in Nat
      OBVIOUS
    <2>7. ASSUME NEW e \in k.rec
          PROVE  e.id \in (r + 1) .. b
      <3>1. e.id \in Nat /\ r <= e.id /\ e.id < r + z
        BY <2>2, <2>3, <2>4 DEF KeyState, RecInv
      <3>2. e.id # r
        BY <2>1, <2>3 DEF NextInSequence
      <3>3. QED
        BY <2>5, <3>1, <3>2
    <2>8. \A e, f \in k.rec : e.id = f.id => e = f
      BY <2>2 DEF RecInv
    <2>9. /\ Cardinality(k.rec) \in Nat
          /\ Cardinality(k.rec) <= IF r + 1 > b THEN 0 ELSE b - (r + 1) + 1
      BY <2>6, <2>7, <2>8, Window
    <2>10. (IF r + 1 > b THEN 0 ELSE b - (r + 1) + 1) < z
      BY <2>4, <2>5
    <2>11. ~(Cardinality(k.rec) < z)
      BY <2>1, <2>4 DEF CanGet
    <2>12. QED
      BY <2>4, <2>9, <2>10, <2>11
  <1>2. QED
    BY <1>1, Inductive, PTL

(* The ASSERT of write_outgoing_tls_ciphertext cannot fail: what the id    *)
(* window promises, the send buffers hold.                                 *)
THEOREM WindowFitsBuffers == Spec => []OutputRoom
  <1>1. IInv => OutputRoom
    <2> SUFFICES ASSUME IInv, NEW p \in Peer, NEW n \in 0 .. SendSize, Available(ks[p], n)
                 PROVE  Cardinality(ks[p].send) + n <= SendSize
      BY DEF OutputRoom
    <2>1. PICK k : k = ks[p]
      OBVIOUS
    <2>2. k \in KeyState /\ SendInv(k)
      BY <2>1 DEF IInv, Good
    <2>3. PICK s \in Nat : s = k.sendId
      BY <2>2 DEF KeyState
    <2>4. PICK z \in Nat : z = SendSize
      BY SizeAssumption
    <2>5. n \in Nat /\ n <= z
      BY <2>4
    <2>6. \A e, f \in k.send : e.id = f.id => e = f
      BY <2>2 DEF SendInv
    <2>7. ASSUME NEW e \in k.send
          PROVE  e.id \in Nat /\ e.id < s /\ s + n <= e.id + z
      <3>1. e.id \in Nat /\ e.id < s /\ s + n - e.id <= z
        BY <2>1, <2>2, <2>3, <2>4 DEF KeyState, SendInv, Available
      <3>2. QED
        BY <2>5, <3>1, Shift
    <2>8. CASE k.send = {}
      BY <2>1, <2>4, <2>5, <2>8, FS_EmptySet
    <2>9. CASE k.send # {}
      <3>1. PICK e \in k.send : e.id \in Nat /\ e.id < s
        BY <2>7, <2>9
      <3>2. PICK b \in Nat : b = s - 1
        BY <3>1
      <3>3. CASE s + n <= z
        <4>1. 0 \in Nat /\ \A f \in k.send : f.id \in 0 .. b
          BY <2>7, <3>2
        <4>2. /\ Cardinality(k.send) \in Nat
              /\ Cardinality(k.send) <= IF 0 > b THEN 0 ELSE b - 0 + 1
          BY <2>6, <4>1, Window
        <4>3. (IF 0 > b THEN 0 ELSE b - 0 + 1) + n <= z
          BY <2>5, <3>2, <3>3
        <4>4. QED
          BY <2>1, <2>4, <2>5, <4>2, <4>3, <3>2
      <3>4. CASE s + n > z
        <4>1. PICK a \in Nat : a = s + n - z
          BY <2>5, <3>4
        <4>2. \A f \in k.send : f.id \in a .. b
          BY <2>5, <2>7, <3>2, <4>1
        <4>3. /\ Cardinality(k.send) \in Nat
              /\ Cardinality(k.send) <= IF a > b THEN 0 ELSE b - a + 1
          BY <2>6, <4>2, Window
        <4>4. (IF a > b THEN 0 ELSE b - a + 1) + n <= z
          BY <2>5, <3>2, <4>1
        <4>5. QED
          BY <2>1, <2>4, <2>5, <3>2, <4>1, <4>3, <4>4
      <3>5. QED
        BY <2>5, <3>3, <3>4
    <2>10. QED
      BY <2>8, <2>9
  <1>2. QED
    BY <1>1, Inductive, PTL

(* A client in S_GOT_KEY or S_ACTIVE has read the server's key material,   *)
(* which the server sends only after it has read the client's.             *)
THEOREM ActiveHasKeys == Spec => []ActiveMeansKeys
  <1>1. IInv => ActiveMeansKeys
    <2> SUFFICES ASSUME IInv, ks["client"].state \in {"GOT_KEY", "ACTIVE"}
                 PROVE  GotKey(ks["client"]) /\ GotKey(ks["server"])
      BY DEF ActiveMeansKeys, GotKey
    <2>1. PICK c : c = ks["client"]
      OBVIOUS
    <2>2. PICK s : s = ks["server"]
      OBVIOUS
    <2>3. Good("client", c) /\ Good("server", s) /\ Link(c, s)
      <3>1. "client" \in Peer /\ "server" \in Peer /\ Other["client"] = "server"
        BY DEF Peer, Other
      <3>2. QED
        BY <2>1, <2>2, <3>1 DEF IInv
    <2>4. GotKey(c)
      BY <2>1, <2>3 DEF Good, KeyInv
    <2>5. "key" \in Elems(s.written)
      <3>1. /\ c.read \in Seq(Item) /\ c.recId = Len(c.read) /\ c.recId \in Nat
            /\ s.written \in Seq(Item) /\ s.sendId = Len(s.written) /\ s.sendId \in Nat
        BY <2>3 DEF Good, KeyState, RecInv, SendInv
      <3>2. DOMAIN c.read = 1 .. c.recId /\ DOMAIN s.written = 1 .. s.sendId
        BY <3>1, LenProperties
      <3>3. PICK i \in 1 .. c.recId : c.read[i] = "key"
        BY <2>4, <3>2 DEF GotKey, Elems
      <3>4. i \in 1 .. s.sendId /\ s.written[i] = "key"
        BY <2>3, <3>1, <3>3 DEF Link
      <3>5. QED
        BY <3>2, <3>4 DEF Elems
    <2>6. GotKey(s)
      BY <2>3, <2>5 DEF Good, KeyInv
    <2>7. QED
      BY <2>1, <2>2, <2>4, <2>6
  <1>2. QED
    BY <1>1, Inductive, PTL

LEMMA StreamInit == Init => Stream!Init
  <1> SUFFICES ASSUME Init PROVE Stream!Init
    OBVIOUS
  <1>1. \A p \in Peer : ks[p].written = <<>> /\ ks[p].read = <<>>
    BY DEF Init, KeyStateInit
  <1>2. QED
    BY <1>1 DEF Stream!Init

\* A pass writes and reads at most the next packet; everything else stutters.
LEMMA StreamStep == IInv /\ [Next]_vars => [Stream!Next]_(Stream!vars)
  <1> SUFFICES ASSUME IInv, [Next]_vars PROVE [Stream!Next]_(Stream!vars)
    OBVIOUS
  <1>1. CASE ks' = ks
    <2>1. UNCHANGED Stream!vars
      BY <1>1 DEF Stream!vars
    <2>2. QED
      BY <2>1
  <1>2. ASSUME NEW p \in Peer, NEW j, Set(p, j), Good(p, j),
               Moves(ks[p], j) \/ (j.written = ks[p].written /\ j.read = ks[p].read)
        PROVE  Stream!Next
    <2>1. PICK k : k = ks[p]
      OBVIOUS
    <2>2. PICK o \in Peer : o = Other[p] /\ o # p /\ Peer \ {p} = {o}
      BY Others
    <2>3. ks \in [Peer -> KeyState] /\ Good(p, k) /\ Link(k, ks[o]) /\ Good(o, ks[o])
      BY <2>1, <2>2 DEF IInv
    <2>4. ks'[p] = j /\ ks'[o] = ks[o]
      BY <1>2, <2>2, <2>3 DEF Set
    <2>5. Stream!Extends(j.written, k.written)
      <3>1. CASE Moves(k, j)
        BY <3>1 DEF Moves, Writes
      <3>2. CASE j.written = k.written
        <4>1. Len(k.written) \in Nat
          BY <2>3, LenProperties DEF Good, KeyState
        <4>2. QED
          BY <3>2, <4>1 DEF Stream!Extends
      <3>3. QED
        BY <1>2, <2>1, <3>1, <3>2
    <2>6. \/ j.read = k.read
          \/ /\ Len(k.read) < Len(ks[o].written)
             /\ j.read = Append(k.read, ks[o].written[Len(k.read) + 1])
      <3>1. CASE j.read = k.read
        BY <3>1
      <3>2. CASE Reads(k, j)
        <4>1. PICK e \in k.rec : e.id = k.recId /\ j.read = Append(k.read, e.item)
          BY <3>2 DEF Reads
        <4>2. e.id < ks[o].sendId /\ ks[o].written[e.id + 1] = e.item
          BY <2>3 DEF Link
        <4>3. k.recId = Len(k.read) /\ ks[o].sendId = Len(ks[o].written)
          BY <2>3 DEF Good, RecInv, SendInv
        <4>4. QED
          BY <4>1, <4>2, <4>3
      <3>3. QED
        BY <1>2, <2>1, <3>1, <3>2 DEF Moves, Goes
    <2>7. Stream!Step(p)
      BY <2>1, <2>2, <2>4, <2>5, <2>6 DEF Stream!Step, Stream!Extends
    <2>8. QED
      BY <2>7 DEF Stream!Next
  <1>3. CASE UNCHANGED vars
    BY <1>1, <1>3 DEF vars
  <1>4. CASE Next
    <2>1. \/ ks' = ks
          \/ \E p \in Peer : \E j : /\ Set(p, j) /\ Good(p, j)
                                    /\ \/ Moves(ks[p], j)
                                       \/ j.written = ks[p].written /\ j.read = ks[p].read
      BY <1>4, NextShape
    <2>2. QED
      BY <1>1, <1>2, <2>1
  <1>5. QED
    BY <1>3, <1>4

(* The reliability layer implements an ordered stream in each direction:   *)
(* read_incoming_tls_ciphertext gives the TLS object what the other peer   *)
(* numbered, in order, nothing skipped and nothing twice, under loss,      *)
(* duplication and reordering.                                             *)
THEOREM StreamImplemented == Spec => ImplementsStream
  BY StreamInit, StreamStep, Inductive, PTL DEF Spec, ImplementsStream, Stream!Spec

=============================================================================
