----------------------- MODULE SocketConnection_proofs -----------------------
(***************************************************************************)
(* SocketConnection for every size of packet, header, message, counter and *)
(* clock: its types, why a receive may fail, and that the connection keeps *)
(* the promise of MessageTransfer.                                         *)
(*                                                                         *)
(* All follow from SocketInv, which says what is on the wire (what the     *)
(* receiver has read of a packet, and the stream behind it): every packet  *)
(* that begins there is there as it was sent, with the next of the message *)
(* behind it, up to where the sender is or the link was cut (WireInv); and *)
(* the receiver is at the packet that continues its message (StepInv,      *)
(* TogetherInv).  An action of the sender puts a packet more on the wire   *)
(* (SentOn), the receiver takes one from the front of it (MovedBy); what   *)
(* is said of a place on the wire moves along.                             *)
(***************************************************************************)
EXTENDS SocketConnection, SequenceTheorems, TLAPS

(* Division and remainder by a number that is not known. *)

LEMMA Quotient ==
  ASSUME NEW a \in Nat, NEW c \in Nat \ {0}
  PROVE  /\ a \div c \in Nat /\ a % c \in 0 .. c - 1
         /\ a = c * (a \div c) + (a % c)
OBVIOUS

LEMMA QuotientUnique ==
  ASSUME NEW a \in Nat, NEW c \in Nat \ {0}, NEW q \in Nat, NEW r \in 0 .. c - 1,
         a = c * q + r
  PROVE  a \div c = q /\ a % c = r
<1>0. a \div c \in Nat /\ a % c \in 0 .. c - 1 /\ a = c * (a \div c) + (a % c)
  BY Quotient
<1>. DEFINE p == a \div c
            d == a % c
<1>1. \A m, n \in Nat : m < n => c * m + c <= c * n
  <2>1. TAKE m \in Nat, n \in Nat
  <2>2. HAVE m < n
  <2>3. PICK k \in Nat : n = m + 1 + k
    <3>1. n - m - 1 \in Nat /\ n = m + 1 + (n - m - 1)
      BY <2>2
    <3>2. QED
      BY <3>1
  <2>4. c * n = c * m + c + c * k /\ c * k \in Nat
    BY <2>3
  <2>5. QED
    BY <2>4
<1>2. c * p \in Nat /\ c * q \in Nat /\ p \in Nat /\ d \in 0 .. c - 1
      /\ c * p + d = c * q + r
  BY <1>0
<1> HIDE DEF p, d
<1>3. p = q
  BY <1>1, <1>2
<1>4. d = r
  BY <1>2, <1>3
<1>5. QED
  BY <1>3, <1>4 DEF p, d

LEMMA QuotientUp ==
  ASSUME NEW a \in Nat, NEW c \in Nat \ {0}
  PROVE  (a + c) \div c = a \div c + 1
<1>0. a \div c \in Nat /\ a % c \in 0 .. c - 1 /\ a = c * (a \div c) + (a % c)
  BY Quotient
<1>1. \A q \in Nat : c * (q + 1) = c * q + c
  OBVIOUS
<1>2. a + c = c * (a \div c + 1) + (a % c) /\ a \div c + 1 \in Nat /\ a + c \in Nat
  BY <1>0, <1>1
<1>3. QED
  BY <1>0, <1>2, QuotientUnique

LEMMA QuotientMonotone ==
  ASSUME NEW a \in Nat, NEW b \in Nat, NEW c \in Nat \ {0}, a <= b
  PROVE  a \div c <= b \div c
<1> DEFINE p == a \div c
           q == b \div c
           d == a % c
           e == b % c
<1>1. /\ p \in Nat /\ q \in Nat /\ d \in 0 .. c - 1 /\ e \in 0 .. c - 1
      /\ a = c * p + d /\ b = c * q + e
  BY Quotient
<1> HIDE DEF p, q, d, e
<1>2. SUFFICES ASSUME q < p
               PROVE  FALSE
  BY <1>1 DEF p, q
<1>3. PICK k \in Nat : p = q + 1 + k
  <2>1. p - q - 1 \in Nat /\ p = q + 1 + (p - q - 1)
    BY <1>1, <1>2
  <2>2. QED
    BY <2>1
<1>4. c * p = c * q + c + c * k /\ c * k \in Nat /\ c * q \in Nat
  BY <1>1, <1>3
<1>5. QED
  BY <1>1, <1>4

---------------------------------------------------------------------------
(* Packets of a message. *)

LEMMA CapacityFact == Capacity \in Nat \ {0}
BY SocketAssumption DEF Capacity

(* One packet when the rest fits, and one fewer after each full one. *)
LEMMA PacketsFacts ==
  ASSUME NEW x \in Nat
  PROVE  /\ Packets(x) \in Nat
         /\ x = 0 => Packets(x) = 0
         /\ x \in 1 .. Capacity => Packets(x) = 1
         /\ x > Capacity => Packets(x) = Packets(x - Capacity) + 1
         /\ x > 0 => Packets(x) >= 1
<1> DEFINE c == Capacity
<1>0. c \in Nat \ {0}
  BY CapacityFact
<1> HIDE DEF c
<1>1. (x + c - 1) \div c \in Nat
  BY <1>0, Quotient
<1>2. ASSUME x = 0
      PROVE  (x + c - 1) \div c = 0
  <2>1. x + c - 1 = c * 0 + (c - 1) /\ c - 1 \in 0 .. c - 1 /\ x + c - 1 \in Nat
    BY <1>0, <1>2
  <2>2. QED
    BY <1>0, <2>1, QuotientUnique
<1>3. ASSUME x \in 1 .. c
      PROVE  (x + c - 1) \div c = 1
  <2>1. x + c - 1 = c * 1 + (x - 1) /\ x - 1 \in 0 .. c - 1 /\ x + c - 1 \in Nat
    BY <1>0, <1>3
  <2>2. QED
    BY <1>0, <2>1, QuotientUnique
<1>4. ASSUME x > c
      PROVE  (x + c - 1) \div c = ((x - c) + c - 1) \div c + 1
  <2>1. (x - c) + c - 1 \in Nat /\ x + c - 1 = ((x - c) + c - 1) + c
    BY <1>0, <1>4
  <2>2. QED
    BY <1>0, <2>1, QuotientUp
<1>5. ASSUME x > 0
      PROVE  (x + c - 1) \div c >= 1
  <2>1. c <= x + c - 1 /\ x + c - 1 \in Nat /\ c \in Nat
    BY <1>0, <1>5
  <2>2. c = c * 1 + 0
    BY <1>0
  <2>3. c \div c = 1
    BY <1>0, <2>2, QuotientUnique
  <2>4. QED
    BY <1>0, <2>1, <2>3, QuotientMonotone
<1>6. QED
  BY <1>1, <1>2, <1>3, <1>4, <1>5 DEF Packets, c

LEMMA PacketsMonotone ==
  ASSUME NEW x \in Nat, NEW y \in Nat, x <= y
  PROVE  Packets(x) <= Packets(y)
<1>1. /\ x + Capacity - 1 \in Nat /\ y + Capacity - 1 \in Nat
      /\ x + Capacity - 1 <= y + Capacity - 1
  BY CapacityFact
<1>2. QED
  BY <1>1, CapacityFact, QuotientMonotone DEF Packets

---------------------------------------------------------------------------
(* Sequences: cutting one and joining two. *)

LEMMA HalfFacts ==
  ASSUME NEW S, NEW p \in Seq(S), NEW q \in Seq(S)
  PROVE  /\ p \o q \in Seq(S) /\ Len(p \o q) = Len(p) + Len(q)
         /\ Len(p) \in Nat /\ Len(q) \in Nat
         /\ \A i \in 1 .. Len(p) : (p \o q)[i] = p[i]
         /\ \A i \in 1 .. Len(q) : (p \o q)[Len(p) + i] = q[i]
<1>1. Len(p) \in Nat /\ Len(q) \in Nat
  OBVIOUS
<1>2. \A i \in 1 .. Len(q) : /\ Len(p) + i \in 1 .. Len(p) + Len(q)
                             /\ ~(Len(p) + i <= Len(p)) /\ Len(p) + i - Len(p) = i
  BY <1>1
<1>3. \A i \in 1 .. Len(p) : i \in 1 .. Len(p) + Len(q) /\ i <= Len(p)
  BY <1>1
<1>4. QED
  BY <1>1, <1>2, <1>3, ConcatProperties

LEMMA PartFacts ==
  ASSUME NEW S, NEW q \in Seq(S), NEW m \in Int, NEW n \in Int,
         1 <= m, m <= n + 1, n <= Len(q)
  PROVE  /\ SubSeq(q, m, n) \in Seq(S) /\ Len(SubSeq(q, m, n)) = n - m + 1
         /\ \A i \in 1 .. n - m + 1 : SubSeq(q, m, n)[i] = q[m + i - 1]
<1>1. \A i \in m .. n : q[i] \in S
  <2>1. \A i \in m .. n : i \in 1 .. Len(q)
    OBVIOUS
  <2>2. QED
    BY <2>1, ElementOfSeq
<1>2. QED
  BY <1>1, SubSeqProperties

---------------------------------------------------------------------------
(* Places on the wire. *)

LEMMA PlaceFacts ==
  ASSUME sent \in Seq(Sizes), NEW k, NEW o, IsPlace(k, o)
  PROVE  /\ k \in Nat \ {0} /\ o \in Nat /\ sent[k] \in Sizes /\ sent[k] \in Nat \ {0}
         /\ PayloadSize(k, o) \in 1 .. Capacity
         /\ o + PayloadSize(k, o) <= sent[k]
         /\ PayloadSize(k, o) = Capacity \/ o + PayloadSize(k, o) = sent[k]
         /\ PacketLength(k, o) = HeaderLength + PayloadSize(k, o)
         /\ HeaderLength \in Nat \ {0, 1} /\ PacketLength(k, o) \in Nat
         /\ Packets(sent[k] - o) \in 1 .. CountRange
         /\ Packets(sent[k] - o) = 1 <=> o + PayloadSize(k, o) = sent[k]
<1>1. /\ k \in 1 .. Len(sent) /\ k \in Nat \ {0} /\ sent[k] \in Sizes
      /\ sent[k] \in Nat \ {0} /\ o \in 0 .. sent[k] - 1
  <2>1. k \in 1 .. Len(sent) /\ o \in 0 .. sent[k] - 1
    BY DEF IsPlace
  <2>2. sent[k] \in Sizes
    BY <2>1, ElementOfSeq
  <2>3. sent[k] \in Nat \ {0}
    BY <2>2, SocketAssumption
  <2>4. k \in Nat \ {0}
    BY <2>1
  <2>5. QED
    BY <2>1, <2>2, <2>3, <2>4
<1>2. /\ PayloadSize(k, o) \in 1 .. Capacity
      /\ o + PayloadSize(k, o) <= sent[k]
      /\ PayloadSize(k, o) = Capacity \/ o + PayloadSize(k, o) = sent[k]
      /\ o + PayloadSize(k, o) = sent[k] <=> sent[k] - o <= Capacity
  BY <1>1, CapacityFact DEF PayloadSize, Shortest
<1>3. PacketLength(k, o) = HeaderLength + PayloadSize(k, o) /\ HeaderLength \in Nat \ {0, 1}
  BY SocketAssumption DEF PacketLength
<1>4. /\ sent[k] - o \in Nat \ {0} /\ sent[k] - o <= sent[k]
      /\ Packets(sent[k]) <= CountRange
  BY <1>1, SocketAssumption
<1>5. Packets(sent[k] - o) >= 1 /\ Packets(sent[k] - o) \in Nat
  BY <1>4, PacketsFacts
<1>6. Packets(sent[k] - o) <= Packets(sent[k]) /\ Packets(sent[k]) \in Nat
  BY <1>1, <1>4, PacketsMonotone, PacketsFacts
<1>7. Packets(sent[k] - o) = 1 <=> sent[k] - o <= Capacity
  <2>1. CASE sent[k] - o <= Capacity
    BY <1>4, <2>1, PacketsFacts
  <2>2. CASE sent[k] - o > Capacity
    <3>1. (sent[k] - o) - Capacity \in Nat /\ (sent[k] - o) - Capacity > 0
      BY <1>4, <2>2, CapacityFact
    <3>2. Packets((sent[k] - o) - Capacity) \in Nat /\ Packets((sent[k] - o) - Capacity) >= 1
      BY <3>1, PacketsFacts
    <3>3. Packets(sent[k] - o) = Packets((sent[k] - o) - Capacity) + 1
      BY <1>4, <2>2, PacketsFacts
    <3>4. QED
      BY <2>2, <3>2, <3>3, <1>4, CapacityFact
  <2>3. QED
    BY <1>4, <2>1, <2>2, CapacityFact
<1>8. CountRange \in Nat
  BY SocketAssumption
<1>9. QED
  BY <1>1, <1>2, <1>3, <1>5, <1>6, <1>4, <1>7, <1>8

(* The wire loses its first m bytes, or nothing, and is cut at its end     *)
(* only with the link: what is on it is m places further to the front.     *)
MovedBy(m) ==
  /\ m \in Nat /\ Len(Wire') + m <= Len(Wire)
  /\ \A i \in 1 .. Len(Wire') : Wire'[i] = Wire[i + m]
  /\ Len(sent) <= Len(sent') /\ \A k \in 1 .. Len(sent) : sent'[k] = sent[k]
  /\ ~broken' => /\ ~broken /\ Len(Wire') + m = Len(Wire)
                 /\ \A k, o : SenderAt(k, o) => SenderAt(k, o)'

LEMMA PlaceKept ==
  ASSUME NEW m, MovedBy(m), sent \in Seq(Sizes), sent' \in Seq(Sizes),
         NEW k, NEW o, IsPlace(k, o)
  PROVE  /\ IsPlace(k, o)' /\ sent'[k] = sent[k]
         /\ PayloadSize(k, o)' = PayloadSize(k, o)
         /\ PacketLength(k, o)' = PacketLength(k, o)
         /\ \A d : PacketByte(k, o, d)' = PacketByte(k, o, d)
<1>1. /\ k \in 1 .. Len(sent) /\ k \in 1 .. Len(sent') /\ sent'[k] = sent[k]
      /\ IsPlace(k, o)'
  BY DEF MovedBy, IsPlace
<1>2. QED
  BY <1>1 DEF PayloadSize, PacketLength, PacketByte

LEMMA AtMoved ==
  ASSUME NEW m, MovedBy(m), sent \in Seq(Sizes), sent' \in Seq(Sizes),
         Len(Wire) \in Nat, Len(Wire') \in Nat,
         NEW i \in Int, NEW k, NEW o, At(i, k, o)
  PROVE  At(i - m, k, o)'
<1>1. ASSUME i - m \in 1 .. Len(Wire')
      PROVE  IsPlace(k, o)' /\ Wire'[i - m] = PacketByte(k, o, 1)'
  <2>1. i \in 1 .. Len(Wire) /\ Wire'[i - m] = Wire[i]
    BY <1>1 DEF MovedBy
  <2>2. IsPlace(k, o) /\ Wire[i] = PacketByte(k, o, 1)
    BY <2>1 DEF At
  <2>3. QED
    BY <2>1, <2>2, PlaceKept
<1>2. ASSUME i - m = Len(Wire') + 1, ~broken'
      PROVE  SenderAt(k, o)'
  <2>1. i = Len(Wire) + 1 /\ ~broken
    BY <1>2 DEF MovedBy
  <2>2. SenderAt(k, o)
    BY <2>1 DEF At
  <2>3. QED
    BY <1>2, <2>2 DEF MovedBy
<1>3. QED
  BY <1>1, <1>2 DEF At

LEMMA WholeMoved ==
  ASSUME NEW m, MovedBy(m), sent \in Seq(Sizes), sent' \in Seq(Sizes),
         Len(Wire) \in Nat, Len(Wire') \in Nat,
         NEW i \in Int, NEW k, NEW o, Whole(i, k, o)
  PROVE  Whole(i - m, k, o)'
<1>0. PICK l \in Nat, p \in Nat, n \in Nat :
        l = PacketLength(k, o) /\ p = PayloadSize(k, o) /\ n = sent[k]
  <2>1. IsPlace(k, o)
    BY DEF Whole
  <2>2. /\ PacketLength(k, o) \in Nat /\ PayloadSize(k, o) \in 1 .. Capacity
        /\ sent[k] \in Nat
    BY <2>1, PlaceFacts
  <2>3. PayloadSize(k, o) \in Nat
    BY <2>2, CapacityFact
  <2>4. QED
    BY <2>2, <2>3
<1>1. /\ IsPlace(k, o) /\ IsPlace(k, o)' /\ sent'[k] = n
      /\ PacketLength(k, o)' = l /\ PayloadSize(k, o)' = p
      /\ \A d : PacketByte(k, o, d)' = PacketByte(k, o, d)
  BY <1>0, PlaceKept DEF Whole
<1>2. m \in Nat /\ o \in Int
  BY <1>1, PlaceFacts DEF MovedBy
<1>3. ASSUME NEW d \in 1 .. l, (i - m) + d - 1 \in 1 .. Len(Wire')
      PROVE  Wire'[(i - m) + d - 1] = PacketByte(k, o, d)
  <2>1. /\ i + d - 1 \in 1 .. Len(Wire)
        /\ ((i - m) + d - 1) + m = i + d - 1
    BY <1>2, <1>3 DEF MovedBy
  <2>2. Wire'[(i - m) + d - 1] = Wire[i + d - 1]
    BY <1>3, <2>1 DEF MovedBy
  <2>3. QED
    BY <1>0, <2>1, <2>2 DEF Whole
<1>4. NextAt((i - m) + l, k, o)'
  <2>1. i + l \in Int /\ (i + l) - m = (i - m) + l
    BY <1>2
  <2>2. CASE o + p < n
    <3>1. At(i + l, k, o + p)
      BY <1>0, <2>2 DEF Whole, NextAt
    <3>2. At((i - m) + l, k, o + p)'
      BY <2>1, <3>1, AtMoved
    <3>3. QED
      BY <1>1, <2>2, <3>2 DEF NextAt
  <2>3. CASE ~(o + p < n)
    <3>1. At(i + l, k + 1, 0)
      BY <1>0, <2>3 DEF Whole, NextAt
    <3>2. At((i - m) + l, k + 1, 0)'
      BY <2>1, <3>1, AtMoved
    <3>3. QED
      BY <1>1, <2>3, <3>2 DEF NextAt
  <2>4. QED
    BY <2>2, <2>3
<1>5. ~broken' => (i - m) + l - 1 <= Len(Wire')
  BY <1>0, <1>2 DEF Whole, MovedBy
<1>6. QED
  BY <1>1, <1>3, <1>4, <1>5 DEF Whole

(* WireInv goes with the wire. *)
LEMMA WireMoved ==
  ASSUME NEW m, MovedBy(m), sent \in Seq(Sizes), sent' \in Seq(Sizes),
         Len(Wire) \in Nat, Len(Wire') \in Nat, WireInv,
         \A i \in 1 .. Len(Wire') : NextMessage' <= Wire'[i].msg,
         NextMessage \in Nat, NextMessage' \in Nat,
         ~broken' => NextMessage' <= IF s' > 0 THEN Len(sent') ELSE Len(sent') + 1
  PROVE  WireInv'
<1>1. \A i \in 1 .. Len(Wire) :
        /\ Wire[i].msg \in NextMessage .. Len(sent)
        /\ \A k, o : IsStart(Wire[i]) /\ k = Wire[i].msg /\ o = Wire[i].from => Whole(i, k, o)
        /\ \A j \in i .. Len(Wire) : Wire[i].msg <= Wire[j].msg
  BY DEF WireInv
<1>2. ASSUME NEW i \in 1 .. Len(Wire')
      PROVE  /\ Wire'[i].msg \in NextMessage' .. Len(sent')
             /\ IsStart(Wire'[i]) =>
                  \A k, o : k = Wire'[i].msg /\ o = Wire'[i].from => Whole(i, k, o)'
             /\ \A j \in i .. Len(Wire') : Wire'[i].msg <= Wire'[j].msg
  <2>1. PICK h \in 1 .. Len(Wire) : h = i + m /\ Wire'[i] = Wire[h] /\ h - m = i
    <3>1. i + m \in 1 .. Len(Wire) /\ Wire'[i] = Wire[i + m] /\ (i + m) - m = i
      BY DEF MovedBy
    <3>2. QED
      BY <3>1
  <2>2. Wire'[i].msg \in NextMessage' .. Len(sent')
    <3>1. Wire[h].msg \in NextMessage .. Len(sent)
      BY <1>1
    <3>2. Len(sent) <= Len(sent') /\ Len(sent) \in Nat /\ Len(sent') \in Nat
      BY DEF MovedBy
    <3>3. QED
      BY <2>1, <3>1, <3>2
  <2>3. ASSUME IsStart(Wire'[i]), NEW k, NEW o, k = Wire'[i].msg, o = Wire'[i].from
        PROVE  Whole(i, k, o)'
    <3>1. IsStart(Wire[h]) /\ k = Wire[h].msg /\ o = Wire[h].from
      BY <2>1, <2>3
    <3>2. Whole(h, k, o)
      BY <1>1, <3>1, Zenon
    <3>3. h \in Int
      OBVIOUS
    <3>4. Whole(h - m, k, o)'
      BY <3>2, <3>3, WholeMoved
    <3>5. QED
      BY <2>1, <3>4
  <2>4. ASSUME NEW j \in i .. Len(Wire')
        PROVE  Wire'[i].msg <= Wire'[j].msg
    <3>1. PICK q \in h .. Len(Wire) : Wire'[j] = Wire[q]
      <4>1. j + m \in h .. Len(Wire) /\ Wire'[j] = Wire[j + m]
        BY <2>1 DEF MovedBy
      <4>2. QED
        BY <4>1
    <3>2. Wire[h].msg <= Wire[q].msg
      BY <1>1
    <3>3. QED
      BY <2>1, <3>1, <3>2
  <2>5. QED
    BY <2>2, <2>3, <2>4
<1>3. QED
  BY <1>2 DEF WireInv, MovedBy

(* What the sender puts on the wire is the packet it is at: the l bytes of *)
(* the packet at byte o of message k, p of them its payload.               *)
SentOn(k, o, l, p) ==
  /\ IsPlace(k, o) /\ SenderAt(k, o) /\ k = Len(sent) /\ s > 0
  /\ l = PacketLength(k, o) /\ p = PayloadSize(k, o)
  /\ stream' \in Seq(Bytes) /\ Len(Wire') = Len(Wire) + l
  /\ \A i \in 1 .. Len(Wire) : Wire'[i] = Wire[i]
  /\ \A d \in 1 .. l : Wire'[Len(Wire) + d] = PacketByte(k, o, d)
  /\ IF o + p < sent[k] THEN SenderAt(k, o + p)' ELSE SenderAt(k + 1, 0)'
  /\ ~broken /\ UNCHANGED <<sent, broken>>

LEMMA PacketSent ==
  ASSUME TypeOK, BytesInv, SenderInv, SendPacket
  PROVE  \E k, o, l, p \in Nat : SentOn(k, o, l, p)
<1>0. /\ sent \in Seq(Sizes) /\ s \in Nat /\ s > 0 /\ got \in Seq(Bytes)
      /\ stream \in Seq(Bytes) /\ sent # <<>> /\ s <= sent[Len(sent)]
      /\ packetCount = Packets(s)
  BY DEF TypeOK, BytesInv, SenderInv, SendPacket
<1>1. PICK k \in Nat \ {0} : k = Len(sent)
  BY <1>0
<1>2. PICK n \in Nat \ {0} : n = sent[k] /\ n \in Sizes
  <2>1. k \in 1 .. Len(sent)
    BY <1>0, <1>1
  <2>2. sent[k] \in Sizes
    BY <1>0, <2>1, ElementOfSeq
  <2>3. QED
    BY <2>2, SocketAssumption
<1>3. PICK o \in Nat : o = ptr /\ o = n - s /\ o \in 0 .. n - 1
  BY <1>0, <1>1, <1>2 DEF ptr
<1>4. IsPlace(k, o) /\ SenderAt(k, o)
  BY <1>0, <1>1, <1>2, <1>3 DEF IsPlace, SenderAt
<1>5. PICK p \in Nat, l \in Nat :
        p = PayloadSize(k, o) /\ l = PacketLength(k, o) /\ l = HeaderLength + p
        /\ p = Shortest(s, Capacity) /\ p <= s /\ p >= 1
        /\ (o + p < n <=> s - p > 0)
  <2>1. n - o = s
    BY <1>0, <1>3
  <2>2. PayloadSize(k, o) = Shortest(s, Capacity)
    BY <1>2, <2>1 DEF PayloadSize
  <2>3. /\ PayloadSize(k, o) \in Nat /\ PacketLength(k, o) \in Nat
        /\ PacketLength(k, o) = HeaderLength + PayloadSize(k, o)
        /\ PayloadSize(k, o) >= 1 /\ o + PayloadSize(k, o) <= n
    BY <1>0, <1>2, <1>4, PlaceFacts, CapacityFact
  <2>4. PayloadSize(k, o) <= s /\ (o + PayloadSize(k, o) < n <=> s - PayloadSize(k, o) > 0)
    BY <1>0, <1>3, <2>3
  <2>5. QED
    BY <2>2, <2>3, <2>4
<1>6. PICK left \in Nat : left = PacketsLeft /\ left = Packets(n - o) - 1
  <2>1. Packets(sent[k] - o) \in 1 .. CountRange /\ CountRange \in Nat \ {0}
    BY <1>0, <1>4, PlaceFacts, SocketAssumption
  <2>2. packetCount = Packets(n - o) /\ packetCount \in 1 .. CountRange
    <3>1. n - o = s
      BY <1>0, <1>3
    <3>2. QED
      BY <1>0, <1>2, <2>1, <3>1
  <2>3. packetCount - 1 \in Nat /\ packetCount - 1 = CountRange * 0 + (packetCount - 1)
        /\ packetCount - 1 \in 0 .. CountRange - 1
    BY <2>1, <2>2
  <2>4. (packetCount - 1) % CountRange = packetCount - 1
    BY <2>1, <2>3, QuotientUnique
  <2>5. QED
    BY <2>2, <2>3, <2>4 DEF PacketsLeft
<1> DEFINE hb == HeaderBytes(k, o, p, left)
           nb == Payload(k, o, o + p)
<1>7. /\ stream' = (stream \o hb) \o nb /\ s' = s - p
      /\ UNCHANGED <<got, sent>>
  BY <1>1, <1>3, <1>5, <1>6, <1>0 DEF SendPacket, NextBytes, readVars
<1>8. /\ hb \in Seq(Bytes) /\ Len(hb) = HeaderLength
      /\ \A d \in 1 .. HeaderLength : hb[d] = PacketByte(k, o, d)
  <2>1. HeaderLength \in Nat
    BY SocketAssumption
  <2>2. \A d \in 1 .. HeaderLength : PacketByte(k, o, d) \in Bytes
    BY <1>2, <1>5, <1>6 DEF PacketByte, Bytes
  <2>3. hb = [d \in 1 .. HeaderLength |-> PacketByte(k, o, d)]
    BY <1>2, <1>5, <1>6 DEF HeaderBytes, PacketByte
  <2>4. QED
    BY <2>1, <2>2, <2>3, IsASeq
<1>9. /\ nb \in Seq(Bytes) /\ Len(nb) = p
      /\ \A d \in 1 .. p : nb[d] = PacketByte(k, o, HeaderLength + d)
  <2>1. /\ o + p - o = p /\ HeaderLength \in Nat
        /\ \A d \in 1 .. p : /\ ~(HeaderLength + d <= HeaderLength)
                             /\ o + (HeaderLength + d) - HeaderLength = o + d
    BY SocketAssumption
  <2>2. \A d \in 1 .. p :
          PacketByte(k, o, HeaderLength + d) = [part |-> "payload", msg |-> k, at |-> o + d]
    BY <2>1 DEF PacketByte
  <2>3. nb = [d \in 1 .. p |-> PacketByte(k, o, HeaderLength + d)]
    BY <2>1, <2>2 DEF Payload
  <2>4. \A d \in 1 .. p : [part |-> "payload", msg |-> k, at |-> o + d] \in Bytes
    BY DEF Bytes
  <2>5. \A d \in 1 .. p : PacketByte(k, o, HeaderLength + d) \in Bytes
    BY <2>2, <2>4
  <2>6. QED
    BY <2>3, <2>5
<1>a. stream \in Seq(Bytes) /\ hb \in Seq(Bytes) /\ nb \in Seq(Bytes)
  BY <1>0, <1>8, <1>9
<1> DEFINE sh == stream \o hb
<1> HIDE DEF hb, nb
<1>10. HeaderLength \in Nat /\ Len(got) \in Nat /\ Len(stream) \in Nat
  BY <1>0, SocketAssumption
<1>11. /\ sh \in Seq(Bytes) /\ Len(sh) = Len(stream) + Len(hb)
       /\ \A i \in 1 .. Len(stream) : sh[i] = stream[i]
       /\ \A d \in 1 .. Len(hb) : sh[Len(stream) + d] = hb[d]
  BY <1>a, HalfFacts
<1>12. /\ stream' \in Seq(Bytes) /\ Len(stream') = Len(stream) + l
       /\ \A i \in 1 .. Len(stream) : stream'[i] = stream[i]
       /\ \A d \in 1 .. l : stream'[Len(stream) + d] = PacketByte(k, o, d)
  <2>0. stream' = sh \o nb /\ sh \in Seq(Bytes)
    BY <1>7, <1>11
  <2> HIDE DEF sh
  <2>1. /\ stream' \in Seq(Bytes) /\ Len(stream') = Len(sh) + Len(nb)
        /\ \A i \in 1 .. Len(sh) : stream'[i] = sh[i]
        /\ \A d \in 1 .. Len(nb) : stream'[Len(sh) + d] = nb[d]
    BY <1>a, <2>0, HalfFacts
  <2>2. \A i \in 1 .. Len(stream) : stream'[i] = stream[i]
    <3>1. \A i \in 1 .. Len(stream) : i \in 1 .. Len(sh)
      BY <1>8, <1>10, <1>11
    <3>2. QED
      BY <1>11, <2>1, <3>1
  <2>3. \A d \in 1 .. l : stream'[Len(stream) + d] = PacketByte(k, o, d)
    <3>1. TAKE d \in 1 .. l
    <3>2. CASE d <= HeaderLength
      <4>1. /\ d \in 1 .. HeaderLength /\ d \in 1 .. Len(hb)
            /\ Len(stream) + d \in 1 .. Len(sh)
        BY <1>8, <1>10, <1>11, <3>2
      <4>2. QED
        BY <1>8, <1>11, <2>1, <4>1
    <3>3. CASE d > HeaderLength
      <4>1. PICK e \in 1 .. p : d = HeaderLength + e
        <5>1. d - HeaderLength \in 1 .. p /\ d = HeaderLength + (d - HeaderLength)
          BY <1>5, <1>10, <3>3
        <5>2. QED
          BY <5>1
      <4>2. Len(stream) + d = Len(sh) + e /\ e \in 1 .. Len(nb)
        BY <1>8, <1>9, <1>10, <1>11, <4>1
      <4>3. QED
        BY <1>9, <2>1, <4>1, <4>2
    <3>4. QED
      BY <1>10, <3>2, <3>3
  <2>4. Len(stream') = Len(stream) + l
    BY <1>5, <1>8, <1>9, <1>10, <1>11, <2>1
  <2>5. QED
    BY <2>1, <2>2, <2>3, <2>4
<1>13. /\ Len(Wire) = Len(got) + Len(stream) /\ Len(Wire') = Len(got) + Len(stream')
       /\ \A i \in 1 .. Len(got) : Wire[i] = got[i] /\ Wire'[i] = got[i]
       /\ \A i \in 1 .. Len(stream) : Wire[Len(got) + i] = stream[i]
       /\ \A i \in 1 .. Len(stream') : Wire'[Len(got) + i] = stream'[i]
  <2>1. got' = got /\ Wire = got \o stream /\ Wire' = got \o stream'
    BY <1>7 DEF Wire
  <2>2. /\ Len(Wire) = Len(got) + Len(stream)
        /\ \A i \in 1 .. Len(got) : Wire[i] = got[i]
        /\ \A i \in 1 .. Len(stream) : Wire[Len(got) + i] = stream[i]
    BY <1>0, <2>1, HalfFacts
  <2>3. /\ Len(Wire') = Len(got) + Len(stream')
        /\ \A i \in 1 .. Len(got) : Wire'[i] = got[i]
        /\ \A i \in 1 .. Len(stream') : Wire'[Len(got) + i] = stream'[i]
    <3>1. got \in Seq(Bytes) /\ stream' \in Seq(Bytes)
      BY <1>0, <1>12
    <3>2. QED
      BY <2>1, <3>1, HalfFacts
  <2>4. QED
    BY <2>2, <2>3
<1>14. Len(Wire') = Len(Wire) + l
  BY <1>10, <1>12, <1>13
<1>15. \A i \in 1 .. Len(Wire) : Wire'[i] = Wire[i]
  <2>1. TAKE i \in 1 .. Len(Wire)
  <2>2. CASE i <= Len(got)
    BY <1>10, <1>13, <2>2
  <2>3. CASE i > Len(got)
    <3>1. PICK j \in 1 .. Len(stream) : i = Len(got) + j
      <4>1. i - Len(got) \in 1 .. Len(stream) /\ i = Len(got) + (i - Len(got))
        BY <1>10, <1>13, <2>3
      <4>2. QED
        BY <4>1
    <3>2. j \in 1 .. Len(stream')
      BY <1>10, <1>12
    <3>3. QED
      BY <1>12, <1>13, <3>1, <3>2
  <2>4. QED
    BY <1>10, <1>13, <2>2, <2>3
<1>16. \A d \in 1 .. l : Wire'[Len(Wire) + d] = PacketByte(k, o, d)
  <2>1. TAKE d \in 1 .. l
  <2>2. Len(stream) + d \in 1 .. Len(stream') /\ Len(Wire) + d = Len(got) + (Len(stream) + d)
    BY <1>10, <1>12, <1>13
  <2>3. QED
    BY <1>12, <1>13, <2>2
<1>17. IF o + p < n THEN SenderAt(k, o + p)' ELSE SenderAt(k + 1, 0)'
  <2>1. s' = s - p /\ sent' = sent
    BY <1>7
  <2>2. CASE o + p < n
    <3>1. s' > 0 /\ ptr' = o + p
      BY <1>0, <1>1, <1>2, <1>3, <1>5, <2>1, <2>2 DEF ptr
    <3>2. QED
      BY <1>1, <2>1, <2>2, <3>1 DEF SenderAt
  <2>3. CASE ~(o + p < n)
    <3>1. ~(s' > 0)
      BY <1>0, <1>5, <2>1, <2>3
    <3>2. QED
      BY <1>1, <2>1, <2>3, <3>1 DEF SenderAt
  <2>4. QED
    BY <2>2, <2>3
<1>18. IF o + p < sent[k] THEN SenderAt(k, o + p)' ELSE SenderAt(k + 1, 0)'
  BY <1>2, <1>17
<1>19. /\ stream' \in Seq(Bytes) /\ k \in Nat
       /\ l = PacketLength(k, o) /\ p = PayloadSize(k, o)
  BY <1>5, <1>12
<1>20. ~broken /\ UNCHANGED <<sent, broken>>
  BY DEF SendPacket
<1>21. SentOn(k, o, l, p)
  BY <1>0, <1>1, <1>4, <1>14, <1>15, <1>16, <1>18, <1>19, <1>20 DEF SentOn
<1>22. QED
  BY <1>19, <1>21

LEMMA PlaceSame ==
  ASSUME UNCHANGED sent, NEW k, NEW o
  PROVE  /\ IsPlace(k, o)' <=> IsPlace(k, o)
         /\ PayloadSize(k, o)' = PayloadSize(k, o)
         /\ PacketLength(k, o)' = PacketLength(k, o)
         /\ \A d : PacketByte(k, o, d)' = PacketByte(k, o, d)
BY DEF IsPlace, PayloadSize, PacketLength, PacketByte

LEMMA SenderAtUnique ==
  ASSUME NEW k, NEW o, SenderAt(k, o), NEW j, NEW q, SenderAt(j, q)
  PROVE  j = k /\ q = o
BY DEF SenderAt

LEMMA AtSent ==
  ASSUME sent \in Seq(Sizes), Len(Wire) \in Nat,
         NEW k \in Nat, NEW o \in Nat, NEW l \in Nat, NEW p \in Nat, SentOn(k, o, l, p),
         NEW i \in Int, i <= Len(Wire) + 1, NEW j, NEW q, At(i, j, q)
  PROVE  At(i, j, q)'
<1>1. l >= 1 /\ Len(Wire') = Len(Wire) + l
  BY PlaceFacts DEF SentOn
<1>2. CASE i <= Len(Wire)
  <2>1. i \in 1 .. Len(Wire) => /\ IsPlace(j, q)' /\ Wire'[i] = PacketByte(j, q, 1)'
    BY PlaceSame DEF At, SentOn
  <2>2. QED
    BY <1>1, <1>2, <2>1 DEF At
<1>3. CASE i = Len(Wire) + 1
  <2>1. j = k /\ q = o
    BY <1>3, SenderAtUnique DEF At, SentOn
  <2>2. 1 \in 1 .. l
    BY <1>1
  <2>3. Wire'[i] = PacketByte(k, o, 1)
    BY <1>3, <2>2 DEF SentOn
  <2>4. IsPlace(k, o)' /\ PacketByte(k, o, 1)' = PacketByte(k, o, 1)
    BY PlaceSame DEF SentOn
  <2>5. i # Len(Wire') + 1
    BY <1>1, <1>3
  <2>6. QED
    BY <2>1, <2>3, <2>4, <2>5 DEF At
<1>4. QED
  BY <1>2, <1>3

LEMMA WholeSent ==
  ASSUME sent \in Seq(Sizes), Len(Wire) \in Nat,
         NEW k \in Nat, NEW o \in Nat, NEW l \in Nat, NEW p \in Nat, SentOn(k, o, l, p),
         NEW i \in Int, NEW j, NEW q, Whole(i, j, q)
  PROVE  Whole(i, j, q)'
<1>0. PICK h \in Nat, r \in Nat, n \in Nat :
        h = PacketLength(j, q) /\ r = PayloadSize(j, q) /\ n = sent[j]
  <2>1. IsPlace(j, q)
    BY DEF Whole
  <2>2. /\ PacketLength(j, q) \in Nat /\ PayloadSize(j, q) \in 1 .. Capacity
        /\ sent[j] \in Nat
    BY <2>1, PlaceFacts
  <2>3. PayloadSize(j, q) \in Nat
    BY <2>2, CapacityFact
  <2>4. QED
    BY <2>2, <2>3
<1>1. /\ IsPlace(j, q)' /\ PacketLength(j, q)' = h /\ PayloadSize(j, q)' = r
      /\ sent'[j] = n /\ q \in Nat
      /\ \A d : PacketByte(j, q, d)' = PacketByte(j, q, d)
  BY <1>0, PlaceSame, PlaceFacts DEF SentOn, Whole
<1>2. i + h - 1 <= Len(Wire)
  BY <1>0 DEF Whole, SentOn
<1>3. ASSUME NEW d \in 1 .. h, i + d - 1 \in 1 .. Len(Wire')
      PROVE  Wire'[i + d - 1] = PacketByte(j, q, d)
  <2>1. i + d - 1 \in 1 .. Len(Wire)
    BY <1>2, <1>3
  <2>2. QED
    BY <1>0, <2>1 DEF Whole, SentOn
<1>4. NextAt(i + h, j, q)'
  <2>1. i + h \in Int /\ i + h <= Len(Wire) + 1
    BY <1>2
  <2>2. CASE q + r < n
    <3>1. At(i + h, j, q + r)
      BY <1>0, <2>2 DEF Whole, NextAt
    <3>2. At(i + h, j, q + r)'
      BY <2>1, <3>1, AtSent
    <3>3. QED
      BY <1>1, <2>2, <3>2 DEF NextAt
  <2>3. CASE ~(q + r < n)
    <3>1. At(i + h, j + 1, 0)
      BY <1>0, <2>3 DEF Whole, NextAt
    <3>2. At(i + h, j + 1, 0)'
      BY <2>1, <3>1, AtSent
    <3>3. QED
      BY <1>1, <2>3, <3>2 DEF NextAt
  <2>4. QED
    BY <2>2, <2>3
<1>5. i + h - 1 <= Len(Wire')
  BY <1>2 DEF SentOn
<1>6. QED
  BY <1>1, <1>3, <1>4, <1>5 DEF Whole

(* The packet just sent is whole. *)
LEMMA WholeNew ==
  ASSUME sent \in Seq(Sizes),
         NEW k \in Nat, NEW o \in Nat, NEW l \in Nat, NEW p \in Nat, SentOn(k, o, l, p),
         NEW h \in Nat, h = Len(Wire)
  PROVE  Whole(h + 1, k, o)'
<1>1. /\ IsPlace(k, o)' /\ PacketLength(k, o)' = l /\ PayloadSize(k, o)' = p
      /\ sent' = sent /\ Len(Wire') = h + l
      /\ \A d : PacketByte(k, o, d)' = PacketByte(k, o, d)
  BY PlaceSame DEF SentOn
<1>2. ASSUME NEW d \in 1 .. l
      PROVE  Wire'[(h + 1) + d - 1] = PacketByte(k, o, d)
  <2>1. (h + 1) + d - 1 = h + d
    OBVIOUS
  <2>2. QED
    BY <2>1 DEF SentOn
<1>3. NextAt((h + 1) + l, k, o)'
  <2>1. (h + 1) + l = Len(Wire') + 1 /\ (h + 1) + l \notin 1 .. Len(Wire')
    BY <1>1
  <2>2. CASE o + p < sent[k]
    <3>1. SenderAt(k, o + p)'
      BY <2>2 DEF SentOn
    <3>2. At((h + 1) + l, k, o + p)'
      BY <2>1, <3>1 DEF At
    <3>3. QED
      BY <1>1, <2>2, <3>2 DEF NextAt
  <2>3. CASE ~(o + p < sent[k])
    <3>1. SenderAt(k + 1, 0)'
      BY <2>3 DEF SentOn
    <3>2. At((h + 1) + l, k + 1, 0)'
      BY <2>1, <3>1 DEF At
    <3>3. QED
      BY <1>1, <2>3, <3>2 DEF NextAt
  <2>4. QED
    BY <2>2, <2>3
<1>4. (h + 1) + l - 1 <= Len(Wire')
  BY <1>1
<1>5. QED
  BY <1>1, <1>2, <1>3, <1>4 DEF Whole

LEMMA WireSent ==
  ASSUME sent \in Seq(Sizes), Len(Wire) \in Nat, WireInv, NextMessage \in Nat,
         UNCHANGED delivered,
         NEW k \in Nat, NEW o \in Nat, NEW l \in Nat, NEW p \in Nat, SentOn(k, o, l, p)
  PROVE  WireInv'
<1>0. PICK h \in Nat : h = Len(Wire)
  OBVIOUS
<1>a. \A i \in 1 .. Len(Wire) : \A j \in i .. Len(Wire) : Wire[i].msg <= Wire[j].msg
  BY DEF WireInv
<1>1. /\ NextMessage' = NextMessage /\ sent' = sent /\ Len(Wire') = h + l
      /\ NextMessage <= k /\ k = Len(sent) /\ ~broken
  BY <1>0 DEF NextMessage, SentOn, WireInv
<1>2. ASSUME NEW i \in 1 .. h
      PROVE  /\ Wire'[i] = Wire[i] /\ Wire[i].msg \in NextMessage .. Len(sent)
             /\ \A j, q : IsStart(Wire[i]) /\ j = Wire[i].msg /\ q = Wire[i].from
                            => Whole(i, j, q)'
  <2>1. Wire'[i] = Wire[i] /\ i \in Int /\ Wire[i].msg \in NextMessage .. Len(sent)
    BY <1>0 DEF SentOn, WireInv
  <2>2. ASSUME NEW j, NEW q, IsStart(Wire[i]), j = Wire[i].msg, q = Wire[i].from
        PROVE  Whole(i, j, q)'
    <3>1. Whole(i, j, q)
      BY <1>0, <2>2 DEF WireInv
    <3>2. QED
      BY <2>1, <3>1, WholeSent
  <2>3. QED
    BY <2>1, <2>2
<1>3. ASSUME NEW i \in h + 1 .. h + l
      PROVE  /\ Wire'[i].msg = k
             /\ IsStart(Wire'[i]) => i = h + 1 /\ Wire'[i].from = o
  <2>1. PICK d \in 1 .. l : i = h + d
    <3>1. i - h \in 1 .. l /\ i = h + (i - h)
      BY <1>3
    <3>2. QED
      BY <3>1
  <2>2. Wire'[i] = PacketByte(k, o, d)
    BY <1>0, <2>1 DEF SentOn
  <2>3. QED
    BY <2>1, <2>2 DEF PacketByte, IsStart
<1>4. Whole(h + 1, k, o)'
  BY <1>0, WholeNew
<1>5. ASSUME NEW i \in 1 .. h + l
      PROVE  /\ Wire'[i].msg \in NextMessage' .. Len(sent')
             /\ IsStart(Wire'[i]) =>
                  \A j, q : j = Wire'[i].msg /\ q = Wire'[i].from => Whole(i, j, q)'
             /\ \A j \in i .. h + l : Wire'[i].msg <= Wire'[j].msg
  <2>1. CASE i \in 1 .. h
    <3>1. /\ Wire'[i].msg \in NextMessage' .. Len(sent')
          /\ IsStart(Wire'[i]) =>
               \A j, q : j = Wire'[i].msg /\ q = Wire'[i].from => Whole(i, j, q)'
      BY <1>1, <1>2, <2>1
    <3>2. ASSUME NEW j \in i .. h + l
          PROVE  Wire'[i].msg <= Wire'[j].msg
      <4>1. CASE j \in 1 .. h
        <5>1. i \in 1 .. Len(Wire) /\ j \in i .. Len(Wire)
          BY <1>0, <2>1, <3>2, <4>1
        <5>2. Wire[i].msg <= Wire[j].msg
          BY <1>a, <5>1
        <5>3. QED
          BY <1>2, <2>1, <4>1, <5>2
      <4>2. CASE j \in h + 1 .. h + l
        BY <1>1, <1>2, <1>3, <2>1, <4>2
      <4>3. QED
        BY <3>2, <4>1, <4>2, <2>1
    <3>3. QED
      BY <3>1, <3>2
  <2>2. CASE i \in h + 1 .. h + l
    <3>1. Wire'[i].msg = k /\ k \in NextMessage' .. Len(sent')
      BY <1>1, <1>3, <2>2
    <3>2. \A j \in i .. h + l : Wire'[j].msg = k
      BY <1>3, <2>2
    <3>3. IsStart(Wire'[i]) =>
            \A j, q : j = Wire'[i].msg /\ q = Wire'[i].from => Whole(i, j, q)'
      BY <1>3, <1>4, <2>2
    <3>4. QED
      BY <3>1, <3>2, <3>3
  <2>3. QED
    BY <2>1, <2>2
<1>6. NextMessage' <= IF s' > 0 THEN Len(sent') ELSE Len(sent') + 1
  BY <1>1
<1>7. QED
  BY <1>1, <1>5, <1>6 DEF WireInv

LEMMA TypeFacts ==
  ASSUME TypeOK, BytesInv
  PROVE  /\ Wire \in Seq(Bytes) /\ Len(Wire) \in Nat /\ Len(Wire) = Len(got) + Len(stream)
         /\ \A i \in 1 .. Len(got) : Wire[i] = got[i]
         /\ \A i \in 1 .. Len(stream) : Wire[Len(got) + i] = stream[i]
         /\ NextMessage \in Nat \ {0} /\ sent \in Seq(Sizes)
         /\ Len(got) \in Nat /\ Len(stream) \in Nat /\ Len(sent) \in Nat
<1>1. got \in Seq(Bytes) /\ stream \in Seq(Bytes) /\ sent \in Seq(Sizes)
  BY DEF TypeOK, BytesInv
<1>2. /\ Wire \in Seq(Bytes) /\ Len(Wire) = Len(got) + Len(stream)
      /\ \A i \in 1 .. Len(got) : Wire[i] = got[i]
      /\ \A i \in 1 .. Len(stream) : Wire[Len(got) + i] = stream[i]
  BY <1>1, HalfFacts DEF Wire
<1>3. NextMessage \in Nat \ {0}
  <2>1. CASE delivered = <<>>
    BY <2>1 DEF NextMessage
  <2>2. CASE delivered # <<>>
    <3>1. delivered \in Seq(Seq(Bytes) \ {<<>>})
      BY DEF BytesInv
    <3>2. Len(delivered) \in 1 .. Len(delivered)
      BY <2>2, <3>1
    <3>3. PICK d \in Seq(Bytes) : d = delivered[Len(delivered)] /\ d # <<>>
      BY <3>1, <3>2, ElementOfSeq
    <3>4. 1 \in 1 .. Len(d)
      BY <3>3
    <3>5. d[1] \in Bytes
      BY <3>3, <3>4, ElementOfSeq
    <3>6. d[1].msg \in Nat
      BY <3>5 DEF Bytes
    <3>7. QED
      BY <2>2, <3>3, <3>6 DEF NextMessage
  <2>3. QED
    BY <2>1, <2>2
<1>4. Len(got) \in Nat /\ Len(stream) \in Nat /\ Len(sent) \in Nat
  BY <1>1
<1>5. Len(Wire) \in Nat
  BY <1>2, <1>4
<1>6. QED
  BY <1>1, <1>2, <1>3, <1>4, <1>5
(* What the wire, as it is or with a packet more, keeps in its place. *)
WireStays == MovedBy(0) \/ \E k, o, l, p \in Nat : SentOn(k, o, l, p)

LEMMA PlacesStay ==
  ASSUME sent \in Seq(Sizes), sent' \in Seq(Sizes), Len(Wire) \in Nat, Len(Wire') \in Nat,
         WireStays, NEW i \in Int, NEW k, NEW o
  PROVE  /\ At(i, k, o) /\ i <= Len(Wire) + 1 => At(i, k, o)'
         /\ Whole(i, k, o) => Whole(i, k, o)'
         /\ IsPlace(k, o) => /\ IsPlace(k, o)' /\ sent'[k] = sent[k]
                             /\ PayloadSize(k, o)' = PayloadSize(k, o)
<1>1. CASE MovedBy(0)
  <2>1. i - 0 = i
    OBVIOUS
  <2>2. At(i, k, o) => At(i, k, o)'
    <3>1. At(i, k, o) => At(i - 0, k, o)'
      BY <1>1, AtMoved
    <3>2. QED
      BY <2>1, <3>1
  <2>3. Whole(i, k, o) => Whole(i, k, o)'
    <3>1. Whole(i, k, o) => Whole(i - 0, k, o)'
      BY <1>1, WholeMoved
    <3>2. QED
      BY <2>1, <3>1
  <2>4. QED
    BY <1>1, <2>2, <2>3, PlaceKept
<1>2. ASSUME NEW j \in Nat, NEW q \in Nat, NEW l \in Nat, NEW p \in Nat, SentOn(j, q, l, p)
      PROVE  /\ At(i, k, o) /\ i <= Len(Wire) + 1 => At(i, k, o)'
             /\ Whole(i, k, o) => Whole(i, k, o)'
             /\ IsPlace(k, o) => /\ IsPlace(k, o)' /\ sent'[k] = sent[k]
                                 /\ PayloadSize(k, o)' = PayloadSize(k, o)
  <2>1. sent' = sent
    BY <1>2 DEF SentOn
  <2>2. QED
    BY <1>2, <2>1, AtSent, WholeSent, PlaceSame
<1>3. QED
  BY <1>1, <1>2 DEF WireStays

LEMMA PlaceStays ==
  ASSUME sent \in Seq(Sizes), sent' \in Seq(Sizes), Len(Wire) \in Nat, Len(Wire') \in Nat,
         WireStays, NEW k, NEW o, IsPlace(k, o)
  PROVE  IsPlace(k, o)' /\ sent'[k] = sent[k]
<1>1. 0 \in Int
  OBVIOUS
<1>2. QED
  BY <1>1, PlacesStay

---------------------------------------------------------------------------
(* The invariant *)

SocketInv ==
  /\ TypeOK /\ BytesInv /\ SenderInv /\ WireInv
  /\ TogetherInv /\ StepInv /\ ReadInv /\ TimeInv

LEMMA InitSocket == Init => SocketInv
<1> SUFFICES ASSUME Init
             PROVE  SocketInv
  OBVIOUS
<1> USE DEF Init, NoHeader
<1>1. TypeOK
  <2>1. Packets(0) = 0
    BY PacketsFacts
  <2>2. now \in 0 .. MaxTime /\ began \in 0 .. now
    BY SocketAssumption DEF Shortest
  <2>3. /\ header.left \in 0 .. CountRange - 1 /\ header.size \in 0 .. Capacity
        /\ startT \in 0 .. ClockRange - 1 /\ failures \in 0 .. MaxFailures
    BY SocketAssumption, CapacityFact
  <2>4. sent \in Seq(Sizes) /\ Len(sent) <= MaxMessages
    BY SocketAssumption
  <2>5. QED
    BY <2>1, <2>2, <2>3, <2>4 DEF TypeOK
<1>2. BytesInv /\ SenderInv
  BY <1>1 DEF BytesInv, SenderInv, TypeOK
<1>3. Wire = <<>> /\ NextMessage = 1 /\ Len(Wire) = 0
  BY DEF Wire, NextMessage
<1>4. WireInv
  BY <1>3 DEF WireInv
<1>5. TogetherInv
  BY DEF TogetherInv
<1>6. StepInv
  <2>1. SenderAt(1, 0)
    BY DEF SenderAt
  <2>2. Message = 1 /\ Passed = 0
    BY <1>3 DEF Message, Passed
  <2>3. At(1, 1, 0)
    BY <1>3, <2>1 DEF At
  <2>4. QED
    BY <2>2, <2>3 DEF StepInv
<1>7. ReadInv /\ TimeInv
  BY DEF ReadInv, TimeInv
<1>8. QED
  BY <1>1, <1>2, <1>4, <1>5, <1>6, <1>7 DEF SocketInv

(* An action of the sender's side leaves the receiver where it is. *)
LEMMA ReceiverStays ==
  ASSUME SocketInv, WireStays, sent' \in Seq(Sizes), Len(Wire') \in Nat,
         UNCHANGED <<receiver, rpc, readVars, resultVars>>
  PROVE  TogetherInv' /\ StepInv' /\ ReadInv'
<1> USE DEF readVars, resultVars
<1>0. /\ sent \in Seq(Sizes) /\ Len(Wire) \in Nat /\ HeaderLength \in Nat
      /\ Len(Wire) + 1 >= 1
  BY TypeFacts, SocketAssumption DEF SocketInv
<1>1. PICK k, o : k = Message /\ o = Passed
  OBVIOUS
<1>2. Message' = k /\ Passed' = o /\ NextMessage' = NextMessage
  BY <1>1 DEF Message, Passed, NextMessage
<1>3. TogetherInv'
  <2>1. IsPlace(k, o) => IsPlace(k, o)'
    BY <1>0, PlaceStays
  <2>2. QED
    BY <1>1, <1>2, <2>1 DEF SocketInv, TogetherInv
<1>4. ASSUME rpc \in {"idle", "packet", "header", "check"}, InStep
      PROVE  At(1, k, o)'
  <2>1. At(1, k, o)
    BY <1>1, <1>4 DEF SocketInv, StepInv
  <2>2. QED
    BY <1>0, <2>1, PlacesStay
<1>5. ASSUME rpc \in {"payload", "join"}
      PROVE  (\E j \in NextMessage .. Len(sent) : \E q \in 0 .. sent[j] - 1 :
                /\ InStep => j = Message /\ q = Passed
                /\ header = [size |-> PayloadSize(j, q), left |-> Packets(sent[j] - q) - 1]
                /\ Whole(1 - HeaderLength, j, q))'
  <2>1. PICK j \in NextMessage .. Len(sent) : \E q \in 0 .. sent[j] - 1 :
                /\ InStep => j = Message /\ q = Passed
                /\ header = [size |-> PayloadSize(j, q), left |-> Packets(sent[j] - q) - 1]
                /\ Whole(1 - HeaderLength, j, q)
    BY <1>5 DEF SocketInv, StepInv
  <2>2. PICK q \in 0 .. sent[j] - 1 :
                /\ InStep => j = k /\ q = o
                /\ header = [size |-> PayloadSize(j, q), left |-> Packets(sent[j] - q) - 1]
                /\ Whole(1 - HeaderLength, j, q)
    BY <1>1, <2>1
  <2>3. 1 - HeaderLength \in Int
    BY <1>0
  <2>4. /\ Whole(1 - HeaderLength, j, q)' /\ IsPlace(j, q)' /\ sent'[j] = sent[j]
        /\ PayloadSize(j, q)' = PayloadSize(j, q)
    <3>1. IsPlace(j, q)
      BY <2>2 DEF Whole
    <3>2. QED
      BY <1>0, <2>2, <2>3, <3>1, PlacesStay
  <2>5. j \in NextMessage' .. Len(sent') /\ q \in 0 .. sent'[j] - 1
    BY <1>2, <2>4 DEF IsPlace
  <2>6. InStep' => j = Message' /\ q = Passed'
    BY <1>2, <2>2 DEF InStep
  <2>7. QED
    BY <2>2, <2>4, <2>5, <2>6
<1>6. StepInv'
  BY <1>2, <1>4, <1>5 DEF StepInv, InStep
<1>7. ReadInv'
  BY DEF SocketInv, ReadInv
<1>8. QED
  BY <1>3, <1>6, <1>7

LEMMA MovedNone ==
  ASSUME Len(Wire) \in Nat, Wire' = Wire, UNCHANGED <<sent, s, broken>>
  PROVE  MovedBy(0)
<1>1. \A k, o : SenderAt(k, o) => SenderAt(k, o)'
  BY DEF SenderAt, ptr
<1>2. \A i \in 1 .. Len(Wire) : i + 0 = i
  OBVIOUS
<1>3. Len(Wire) + 0 = Len(Wire) /\ Len(Wire) <= Len(Wire)
  OBVIOUS
<1>4. \A k \in 1 .. Len(sent) : sent'[k] = sent[k]
  OBVIOUS
<1>5. Len(sent) <= Len(sent')
  OBVIOUS
<1>6. QED
  BY <1>1, <1>2, <1>3, <1>4, <1>5 DEF MovedBy

(* A wire that stays keeps its invariant. *)
LEMMA WireStill ==
  ASSUME SocketInv, MovedBy(0), sent' \in Seq(Sizes), Len(Wire') \in Nat,
         UNCHANGED delivered,
         ~broken' => NextMessage <= IF s' > 0 THEN Len(sent') ELSE Len(sent') + 1
  PROVE  WireInv'
<1>1. /\ sent \in Seq(Sizes) /\ Len(Wire) \in Nat /\ NextMessage \in Nat
      /\ NextMessage' = NextMessage /\ WireInv
  BY TypeFacts DEF SocketInv, NextMessage
<1>2. ASSUME NEW i \in 1 .. Len(Wire')
      PROVE  NextMessage' <= Wire'[i].msg
  <2>1. i \in 1 .. Len(Wire) /\ Wire'[i] = Wire[i]
    <3>1. i + 0 = i
      OBVIOUS
    <3>2. QED
      BY <3>1 DEF MovedBy
  <2>2. QED
    BY <1>1, <2>1 DEF WireInv
<1>3. QED
  BY <1>1, <1>2, WireMoved

LEMMA BeginSendStep ==
  ASSUME SocketInv, NEW size \in Sizes, BeginSend(size)
  PROVE  SocketInv'
<1>0. /\ TypeOK /\ BytesInv /\ sent \in Seq(Sizes) /\ Len(sent) \in Nat /\ Len(Wire) \in Nat
      /\ size \in Nat \ {0} /\ MaxMessages \in Nat
  BY TypeFacts, SocketAssumption DEF SocketInv
<1>1. /\ s = 0 /\ sent' = Append(sent, size) /\ s' = size /\ packetCount' = Packets(size)
      /\ Wire' = Wire /\ Len(sent) < MaxMessages
      /\ UNCHANGED <<now, broken, stream, receiver, rpc, readVars, resultVars>>
  BY DEF BeginSend, Wire, readVars
<1>2. /\ sent' \in Seq(Sizes) /\ Len(sent') = Len(sent) + 1
      /\ \A k \in 1 .. Len(sent) : sent'[k] = sent[k]
      /\ sent'[Len(sent) + 1] = size
  BY <1>0, <1>1, AppendProperties
<1>3. TypeOK' /\ BytesInv' /\ SenderInv' /\ TimeInv'
  <2>1. TypeOK'
    BY <1>0, <1>1, <1>2 DEF TypeOK, readVars, resultVars
  <2>2. BytesInv'
    BY <1>0, <1>1 DEF BytesInv, readVars, resultVars
  <2>3. SenderInv'
    <3>1. Len(sent') # 0 /\ sent'[Len(sent')] = size
      BY <1>0, <1>2
    <3>2. sent' # <<>> /\ s' <= sent'[Len(sent')]
      BY <1>0, <1>1, <3>1
    <3>3. QED
      BY <1>1, <3>2 DEF SenderInv
  <2>4. TimeInv'
    BY <1>1 DEF SocketInv, TimeInv, ClientsClock, readVars, resultVars
  <2>5. QED
    BY <2>1, <2>2, <2>3, <2>4
<1>4. MovedBy(0)
  <2>1. ASSUME NEW k, NEW o, SenderAt(k, o)
        PROVE  SenderAt(k, o)'
    <3>1. k = Len(sent) + 1 /\ o = 0
      BY <1>1, <2>1 DEF SenderAt
    <3>2. s' > 0 /\ k = Len(sent') /\ sent'[Len(sent')] - s' = 0
      BY <1>0, <1>1, <1>2, <3>1
    <3>3. QED
      BY <3>1, <3>2 DEF SenderAt, ptr
  <2>2. \A i \in 1 .. Len(Wire) : i + 0 = i
    OBVIOUS
  <2>3. Len(Wire) + 0 = Len(Wire) /\ Len(Wire) <= Len(Wire) /\ Len(sent) <= Len(sent')
    BY <1>0, <1>2
  <2>4. QED
    BY <1>1, <1>2, <2>1, <2>2, <2>3 DEF MovedBy
<1>5. WireInv'
  <2>1. ~broken' => NextMessage <= IF s' > 0 THEN Len(sent') ELSE Len(sent') + 1
    BY <1>0, <1>1, <1>2 DEF SocketInv, WireInv
  <2>2. Len(Wire') \in Nat /\ UNCHANGED delivered
    BY <1>0, <1>1 DEF resultVars
  <2>3. QED
    BY <1>2, <1>4, <2>1, <2>2, WireStill
<1>6. TogetherInv' /\ StepInv' /\ ReadInv'
  <2>1. Len(Wire') \in Nat /\ UNCHANGED <<receiver, rpc, readVars, resultVars>>
    BY <1>0, <1>1
  <2>2. QED
    BY <1>2, <1>4, <2>1, ReceiverStays DEF WireStays
<1>7. QED
  BY <1>3, <1>5, <1>6 DEF SocketInv

LEMMA SendPacketStep ==
  ASSUME SocketInv, SendPacket
  PROVE  SocketInv'
<1>0. /\ TypeOK /\ BytesInv /\ SenderInv /\ WireInv
      /\ sent \in Seq(Sizes) /\ Len(Wire) \in Nat /\ NextMessage \in Nat
  BY TypeFacts DEF SocketInv
<1>1. PICK k \in Nat, o \in Nat, l \in Nat, p \in Nat : SentOn(k, o, l, p)
  BY <1>0, PacketSent
<1>2. /\ UNCHANGED <<now, broken, sent, receiver, rpc, readVars, resultVars>>
      /\ stream' \in Seq(Bytes) /\ Len(Wire') \in Nat /\ sent' \in Seq(Sizes)
  BY <1>0, <1>1 DEF SendPacket, SentOn
<1>3. /\ s \in Nat \ {0} /\ packetCount = Packets(s)
      /\ s' = s - Shortest(s, Capacity) /\ packetCount' = packetCount - 1
      /\ Capacity \in Nat \ {0} /\ sent # <<>> /\ s <= sent[Len(sent)]
  BY <1>0, CapacityFact DEF SendPacket, TypeOK, SenderInv
<1>4. s' \in Nat /\ s' <= s /\ packetCount' = Packets(s')
  <2>1. CASE s < Capacity
    <3>1. s' = 0 /\ s \in 1 .. Capacity
      BY <1>3, <2>1 DEF Shortest
    <3>2. Packets(s) = 1 /\ Packets(0) = 0
      BY <1>3, <3>1, PacketsFacts
    <3>3. QED
      BY <1>3, <3>1, <3>2
  <2>2. CASE s = Capacity
    <3>1. s' = 0 /\ s \in 1 .. Capacity
      BY <1>3, <2>2 DEF Shortest
    <3>2. Packets(s) = 1 /\ Packets(0) = 0
      BY <1>3, <3>1, PacketsFacts
    <3>3. QED
      BY <1>3, <3>1, <3>2
  <2>3. CASE s > Capacity
    <3>1. s' = s - Capacity /\ s' \in Nat
      BY <1>3, <2>3 DEF Shortest
    <3>2. Packets(s) = Packets(s - Capacity) + 1 /\ Packets(s - Capacity) \in Nat
      BY <1>3, <2>3, <3>1, PacketsFacts
    <3>3. QED
      BY <1>3, <3>1, <3>2
  <2>4. QED
    BY <1>3, <2>1, <2>2, <2>3
<1>5. TypeOK' /\ BytesInv' /\ SenderInv' /\ TimeInv'
  <2>1. TypeOK'
    BY <1>0, <1>2, <1>4 DEF TypeOK, readVars, resultVars
  <2>2. BytesInv'
    BY <1>0, <1>2 DEF BytesInv, readVars, resultVars
  <2>3. SenderInv'
    <3>1. sent[Len(sent)] \in Nat
      <4>1. Len(sent) \in 1 .. Len(sent)
        BY <1>0, <1>3
      <4>2. sent[Len(sent)] \in Sizes
        BY <1>0, <4>1, ElementOfSeq
      <4>3. QED
        BY <4>2, SocketAssumption
    <3>2. s' <= sent[Len(sent)]
      BY <1>3, <1>4, <3>1
    <3>3. QED
      BY <1>2, <1>3, <1>4, <3>2 DEF SenderInv
  <2>4. TimeInv'
    BY <1>2 DEF SocketInv, TimeInv, ClientsClock, readVars, resultVars
  <2>5. QED
    BY <2>1, <2>2, <2>3, <2>4
<1>6. WireInv'
  BY <1>0, <1>1, <1>2, WireSent DEF resultVars
<1>7. TogetherInv' /\ StepInv' /\ ReadInv'
  BY <1>1, <1>2, ReceiverStays DEF WireStays
<1>8. QED
  BY <1>5, <1>6, <1>7 DEF SocketInv

LEMMA SendFailsStep ==
  ASSUME SocketInv, SendFails
  PROVE  SocketInv'
<1>0. /\ TypeOK /\ BytesInv /\ WireInv /\ sent \in Seq(Sizes) /\ Len(Wire) \in Nat
      /\ Packets(0) = 0
  BY TypeFacts, PacketsFacts DEF SocketInv
<1>1. /\ s' = 0 /\ packetCount' = 0 /\ broken /\ Wire' = Wire
      /\ UNCHANGED <<now, broken, stream, sent, receiver, rpc, readVars, resultVars>>
  BY DEF SendFails, Wire, readVars
<1>2. TypeOK' /\ BytesInv' /\ SenderInv' /\ TimeInv'
  <2>1. TypeOK'
    BY <1>0, <1>1 DEF TypeOK, readVars, resultVars
  <2>2. BytesInv'
    BY <1>0, <1>1 DEF BytesInv, readVars, resultVars
  <2>3. SenderInv'
    BY <1>0, <1>1 DEF SenderInv
  <2>4. TimeInv'
    BY <1>1 DEF SocketInv, TimeInv, ClientsClock, readVars, resultVars
  <2>5. QED
    BY <2>1, <2>2, <2>3, <2>4
<1>3. MovedBy(0)
  <2>1. \A i \in 1 .. Len(Wire) : i + 0 = i
    OBVIOUS
  <2>2. Len(Wire) + 0 <= Len(Wire) /\ Len(sent) <= Len(sent')
    BY <1>0, <1>1
  <2>3. QED
    BY <1>1, <2>1, <2>2 DEF MovedBy
<1>4. Len(Wire') \in Nat /\ sent' \in Seq(Sizes) /\ UNCHANGED delivered
  BY <1>0, <1>1 DEF resultVars
<1>5. WireInv'
  BY <1>1, <1>3, <1>4, WireStill
<1>6. TogetherInv' /\ StepInv' /\ ReadInv'
  BY <1>1, <1>3, <1>4, ReceiverStays DEF WireStays
<1>7. QED
  BY <1>2, <1>5, <1>6 DEF SocketInv

LEMMA BreakStep ==
  ASSUME SocketInv, Break
  PROVE  SocketInv'
<1>0. /\ TypeOK /\ BytesInv /\ WireInv /\ sent \in Seq(Sizes) /\ Len(Wire) \in Nat
      /\ got \in Seq(Bytes) /\ stream \in Seq(Bytes)
  BY TypeFacts DEF SocketInv, BytesInv
<1>1. PICK n \in 0 .. Len(stream) : stream' = SubSeq(stream, 1, n)
  BY DEF Break
<1>2. /\ broken' = TRUE /\ got' = got
      /\ UNCHANGED <<now, senderVars, receiver, rpc, readVars, resultVars>>
  BY DEF Break, readVars
<1>3. /\ stream' \in Seq(Bytes) /\ Len(stream') = n
      /\ \A i \in 1 .. n : stream'[i] = stream[i]
  <2>1. 1 \in Int /\ n \in Int /\ 1 <= 1 /\ 1 <= n + 1 /\ n <= Len(stream)
    BY <1>0
  <2>2. /\ SubSeq(stream, 1, n) \in Seq(Bytes) /\ Len(SubSeq(stream, 1, n)) = n - 1 + 1
        /\ \A i \in 1 .. n - 1 + 1 : SubSeq(stream, 1, n)[i] = stream[1 + i - 1]
    BY <1>0, <2>1, PartFacts
  <2>3. n - 1 + 1 = n /\ \A i \in 1 .. n : 1 + i - 1 = i
    OBVIOUS
  <2>4. QED
    BY <1>1, <2>2, <2>3
<1>4. TypeOK' /\ BytesInv' /\ SenderInv' /\ TimeInv'
  <2>1. TypeOK'
    BY <1>0, <1>2 DEF TypeOK, readVars, resultVars, senderVars
  <2>2. BytesInv'
    BY <1>0, <1>2, <1>3 DEF BytesInv, readVars, resultVars
  <2>3. SenderInv'
    BY <1>2 DEF SocketInv, SenderInv, senderVars
  <2>4. TimeInv'
    BY <1>2 DEF SocketInv, TimeInv, ClientsClock, readVars, resultVars
  <2>5. QED
    BY <2>1, <2>2, <2>3, <2>4
<1>5. /\ Len(Wire) = Len(got) + Len(stream) /\ Len(got) \in Nat
      /\ \A i \in 1 .. Len(got) : Wire[i] = got[i]
      /\ \A i \in 1 .. Len(stream) : Wire[Len(got) + i] = stream[i]
  BY <1>0, TypeFacts
<1>6. /\ Len(Wire') = Len(got) + n
      /\ \A i \in 1 .. Len(got) : Wire'[i] = got[i]
      /\ \A i \in 1 .. n : Wire'[Len(got) + i] = stream'[i]
  <2>1. Wire' = got \o stream' /\ stream' \in Seq(Bytes)
    BY <1>2, <1>3 DEF Wire
  <2>2. /\ Len(Wire') = Len(got) + Len(stream')
        /\ \A i \in 1 .. Len(got) : Wire'[i] = got[i]
        /\ \A i \in 1 .. Len(stream') : Wire'[Len(got) + i] = stream'[i]
    BY <1>0, <2>1, HalfFacts
  <2>3. QED
    BY <1>3, <2>2
<1>7. MovedBy(0)
  <2>1. ASSUME NEW i \in 1 .. Len(Wire')
        PROVE  Wire'[i] = Wire[i + 0]
    <3>1. CASE i <= Len(got)
      <4>1. i \in 1 .. Len(got) /\ i + 0 = i
        BY <1>5, <1>6, <3>1
      <4>2. QED
        BY <1>5, <1>6, <4>1
    <3>2. CASE i > Len(got)
      <4>1. PICK j \in 1 .. n : i = Len(got) + j /\ i + 0 = i
        <5>1. i - Len(got) \in 1 .. n /\ i = Len(got) + (i - Len(got)) /\ i + 0 = i
          BY <1>5, <1>6, <3>2
        <5>2. QED
          BY <5>1
      <4>2. j \in 1 .. Len(stream)
        BY <1>0
      <4>3. QED
        BY <1>3, <1>5, <1>6, <4>1, <4>2
    <3>3. QED
      BY <1>5, <1>6, <3>1, <3>2
  <2>2. Len(Wire') + 0 <= Len(Wire) /\ Len(sent) <= Len(sent') /\ sent' = sent
    BY <1>0, <1>2, <1>5, <1>6 DEF senderVars
  <2>3. QED
    BY <1>2, <2>1, <2>2 DEF MovedBy
<1>8. Len(Wire') \in Nat /\ sent' \in Seq(Sizes) /\ UNCHANGED delivered /\ broken'
  BY <1>0, <1>2, <1>5, <1>6 DEF resultVars, senderVars
<1>9. WireInv'
  BY <1>7, <1>8, WireStill
<1>10. TogetherInv' /\ StepInv' /\ ReadInv'
  BY <1>2, <1>7, <1>8, ReceiverStays DEF WireStays
<1>11. QED
  BY <1>4, <1>9, <1>10 DEF SocketInv

LEMMA TickStep ==
  ASSUME SocketInv, Tick
  PROVE  SocketInv'
<1>0. /\ TypeOK /\ BytesInv /\ WireInv /\ sent \in Seq(Sizes) /\ Len(Wire) \in Nat
      /\ now \in 0 .. MaxTime /\ began \in 0 .. now /\ MaxTime \in Nat
  BY TypeFacts, SocketAssumption DEF SocketInv, TypeOK
<1>1. /\ now' = now + 1 /\ now < MaxTime /\ Wire' = Wire
      /\ UNCHANGED <<broken, stream, senderVars, receiver, rpc, readVars, resultVars>>
  BY DEF Tick, Wire, readVars
<1>2. TypeOK' /\ BytesInv' /\ SenderInv' /\ TimeInv'
  <2>1. now' \in 0 .. MaxTime /\ began \in 0 .. now'
    BY <1>0, <1>1
  <2>2. TypeOK'
    BY <1>0, <1>1, <2>1 DEF TypeOK, readVars, resultVars, senderVars
  <2>3. BytesInv'
    BY <1>0, <1>1 DEF BytesInv, readVars, resultVars
  <2>4. SenderInv'
    BY <1>1 DEF SocketInv, SenderInv, senderVars
  <2>5. ClientsClock => ClientsClock'
    <3>1. \A t \in began .. now : t \in began .. now'
      BY <1>0, <1>1
    <3>2. QED
      BY <1>1, <3>1 DEF ClientsClock, readVars
  <2>6. now - began > Limit => now' - began > Limit
    BY <1>0, <1>1, SocketAssumption
  <2>7. TimeInv'
    BY <1>1, <2>5, <2>6 DEF SocketInv, TimeInv, readVars, resultVars
  <2>8. QED
    BY <2>2, <2>3, <2>4, <2>7
<1>3. UNCHANGED <<sent, s, broken>> /\ UNCHANGED delivered
  BY <1>1 DEF senderVars, resultVars
<1>4. MovedBy(0) /\ Len(Wire') \in Nat /\ sent' \in Seq(Sizes)
  BY <1>0, <1>1, <1>3, MovedNone
<1>5. WireInv'
  <2>1. ~broken' => NextMessage <= IF s' > 0 THEN Len(sent') ELSE Len(sent') + 1
    BY <1>0, <1>3 DEF WireInv
  <2>2. QED
    BY <1>3, <1>4, <2>1, WireStill
<1>6. TogetherInv' /\ StepInv' /\ ReadInv'
  BY <1>1, <1>4, ReceiverStays DEF WireStays
<1>7. QED
  BY <1>2, <1>5, <1>6 DEF SocketInv
---------------------------------------------------------------------------
(* The receiver's actions.  Of those that read, each leaves the wire and   *)
(* the message as they are.                                                *)

Reads ==
  /\ Wire' = Wire
  /\ UNCHANGED <<broken, senderVars, receivedData, header, resultVars>>
  /\ \/ rpc' = "failed"
     \/ {rpc, rpc'} \subseteq {"idle", "packet", "header", "check"}
     \/ {rpc, rpc'} \subseteq {"payload", "join"}

LEMMA ReadsKeep ==
  ASSUME SocketInv, Reads
  PROVE  SenderInv' /\ WireInv' /\ TogetherInv' /\ StepInv'
<1>1. UNCHANGED <<Wire, broken, sent, s, packetCount, receivedData, header, delivered,
                  failures>>
  BY DEF Reads, senderVars, resultVars
<1>2. /\ NextMessage' = NextMessage /\ Message' = Message /\ Passed' = Passed
      /\ InStep' <=> InStep
  BY <1>1 DEF NextMessage, Message, Passed, InStep
<1>3. ASSUME NEW k, NEW o
      PROVE  /\ IsPlace(k, o)' <=> IsPlace(k, o)
             /\ PayloadSize(k, o)' = PayloadSize(k, o)
             /\ \A i : At(i, k, o)' <=> At(i, k, o)
             /\ \A i : Whole(i, k, o)' <=> Whole(i, k, o)
  <2>1. \A j, q, i : At(i, j, q)' <=> At(i, j, q)
    BY <1>1 DEF At, IsPlace, PacketByte, PayloadSize, SenderAt, ptr
  <2>2. QED
    BY <1>1, <2>1 DEF Whole, NextAt, IsPlace, PacketByte, PacketLength, PayloadSize
<1>4. SenderInv'
  BY <1>1 DEF SocketInv, SenderInv
<1>5. WireInv'
  BY <1>1, <1>2, <1>3 DEF SocketInv, WireInv
<1>6. TogetherInv'
  BY <1>1, <1>2, <1>3 DEF SocketInv, TogetherInv
<1>7. StepInv'
  <2>1. CASE rpc' = "failed"
    BY <2>1 DEF StepInv
  <2>2. CASE {rpc, rpc'} \subseteq {"idle", "packet", "header", "check"}
    <3>1. InStep => At(1, Message, Passed)
      BY <2>2 DEF SocketInv, StepInv
    <3>2. InStep' => At(1, Message, Passed)'
      BY <1>2, <1>3, <3>1
    <3>3. QED
      BY <2>2, <3>2 DEF StepInv
  <2>3. CASE {rpc, rpc'} \subseteq {"payload", "join"}
    <3>1. PICK k \in NextMessage .. Len(sent) : \E o \in 0 .. sent[k] - 1 :
            /\ InStep => k = Message /\ o = Passed
            /\ header = [size |-> PayloadSize(k, o), left |-> Packets(sent[k] - o) - 1]
            /\ Whole(1 - HeaderLength, k, o)
      BY <2>3 DEF SocketInv, StepInv
    <3>2. PICK o \in 0 .. sent[k] - 1 :
            /\ InStep => k = Message /\ o = Passed
            /\ header = [size |-> PayloadSize(k, o), left |-> Packets(sent[k] - o) - 1]
            /\ Whole(1 - HeaderLength, k, o)
      BY <3>1
    <3>3. /\ InStep' => k = Message' /\ o = Passed'
          /\ header' = [size |-> PayloadSize(k, o)', left |-> Packets(sent'[k] - o) - 1]
          /\ Whole(1 - HeaderLength, k, o)'
          /\ k \in NextMessage' .. Len(sent') /\ o \in 0 .. sent'[k] - 1
      BY <1>1, <1>2, <1>3, <3>2
    <3>4. QED
      BY <2>3, <3>3 DEF StepInv
  <2>4. QED
    BY <2>1, <2>2, <2>3 DEF Reads
<1>8. QED
  BY <1>4, <1>5, <1>6, <1>7

(* The clock of a reading loop. *)
LEMMA StartFacts ==
  ASSUME TypeOK
  PROVE  /\ StartTime \in 0 .. ClockRange - 1
         /\ \/ StartTime = now % ClockRange
            \/ receiver = "out" /\ now % ClockRange >= CountRange
<1>1. now \in Nat /\ ClockRange \in Nat \ {0} /\ CountRange \in Nat \ {0}
  BY SocketAssumption DEF TypeOK
<1>2. PICK c \in 0 .. ClockRange - 1 : c = Clock /\ c = now % ClockRange
  BY <1>1, Quotient DEF Clock
<1>3. CASE c < CountRange
  <2>1. c \in Nat /\ c = CountRange * 0 + c /\ c \in 0 .. CountRange - 1
    BY <1>1, <1>3
  <2>2. c % CountRange = c
    BY <1>1, <2>1, QuotientUnique
  <2>3. QED
    BY <1>2, <2>2 DEF StartTime
<1>4. CASE c >= CountRange
  <2>1. c \in Nat /\ c % CountRange \in 0 .. CountRange - 1
    BY <1>1, Quotient
  <2>2. c % CountRange \in 0 .. ClockRange - 1
    BY <1>1, <1>4, <2>1
  <2>3. QED
    BY <1>2, <1>4, <2>2 DEF StartTime
<1>5. QED
  BY <1>1, <1>3, <1>4

(* More than the limit on the clock is more than the limit in time. *)
LEMMA LimitPassed ==
  ASSUME TypeOK, startT = began % ClockRange, TimedOut
  PROVE  now - began > Limit
<1> DEFINE c == ClockRange
           a == now \div c
           b == began \div c
           d == now % c
           e == began % c
<1>1. /\ now \in Nat /\ began \in Nat /\ began <= now /\ c \in Nat \ {0} /\ Limit \in Nat
  BY SocketAssumption DEF TypeOK
<1>2. /\ a \in Nat /\ b \in Nat /\ d \in 0 .. c - 1 /\ e \in 0 .. c - 1
      /\ now = c * a + d /\ began = c * b + e /\ b <= a
  BY <1>1, Quotient, QuotientMonotone
<1>3. TimeDiff = IF d < e THEN d + c - 1 - e ELSE d - e
  BY DEF TimeDiff, Clock
<1>4. TimeDiff > Limit
  BY DEF TimedOut
<1> HIDE DEF a, b, d, e, c
<1>5. CASE a = b
  <2>1. now - began = d - e /\ d >= e
    BY <1>1, <1>2, <1>5
  <2>2. QED
    BY <1>1, <1>2, <1>3, <1>4, <2>1
<1>6. CASE a # b
  <2>1. PICK k \in Nat : a = b + 1 + k
    <3>1. a - b - 1 \in Nat /\ a = b + 1 + (a - b - 1)
      BY <1>2, <1>6
    <3>2. QED
      BY <3>1
  <2>2. c * a = c * b + c + c * k /\ c * k \in Nat /\ c * b \in Nat
    BY <1>1, <1>2, <2>1
  <2>3. now - began >= c + d - e
    BY <1>1, <1>2, <2>2
  <2>4. QED
    BY <1>1, <1>2, <1>3, <1>4, <2>3
<1>7. QED
  BY <1>5, <1>6

LEMMA BeginReceiveStep ==
  ASSUME SocketInv, BeginReceive
  PROVE  SocketInv'
<1>1. /\ rpc = "idle" /\ rpc' = "packet" /\ failures < MaxFailures /\ Wire' = Wire
      /\ UNCHANGED <<now, broken, stream, senderVars, receiver, readVars, resultVars>>
  BY DEF BeginReceive, Wire, readVars
<1>2. Reads
  BY <1>1 DEF Reads, readVars
<1>3. TypeOK'
  BY <1>1 DEF SocketInv, TypeOK, readVars, resultVars, senderVars
<1>4. BytesInv' /\ TimeInv'
  BY <1>1 DEF SocketInv, BytesInv, TimeInv, readVars, resultVars
<1>5. ReadInv'
  BY <1>1 DEF SocketInv, ReadInv, readVars, resultVars
<1>6. QED
  BY <1>2, <1>3, <1>4, <1>5, ReadsKeep DEF SocketInv

LEMMA BeginHeaderStep ==
  ASSUME SocketInv, BeginHeader
  PROVE  SocketInv'
<1>1. /\ rpc = "packet" /\ rpc' = "header" /\ Wire' = Wire
      /\ startT' = StartTime /\ began' = now
      /\ UNCHANGED <<now, broken, stream, senderVars, receiver, got, header,
                     receivedData, resultVars>>
  BY DEF BeginHeader, Wire
<1>2. Reads
  BY <1>1 DEF Reads
<1>3. /\ now \in 0 .. MaxTime /\ MaxTime \in Nat /\ HeaderLength \in Nat \ {0, 1}
      /\ StartTime \in 0 .. ClockRange - 1
      /\ \/ StartTime = now % ClockRange
         \/ receiver = "out" /\ now % ClockRange >= CountRange
  BY SocketAssumption, StartFacts DEF SocketInv, TypeOK
<1>4. TypeOK'
  <2>1. began' \in 0 .. now' /\ startT' \in 0 .. ClockRange - 1
    BY <1>1, <1>3
  <2>2. QED
    BY <1>1, <2>1 DEF SocketInv, TypeOK, resultVars, senderVars
<1>5. BytesInv'
  BY <1>1 DEF SocketInv, BytesInv, resultVars
<1>6. TimeInv'
  BY <1>1, <1>3 DEF TimeInv
<1>7. ReadInv'
  <2>1. got = <<>> /\ Len(got) = 0
    BY <1>1 DEF SocketInv, ReadInv
  <2>2. Len(got') < HeaderLength
    BY <1>1, <1>3, <2>1
  <2>3. QED
    BY <1>1, <2>1, <2>2 DEF SocketInv, ReadInv, resultVars
<1>8. QED
  BY <1>2, <1>4, <1>5, <1>6, <1>7, ReadsKeep DEF SocketInv

(* The first n bytes under way go to the back of those read: the wire is   *)
(* as it was.                                                              *)
LEMMA BytesTaken ==
  ASSUME got \in Seq(Bytes), stream \in Seq(Bytes), NEW n \in 1 .. Len(stream),
         NEW a, a = SubSeq(stream, 1, n),
         got' = got \o a, stream' = SubSeq(stream, n + 1, Len(stream))
  PROVE  /\ got' \in Seq(Bytes) /\ stream' \in Seq(Bytes)
         /\ Len(got') = Len(got) + n /\ Wire' = Wire
<1>0. Len(got) \in Nat /\ Len(stream) \in Nat
  OBVIOUS
<1>1. /\ a \in Seq(Bytes) /\ Len(a) = n - 1 + 1
      /\ \A i \in 1 .. n - 1 + 1 : a[i] = stream[1 + i - 1]
  <2>1. 1 \in Int /\ n \in Int /\ 1 <= 1 /\ 1 <= n + 1 /\ n <= Len(stream)
    BY <1>0
  <2>2. QED
    BY <2>1, PartFacts
<1>2. /\ stream' \in Seq(Bytes) /\ Len(stream') = Len(stream) - (n + 1) + 1
      /\ \A i \in 1 .. Len(stream) - (n + 1) + 1 : stream'[i] = stream[(n + 1) + i - 1]
  <2>1. /\ n + 1 \in Int /\ Len(stream) \in Int /\ 1 <= n + 1 /\ n + 1 <= Len(stream) + 1
        /\ Len(stream) <= Len(stream)
    BY <1>0
  <2>2. QED
    BY <2>1, PartFacts
<1>3. /\ Len(a) = n /\ (\A i \in 1 .. n : a[i] = stream[i])
      /\ Len(stream') = Len(stream) - n
      /\ \A i \in 1 .. Len(stream) - n : stream'[i] = stream[n + i]
  <2>1. n - 1 + 1 = n /\ \A i \in 1 .. n : 1 + i - 1 = i
    OBVIOUS
  <2>2. /\ Len(stream) - (n + 1) + 1 = Len(stream) - n
        /\ \A i \in 1 .. Len(stream) - n : (n + 1) + i - 1 = n + i
    BY <1>0
  <2>3. QED
    BY <1>1, <1>2, <2>1, <2>2
<1>4. /\ got' \in Seq(Bytes) /\ Len(got') = Len(got) + Len(a)
      /\ \A i \in 1 .. Len(got) : got'[i] = got[i]
      /\ \A i \in 1 .. Len(a) : got'[Len(got) + i] = a[i]
  <2>1. a \in Seq(Bytes)
    BY <1>1
  <2>2. QED
    BY <2>1, HalfFacts
<1>5. /\ Wire \in Seq(Bytes) /\ Len(Wire) = Len(got) + Len(stream)
      /\ \A i \in 1 .. Len(got) : Wire[i] = got[i]
      /\ \A i \in 1 .. Len(stream) : Wire[Len(got) + i] = stream[i]
  BY HalfFacts DEF Wire
<1>6. /\ Wire' \in Seq(Bytes) /\ Len(Wire') = Len(got') + Len(stream')
      /\ \A i \in 1 .. Len(got') : Wire'[i] = got'[i]
      /\ \A i \in 1 .. Len(stream') : Wire'[Len(got') + i] = stream'[i]
  <2>1. got' \in Seq(Bytes) /\ stream' \in Seq(Bytes)
    BY <1>2, <1>4
  <2>2. QED
    BY <2>1, HalfFacts DEF Wire
<1>7. /\ Len(got') = Len(got) + n /\ Len(Wire') = Len(Wire) /\ Len(Wire) \in Nat
  BY <1>0, <1>3, <1>4, <1>5, <1>6
<1>8. ASSUME NEW i \in 1 .. Len(Wire)
      PROVE  Wire'[i] = Wire[i]
  <2>1. CASE i <= Len(got)
    <3>1. i \in 1 .. Len(got) /\ i \in 1 .. Len(got')
      BY <1>0, <1>7, <2>1
    <3>2. QED
      BY <1>4, <1>5, <1>6, <3>1
  <2>2. CASE Len(got) < i /\ i <= Len(got) + n
    <3>1. PICK j \in 1 .. n : i = Len(got) + j
      <4>1. i - Len(got) \in 1 .. n /\ i = Len(got) + (i - Len(got))
        BY <1>0, <2>2
      <4>2. QED
        BY <4>1
    <3>2. j \in 1 .. Len(stream) /\ j \in 1 .. Len(a) /\ i \in 1 .. Len(got')
      BY <1>0, <1>3, <1>7, <2>2
    <3>3. Wire[i] = stream[j] /\ got'[i] = a[j] /\ Wire'[i] = got'[i]
      BY <1>4, <1>5, <1>6, <3>1, <3>2, Zenon
    <3>4. a[j] = stream[j]
      BY <1>3, <3>1
    <3>5. QED
      BY <3>3, <3>4
  <2>3. CASE Len(got) + n < i
    <3>1. PICK j \in 1 .. Len(stream) - n : i = Len(got') + j
      <4>1. /\ i - Len(got') \in 1 .. Len(stream) - n /\ i = Len(got') + (i - Len(got'))
        BY <1>0, <1>5, <1>7, <2>3
      <4>2. QED
        BY <4>1
    <3>2. /\ j \in 1 .. Len(stream') /\ n + j \in 1 .. Len(stream)
          /\ i = Len(got) + (n + j)
      BY <1>0, <1>3, <1>7, <3>1
    <3>3. Wire'[i] = stream'[j] /\ stream'[j] = stream[n + j] /\ Wire[i] = stream[n + j]
      BY <1>3, <1>5, <1>6, <3>1, <3>2, Zenon
    <3>4. QED
      BY <3>3
  <2>4. QED
    BY <1>0, <1>7, <2>1, <2>2, <2>3
<1>9. Wire' = Wire
  BY <1>5, <1>6, <1>7, <1>8, SeqEqual
<1>10. QED
  BY <1>2, <1>4, <1>7, <1>9

(* One turn of a reading loop. *)
LEMMA RecvFacts ==
  ASSUME SocketInv, NEW length \in Nat, NEW complete, Recv(length, complete),
         Len(got) < length, rpc \in {"header", "payload"}
  PROVE  /\ Wire' = Wire /\ got' \in Seq(Bytes) /\ stream' \in Seq(Bytes)
         /\ Len(got') \in 0 .. length
         /\ \/ Len(got') = length /\ rpc' = complete
            \/ Len(got') < length /\ rpc' = rpc
            \/ Len(got') < length /\ rpc' = "failed" /\ (now - began > Limit \/ ClientsClock)
         /\ UNCHANGED <<now, broken, senderVars, receiver, header, receivedData,
                        startT, began, resultVars>>
<1>1. /\ got \in Seq(Bytes) /\ stream \in Seq(Bytes) /\ Len(got) \in Nat /\ Len(stream) \in Nat
      /\ TypeOK /\ TimeInv
  BY TypeFacts DEF SocketInv, BytesInv
<1>2. PICK n \in 1 .. Shortest(Len(stream), length - Len(got)) :
        /\ got' = got \o SubSeq(stream, 1, n)
        /\ stream' = SubSeq(stream, n + 1, Len(stream))
  BY DEF Recv
<1>3. n \in 1 .. Len(stream) /\ Len(got) + n <= length
  BY <1>1, <1>2 DEF Shortest
<1>4. /\ got' \in Seq(Bytes) /\ stream' \in Seq(Bytes) /\ Len(got') = Len(got) + n
      /\ Wire' = Wire
  <2>1. PICK a : a = SubSeq(stream, 1, n)
    OBVIOUS
  <2>2. got' = got \o a
    BY <1>2, <2>1
  <2>3. QED
    BY <1>1, <1>2, <1>3, <2>1, <2>2, BytesTaken
<1>5. Len(got') \in 0 .. length
  BY <1>1, <1>3, <1>4
<1>6. TimedOut => now - began > Limit \/ ClientsClock
  <2>1. CASE startT = began % ClockRange
    BY <1>1, <2>1, LimitPassed
  <2>2. CASE receiver = "out" /\ began % ClockRange >= CountRange
    <3>1. began \in began .. now
      BY <1>1, SocketAssumption DEF TypeOK
    <3>2. QED
      BY <2>2, <3>1 DEF ClientsClock
  <2>3. QED
    BY <1>1, <2>1, <2>2 DEF TimeInv
<1>7. \/ Len(got') = length /\ rpc' = complete
      \/ Len(got') # length /\ TimedOut /\ rpc' = "failed"
      \/ Len(got') # length /\ rpc' = rpc
  BY DEF Recv
<1>8. Len(got') # length => Len(got') < length
  BY <1>5
<1>9. /\ Wire' = Wire
      /\ UNCHANGED <<now, broken, senderVars, receiver, header, receivedData,
                     startT, began, resultVars>>
  BY <1>4 DEF Recv
<1>10. \/ Len(got') = length /\ rpc' = complete
       \/ Len(got') < length /\ rpc' = rpc
       \/ Len(got') < length /\ rpc' = "failed" /\ (now - began > Limit \/ ClientsClock)
  BY <1>6, <1>7, <1>8
<1>11. QED
  BY <1>4, <1>5, <1>9, <1>10

LEMMA ReadHeaderStep ==
  ASSUME SocketInv, ReadHeader
  PROVE  SocketInv'
<1>1. rpc = "header" /\ Recv(HeaderLength, "check") /\ HeaderLength \in Nat
      /\ Len(got) < HeaderLength /\ failures < MaxFailures
  BY SocketAssumption DEF ReadHeader, SocketInv, ReadInv
<1>2. /\ Wire' = Wire /\ got' \in Seq(Bytes) /\ stream' \in Seq(Bytes)
      /\ Len(got') \in 0 .. HeaderLength
      /\ \/ Len(got') = HeaderLength /\ rpc' = "check"
         \/ Len(got') < HeaderLength /\ rpc' = "header"
         \/ /\ Len(got') < HeaderLength /\ rpc' = "failed"
            /\ now - began > Limit \/ ClientsClock
      /\ UNCHANGED <<now, broken, senderVars, receiver, header, receivedData,
                     startT, began, resultVars>>
  BY <1>1, RecvFacts
<1>3. Reads
  BY <1>1, <1>2 DEF Reads
<1>4. TypeOK'
  BY <1>2 DEF SocketInv, TypeOK, resultVars, senderVars
<1>5. BytesInv'
  BY <1>2 DEF SocketInv, BytesInv, resultVars
<1>6. TimeInv'
  <2>1. ClientsClock' <=> ClientsClock
    BY <1>2 DEF ClientsClock
  <2>2. QED
    BY <1>1, <1>2, <2>1 DEF SocketInv, TimeInv, resultVars
<1>7. ReadInv'
  BY <1>1, <1>2 DEF SocketInv, ReadInv, resultVars
<1>8. QED
  BY <1>3, <1>4, <1>5, <1>6, <1>7, ReadsKeep DEF SocketInv

LEMMA ReadPayloadStep ==
  ASSUME SocketInv, ReadPayload
  PROVE  SocketInv'
<1>1. rpc = "payload" /\ Recv(header.size, "join") /\ header.size \in Nat
      /\ Len(got) < header.size /\ failures < MaxFailures
  BY CapacityFact DEF ReadPayload, SocketInv, ReadInv, TypeOK
<1>2. /\ Wire' = Wire /\ got' \in Seq(Bytes) /\ stream' \in Seq(Bytes)
      /\ Len(got') \in 0 .. header.size
      /\ \/ Len(got') = header.size /\ rpc' = "join"
         \/ Len(got') < header.size /\ rpc' = "payload"
         \/ /\ Len(got') < header.size /\ rpc' = "failed"
            /\ now - began > Limit \/ ClientsClock
      /\ UNCHANGED <<now, broken, senderVars, receiver, header, receivedData,
                     startT, began, resultVars>>
  <2>1. rpc \in {"header", "payload"}
    BY <1>1
  <2>2. PICK length \in Nat : length = header.size
    BY <1>1
  <2>3. Recv(length, "join") /\ Len(got) < length
    BY <1>1, <2>2
  <2>4. QED
    BY <1>1, <2>1, <2>2, <2>3, RecvFacts
<1>3. Reads
  BY <1>1, <1>2 DEF Reads
<1>4. TypeOK'
  BY <1>2 DEF SocketInv, TypeOK, resultVars, senderVars
<1>5. BytesInv'
  BY <1>2 DEF SocketInv, BytesInv, resultVars
<1>6. TimeInv'
  <2>1. ClientsClock' <=> ClientsClock
    BY <1>2 DEF ClientsClock
  <2>2. QED
    BY <1>1, <1>2, <2>1 DEF SocketInv, TimeInv, resultVars
<1>7. ReadInv'
  BY <1>1, <1>2 DEF SocketInv, ReadInv, resultVars
<1>8. QED
  BY <1>3, <1>4, <1>5, <1>6, <1>7, ReadsKeep DEF SocketInv

LEMMA ReadNothingStep ==
  ASSUME SocketInv, ReadNothing
  PROVE  SocketInv'
<1>1. /\ rpc \in {"header", "payload"} /\ broken /\ rpc' = "failed" /\ Wire' = Wire
      /\ UNCHANGED <<now, broken, stream, senderVars, receiver, readVars, resultVars>>
  BY DEF ReadNothing, Wire, readVars
<1>2. Reads
  BY <1>1 DEF Reads, readVars
<1>3. TypeOK'
  BY <1>1 DEF SocketInv, TypeOK, readVars, resultVars, senderVars
<1>4. BytesInv' /\ TimeInv'
  BY <1>1 DEF SocketInv, BytesInv, TimeInv, readVars, resultVars
<1>5. ReadInv'
  BY <1>1 DEF SocketInv, ReadInv, readVars, resultVars
<1>6. QED
  BY <1>2, <1>3, <1>4, <1>5, ReadsKeep DEF SocketInv

(* What has been read leaves the wire. *)
LEMMA GotTaken ==
  ASSUME TypeOK, BytesInv, got' = <<>>, UNCHANGED <<stream, sent, s, broken>>,
         NEW m \in Nat, m = Len(got)
  PROVE  MovedBy(m) /\ Len(Wire') \in Nat /\ Len(Wire) = m + Len(Wire')
<1>0. /\ Len(Wire) = m + Len(stream) /\ stream \in Seq(Bytes) /\ Len(stream) \in Nat
      /\ \A i \in 1 .. Len(stream) : Wire[m + i] = stream[i]
  BY TypeFacts DEF BytesInv
<1>1. Wire' = stream
  <2>1. Wire' = <<>> \o stream
    BY DEF Wire
  <2>2. QED
    BY <1>0, <2>1, ConcatEmptySeq
<1>2. \A i \in 1 .. Len(stream) : i + m = m + i
  BY <1>0
<1>3. \A i \in 1 .. Len(Wire') : Wire'[i] = Wire[i + m]
  BY <1>0, <1>1, <1>2
<1>4. Len(Wire') + m = Len(Wire) /\ Len(Wire') + m <= Len(Wire) /\ Len(sent) <= Len(sent')
  <2>1. Len(sent) \in Nat
    BY TypeFacts
  <2>2. QED
    BY <1>0, <1>1, <2>1
<1>5. \A k, o : SenderAt(k, o) => SenderAt(k, o)'
  BY DEF SenderAt, ptr
<1>6. MovedBy(m)
  BY <1>3, <1>4, <1>5 DEF MovedBy
<1>7. QED
  BY <1>0, <1>1, <1>6

(* WireInv when what has been read leaves the wire and no message is       *)
(* returned.                                                               *)
LEMMA WireAfter ==
  ASSUME SocketInv, NEW m \in Nat, MovedBy(m), Len(Wire') \in Nat,
         UNCHANGED <<sent, s, broken, delivered>>
  PROVE  WireInv'
<1>1. /\ TypeOK /\ BytesInv /\ WireInv /\ sent \in Seq(Sizes) /\ sent' \in Seq(Sizes)
      /\ Len(Wire) \in Nat /\ NextMessage \in Nat
  BY TypeFacts DEF SocketInv
<1>2. NextMessage' = NextMessage
  BY DEF NextMessage
<1>3. \A i \in 1 .. Len(Wire) : NextMessage <= Wire[i].msg
  BY <1>1 DEF WireInv
<1>4. ASSUME NEW i \in 1 .. Len(Wire')
      PROVE  NextMessage' <= Wire'[i].msg
  <2>1. i + m \in 1 .. Len(Wire) /\ Wire'[i] = Wire[i + m]
    BY <1>1 DEF MovedBy
  <2>2. QED
    BY <1>2, <1>3, <2>1
<1>5. ~broken' => NextMessage' <= IF s' > 0 THEN Len(sent') ELSE Len(sent') + 1
  BY <1>1, <1>2 DEF WireInv
<1>6. QED
  BY <1>1, <1>2, <1>4, <1>5, WireMoved

(* A header that is found or expected is that of a whole packet. *)
LEMMA HeaderThere ==
  ASSUME SocketInv, rpc = "check", IsHeader(got) \/ InStep
  PROVE  /\ IsHeader(got)
         /\ \E k \in NextMessage .. Len(sent), o \in Nat :
              /\ IsPlace(k, o) /\ Whole(1, k, o)
              /\ InStep => k = Message /\ o = Passed
              /\ got[1] = PacketByte(k, o, 1)
<1>1. /\ Len(got) = HeaderLength /\ HeaderLength \in Nat \ {0, 1}
      /\ sent \in Seq(Sizes)
  BY SocketAssumption, TypeFacts DEF SocketInv, ReadInv
<1>2. /\ Len(Wire) \in Nat /\ 1 \in 1 .. Len(Wire) /\ 2 \in 1 .. Len(Wire)
      /\ Wire[1] = got[1] /\ Wire[2] = got[2]
  <2>1. /\ Len(Wire) = Len(got) + Len(stream) /\ Len(stream) \in Nat
        /\ \A i \in 1 .. Len(got) : Wire[i] = got[i]
    BY TypeFacts DEF SocketInv
  <2>2. 1 \in 1 .. Len(got) /\ 2 \in 1 .. Len(got)
    BY <1>1
  <2>3. QED
    BY <1>1, <2>1, <2>2
<1>3. ASSUME InStep
      PROVE  Wire[1] = PacketByte(Message, Passed, 1)
  <2>1. At(1, Message, Passed)
    BY <1>3 DEF SocketInv, StepInv
  <2>2. QED
    BY <1>2, <2>1 DEF At
<1>4. IsStart(Wire[1])
  <2>1. CASE InStep
    <3>1. 1 <= HeaderLength
      BY <1>1
    <3>2. QED
      BY <1>3, <2>1, <3>1 DEF PacketByte, IsStart
  <2>2. CASE IsHeader(got)
    <3>1. 1 \in 1 .. 2
      OBVIOUS
    <3>2. QED
      BY <1>2, <2>2, <3>1 DEF IsHeader, IsStart
  <2>3. QED
    BY <2>1, <2>2
<1>5. PICK k, o : k = Wire[1].msg /\ o = Wire[1].from
  OBVIOUS
<1>6. Whole(1, k, o) /\ k \in NextMessage .. Len(sent)
  <2>1. WireInv
    BY DEF SocketInv
  <2>2. QED
    BY <1>2, <1>4, <1>5, <2>1 DEF WireInv
<1>7. IsPlace(k, o)
  BY <1>6 DEF Whole
<1>8. /\ o \in Nat /\ PacketLength(k, o) \in Nat
      /\ PacketLength(k, o) = HeaderLength + PayloadSize(k, o) /\ PayloadSize(k, o) \in Nat
  BY <1>1, <1>7, PlaceFacts, CapacityFact
<1>9. /\ got[1] = PacketByte(k, o, 1) /\ got[2] = PacketByte(k, o, 2)
  <2>1. 1 \in 1 .. PacketLength(k, o) /\ 2 \in 1 .. PacketLength(k, o)
    BY <1>1, <1>8
  <2>2. 1 + 1 - 1 = 1 /\ 1 + 2 - 1 = 2
    OBVIOUS
  <2>3. \A d \in 1 .. PacketLength(k, o) :
          1 + d - 1 \in 1 .. Len(Wire) => Wire[1 + d - 1] = PacketByte(k, o, d)
    BY <1>6 DEF Whole
  <2>4. QED
    BY <1>2, <2>1, <2>2, <2>3
<1>10. IsHeader(got)
  <2>1. 1 <= HeaderLength /\ 2 <= HeaderLength
    BY <1>1
  <2>2. /\ got[1].part = "header" /\ got[1].at = 1
        /\ got[2].part = "header" /\ got[2].at = 2
    BY <1>9, <2>1 DEF PacketByte
  <2>3. QED
    BY <2>2 DEF IsHeader
<1>11. ASSUME InStep
       PROVE  k = Message /\ o = Passed
  <2>1. 1 <= HeaderLength
    BY <1>1
  <2>2. QED
    BY <1>3, <1>5, <1>11, <2>1 DEF PacketByte
<1>12. QED
  BY <1>6, <1>7, <1>8, <1>9, <1>10, <1>11

LEMMA CheckHeaderStep ==
  ASSUME SocketInv, CheckHeader
  PROVE  SocketInv'
<1>0. /\ TypeOK /\ BytesInv /\ sent \in Seq(Sizes) /\ Len(Wire) \in Nat
      /\ HeaderLength \in Nat \ {0, 1} /\ Len(got) = HeaderLength /\ failures < MaxFailures
      /\ rpc = "check"
  BY SocketAssumption, TypeFacts DEF SocketInv, ReadInv, CheckHeader
<1>1. CASE ~IsHeader(got)
  <2>1. /\ rpc' = "failed" /\ Wire' = Wire
        /\ UNCHANGED <<now, broken, stream, senderVars, receiver, readVars, resultVars>>
    BY <1>1 DEF CheckHeader, Wire, readVars
  <2>2. Reads
    BY <2>1 DEF Reads, readVars
  <2>3. TypeOK'
    BY <2>1 DEF SocketInv, TypeOK, readVars, resultVars, senderVars
  <2>4. BytesInv'
    BY <2>1 DEF SocketInv, BytesInv, readVars, resultVars
  <2>5. failures # 0
    BY <1>0, <1>1, HeaderThere DEF InStep
  <2>6. TimeInv'
    BY <2>1, <2>5 DEF TimeInv, resultVars
  <2>7. ReadInv'
    BY <1>0, <2>1 DEF ReadInv, resultVars
  <2>8. QED
    BY <2>2, <2>3, <2>4, <2>6, <2>7, ReadsKeep DEF SocketInv
<1>2. CASE IsHeader(got)
  <2>1. /\ header' = [size |-> got[1].size, left |-> got[1].left] /\ got' = <<>>
        /\ startT' = StartTime /\ began' = now /\ rpc' = "payload"
        /\ UNCHANGED <<now, broken, stream, senderVars, receiver, receivedData, resultVars>>
    BY <1>2 DEF CheckHeader
  <2>2. PICK k \in NextMessage .. Len(sent), o \in Nat :
              /\ IsPlace(k, o) /\ Whole(1, k, o)
              /\ InStep => k = Message /\ o = Passed
              /\ got[1] = PacketByte(k, o, 1)
    BY <1>0, <1>2, HeaderThere
  <2>3. PICK p \in 1 .. Capacity, n \in 1 .. CountRange :
          p = PayloadSize(k, o) /\ n = Packets(sent[k] - o)
    BY <1>0, <2>2, PlaceFacts
  <2>4. header' = [size |-> p, left |-> n - 1]
    <3>1. 1 <= HeaderLength
      BY <1>0
    <3>2. got[1].size = p /\ got[1].left = n - 1
      BY <2>2, <2>3, <3>1 DEF PacketByte
    <3>3. QED
      BY <2>1, <3>2
  <2>5. UNCHANGED <<sent, s, broken, delivered, receivedData, failures>>
    BY <2>1 DEF senderVars, resultVars
  <2>6. MovedBy(HeaderLength) /\ Len(Wire') \in Nat /\ sent' \in Seq(Sizes)
    BY <1>0, <2>1, <2>5, GotTaken
  <2>7. WireInv'
    BY <1>0, <2>5, <2>6, WireAfter
  <2>8. TypeOK'
    <3>1. began' \in 0 .. now' /\ startT' \in 0 .. ClockRange - 1
      BY <1>0, <2>1, StartFacts, SocketAssumption DEF TypeOK
    <3>2. header'.left \in 0 .. CountRange - 1 /\ header'.size \in 0 .. Capacity
      BY <2>4, CapacityFact, SocketAssumption
    <3>3. QED
      BY <1>0, <2>1, <3>1, <3>2 DEF TypeOK, resultVars, senderVars
  <2>9. BytesInv'
    BY <1>0, <2>1 DEF BytesInv, resultVars
  <2>10. SenderInv'
    BY <2>1 DEF SocketInv, SenderInv, senderVars
  <2>11. /\ NextMessage' = NextMessage /\ Message' = Message /\ Passed' = Passed
         /\ InStep' <=> InStep
    BY <2>5 DEF NextMessage, Message, Passed, InStep
  <2>12. TogetherInv'
    <3>1. \A j, q : IsPlace(j, q)' <=> IsPlace(j, q)
      BY <2>5 DEF IsPlace
    <3>2. QED
      BY <2>5, <2>11, <3>1 DEF SocketInv, TogetherInv
  <2>13. StepInv'
    <3>1. Whole(1 - HeaderLength, k, o)'
      BY <1>0, <2>2, <2>6, WholeMoved
    <3>2. /\ PayloadSize(k, o)' = p /\ Packets(sent'[k] - o) = n /\ IsPlace(k, o)'
      BY <1>0, <2>2, <2>3, <2>5, <2>6, PlaceKept
    <3>3. k \in NextMessage' .. Len(sent') /\ o \in 0 .. sent'[k] - 1
      BY <2>5, <2>11, <3>2 DEF IsPlace
    <3>4. InStep' => k = Message' /\ o = Passed'
      BY <2>2, <2>11
    <3>5. QED
      BY <2>1, <2>4, <3>1, <3>2, <3>3, <3>4 DEF StepInv
  <2>14. ReadInv'
    <3>1. Len(got') < header'.size
      BY <2>1, <2>4
    <3>2. QED
      BY <1>0, <2>1, <3>1, <2>5 DEF ReadInv
  <2>15. TimeInv'
    BY <1>0, <2>1, StartFacts DEF TimeInv
  <2>16. QED
    BY <2>7, <2>8, <2>9, <2>10, <2>12, <2>13, <2>14, <2>15 DEF SocketInv
<1>3. QED
  BY <1>1, <1>2

---------------------------------------------------------------------------
(* Putting a message together. *)

LEMMA PayloadFacts ==
  ASSUME NEW k \in Nat, NEW a \in Nat, NEW b \in Nat, a <= b
  PROVE  /\ Payload(k, a, b) \in Seq(Bytes) /\ Len(Payload(k, a, b)) = b - a
         /\ \A i \in 1 .. b - a :
              Payload(k, a, b)[i] = [part |-> "payload", msg |-> k, at |-> a + i]
<1>1. b - a \in Nat
  OBVIOUS
<1>2. \A i \in 1 .. b - a : [part |-> "payload", msg |-> k, at |-> a + i] \in Bytes
  BY DEF Bytes
<1>3. QED
  BY <1>1, <1>2 DEF Payload

LEMMA PayloadsJoined ==
  ASSUME NEW k \in Nat, NEW a \in Nat, NEW b \in Nat, NEW c \in Nat, a <= b, b <= c
  PROVE  Payload(k, a, b) \o Payload(k, b, c) = Payload(k, a, c)
<1> DEFINE x == Payload(k, a, b)
           y == Payload(k, b, c)
           z == Payload(k, a, c)
           w == x \o y
<1>0. a <= c
  OBVIOUS
<1>1. /\ x \in Seq(Bytes) /\ Len(x) = b - a
      /\ \A i \in 1 .. b - a : x[i] = [part |-> "payload", msg |-> k, at |-> a + i]
  BY PayloadFacts
<1>2. /\ y \in Seq(Bytes) /\ Len(y) = c - b
      /\ \A i \in 1 .. c - b : y[i] = [part |-> "payload", msg |-> k, at |-> b + i]
  BY PayloadFacts
<1>3. /\ z \in Seq(Bytes) /\ Len(z) = c - a
      /\ \A i \in 1 .. c - a : z[i] = [part |-> "payload", msg |-> k, at |-> a + i]
  BY <1>0, PayloadFacts
<1> HIDE DEF x, y, z
<1>4. x \in Seq(Bytes) /\ y \in Seq(Bytes)
  BY <1>1, <1>2
<1>5. /\ w \in Seq(Bytes) /\ Len(w) = Len(x) + Len(y)
      /\ \A i \in 1 .. Len(x) : w[i] = x[i]
      /\ \A i \in 1 .. Len(y) : w[Len(x) + i] = y[i]
  BY <1>4, HalfFacts
<1> HIDE DEF w
<1>6. Len(w) = Len(z) /\ Len(w) = c - a
  BY <1>1, <1>2, <1>3, <1>5
<1>7. ASSUME NEW i \in 1 .. Len(w)
      PROVE  w[i] = z[i]
  <2>1. CASE i <= b - a
    <3>1. i \in 1 .. b - a /\ i \in 1 .. c - a
      BY <1>6, <2>1
    <3>2. QED
      BY <1>1, <1>3, <1>5, <3>1
  <2>2. CASE b - a < i
    <3>1. PICK j \in 1 .. c - b : i = (b - a) + j /\ b + j = a + i
      <4>1. /\ i - (b - a) \in 1 .. c - b /\ i = (b - a) + (i - (b - a))
            /\ b + (i - (b - a)) = a + i
        BY <1>6, <2>2
      <4>2. QED
        BY <4>1
    <3>2. i \in 1 .. c - a
      BY <1>6
    <3>3. w[i] = y[j] /\ y[j] = [part |-> "payload", msg |-> k, at |-> a + i]
      BY <1>1, <1>2, <1>5, <3>1
    <3>4. QED
      BY <1>3, <3>2, <3>3
  <2>3. QED
    BY <1>6, <2>1, <2>2
<1>8. w = z
  BY <1>3, <1>5, <1>6, <1>7, SeqEqual
<1>9. QED
  BY <1>8 DEF w, x, y, z

(* A message without its first a bytes. *)
LEMMA PayloadRest ==
  ASSUME NEW k \in Nat, NEW a \in Nat, NEW e \in Nat, a < e
  PROVE  SubSeq(Payload(k, 0, e), a + 1, Len(Payload(k, 0, e))) = Payload(k, a, e)
<1> DEFINE x == Payload(k, 0, e)
           y == Payload(k, a, e)
           z == SubSeq(x, a + 1, e)
<1>0. 0 <= e /\ e - 0 = e /\ a <= e
  OBVIOUS
<1>1. /\ x \in Seq(Bytes) /\ Len(x) = e - 0
      /\ \A i \in 1 .. e - 0 : x[i] = [part |-> "payload", msg |-> k, at |-> 0 + i]
  BY <1>0, PayloadFacts
<1>2. /\ y \in Seq(Bytes) /\ Len(y) = e - a
      /\ \A i \in 1 .. e - a : y[i] = [part |-> "payload", msg |-> k, at |-> a + i]
  BY <1>0, PayloadFacts
<1> HIDE DEF x, y
<1>3. /\ z \in Seq(Bytes) /\ Len(z) = e - (a + 1) + 1
      /\ \A i \in 1 .. e - (a + 1) + 1 : z[i] = x[(a + 1) + i - 1]
  <2>1. a + 1 \in Int /\ e \in Int /\ 1 <= a + 1 /\ a + 1 <= e + 1 /\ e <= Len(x)
    BY <1>1
  <2>2. QED
    BY <1>1, <2>1, PartFacts
<1> HIDE DEF z
<1>4. e - (a + 1) + 1 = e - a
  OBVIOUS
<1>5. ASSUME NEW i \in 1 .. e - a
      PROVE  z[i] = y[i]
  <2>1. (a + 1) + i - 1 = a + i /\ a + i \in 1 .. e - 0 /\ 0 + (a + i) = a + i
    OBVIOUS
  <2>2. z[i] = x[a + i]
    BY <1>3, <1>4, <2>1
  <2>3. x[a + i] = [part |-> "payload", msg |-> k, at |-> a + i]
    BY <1>1, <2>1
  <2>4. QED
    BY <1>2, <2>2, <2>3
<1>6. z = y
  BY <1>2, <1>3, <1>4, <1>5, SeqEqual
<1>7. Len(x) = e
  BY <1>0, <1>1
<1>8. QED
  BY <1>6, <1>7 DEF x, y, z

(* What has been put together begins at byte a of message k; with the      *)
(* payload just read, m bytes, it reaches to e.                            *)
Together(k, a, e, m) ==
  /\ IsPlace(k, a) /\ k >= NextMessage /\ a < e /\ e <= sent[k]
  /\ receivedData \o got = Payload(k, a, e)
  /\ failures = 0 => k = NextMessage /\ a = 0
  /\ m = Len(got) /\ (~broken => m <= Len(Wire))
  /\ header.left = 0 <=> e = sent[k]
  /\ IF e < sent[k] THEN At(m + 1, k, e) ELSE At(m + 1, k + 1, 0)

LEMMA PayloadThere ==
  ASSUME SocketInv, rpc = "join"
  PROVE  \E k, a, e, m \in Nat : Together(k, a, e, m)
<1>1. /\ Len(got) = header.size /\ HeaderLength \in Nat \ {0, 1}
      /\ sent \in Seq(Sizes) /\ Len(Wire) \in Nat /\ NextMessage \in Nat
      /\ got \in Seq(Bytes) /\ receivedData \in Seq(Bytes)
  BY SocketAssumption, TypeFacts DEF SocketInv, ReadInv, BytesInv
<1>2. PICK k \in Nat, o \in Nat :
         /\ k \in NextMessage .. Len(sent) /\ o \in 0 .. sent[k] - 1
         /\ InStep => k = Message /\ o = Passed
         /\ header = [size |-> PayloadSize(k, o), left |-> Packets(sent[k] - o) - 1]
         /\ Whole(1 - HeaderLength, k, o)
  <2>1. PICK k \in NextMessage .. Len(sent) : \E o \in 0 .. sent[k] - 1 :
           /\ InStep => k = Message /\ o = Passed
           /\ header = [size |-> PayloadSize(k, o), left |-> Packets(sent[k] - o) - 1]
           /\ Whole(1 - HeaderLength, k, o)
    BY DEF SocketInv, StepInv
  <2>2. PICK o \in 0 .. sent[k] - 1 :
           /\ InStep => k = Message /\ o = Passed
           /\ header = [size |-> PayloadSize(k, o), left |-> Packets(sent[k] - o) - 1]
           /\ Whole(1 - HeaderLength, k, o)
    BY <2>1
  <2>3. k \in Nat /\ o \in Nat
    BY <1>1
  <2>4. QED
    BY <2>2, <2>3
<1>4. IsPlace(k, o)
  BY <1>2 DEF Whole
<1>5. PICK p, n, l :
        /\ p \in Nat /\ n \in Nat /\ l \in Nat
        /\ p = PayloadSize(k, o) /\ n = sent[k] /\ l = PacketLength(k, o) /\ l = HeaderLength + p
        /\ p >= 1 /\ o + p <= n /\ k \in Nat /\ o \in Nat
        /\ Packets(n - o) \in 1 .. CountRange
        /\ Packets(n - o) = 1 <=> o + p = n
  <2>1. /\ PayloadSize(k, o) \in 1 .. Capacity /\ sent[k] \in Nat
        /\ PacketLength(k, o) = HeaderLength + PayloadSize(k, o) /\ PacketLength(k, o) \in Nat
        /\ o + PayloadSize(k, o) <= sent[k] /\ k \in Nat /\ o \in Nat
        /\ Packets(sent[k] - o) \in 1 .. CountRange
        /\ Packets(sent[k] - o) = 1 <=> o + PayloadSize(k, o) = sent[k]
    BY <1>1, <1>4, PlaceFacts
  <2>2. PayloadSize(k, o) \in Nat /\ PayloadSize(k, o) >= 1
    BY <2>1, CapacityFact
  <2>3. QED
    BY <2>1, <2>2
<1>6. Len(got) = p /\ (header.left = 0 <=> o + p = n)
  <2>1. header.size = p /\ header.left = Packets(n - o) - 1
    BY <1>2, <1>5
  <2>2. QED
    BY <1>1, <1>5, <2>1, SocketAssumption
<1>9. PICK e, m : e \in Nat /\ m \in Nat /\ e = o + p /\ m = p /\ o <= e /\ e - o = p
  BY <1>5
<1>h. HeaderLength \in Nat \ {0, 1} /\ 1 - HeaderLength + l = m + 1
  BY <1>5, <1>9, SocketAssumption
<1>7. got = Payload(k, o, e)
  <2>1. /\ Payload(k, o, e) \in Seq(Bytes) /\ Len(Payload(k, o, e)) = p
        /\ \A i \in 1 .. p :
             Payload(k, o, e)[i] = [part |-> "payload", msg |-> k, at |-> o + i]
    <3>1. e \in Nat /\ o <= e
      BY <1>9
    <3>2. /\ Payload(k, o, e) \in Seq(Bytes) /\ Len(Payload(k, o, e)) = e - o
          /\ \A i \in 1 .. e - o :
               Payload(k, o, e)[i] = [part |-> "payload", msg |-> k, at |-> o + i]
      BY <3>1, PayloadFacts
    <3>3. QED
      BY <1>9, <3>2
  <2>2. ASSUME NEW i \in 1 .. p
        PROVE  got[i] = [part |-> "payload", msg |-> k, at |-> o + i]
    <3>1. PICK d \in 1 .. l : /\ d = HeaderLength + i /\ 1 - HeaderLength + d - 1 = i
                              /\ ~(d <= HeaderLength) /\ o + d - HeaderLength = o + i
      <4>1. /\ HeaderLength + i \in 1 .. l /\ 1 - HeaderLength + (HeaderLength + i) - 1 = i
            /\ ~(HeaderLength + i <= HeaderLength)
            /\ o + (HeaderLength + i) - HeaderLength = o + i
        BY <1>1, <1>5
      <4>2. QED
        BY <4>1
    <3>2. i \in 1 .. Len(Wire) /\ Wire[i] = got[i]
      <4>1. /\ Len(Wire) = Len(got) + Len(stream) /\ Len(stream) \in Nat
            /\ \A j \in 1 .. Len(got) : Wire[j] = got[j]
        BY TypeFacts DEF SocketInv
      <4>2. QED
        BY <1>6, <4>1
    <3>3. Wire[i] = PacketByte(k, o, d)
      <4>1. \A x \in 1 .. PacketLength(k, o) :
              1 - HeaderLength + x - 1 \in 1 .. Len(Wire) =>
                Wire[1 - HeaderLength + x - 1] = PacketByte(k, o, x)
        BY <1>2 DEF Whole
      <4>2. QED
        BY <1>5, <3>1, <3>2, <4>1
    <3>4. QED
      BY <3>1, <3>2, <3>3 DEF PacketByte
  <2>3. QED
    BY <1>1, <1>6, <2>1, <2>2, SeqEqual
<1>8. PICK a \in Nat :
        /\ a <= o /\ receivedData = Payload(k, a, o)
        /\ failures = 0 => k = NextMessage /\ a = 0
  <2>1. CASE receivedData = <<>>
    <3>1. Payload(k, o, o) = <<>>
      <4>1. o - o = 0
        BY <1>5
      <4>2. Payload(k, o, o) \in Seq(Bytes) /\ Len(Payload(k, o, o)) = 0
        <5>1. o <= o
          OBVIOUS
        <5>2. QED
          BY <4>1, <5>1, PayloadFacts
      <4>3. QED
        BY <4>2
    <3>2. failures = 0 => k = NextMessage /\ o = 0
      BY <1>2, <2>1 DEF InStep, Message, Passed
    <3>3. QED
      BY <1>5, <2>1, <3>1, <3>2
  <2>2. CASE receivedData # <<>>
    <3>1. /\ k = Message /\ o = Passed
          /\ Len(receivedData) <= Passed
          /\ receivedData = Payload(Message, Passed - Len(receivedData), Passed)
          /\ failures = 0 => Message = NextMessage /\ Len(receivedData) = Passed
      BY <1>2, <2>2 DEF InStep, SocketInv, TogetherInv
    <3>2. PICK r \in Nat : r = Len(receivedData)
      BY <1>1
    <3>3. o - r \in Nat /\ o - r <= o /\ (r = o => o - r = 0)
      BY <1>5, <3>1, <3>2
    <3>4. receivedData = Payload(k, o - r, o) /\ (failures = 0 => k = NextMessage /\ r = o)
      BY <3>1, <3>2
    <3>5. QED
      BY <3>3, <3>4
  <2>3. QED
    BY <2>1, <2>2
<1>10. receivedData \o got = Payload(k, a, e)
  <2>1. e \in Nat /\ a <= o /\ o <= e
    BY <1>8, <1>9
  <2>2. Payload(k, a, o) \o Payload(k, o, e) = Payload(k, a, e)
    BY <2>1, PayloadsJoined
  <2>3. QED
    BY <1>7, <1>8, <2>2, Zenon
<1>11. IF e < n THEN At(m + 1, k, e) ELSE At(m + 1, k + 1, 0)
  <2>1. NextAt(1 - HeaderLength + l, k, o)
    BY <1>2, <1>5 DEF Whole
  <2>2. 1 - HeaderLength + l = m + 1
    BY <1>h
  <2>3. NextAt(m + 1, k, o)
    BY <2>1, <2>2
  <2>4. QED
    BY <1>5, <1>9, <2>3 DEF NextAt
<1>12. ~broken => m <= Len(Wire)
  <2>1. ~broken => 1 - HeaderLength + l - 1 <= Len(Wire)
    <3>1. ~broken => 1 - HeaderLength + PacketLength(k, o) - 1 <= Len(Wire)
      BY <1>2 DEF Whole
    <3>2. QED
      BY <1>5, <3>1
  <2>2. 1 - HeaderLength + l - 1 = m
    BY <1>5, <1>9, SocketAssumption
  <2>3. QED
    BY <2>1, <2>2
<1>13. IsPlace(k, a) /\ k >= NextMessage /\ a < e /\ e <= sent[k]
  <2>1. a \in 0 .. n - 1 /\ a < e /\ e <= n
    BY <1>5, <1>8, <1>9
  <2>a. k >= NextMessage
    BY <1>1, <1>2
  <2>2. k \in 1 .. Len(sent)
    BY <1>4 DEF IsPlace
  <2>3. QED
    BY <1>5, <2>1, <2>2, <2>a DEF IsPlace
<1>14. Together(k, a, e, m)
  BY <1>5, <1>6, <1>8, <1>9, <1>10, <1>11, <1>12, <1>13 DEF Together
<1>15. QED
  BY <1>9, <1>14

LEMMA NextPacketStep ==
  ASSUME SocketInv, NextPacket
  PROVE  SocketInv'
<1>0. /\ TypeOK /\ BytesInv /\ sent \in Seq(Sizes) /\ Len(Wire) \in Nat
      /\ NextMessage \in Nat /\ failures < MaxFailures /\ rpc = "join"
  BY TypeFacts DEF SocketInv, ReadInv, NextPacket
<1>1. /\ header.left # 0 /\ receivedData' = receivedData \o got /\ got' = <<>>
      /\ rpc' = "packet"
      /\ UNCHANGED <<now, broken, stream, senderVars, receiver, header, startT,
                     began, resultVars>>
  BY DEF NextPacket
<1>2. PICK k \in Nat, a \in Nat, e \in Nat, m \in Nat : Together(k, a, e, m)
  BY <1>0, PayloadThere
<1>3. /\ e \in 0 .. sent[k] - 1 /\ At(m + 1, k, e) /\ m = Len(got) /\ a < e /\ k \in 1 .. Len(sent)
      /\ k >= NextMessage /\ receivedData' = Payload(k, a, e)
      /\ failures = 0 => k = NextMessage /\ a = 0
  <2>1. sent[k] \in Nat
    BY <1>0, <1>2, PlaceFacts DEF Together
  <2>2. QED
    BY <1>1, <1>2, <2>1 DEF Together, IsPlace
<1>4. UNCHANGED <<sent, s, broken, delivered, failures>>
  BY <1>1 DEF senderVars, resultVars
<1>5. MovedBy(m) /\ Len(Wire') \in Nat /\ sent' \in Seq(Sizes)
  BY <1>0, <1>1, <1>3, <1>4, GotTaken
<1>6. WireInv'
  BY <1>4, <1>5, WireAfter
<1>7. TypeOK' /\ SenderInv' /\ TimeInv'
  <2>1. TypeOK'
    BY <1>0, <1>1 DEF TypeOK, resultVars, senderVars
  <2>2. SenderInv'
    BY <1>1 DEF SocketInv, SenderInv, senderVars
  <2>3. TimeInv'
    BY <1>1 DEF TimeInv
  <2>4. QED
    BY <2>1, <2>2, <2>3
<1>8. /\ receivedData' \in Seq(Bytes) /\ Len(receivedData') = e - a
      /\ receivedData'[1] = [part |-> "payload", msg |-> k, at |-> a + 1]
      /\ receivedData' # <<>>
  <2>1. /\ Payload(k, a, e) \in Seq(Bytes) /\ Len(Payload(k, a, e)) = e - a
        /\ \A i \in 1 .. e - a :
             Payload(k, a, e)[i] = [part |-> "payload", msg |-> k, at |-> a + i]
    <3>1. a <= e
      BY <1>3
    <3>2. QED
      BY <3>1, PayloadFacts
  <2>2. 1 \in 1 .. e - a /\ e - a # 0
    BY <1>3
  <2>3. QED
    BY <1>3, <2>1, <2>2
<1>9. BytesInv'
  <2>1. got' \in Seq(Bytes)
    BY <1>1
  <2>2. QED
    BY <1>0, <1>1, <1>8, <2>1 DEF BytesInv, resultVars
<1>10. /\ Message' = k /\ Passed' = e /\ NextMessage' = NextMessage
  <2>1. Message' = k
    BY <1>8 DEF Message
  <2>2. (a + 1) - 1 + (e - a) = e
    OBVIOUS
  <2>3. Passed' = (a + 1) - 1 + (e - a)
    BY <1>8 DEF Passed
  <2>4. QED
    BY <1>4, <2>1, <2>2, <2>3 DEF NextMessage
<1>11. TogetherInv'
  <2>1. IsPlace(k, e)'
    BY <1>3, <1>4 DEF IsPlace
  <2>2. e - a <= e /\ e - (e - a) = a /\ (a = 0 => e - a = e)
    OBVIOUS
  <2>3. receivedData' = Payload(k, e - (e - a), e)
    BY <1>3, <2>2
  <2>4. QED
    BY <1>3, <1>4, <1>8, <1>10, <2>1, <2>2, <2>3 DEF TogetherInv
<1>12. StepInv'
  <2>1. m + 1 \in Int /\ (m + 1) - m = 1
    OBVIOUS
  <2>2. At((m + 1) - m, k, e)'
    BY <1>0, <1>3, <1>5, <2>1, AtMoved
  <2>3. At(1, k, e)'
    BY <2>1, <2>2
  <2>4. QED
    BY <1>1, <1>10, <2>3 DEF StepInv
<1>13. ReadInv'
  BY <1>0, <1>1, <1>4 DEF ReadInv
<1>14. QED
  BY <1>6, <1>7, <1>9, <1>11, <1>12, <1>13 DEF SocketInv

LEMMA ReturnErrorStep ==
  ASSUME SocketInv, ReturnError
  PROVE  SocketInv'
<1>0. /\ TypeOK /\ BytesInv /\ sent \in Seq(Sizes) /\ Len(Wire) \in Nat
      /\ failures < MaxFailures /\ failures \in Nat /\ MaxFailures \in Nat
  BY TypeFacts, SocketAssumption DEF SocketInv, ReadInv, TypeOK, ReturnError
<1>1. /\ got' = <<>> /\ header' = NoHeader /\ receivedData' = <<>>
      /\ startT' = 0 /\ began' = 0 /\ failures' = failures + 1 /\ rpc' = "idle"
      /\ UNCHANGED <<now, broken, stream, senderVars, receiver, delivered>>
  BY DEF ReturnError, Forget
<1>2. PICK m \in Nat : m = Len(got)
  BY <1>0, TypeFacts
<1>3. UNCHANGED <<sent, s, broken, delivered>>
  BY <1>1 DEF senderVars
<1>4. MovedBy(m) /\ Len(Wire') \in Nat
  BY <1>0, <1>1, <1>2, <1>3, GotTaken
<1>5. WireInv'
  BY <1>3, <1>4, WireAfter
<1>6. TypeOK'
  <2>1. began' \in 0 .. now' /\ startT' \in 0 .. ClockRange - 1 /\ failures' \in 0 .. MaxFailures
        /\ header'.left \in 0 .. CountRange - 1 /\ header'.size \in 0 .. Capacity
    BY <1>0, <1>1, SocketAssumption, CapacityFact DEF TypeOK, NoHeader
  <2>2. QED
    BY <1>0, <1>1, <2>1 DEF TypeOK, senderVars
<1>7. BytesInv' /\ SenderInv'
  <2>1. got' \in Seq(Bytes) /\ receivedData' \in Seq(Bytes)
    BY <1>1
  <2>2. QED
    BY <1>0, <1>1, <2>1 DEF BytesInv, SocketInv, SenderInv, senderVars
<1>8. TogetherInv' /\ ReadInv' /\ TimeInv'
  BY <1>1 DEF TogetherInv, ReadInv, TimeInv
<1>9. StepInv'
  <2>1. ~InStep'
    BY <1>0, <1>1 DEF InStep
  <2>2. QED
    BY <1>1, <2>1 DEF StepInv
<1>10. QED
  BY <1>5, <1>6, <1>7, <1>8, <1>9 DEF SocketInv

(* What Return returns: message k from byte a on, up to its end. *)
Returned(k, a, e) ==
  /\ e = sent[k] /\ k \in 1 .. Len(sent)
  /\ delivered' = Append(delivered, Payload(k, a, e))
  /\ delivered' \in Seq(Seq(Bytes) \ {<<>>}) /\ NextMessage' = k + 1

LEMMA MessageReturned ==
  ASSUME SocketInv, Return
  PROVE  \E k, a, e, m \in Nat : Together(k, a, e, m) /\ Returned(k, a, e)
<1>0. sent \in Seq(Sizes) /\ rpc = "join" /\ delivered \in Seq(Seq(Bytes) \ {<<>>})
  BY DEF SocketInv, Return, TypeOK, BytesInv
<1>1. header.left = 0 /\ delivered' = Append(delivered, receivedData \o got)
  BY DEF Return
<1>2. PICK k \in Nat, a \in Nat, e \in Nat, m \in Nat : Together(k, a, e, m)
  BY <1>0, PayloadThere
<1>3. /\ a < e /\ k \in 1 .. Len(sent) /\ e = sent[k]
      /\ delivered' = Append(delivered, Payload(k, a, e))
  BY <1>1, <1>2 DEF Together, IsPlace
<1>4. PICK d \in Seq(Bytes) \ {<<>>} :
        /\ delivered' = Append(delivered, d)
        /\ d[1] = [part |-> "payload", msg |-> k, at |-> a + 1]
  <2>1. /\ Payload(k, a, e) \in Seq(Bytes) /\ Len(Payload(k, a, e)) = e - a
        /\ \A i \in 1 .. e - a :
             Payload(k, a, e)[i] = [part |-> "payload", msg |-> k, at |-> a + i]
    <3>1. a <= e
      BY <1>3
    <3>2. QED
      BY <3>1, PayloadFacts
  <2>2. 1 \in 1 .. e - a /\ e - a # 0
    BY <1>3
  <2>3. QED
    BY <1>3, <2>1, <2>2
<1>5. /\ delivered' \in Seq(Seq(Bytes) \ {<<>>})
      /\ Len(delivered') = Len(delivered) + 1 /\ delivered'[Len(delivered) + 1] = d
      /\ Len(delivered) \in Nat
  BY <1>0, <1>4, AppendProperties
<1>6. delivered' # <<>>
  BY <1>5
<1>7. NextMessage' = k + 1
  BY <1>4, <1>5, <1>6 DEF NextMessage
<1>8. Returned(k, a, e)
  BY <1>3, <1>5, <1>7 DEF Returned
<1>9. QED
  BY <1>2, <1>8

LEMMA ReturnStep ==
  ASSUME SocketInv, Return
  PROVE  SocketInv'
<1>0. /\ TypeOK /\ BytesInv /\ WireInv /\ sent \in Seq(Sizes) /\ Len(sent) \in Nat
      /\ Len(Wire) \in Nat /\ NextMessage \in Nat /\ s \in Nat
  BY TypeFacts DEF SocketInv, TypeOK
<1>1. /\ got' = <<>> /\ header' = NoHeader /\ receivedData' = <<>>
      /\ startT' = 0 /\ began' = 0 /\ rpc' = "idle"
      /\ UNCHANGED <<now, broken, stream, senderVars, receiver, failures>>
  BY DEF Return, Forget
<1>2. PICK k \in Nat, a \in Nat, e \in Nat, m \in Nat :
        Together(k, a, e, m) /\ Returned(k, a, e)
  BY MessageReturned
<1>3. /\ At(m + 1, k + 1, 0) /\ m = Len(got) /\ k \in 1 .. Len(sent)
      /\ (~broken => m <= Len(Wire))
  BY <1>2 DEF Together, Returned, IsPlace
<1>4. UNCHANGED <<sent, s, broken, failures>>
  BY <1>1 DEF senderVars
<1>5. MovedBy(m) /\ Len(Wire') \in Nat /\ sent' \in Seq(Sizes) /\ Len(Wire) = m + Len(Wire')
  BY <1>0, <1>1, <1>3, <1>4, GotTaken
<1>6. /\ delivered' \in Seq(Seq(Bytes) \ {<<>>}) /\ NextMessage' = k + 1
  BY <1>2 DEF Returned
<1>7. WireInv'
  <2>1. \A i \in 1 .. Len(Wire) : \A j \in i .. Len(Wire) : Wire[i].msg <= Wire[j].msg
    BY <1>0 DEF WireInv
  <2>2. ASSUME m + 1 \in 1 .. Len(Wire)
        PROVE  IsPlace(k + 1, 0) /\ Wire[m + 1].msg = k + 1
    <3>1. IsPlace(k + 1, 0) /\ Wire[m + 1] = PacketByte(k + 1, 0, 1)
      BY <1>3, <2>2 DEF At
    <3>2. 1 <= HeaderLength
      BY SocketAssumption
    <3>3. QED
      BY <3>1, <3>2 DEF PacketByte
  <2>3. ASSUME NEW i \in 1 .. Len(Wire')
        PROVE  NextMessage' <= Wire'[i].msg
    <3>1. /\ m + 1 \in 1 .. Len(Wire) /\ i + m \in m + 1 .. Len(Wire)
          /\ Wire'[i] = Wire[i + m]
      BY <1>0, <1>5 DEF MovedBy
    <3>2. Wire[m + 1].msg = k + 1 /\ Wire[m + 1].msg <= Wire[i + m].msg
      BY <2>1, <2>2, <3>1
    <3>3. QED
      BY <1>6, <3>1, <3>2
  <2>4. ASSUME ~broken'
        PROVE  NextMessage' <= IF s' > 0 THEN Len(sent') ELSE Len(sent') + 1
    <3>1. ~broken /\ m <= Len(Wire)
      BY <1>3, <1>4, <2>4
    <3>2. CASE m + 1 \in 1 .. Len(Wire)
      <4>1. k + 1 \in 1 .. Len(sent)
        BY <2>2, <3>2 DEF IsPlace
      <4>2. QED
        BY <1>0, <1>4, <1>6, <4>1
    <3>3. CASE m + 1 = Len(Wire) + 1
      <4>1. SenderAt(k + 1, 0)
        BY <1>3, <3>1, <3>3 DEF At
      <4>2. QED
        <5>1. s > 0 => k + 1 = Len(sent)
          BY <4>1 DEF SenderAt
        <5>2. k <= Len(sent) /\ k \in Nat
          BY <1>0, <1>3
        <5>3. s' = s /\ sent' = sent /\ NextMessage' = k + 1
          BY <1>4, <1>6
        <5>4. k + 1 <= IF s > 0 THEN Len(sent) ELSE Len(sent) + 1
          BY <1>0, <5>1, <5>2
        <5>5. QED
          BY <5>3, <5>4
    <3>4. m + 1 \in 1 .. Len(Wire) \/ m + 1 = Len(Wire) + 1
      <4>1. m <= Len(Wire) /\ Len(Wire) \in Nat
        BY <1>0, <3>1
      <4>2. QED
        BY <4>1
    <3>5. QED
      BY <3>2, <3>3, <3>4
  <2>5. NextMessage' \in Nat
    BY <1>6
  <2>6. QED
    BY <1>0, <1>5, <2>3, <2>4, <2>5, WireMoved
<1>8. TypeOK'
  <2>1. began' \in 0 .. now' /\ startT' \in 0 .. ClockRange - 1
        /\ header'.left \in 0 .. CountRange - 1 /\ header'.size \in 0 .. Capacity
    BY <1>0, <1>1, SocketAssumption, CapacityFact DEF TypeOK, NoHeader
  <2>2. QED
    BY <1>0, <1>1, <2>1 DEF TypeOK, senderVars
<1>9. BytesInv' /\ SenderInv'
  <2>1. got' \in Seq(Bytes) /\ receivedData' \in Seq(Bytes) /\ stream' \in Seq(Bytes)
    BY <1>0, <1>1 DEF BytesInv
  <2>2. BytesInv'
    BY <1>6, <2>1 DEF BytesInv
  <2>3. SenderInv'
    BY <1>1 DEF SocketInv, SenderInv, senderVars
  <2>4. QED
    BY <2>2, <2>3
<1>10. TogetherInv' /\ ReadInv' /\ TimeInv'
  BY <1>1 DEF TogetherInv, ReadInv, TimeInv
<1>11. StepInv'
  <2>1. Message' = k + 1 /\ Passed' = 0
    BY <1>1, <1>6 DEF Message, Passed
  <2>2. m + 1 \in Int /\ (m + 1) - m = 1
    OBVIOUS
  <2>3. At((m + 1) - m, k + 1, 0)'
    BY <1>0, <1>3, <1>5, <2>2, AtMoved
  <2>4. At(1, k + 1, 0)'
    BY <2>2, <2>3
  <2>5. QED
    BY <1>1, <2>1, <2>4 DEF StepInv
<1>12. QED
  BY <1>7, <1>8, <1>9, <1>10, <1>11 DEF SocketInv

LEMMA StutterStep ==
  ASSUME SocketInv, UNCHANGED vars
  PROVE  SocketInv'
<1> USE DEF vars, senderVars, readVars, resultVars
<1>1. UNCHANGED vars
  OBVIOUS
<1>2. /\ now' = now /\ broken' = broken /\ stream' = stream /\ sent' = sent /\ s' = s
      /\ packetCount' = packetCount /\ receiver' = receiver /\ rpc' = rpc /\ got' = got
      /\ header' = header /\ receivedData' = receivedData /\ startT' = startT
      /\ began' = began /\ delivered' = delivered /\ failures' = failures
  BY <1>1
<1>3. TypeOK' /\ BytesInv' /\ SenderInv' /\ ReadInv' /\ TimeInv'
  BY <1>2 DEF SocketInv, TypeOK, BytesInv, SenderInv, ReadInv, TimeInv, ClientsClock
<1>4. WireStays /\ sent' \in Seq(Sizes) /\ Len(Wire') \in Nat
  <2>1. Wire' = Wire
    BY <1>2 DEF Wire
  <2>2. QED
    BY <1>2, <2>1, MovedNone, TypeFacts DEF SocketInv, WireStays
<1>5. MovedBy(0)
  BY <1>2, MovedNone, TypeFacts DEF SocketInv, Wire
<1>6. WireInv'
  <2>1. ~broken' => NextMessage <= IF s' > 0 THEN Len(sent') ELSE Len(sent') + 1
    BY <1>2 DEF SocketInv, WireInv
  <2>2. QED
    BY <1>2, <1>4, <1>5, <2>1, WireStill
<1>7. TogetherInv' /\ StepInv'
  BY <1>2, <1>4, ReceiverStays
<1>8. QED
  BY <1>3, <1>6, <1>7 DEF SocketInv

(* The packets on the wire are those sendData and replyToReceivedData cut  *)
(* the messages into, and the receiver is where it thinks it is in them:   *)
(* the inductive invariant, for every sequence of partial reads, time-outs *)
(* and failures.                                                           *)
THEOREM SocketInvariant == Spec => []SocketInv
<1>1. ASSUME SocketInv, [Next]_vars
      PROVE  SocketInv'
  <2>1. CASE \E size \in Sizes : BeginSend(size)
    BY <1>1, <2>1, BeginSendStep
  <2>2. CASE SendPacket
    BY <1>1, <2>2, SendPacketStep
  <2>3. CASE SendFails
    BY <1>1, <2>3, SendFailsStep
  <2>4. CASE BeginReceive
    BY <1>1, <2>4, BeginReceiveStep
  <2>5. CASE BeginHeader
    BY <1>1, <2>5, BeginHeaderStep
  <2>6. CASE ReadHeader
    BY <1>1, <2>6, ReadHeaderStep
  <2>7. CASE ReadPayload
    BY <1>1, <2>7, ReadPayloadStep
  <2>8. CASE ReadNothing
    BY <1>1, <2>8, ReadNothingStep
  <2>9. CASE CheckHeader
    BY <1>1, <2>9, CheckHeaderStep
  <2>10. CASE NextPacket
    BY <1>1, <2>10, NextPacketStep
  <2>11. CASE Return
    BY <1>1, <2>11, ReturnStep
  <2>12. CASE ReturnError
    BY <1>1, <2>12, ReturnErrorStep
  <2>13. CASE Break
    BY <1>1, <2>13, BreakStep
  <2>14. CASE Tick
    BY <1>1, <2>14, TickStep
  <2>15. CASE UNCHANGED vars
    BY <1>1, <2>15, StutterStep
  <2>16. QED
    BY <1>1, <2>1, <2>2, <2>3, <2>4, <2>5, <2>6, <2>7, <2>8, <2>9, <2>10, <2>11, <2>12,
       <2>13, <2>14, <2>15 DEF Next, Sender, Receiver
<1>2. QED
  BY InitSocket, <1>1, PTL DEF Spec

---------------------------------------------------------------------------
(* The theorems. *)

(* Types, the packet counter that agrees with the bytes left, and both     *)
(* fields of a header within what they can hold (socketOutConnection.cpp   *)
(* 63-91), for every size of packet, of message and of clock.              *)
THEOREM SocketTypeCorrect == Spec => []TypeOK
<1>1. SocketInv => TypeOK
  BY DEF SocketInv
<1>2. QED
  BY <1>1, SocketInvariant, PTL

(* A first receive that fails has a reason: the link was cut, the limit    *)
(* has passed since its loop began, or the client's clock was beyond its   *)
(* startT (socketOutConnection.cpp 154-186, socketInConnection.cpp).       *)
THEOREM NeverImpatient == Spec => Patient
<1> DEFINE Reason ==
      \/ broken
      \/ now - began > Limit
      \/ receiver = "out" /\ \E t \in began .. now : t % ClockRange >= CountRange
<1>1. ASSUME SocketInv, [Next]_vars, failures' > 0, failures = 0
      PROVE  Reason
  <2>1. failures' # failures
    BY <1>1
  <2>2. ReturnError
    BY <1>1, <2>1 DEF Next, Sender, Receiver, BeginSend, SendPacket, SendFails, Break, Tick,
       BeginReceive, BeginHeader, ReadHeader, ReadPayload, Recv, ReadNothing, CheckHeader,
       NextPacket, Return, resultVars, vars
  <2>3. rpc = "failed"
    BY <2>2 DEF ReturnError
  <2>4. broken \/ now - began > Limit \/ ClientsClock
    BY <1>1, <2>3 DEF SocketInv, TimeInv
  <2>5. QED
    BY <2>4 DEF ClientsClock
<1>2. ASSUME SocketInv, [Next]_vars
      PROVE  [failures' > 0 /\ failures = 0 => Reason]_vars
  BY <1>1, <1>2
<1>3. QED
  BY <1>2, SocketInvariant, PTL DEF Spec, Patient

(* The messages begun, as the connection's promise speaks of them. *)
MessagesOf(q) == [k \in 1 .. Len(q) |-> Payload(k, 0, q[k])]

LEMMA MessagesFacts ==
  ASSUME NEW q \in Seq(Sizes)
  PROVE  /\ MessagesOf(q) \in Seq(Seq(Bytes)) /\ Len(MessagesOf(q)) = Len(q)
         /\ \A k \in 1 .. Len(q) : MessagesOf(q)[k] = Payload(k, 0, q[k])
<1>1. Len(q) \in Nat
  OBVIOUS
<1>2. ASSUME NEW k \in 1 .. Len(q)
      PROVE  Payload(k, 0, q[k]) \in Seq(Bytes)
  <2>1. q[k] \in Nat
    BY ElementOfSeq, SocketAssumption
  <2>2. PICK n \in Nat : n = q[k] /\ 0 <= n /\ k \in Nat
    BY <2>1
  <2>3. Payload(k, 0, n) \in Seq(Bytes)
    BY <2>2, PayloadFacts
  <2>4. QED
    BY <2>2, <2>3
<1>3. QED
  BY <1>1, <1>2 DEF MessagesOf

(* The connection keeps its promise (MessageTransfer): every message whole,*)
(* once and in order until a receive fails, and after a failure the rest   *)
(* of a message at worst (sendData, receiveReplyData; replyToReceivedData, *)
(* receiveData).                                                           *)
THEOREM TransferKept == Spec => TransferSpec
<1> DEFINE Messages == MessagesOf(sent)
<1>1. ASSUME Init
      PROVE  Transfer!Init
  <2>1. sent = <<>> /\ failures = 0 /\ delivered = <<>>
    BY <1>1 DEF Init
  <2>2. Messages = <<>>
    <3>1. Len(<<>>) = 0
      OBVIOUS
    <3>2. QED
      BY <2>1, <3>1 DEF MessagesOf
  <2>3. QED
    BY <2>1, <2>2 DEF Transfer!Init, NextMessage, MessagesOf
<1>2. ASSUME SocketInv, [Next]_vars
      PROVE  [Transfer!Next]_(Transfer!transferVars)
  <2>0. sent \in Seq(Sizes) /\ Len(sent) \in Nat /\ failures \in Nat
    BY <1>2 DEF SocketInv, TypeOK
  <2>1. ASSUME NEW size \in Sizes, BeginSend(size)
        PROVE  Transfer!Send
    <3>1. /\ sent' = Append(sent, size) /\ UNCHANGED <<delivered, failures>>
          /\ NextMessage' = NextMessage
      BY <2>1 DEF BeginSend, resultVars, NextMessage
    <3>2. /\ sent' \in Seq(Sizes) /\ Len(sent') = Len(sent) + 1
          /\ \A k \in 1 .. Len(sent) : sent'[k] = sent[k]
      BY <2>0, <3>1, AppendProperties
    <3>3. /\ Messages \in Seq(Seq(Bytes)) /\ Len(Messages) = Len(sent)
          /\ \A k \in 1 .. Len(sent) : Messages[k] = Payload(k, 0, sent[k])
      BY <2>0, MessagesFacts
    <3>4. /\ Messages' \in Seq(Seq(Bytes)) /\ Len(Messages') = Len(sent')
          /\ \A k \in 1 .. Len(sent') : Messages'[k] = Payload(k, 0, sent'[k])
      BY <3>2, MessagesFacts
    <3>5. Messages = SubSeq(Messages', 1, Len(Messages))
      <4>1. /\ 1 \in Int /\ Len(Messages) \in Int /\ 1 <= 1 /\ 1 <= Len(Messages) + 1
            /\ Len(Messages) <= Len(Messages')
        BY <2>0, <3>2, <3>3, <3>4
      <4>2. /\ SubSeq(Messages', 1, Len(Messages)) \in Seq(Seq(Bytes))
            /\ Len(SubSeq(Messages', 1, Len(Messages))) = Len(Messages) - 1 + 1
            /\ \A i \in 1 .. Len(Messages) - 1 + 1 :
                 SubSeq(Messages', 1, Len(Messages))[i] = Messages'[1 + i - 1]
        BY <3>4, <4>1, PartFacts
      <4>3. /\ Len(Messages) - 1 + 1 = Len(Messages)
            /\ \A i \in 1 .. Len(Messages) : /\ 1 + i - 1 = i /\ i \in 1 .. Len(sent)
                                             /\ i \in 1 .. Len(sent')
        BY <2>0, <3>2, <3>3
      <4>4. /\ Len(SubSeq(Messages', 1, Len(Messages))) = Len(Messages)
            /\ \A i \in 1 .. Len(Messages) :
                 SubSeq(Messages', 1, Len(Messages))[i] = Messages[i]
        BY <3>2, <3>3, <3>4, <4>2, <4>3
      <4>5. QED
        BY <3>3, <4>2, <4>4, SeqEqual
    <3>6. Len(Messages') = Len(Messages) + 1
      BY <3>2, <3>3, <3>4
    <3>7. QED
      BY <3>1, <3>5, <3>6 DEF Transfer!Send, MessagesOf
  <2>2. ASSUME Return
        PROVE  Transfer!Deliver
    <3>1. PICK k \in Nat, a \in Nat, e \in Nat, m \in Nat :
            Together(k, a, e, m) /\ Returned(k, a, e)
      BY <1>2, <2>2, MessageReturned
    <3>2. /\ k \in NextMessage .. Len(sent) /\ a < e /\ e = sent[k] /\ k \in 1 .. Len(sent)
          /\ delivered' = Append(delivered, Payload(k, a, e)) /\ NextMessage' = k + 1
          /\ failures = 0 => k = NextMessage /\ a = 0
      <4>1. NextMessage \in Nat
        BY <1>2, TypeFacts DEF SocketInv
      <4>2. QED
        BY <2>0, <3>1, <4>1 DEF Together, Returned
    <3>3. UNCHANGED <<sent, failures>>
      BY <2>2 DEF Return, senderVars
    <3>4. /\ Len(Messages) = Len(sent) /\ Messages[k] = Payload(k, 0, e)
      BY <2>0, <3>2, MessagesFacts
    <3>5. SubSeq(Messages[k], a + 1, Len(Messages[k])) = Payload(k, a, e)
      <4>1. SubSeq(Payload(k, 0, e), a + 1, Len(Payload(k, 0, e))) = Payload(k, a, e)
        BY <3>2, PayloadRest
      <4>2. QED
        BY <3>4, <4>1, Zenon
    <3>6. Len(Messages[k]) = e
      <4>1. 0 <= e /\ e - 0 = e
        OBVIOUS
      <4>2. Len(Payload(k, 0, e)) = e - 0
        BY <4>1, PayloadFacts
      <4>3. QED
        BY <3>4, <4>1, <4>2
    <3>7. a \in 0 .. Len(Messages[k]) - 1 /\ k \in NextMessage .. Len(Messages)
      BY <3>2, <3>4, <3>6
    <3>8. delivered' = Append(delivered, Transfer!DropFirst(a, Messages[k]))
      BY <3>2, <3>5 DEF Transfer!DropFirst
    <3>9. UNCHANGED <<Messages, failures>> /\ (~(failures > 0) => k = NextMessage /\ a = 0)
      BY <2>0, <3>2, <3>3 DEF MessagesOf
    <3>10. QED
      BY <3>2, <3>7, <3>8, <3>9 DEF Transfer!Deliver, MessagesOf
  <2>3. ASSUME ReturnError
        PROVE  Transfer!Fail
    <3>1. UNCHANGED <<sent, delivered>> /\ failures' > 0 /\ NextMessage' = NextMessage
      BY <2>0, <2>3 DEF ReturnError, senderVars, NextMessage
    <3>2. QED
      BY <3>1 DEF Transfer!Fail
  <2>4. ASSUME UNCHANGED <<sent, resultVars>>
        PROVE  UNCHANGED Transfer!transferVars
    BY <2>4 DEF resultVars, Transfer!transferVars, NextMessage
  <2>5. \/ \E size \in Sizes : BeginSend(size)
        \/ Return \/ ReturnError
        \/ UNCHANGED <<sent, resultVars>>
    BY <1>2 DEF Next, Sender, Receiver, SendPacket, SendFails, Break, Tick, BeginReceive,
       BeginHeader, ReadHeader, ReadPayload, Recv, ReadNothing, CheckHeader, NextPacket,
       senderVars, resultVars, vars
  <2>6. QED
    BY <2>1, <2>2, <2>3, <2>4, <2>5 DEF Transfer!Next
<1>3. QED
  BY <1>1, <1>2, SocketInvariant, PTL DEF Spec, TransferSpec, Transfer!Spec

=============================================================================
