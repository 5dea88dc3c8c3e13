-------------------------- MODULE SocketConnection --------------------------
(***************************************************************************)
(* coppelia/common/socketOutConnection.cpp and socketInConnection.cpp: one *)
(* direction of a connection.  The sender cuts a message into packets, the *)
(* receiver reads the stream piece by piece and puts them together again.  *)
(* The two classes send alike; they differ in how the receiver keeps time, *)
(* so `receiver' says which of them receives: "in" is receiveData of the   *)
(* server, "out" is receiveReplyData of the client.                        *)
(*                                                                         *)
(* The stream is TCP: nothing is lost, doubled or reordered until the link *)
(* breaks, but what one send() put in may come out in any pieces.  A byte  *)
(* of the stream is a record that says what it is and of which message,    *)
(* which no receiver looks at; that payload bytes might look like a header *)
(* to a receiver out of step is not modelled.                              *)
(***************************************************************************)
EXTENDS Naturals, Sequences

CONSTANTS
  HeaderLength,   \* HEADER_LENGTH, 6 in the code
  MaxPacketSize,  \* _maxPacketSize, 250 by default
  CountRange,     \* values of an unsigned short, 2^16 in the code
  ClockRange,     \* values of _getTimeInMs, 2^26 in the code
  Limit,          \* milliseconds until a read is given up, 3000
  Receivers,      \* which classes may be at the receiving end
  Sizes,          \* sizes of the messages sent
  MaxMessages,    \* bound: messages sent
  MaxFailures,    \* bound: receives that fail and are tried again
  MaxTime         \* bound: the time at which the clock stops

Capacity == MaxPacketSize - HeaderLength

(* Packets of a message of `size' bytes: what the counting loop computes. *)
Packets(size) == (size + Capacity - 1) \div Capacity

ASSUME SocketAssumption ==
  /\ HeaderLength \in Nat \ {0, 1}
  /\ MaxPacketSize \in Nat /\ MaxPacketSize > HeaderLength
  /\ CountRange \in Nat \ {0} /\ ClockRange \in Nat \ {0} /\ Limit \in Nat
  /\ Receivers \subseteq {"in", "out"}
  /\ Sizes \subseteq Nat \ {0}
  /\ \A size \in Sizes : Packets(size) <= CountRange
  /\ MaxMessages \in Nat /\ MaxFailures \in Nat /\ MaxTime \in Nat

VARIABLES
  now,          \* real time
  broken,       \* has the link been cut?
  stream,       \* the bytes under way
  sent,         \* sizes of the messages begun so far
  s,            \* bytes of the last one still to send
  packetCount,  \* packets of it still to send
  receiver,     \* the class that receives
  rpc,          \* where it is
  got,          \* bytes of the header or of the payload read so far
  header,       \* the packet's header, once it is read
  receivedData, \* the message as far as it is put together
  startT,       \* the clock when the reading loop began
  began,        \* the time when it began
  delivered,    \* the messages returned
  failures      \* receives that returned an error

senderVars == <<sent, s, packetCount>>
readVars == <<got, header, receivedData, startT, began>>
resultVars == <<delivered, failures>>
vars == <<now, broken, stream, senderVars, receiver, rpc, readVars, resultVars>>

---------------------------------------------------------------------------
(* Bytes *)

(* The packet whose payload is the `size' bytes of message k after `from'. *)
HeaderBytes(k, from, size, left) ==
  [i \in 1 .. HeaderLength |->
     [part |-> "header", at |-> i, size |-> size, left |-> left,
      msg |-> k, from |-> from]]

Payload(k, from, to) ==
  [i \in 1 .. to - from |-> [part |-> "payload", msg |-> k, at |-> from + i]]

Shortest(a, b) == IF a < b THEN a ELSE b

NoHeader == [size |-> 0, left |-> 0]

Init ==
  /\ now \in 0 .. Shortest(ClockRange - 1, MaxTime)
  /\ broken = FALSE /\ stream = <<>>
  /\ sent = <<>> /\ s = 0 /\ packetCount = 0
  /\ receiver \in Receivers
  /\ rpc = "idle" /\ got = <<>> /\ header = NoHeader /\ receivedData = <<>>
  /\ startT = 0 /\ began = 0
  /\ delivered = <<>> /\ failures = 0

---------------------------------------------------------------------------
(* Sending *)

BeginSend(size) ==
  /\ s = 0
  /\ Len(sent) < MaxMessages
  /\ sent' = Append(sent, size)
  /\ s' = size
  /\ packetCount' = Packets(size)
  /\ UNCHANGED <<now, broken, stream, receiver, rpc, readVars, resultVars>>

(* Faulty: counts the packet it is sending among those left. *)
CountsItself == packetCount % CountRange

(* The packets left after this one, as the header can hold them. *)
PacketsLeft == (packetCount - 1) % CountRange

(* The bytes of the message sent so far. *)
ptr == sent[Len(sent)] - s

(* Faulty: sends the message from its start each time. *)
AlwaysFirst(size) == Payload(Len(sent), 0, size)

(* The next `size' bytes of the message. *)
NextBytes(size) == Payload(Len(sent), ptr, ptr + size)

SendPacket ==
  /\ s > 0
  /\ ~broken
  /\ LET size == Shortest(s, Capacity)
     IN  /\ stream' = stream \o HeaderBytes(Len(sent), ptr, size, PacketsLeft)
                            \o NextBytes(size)
         /\ s' = s - size
  /\ packetCount' = packetCount - 1
  /\ UNCHANGED <<now, broken, sent, receiver, rpc, readVars, resultVars>>

(* send() takes less than the packet: false is returned at once. *)
SendFails ==
  /\ s > 0
  /\ broken
  /\ s' = 0
  /\ packetCount' = 0
  /\ UNCHANGED <<now, broken, stream, sent, receiver, rpc, readVars, resultVars>>

(* The link is cut, with some of what is under way. *)
Break ==
  /\ ~broken
  /\ broken' = TRUE
  /\ \E n \in 0 .. Len(stream) : stream' = SubSeq(stream, 1, n)
  /\ UNCHANGED <<now, senderVars, receiver, rpc, readVars, resultVars>>

---------------------------------------------------------------------------
(* Keeping time *)

Tick ==
  /\ now < MaxTime
  /\ now' = now + 1
  /\ UNCHANGED <<broken, stream, senderVars, receiver, rpc, readVars, resultVars>>

(* Faulty: the time as it is. *)
Unmasked == now

(* _getTimeInMs: the time modulo 2^26. *)
Clock == now % ClockRange

(* startT of the client is an unsigned short. *)
StartTime == IF receiver = "out" THEN Clock % CountRange ELSE Clock

(* _getTimeDiffInMs: one short when the clock has wrapped. *)
TimeDiff ==
  IF Clock < startT THEN Clock + ClockRange - 1 - startT ELSE Clock - startT

(* Faulty: gives up when the limit is reached. *)
TimedOutAtLimit == TimeDiff >= Limit

TimedOut == TimeDiff > Limit

---------------------------------------------------------------------------
(* Receiving *)

BeginReceive ==
  /\ rpc = "idle"
  /\ failures < MaxFailures
  /\ rpc' = "packet"
  /\ UNCHANGED <<now, broken, stream, senderVars, receiver, readVars, resultVars>>

(* The server waits in select(), without a limit, before it takes the      *)
(* time; the client takes the time and waits in recv().                    *)
BeginHeader ==
  /\ rpc = "packet"
  /\ receiver = "in" => stream # <<>> \/ broken
  /\ rpc' = "header"
  /\ startT' = StartTime
  /\ began' = now
  /\ UNCHANGED <<now, broken, stream, senderVars, receiver, got, header,
                 receivedData, resultVars>>

(* One turn of a reading loop: recv() returns some of the bytes there are, *)
(* at most as many as are missing of `length'.  The loop ends when none    *)
(* are missing, or when time is up.                                        *)
Recv(length, complete) ==
  /\ \E n \in 1 .. Shortest(Len(stream), length - Len(got)) :
       /\ got' = got \o SubSeq(stream, 1, n)
       /\ stream' = SubSeq(stream, n + 1, Len(stream))
  /\ rpc' = CASE Len(got') = length -> complete
              [] Len(got') # length /\ TimedOut -> "failed"
              [] OTHER -> rpc
  /\ UNCHANGED <<now, broken, senderVars, receiver, header, receivedData,
                 startT, began, resultVars>>

ReadHeader == rpc = "header" /\ Recv(HeaderLength, "check")

ReadPayload == rpc = "payload" /\ Recv(header.size, "join")

(* recv() returns 0 or -1. *)
ReadNothing ==
  /\ rpc \in {"header", "payload"}
  /\ broken /\ stream = <<>>
  /\ rpc' = "failed"
  /\ UNCHANGED <<now, broken, stream, senderVars, receiver, readVars, resultVars>>

(* The two identification bytes are where they should be. *)
IsHeader(bytes) == \A i \in 1 .. 2 : bytes[i].part = "header" /\ bytes[i].at = i

CheckHeader ==
  /\ rpc = "check"
  /\ IF IsHeader(got)
     THEN /\ header' = [size |-> got[1].size, left |-> got[1].left]
          /\ got' = <<>>
          /\ startT' = StartTime
          /\ began' = now
          /\ rpc' = "payload"
     ELSE /\ rpc' = "failed"
          /\ UNCHANGED <<header, got, startT, began>>
  /\ UNCHANGED <<now, broken, stream, senderVars, receiver, receivedData,
                 resultVars>>

(* The packet is added to the message; another one follows. *)
NextPacket ==
  /\ rpc = "join"
  /\ header.left # 0
  /\ receivedData' = receivedData \o got
  /\ got' = <<>>
  /\ rpc' = "packet"
  /\ UNCHANGED <<now, broken, stream, senderVars, receiver, header, startT,
                 began, resultVars>>

Forget ==
  /\ got' = <<>> /\ header' = NoHeader /\ receivedData' = <<>>
  /\ startT' = 0 /\ began' = 0

Return ==
  /\ rpc = "join"
  /\ header.left = 0
  /\ delivered' = Append(delivered, receivedData \o got)
  /\ Forget
  /\ rpc' = "idle"
  /\ UNCHANGED <<now, broken, stream, senderVars, receiver, failures>>

(* The receive returns NULL; what it has read is gone, what it has not is  *)
(* still in the stream.                                                    *)
ReturnError ==
  /\ rpc = "failed"
  /\ failures' = failures + 1
  /\ Forget
  /\ rpc' = "idle"
  /\ UNCHANGED <<now, broken, stream, senderVars, receiver, delivered>>

Sender == SendPacket \/ SendFails

Receiver ==
  BeginReceive \/ BeginHeader \/ ReadHeader \/ ReadPayload \/ ReadNothing
    \/ CheckHeader \/ NextPacket \/ Return \/ ReturnError

Next ==
  (\E size \in Sizes : BeginSend(size)) \/ Sender \/ Receiver \/ Break \/ Tick

Spec == Init /\ [][Next]_vars

(* Both ends keep going: sendData is a loop, and the receiver is called    *)
(* for every message.  Neither time nor the link owes anything.            *)
LiveSpec == Spec /\ WF_vars(Sender) /\ WF_vars(Receiver)

---------------------------------------------------------------------------
(* Properties *)

TypeOK ==
  /\ now \in 0 .. MaxTime /\ began \in 0 .. now
  /\ broken \in BOOLEAN
  /\ sent \in Seq(Sizes) /\ Len(sent) <= MaxMessages
  /\ s \in Nat /\ packetCount = Packets(s)
  /\ receiver \in Receivers
  /\ rpc \in {"idle", "packet", "header", "check", "payload", "join", "failed"}
  /\ header.left \in 0 .. CountRange - 1 /\ header.size \in 0 .. Capacity
  /\ startT \in 0 .. ClockRange - 1
  /\ failures \in 0 .. MaxFailures

(* Every message arrives whole, once and in order until a receive fails;   *)
(* a receiver that tries again after a failure may get the rest of a       *)
(* message in place of the message, never a mix of two and never an older  *)
(* one (sendData, receiveReplyData; replyToReceivedData, receiveData).     *)
NextMessage ==
  IF delivered = <<>> THEN 1 ELSE delivered[Len(delivered)][1].msg + 1
Transfer == INSTANCE MessageTransfer WITH
  sent <- [k \in 1 .. Len(sent) |-> Payload(k, 0, sent[k])],
  next <- NextMessage,
  failed <- failures > 0
TransferSpec == Transfer!Spec

(* A first receive fails only when the link was cut or more than the limit *)
(* has passed since the loop that gave up began, also across a wrap of the *)
(* clock.  The one exception is the client's: once the clock is beyond     *)
(* what its unsigned short startT can hold (socketOutConnection.cpp:154),  *)
(* it gives up whenever a read takes two calls of recv.                    *)
Patient ==
  [][failures' > 0 /\ failures = 0 =>
       \/ broken
       \/ now - began > Limit
       \/ /\ receiver = "out"
          /\ \E t \in began .. now : t % ClockRange >= CountRange]_vars

(* A message sent arrives, or the receiver is told: the count of packets   *)
(* comes to its end with the message (socketOutConnection.cpp:63-91).      *)
Arrives ==
  \A k \in 1 .. MaxMessages :
    Len(sent) >= k ~> (Len(delivered) >= k \/ failures > 0 \/ broken)

---------------------------------------------------------------------------
(* What is invariant besides and makes the above inductive; see            *)
(* SocketConnection_proofs.tla.                                            *)

(* What the sender has counted is what is left of its message. *)
SenderInv ==
  /\ s > 0 => sent # <<>> /\ s <= sent[Len(sent)]
  /\ packetCount = Packets(s)

Bytes ==
  [part : {"header"}, at : Nat, size : Nat, left : Nat, msg : Nat, from : Nat]
    \cup [part : {"payload"}, msg : Nat, at : Nat]
BytesInv ==
  /\ {got, stream, receivedData} \subseteq Seq(Bytes)
  /\ delivered \in Seq(Seq(Bytes) \ {<<>>})

(* What the receiver has not put into the message yet, and what is under   *)
(* way behind it.                                                          *)
Wire == got \o stream

(* Byte d of the packet that begins with what follows byte o of message k. *)
PayloadSize(k, o) == Shortest(sent[k] - o, Capacity)
PacketLength(k, o) == HeaderLength + PayloadSize(k, o)
PacketByte(k, o, d) ==
  IF d <= HeaderLength
  THEN [part |-> "header", at |-> d, size |-> PayloadSize(k, o),
        left |-> Packets(sent[k] - o) - 1, msg |-> k, from |-> o]
  ELSE [part |-> "payload", msg |-> k, at |-> o + d - HeaderLength]

IsPlace(k, o) == k \in 1 .. Len(sent) /\ o \in 0 .. sent[k] - 1

(* The sender's next packet is that one. *)
SenderAt(k, o) ==
  IF s > 0 THEN k = Len(sent) /\ o = ptr ELSE k = Len(sent) + 1 /\ o = 0

(* That packet begins at place i of the wire, or will when it is sent. *)
At(i, k, o) ==
  /\ i \in 1 .. Len(Wire) => IsPlace(k, o) /\ Wire[i] = PacketByte(k, o, 1)
  /\ i = Len(Wire) + 1 /\ ~broken => SenderAt(k, o)

(* What follows after that packet is at place i. *)
NextAt(i, k, o) ==
  IF o + PayloadSize(k, o) < sent[k]
  THEN At(i, k, o + PayloadSize(k, o))
  ELSE At(i, k + 1, 0)

(* The packet is on the wire, from place i on, as far as i is on it and    *)
(* up to the end unless the link was cut.                                  *)
Whole(i, k, o) ==
  /\ IsPlace(k, o)
  /\ \A d \in 1 .. PacketLength(k, o) :
       i + d - 1 \in 1 .. Len(Wire) => Wire[i + d - 1] = PacketByte(k, o, d)
  /\ NextAt(i + PacketLength(k, o), k, o)
  /\ ~broken => i + PacketLength(k, o) - 1 <= Len(Wire)

IsStart(b) == b.part = "header" /\ b.at = 1

(* Every packet that begins on the wire is there as it was sent, with the  *)
(* next one behind it, and none of a message delivered already.            *)
WireInv ==
  /\ \A i \in 1 .. Len(Wire) :
       /\ Wire[i].msg \in NextMessage .. Len(sent)
       /\ IsStart(Wire[i]) => Whole(i, Wire[i].msg, Wire[i].from)
       /\ \A j \in i .. Len(Wire) : Wire[i].msg <= Wire[j].msg
  /\ ~broken => NextMessage <= IF s > 0 THEN Len(sent) ELSE Len(sent) + 1

(* The message the receiver is at, and how much of it has gone by. *)
Message == IF receivedData = <<>> THEN NextMessage ELSE receivedData[1].msg
Passed ==
  IF receivedData = <<>> THEN 0 ELSE receivedData[1].at - 1 + Len(receivedData)
InStep == failures = 0 \/ receivedData # <<>>

(* The message is put together of adjacent parts, from the beginning if    *)
(* nothing has failed.                                                     *)
TogetherInv ==
  receivedData # <<>> =>
    /\ IsPlace(Message, Passed) /\ Message >= NextMessage
    /\ Len(receivedData) <= Passed
    /\ receivedData = Payload(Message, Passed - Len(receivedData), Passed)
    /\ failures = 0 => Message = NextMessage /\ Len(receivedData) = Passed

(* The packet the receiver has the header of, or is in step to get next,   *)
(* is the next of the message.                                             *)
StepInv ==
  /\ rpc \in {"idle", "packet", "header", "check"} /\ InStep =>
       At(1, Message, Passed)
  /\ rpc \in {"payload", "join"} =>
       \E k \in NextMessage .. Len(sent) : \E o \in 0 .. sent[k] - 1 :
         /\ InStep => k = Message /\ o = Passed
         /\ header = [size |-> PayloadSize(k, o), left |-> Packets(sent[k] - o) - 1]
         /\ Whole(1 - HeaderLength, k, o)

(* How much of the header or of the payload is there. *)
ReadInv ==
  /\ rpc \in {"idle", "packet"} => got = <<>>
  /\ rpc = "header" => Len(got) < HeaderLength
  /\ rpc = "check" => Len(got) = HeaderLength
  /\ rpc = "payload" => Len(got) < header.size
  /\ rpc = "join" => Len(got) = header.size
  /\ rpc = "idle" => receivedData = <<>>
  /\ rpc # "idle" => failures < MaxFailures

(* The receiver's startT is the clock's when its loop began, and the first *)
(* failure had a reason.                                                   *)
ClientsClock ==
  receiver = "out" /\ \E t \in began .. now : t % ClockRange >= CountRange
TimeInv ==
  /\ rpc \in {"header", "payload"} =>
       \/ startT = began % ClockRange
       \/ receiver = "out" /\ began % ClockRange >= CountRange
  /\ rpc = "failed" /\ failures = 0 =>
       broken \/ now - began > Limit \/ ClientsClock

===========================================================================
