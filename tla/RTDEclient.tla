---------------------------- MODULE RTDEclient ----------------------------
(***************************************************************************)
(* src/RTDEclient.cpp: the object that owns the two RTDE interfaces, the   *)
(* communication thread that keeps the telemetry queues fresh and drains   *)
(* the queue of digital outputs to set, and the methods the CoppeliaSim    *)
(* thread calls to start and to stop it.                                   *)
(*                                                                         *)
(* Two kinds of threads take steps here.  The communication threads run    *)
(* RTDEclient::run, one per successful construction of both interfaces;    *)
(* `wpc' holds where each one is.  The CoppeliaSim thread runs the         *)
(* callbacks of SimExtRTDE.tla; `main' holds where it is, and the steps of *)
(* RTDEconnect and RTDEdisconnect that can interleave with a communication *)
(* thread are actions of this module.                                      *)
(*                                                                         *)
(* A call through m_ircv or m_iio takes two steps: LoadInterface reads the *)
(* unique_ptr, a second step is the call's return.  Between the two the    *)
(* CoppeliaSim thread may destroy the object.  Calling through a null      *)
(* pointer or returning into a destroyed object is undefined behaviour     *)
(* that ends the process in practice; `fault' records it and nothing moves *)
(* afterwards.                                                             *)
(*                                                                         *)
(* The robot's outputs belong to the robot: its programs and its operator  *)
(* set and clear them, whatever the plugin does.  A state of an output is  *)
(* named by the number of changes before it, and the odd ones are high, so *)
(* that a stale state differs from a later one with the same signal.       *)
(***************************************************************************)
EXTENDS Naturals, Sequences, ConcurrentQueues

CONSTANTS
  BufferSize,   \* RTDEInterface::buffer_size, 5 in the code
  NIO,          \* digital outputs per snapshot, 8 in the code
  ByteRange,    \* values of a uint8_t, 256 in the code
  MaxConnects,  \* bound: calls of RTDEconnect in a behaviour
  MaxMoves,     \* bound: joint vectors received after the first
  MaxChanges,   \* bound: a robot program leaves an output in this state
  LinkMayDrop   \* may the connection to the robot be lost?

ASSUME SizeAssumption ==
  /\ BufferSize \in Nat \ {0, 1}
  /\ NIO \in Nat
  /\ ByteRange \in Nat \ {0}
  /\ NIO <= ByteRange

ASSUME BoundAssumption ==
  /\ MaxConnects \in Nat
  /\ MaxMoves \in Nat
  /\ MaxChanges \in Nat
  /\ LinkMayDrop \in BOOLEAN

Null == 0                     \* an empty unique_ptr or future
Sessions == 1 .. MaxConnects  \* calls of RTDEconnect; names what each creates
Pins == 0 .. NIO - 1
Bytes == 0 .. ByteRange - 1
Positions == 0 .. MaxMoves    \* joint vectors, numbered in the order taken

(* States of an output, numbered in the order it takes them.  The plugin   *)
(* may add a last one to those of the robot's programs, by driving it.     *)
High(state) == state % 2 = 1
OutStates ==
  {state \in 0 .. MaxChanges + 1 : state <= MaxChanges \/ High(state)}

VARIABLES
  m_alive,                  \* the flag that keeps run() looping
  m_ircv,                   \* the session whose RTDEReceiveInterface is held
  m_iio,                    \* the session whose RTDEIOInterface is held
  m_thr,                    \* the session whose thread the future stands for
  current_joint_positions,  \* telemetry: joint vectors, newest last
  current_io,               \* telemetry: output snapshots, newest last
  target_io,                \* outputs the script asked for, newest last
  wpc,                      \* where each communication thread is in run()
  wobj,                     \* the interface object it is calling, or Null
  wq,                       \* its local q
  wio,                      \* its local io, as far as it is filled
  wpin,                     \* the argument it took from target_io
  attempts,                 \* calls of RTDEconnect so far
  up,                       \* m_ircv->isConnected()
  now,                      \* the newest joint vector m_ircv has received
  seen,                     \* the digital outputs m_ircv has received
  out,                      \* the robot's digital outputs, as they are
  main,                     \* where the CoppeliaSim thread is
  fault                     \* first undefined behaviour reached, or "none"

clientVars == <<m_alive, m_ircv, m_iio, m_thr, attempts>>
telemetryVars == <<current_joint_positions, current_io>>
localVars == <<wq, wio, wpin>>
robotVars == <<up, now, seen, out>>

---------------------------------------------------------------------------
(* The communication thread *)

Live(w) == wpc[w] \notin {"off", "done"}
LiveWorkers == {w \in Sessions : Live(w)}

ReceiveCalls == {"isConnected", "getActualQ", "getDigitalOutState"}
IOCalls == {"target_back", "setStandardDigitalOut"}

Goto(w, label) == wpc' = [wpc EXCEPT ![w] = label]

(* `while (m_alive)' of run(). *)
CheckAlive(w) ==
  /\ wpc[w] = "while_alive"
  /\ Goto(w, IF m_alive THEN "isConnected" ELSE "done")
  /\ UNCHANGED <<clientVars, telemetryVars, target_io, wobj, localVars,
                 robotVars, main, fault>>

(* The unique_ptr behind the call w is about to make.  m_iio is read       *)
(* before or after the argument target_io.back() is evaluated, as the      *)
(* compiler likes: at "target_back" it may be loaded already.              *)
Pointer(w) == IF wpc[w] \in IOCalls THEN m_iio ELSE m_ircv

LoadInterface(w) ==
  /\ wpc[w] \in ReceiveCalls \cup IOCalls
  /\ wpc[w] = "getDigitalOutState" => Len(wio[w]) < NIO
  /\ wobj[w] = Null
  /\ wobj' = [wobj EXCEPT ![w] = Pointer(w)]
  /\ fault' = IF Pointer(w) = Null THEN "null" ELSE fault
  /\ UNCHANGED <<clientVars, telemetryVars, target_io, wpc, localVars,
                 robotVars, main>>

(* The object was destroyed while w was inside one of its methods, or      *)
(* about to enter it.                                                      *)
DanglingReturn(w) ==
  /\ wpc[w] \in ReceiveCalls \cup {"setStandardDigitalOut"}
  /\ wobj[w] \notin {Null, Pointer(w)}
  /\ fault' = "dangling"
  /\ UNCHANGED <<clientVars, telemetryVars, target_io, wpc, wobj, localVars,
                 robotVars, main>>

(* The call w makes at `label' returns from a living object. *)
Returns(w, label) ==
  /\ wpc[w] = label
  /\ wobj[w] # Null
  /\ wobj[w] = Pointer(w)
  /\ wobj' = [wobj EXCEPT ![w] = Null]

IsConnected(w) ==
  /\ Returns(w, "isConnected")
  /\ Goto(w, IF up THEN "getActualQ" ELSE "stop")
  /\ UNCHANGED <<clientVars, telemetryVars, target_io, localVars, robotVars,
                 main, fault>>

(* Faulty: forgets to clear the flag. *)
KeepsFlag(w) ==
  /\ wpc[w] = "stop"
  /\ Goto(w, "while_alive")
  /\ UNCHANGED <<clientVars, telemetryVars, target_io, wobj, localVars,
                 robotVars, main, fault>>

(* The else branch: the link is gone, m_alive = false. *)
StopSelf(w) ==
  /\ wpc[w] = "stop"
  /\ m_alive' = FALSE
  /\ Goto(w, "while_alive")
  /\ UNCHANGED <<m_ircv, m_iio, m_thr, attempts, telemetryVars, target_io,
                 wobj, localVars, robotVars, main, fault>>

GetActualQ(w) ==
  /\ Returns(w, "getActualQ")
  /\ wq' = [wq EXCEPT ![w] = now]
  /\ Goto(w, "joints_push")
  /\ UNCHANGED <<clientVars, telemetryVars, target_io, wio, wpin, robotVars,
                 main, fault>>

PushJoints(w) ==
  /\ wpc[w] = "joints_push"
  /\ current_joint_positions' = PushBack(current_joint_positions, wq[w])
  /\ wq' = [wq EXCEPT ![w] = 0]
  /\ Goto(w, "joints_size")
  /\ UNCHANGED <<clientVars, current_io, target_io, wobj, wio, wpin,
                 robotVars, main, fault>>

(* Faulty: keeps one entry too many; `>=' in place of `>'. *)
TrimsLate(q) == Len(q) > BufferSize + 1
TrimsAtSize(q) == Len(q) >= BufferSize

(* `size() > buffer_size', one call; the pop_front it decides on is       *)
(* another, and a second thread may come in between.                       *)
TooLong(q) == Len(q) > BufferSize

CheckJointsSize(w) ==
  /\ wpc[w] = "joints_size"
  /\ Goto(w, IF TooLong(current_joint_positions)
             THEN "joints_pop" ELSE "getDigitalOutState")
  /\ UNCHANGED <<clientVars, telemetryVars, target_io, wobj, localVars,
                 robotVars, main, fault>>

PopJoints(w) ==
  /\ wpc[w] = "joints_pop"
  /\ ~IsEmpty(current_joint_positions)
  /\ current_joint_positions' = PopFront(current_joint_positions)
  /\ Goto(w, "joints_size")
  /\ UNCHANGED <<clientVars, current_io, target_io, wobj, localVars,
                 robotVars, main, fault>>

(* Faulty: off by one in the output it asks for. *)
ReadsNextOutput(w) ==
  /\ Len(wio[w]) < NIO
  /\ Returns(w, "getDigitalOutState")
  /\ wio' = [wio EXCEPT ![w] = Append(@, seen[(Len(@) + 1) % NIO])]
  /\ UNCHANGED <<clientVars, telemetryVars, target_io, wpc, wq, wpin,
                 robotVars, main, fault>>

(* One turn of the loop over the outputs; each is a call of its own. *)
GetDigitalOutState(w) ==
  /\ Len(wio[w]) < NIO
  /\ Returns(w, "getDigitalOutState")
  /\ wio' = [wio EXCEPT ![w] = Append(@, seen[Len(@)])]
  /\ UNCHANGED <<clientVars, telemetryVars, target_io, wpc, wq, wpin,
                 robotVars, main, fault>>

PushIO(w) ==
  /\ wpc[w] = "getDigitalOutState"
  /\ wobj[w] = Null
  /\ Len(wio[w]) = NIO
  /\ current_io' = PushBack(current_io, wio[w])
  /\ wio' = [wio EXCEPT ![w] = <<>>]
  /\ Goto(w, "io_size")
  /\ UNCHANGED <<clientVars, current_joint_positions, target_io, wobj, wq,
                 wpin, robotVars, main, fault>>

CheckIOSize(w) ==
  /\ wpc[w] = "io_size"
  /\ Goto(w, IF TooLong(current_io) THEN "io_pop" ELSE "target_empty")
  /\ UNCHANGED <<clientVars, telemetryVars, target_io, wobj, localVars,
                 robotVars, main, fault>>

PopIO(w) ==
  /\ wpc[w] = "io_pop"
  /\ ~IsEmpty(current_io)
  /\ current_io' = PopFront(current_io)
  /\ Goto(w, "io_size")
  /\ UNCHANGED <<clientVars, current_joint_positions, target_io, wobj,
                 localVars, robotVars, main, fault>>

(* Faulty: do-while in place of while. *)
DrainsBlindly(w) ==
  /\ wpc[w] = "target_empty"
  /\ Goto(w, "target_back")
  /\ UNCHANGED <<clientVars, telemetryVars, target_io, wobj, localVars,
                 robotVars, main, fault>>

CheckTargets(w) ==
  /\ wpc[w] = "target_empty"
  /\ Goto(w, IF IsEmpty(target_io) THEN "while_alive" ELSE "target_back")
  /\ UNCHANGED <<clientVars, telemetryVars, target_io, wobj, localVars,
                 robotVars, main, fault>>

(* target_io.back(), narrowed to the uint8_t the io interface takes. *)
ReadTarget(w) ==
  /\ wpc[w] = "target_back"
  /\ IF IsEmpty(target_io)
     THEN fault' = "empty_back" /\ UNCHANGED <<wpc, wpin>>
     ELSE /\ wpin' = [wpin EXCEPT ![w] = Back(target_io)]
          /\ Goto(w, "setStandardDigitalOut")
          /\ UNCHANGED fault
  /\ UNCHANGED <<clientVars, telemetryVars, target_io, wobj, wq, wio,
                 robotVars, main>>

(* Outputs after setStandardDigitalOut(pin, true): one that is high stays  *)
(* as it is, and a pin the robot does not have leaves all as they were.    *)
Driven(pin) ==
  [p \in Pins |-> IF p = pin /\ ~High(out[p]) THEN out[p] + 1 ELSE out[p]]

(* The result is ignored: a command lost with the link is popped as well.  *)
SetStandardDigitalOut(w) ==
  /\ Returns(w, "setStandardDigitalOut")
  /\ \/ out' = Driven(wpin[w])
     \/ ~up /\ UNCHANGED out
  /\ Goto(w, "target_pop")
  /\ UNCHANGED <<clientVars, telemetryVars, target_io, localVars, up, now,
                 seen, main, fault>>

(* Faulty: the request stays in the queue. *)
ForgetsPop(w) ==
  /\ wpc[w] = "target_pop"
  /\ Goto(w, "target_empty")
  /\ UNCHANGED <<clientVars, telemetryVars, target_io, wobj, localVars,
                 robotVars, main, fault>>

PopTarget(w) ==
  /\ wpc[w] = "target_pop"
  /\ IF IsEmpty(target_io)
     THEN fault' = "empty_pop" /\ UNCHANGED <<target_io, wpc, wpin>>
     ELSE /\ target_io' = PopBack(target_io)
          /\ wpin' = [wpin EXCEPT ![w] = 0]
          /\ Goto(w, "target_empty")
          /\ UNCHANGED fault
  /\ UNCHANGED <<clientVars, telemetryVars, wobj, wq, wio, robotVars, main>>

(* The next thing w does is to call a queue through m_rtde. *)
QueueCalls == {"joints_push", "joints_size", "joints_pop", "io_size", "io_pop",
               "target_empty", "target_back", "target_pop"}

AtQueue(w) ==
  \/ wpc[w] \in QueueCalls
  \/ wpc[w] = "getDigitalOutState" /\ Len(wio[w]) = NIO

(* Members are destroyed in the reverse of their order in RTDEclient.h:    *)
(* m_rtde, and then m_thr, which waits.  Until it has, the thread may go   *)
(* through a pointer that is no more; as RobotInterface holds the queues,  *)
(* too, it may also find them where they were.                             *)
ReleasedAccess(w) ==
  /\ main = "init_join"
  /\ AtQueue(w)
  /\ fault' = "released"
  /\ UNCHANGED <<clientVars, telemetryVars, target_io, wpc, wobj, localVars,
                 robotVars, main>>

WorkerStep(w) ==
  \/ CheckAlive(w) \/ LoadInterface(w) \/ DanglingReturn(w)
  \/ ReleasedAccess(w)
  \/ IsConnected(w) \/ StopSelf(w)
  \/ GetActualQ(w) \/ PushJoints(w) \/ CheckJointsSize(w) \/ PopJoints(w)
  \/ GetDigitalOutState(w) \/ PushIO(w) \/ CheckIOSize(w) \/ PopIO(w)
  \/ CheckTargets(w) \/ ReadTarget(w) \/ SetStandardDigitalOut(w)
  \/ PopTarget(w)

---------------------------------------------------------------------------
(* RTDEconnect, step by step, on the CoppeliaSim thread *)

workerVars == <<wpc, wobj, localVars>>

BeginConnect ==
  /\ main = "idle"
  /\ attempts < MaxConnects
  /\ attempts' = attempts + 1
  /\ main' = "conn_rcv"
  /\ UNCHANGED <<m_alive, m_ircv, m_iio, m_thr, telemetryVars, target_io,
                 workerVars, robotVars, fault>>

(* make_unique, then the assignment that destroys the interface held so    *)
(* far.  The new one begins with a packet of its own.                      *)
CreateReceive ==
  /\ main = "conn_rcv"
  /\ m_ircv' = attempts
  /\ up' = TRUE
  /\ seen' = out
  /\ main' = "conn_io"
  /\ UNCHANGED <<m_alive, m_iio, m_thr, attempts, telemetryVars, target_io,
                 workerVars, now, out, fault>>

CreateIO ==
  /\ main = "conn_io"
  /\ m_iio' = attempts
  /\ main' = "conn_launch"
  /\ UNCHANGED <<m_alive, m_ircv, m_thr, attempts, telemetryVars, target_io,
                 workerVars, robotVars, fault>>

(* A constructor or std::async threw; the caller's catch ends the callback *)
(* and what was assigned before stays assigned.                            *)
ConnectThrows ==
  /\ main \in {"conn_rcv", "conn_io", "conn_launch"}
  /\ m_alive' = (m_alive \/ main = "conn_launch")
  /\ main' = "idle"
  /\ UNCHANGED <<m_ircv, m_iio, m_thr, attempts, telemetryVars, target_io,
                 workerVars, robotVars, fault>>

(* Faulty: the flag keeps what it was. *)
LaunchesUnflagged ==
  /\ main = "conn_launch"
  /\ Goto(attempts, "while_alive")
  /\ main' = "conn_join"
  /\ UNCHANGED <<clientVars, telemetryVars, target_io, wobj, localVars,
                 robotVars, fault>>

(* m_alive = true, and the new thread enters run(): its first step reads   *)
(* the flag, so the two make one step.                                     *)
Launch ==
  /\ main = "conn_launch"
  /\ m_alive' = TRUE
  /\ Goto(attempts, "while_alive")
  /\ main' = "conn_join"
  /\ UNCHANGED <<m_ircv, m_iio, m_thr, attempts, telemetryVars, target_io,
                 wobj, localVars, robotVars, fault>>

(* Faulty: waits for a thread that never was. *)
WaitsForNobody(w) == IF w = Null THEN FALSE ELSE wpc[w] = "done"

(* Is the thread that m_thr stands for gone? *)
Finished(w) == IF w = Null THEN TRUE ELSE wpc[w] = "done"

(* Faulty: the old thread is left to itself. *)
DetachOld ==
  /\ main = "conn_join"
  /\ m_thr' = attempts
  /\ main' = "conn_ret"
  /\ UNCHANGED <<m_alive, m_ircv, m_iio, attempts, telemetryVars, target_io,
                 workerVars, robotVars, fault>>

(* Assigning to m_thr gives up the future it held, and giving up the last  *)
(* reference to the state of an async call waits for that call to end.     *)
JoinOld ==
  /\ main = "conn_join"
  /\ Finished(m_thr)
  /\ m_thr' = attempts
  /\ main' = "conn_ret"
  /\ UNCHANGED <<m_alive, m_ircv, m_iio, attempts, telemetryVars, target_io,
                 workerVars, robotVars, fault>>

(* RTDEdisconnect, called by simRTDE.disconnect and by the destructor; the *)
(* parameters are the labels of the two callers.  No step of it waits for  *)
(* the communication thread.                                               *)
StopFlag(next) ==
  /\ main = "idle"
  /\ m_alive' = FALSE
  /\ main' = next
  /\ UNCHANGED <<m_ircv, m_iio, m_thr, attempts, telemetryVars, target_io,
                 workerVars, robotVars, fault>>

ResetIO(here, next) ==
  /\ main = here
  /\ m_iio' = Null
  /\ main' = next
  /\ UNCHANGED <<m_alive, m_ircv, m_thr, attempts, telemetryVars, target_io,
                 workerVars, robotVars, fault>>

ResetReceive(here, next) ==
  /\ main = here
  /\ m_ircv' = Null
  /\ up' = FALSE
  /\ main' = next
  /\ UNCHANGED <<m_alive, m_iio, m_thr, attempts, telemetryVars, target_io,
                 workerVars, now, seen, out, fault>>

---------------------------------------------------------------------------
(* The robot, behind the interfaces *)

(* A program of the robot, or its operator, sets or clears an output. *)
OutputChanges ==
  /\ \E p \in Pins :
       /\ out[p] < MaxChanges
       /\ out' = [out EXCEPT ![p] = @ + 1]
  /\ UNCHANGED <<clientVars, telemetryVars, target_io, workerVars, up, now,
                 seen, main, fault>>

(* A packet: at most one new joint vector, and the outputs as they are. *)
ReceivePacket ==
  /\ up
  /\ \E moved \in {0, 1} : now' = now + moved
  /\ now' \in Positions
  /\ seen' = out
  /\ UNCHANGED <<clientVars, telemetryVars, target_io, workerVars, up, out,
                 main, fault>>

LinkLost ==
  /\ LinkMayDrop
  /\ up
  /\ up' = FALSE
  /\ UNCHANGED <<clientVars, telemetryVars, target_io, workerVars, now, seen,
                 out, main, fault>>

ClientInit ==
  /\ m_alive \in BOOLEAN     \* the constructor leaves it uninitialised
  /\ m_ircv = Null /\ m_iio = Null /\ m_thr = Null
  /\ current_joint_positions = EmptyQueue
  /\ current_io = EmptyQueue
  /\ target_io = EmptyQueue
  /\ wpc = [w \in Sessions |-> "off"]
  /\ wobj = [w \in Sessions |-> Null]
  /\ wq = [w \in Sessions |-> 0]
  /\ wio = [w \in Sessions |-> <<>>]
  /\ wpin = [w \in Sessions |-> 0]
  /\ attempts = 0
  /\ up = FALSE
  /\ now = 0
  /\ out \in [Pins -> {0, 1}]
  /\ seen = out
  /\ main = "idle"
  /\ fault = "none"

===========================================================================
