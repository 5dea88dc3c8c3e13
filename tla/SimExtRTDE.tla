---------------------------- MODULE SimExtRTDE ----------------------------
(***************************************************************************)
(* simExtRTDE.cpp: the plugin.  A Lua script calls simRTDE.init, connect,  *)
(* disconnect, getIO and setIO, and CoppeliaSim sends the module-handle    *)
(* message once per simulation step; all of them run on the CoppeliaSim    *)
(* thread, one after the other, while the communication threads of         *)
(* RTDEclient.tla run beside it.                                           *)
(*                                                                         *)
(* The script and the simulator may make their calls in any order; the     *)
(* constant Calls says which of them a behaviour may contain.              *)
(***************************************************************************)
EXTENDS RTDEclient, FiniteSets

CONSTANTS
  Dofs,          \* Robot::dofs, 6 in the code
  Calls,         \* callbacks the script and the simulator use
  HandleCounts,  \* joint handles one simExtGetRobotHandles may find
  IoIds,         \* first arguments of getIO and setIO
  Reconnects,    \* may the script call connect more than once per init?
  MaxInits,      \* bound: calls of simRTDE.init
  MaxRequests    \* bound: calls of simRTDE.setIO

CallNames == {"disconnect", "getIO", "setIO", "modulehandle"}

ASSUME PluginAssumption ==
  /\ Dofs \in Nat
  /\ Calls \subseteq CallNames
  /\ HandleCounts \subseteq 0 .. Dofs
  /\ IoIds \subseteq Nat
  /\ Reconnects \in BOOLEAN
  /\ MaxInits \in Nat /\ MaxRequests \in Nat

VARIABLES
  plugin_loaded,
  connected,
  jhandles,   \* how many joint handles m_ur10 holds
  scene,      \* the joint vector last applied to the simulated robot
  io_arg,     \* the output getIO was asked for
  answer,     \* the state of each output that getIO last reported
  asked,      \* every <<io_id, signal>> setIO was called with
  inits,      \* calls of simRTDE.init so far
  requests    \* calls of simRTDE.setIO so far

pluginVars == <<plugin_loaded, connected, jhandles, scene, io_arg, answer,
                asked, inits, requests>>

clientStepVars == <<clientVars, telemetryVars, target_io, workerVars,
                    robotVars, main, fault>>

vars == <<clientStepVars, pluginVars>>

(* Faulty: the int is passed on as it is. *)
Unconverted(io) == io

(* An int converted to the uint8_t parameter of getDigitalIO/setDigitalIO. *)
Byte(io) == io % ByteRange

---------------------------------------------------------------------------
(* simRTDE.init *)

(* A new RobotInterface (empty queues, no handles) and a new RTDEclient    *)
(* with an uninitialised m_alive.  `connected' keeps its value.            *)
NewObjects ==
  /\ plugin_loaded' = TRUE
  /\ m_alive' \in BOOLEAN
  /\ m_ircv' = Null /\ m_iio' = Null /\ m_thr' = Null
  /\ current_joint_positions' = EmptyQueue
  /\ current_io' = EmptyQueue
  /\ target_io' = EmptyQueue
  /\ jhandles' = 0
  /\ UNCHANGED <<connected, scene, io_arg, answer, asked, requests, attempts,
                 workerVars, robotVars, fault>>

FirstInit ==
  /\ main = "idle"
  /\ ~plugin_loaded
  /\ inits < MaxInits
  /\ inits' = inits + 1
  /\ NewObjects
  /\ UNCHANGED main

(* ptr_rtde_client.reset() runs the destructor: RTDEdisconnect, then the   *)
(* members in reverse order, m_rtde before m_thr, which waits for its      *)
(* thread.                                                                 *)
Reinit ==
  /\ plugin_loaded
  /\ inits < MaxInits
  /\ inits' = inits + 1
  /\ StopFlag("init_iio")
  /\ UNCHANGED <<plugin_loaded, connected, jhandles, scene, io_arg, answer,
                 asked, requests>>

DestroyIO == ResetIO("init_iio", "init_ircv") /\ UNCHANGED pluginVars

DestroyReceive == ResetReceive("init_ircv", "init_rtde") /\ UNCHANGED pluginVars

DestroyRtde ==
  /\ main = "init_rtde"
  /\ main' = "init_join"
  /\ UNCHANGED <<clientVars, telemetryVars, target_io, workerVars, robotVars,
                 fault, pluginVars>>

(* Faulty: the thread outlives its client. *)
DetachThread ==
  /\ main = "init_join"
  /\ NewObjects
  /\ main' = "idle"
  /\ UNCHANGED inits

DestroyThread ==
  /\ main = "init_join"
  /\ Finished(m_thr)
  /\ NewObjects
  /\ main' = "idle"
  /\ UNCHANGED inits

---------------------------------------------------------------------------
(* simRTDE.connect *)

ConnectCall ==
  /\ plugin_loaded
  /\ Reconnects \/ m_thr = Null
  /\ BeginConnect
  /\ UNCHANGED pluginVars

ConnectStep ==
  /\ CreateReceive \/ CreateIO \/ ConnectThrows \/ Launch \/ JoinOld
  /\ UNCHANGED pluginVars

(* jhandles[0] of a vector that never held anything reads through a null   *)
(* pointer.  Behind the handles there are, operator[] yields any number,   *)
(* which at worst is the handle of another joint.                          *)
IndexFault(handles) == IF handles = 0 THEN "handleIndex" ELSE "none"

(* The value RTDEconnect returns is isConnected() after the join.  The     *)
(* handles found are appended to those of earlier connects, and neither    *)
(* helper's failure is looked at; simExtGetJointLimits indexes jhandles.   *)
ConnectReturns ==
  /\ main = "conn_ret"
  /\ main' = "idle"
  /\ IF up
     THEN /\ connected' = TRUE
          /\ \E k \in HandleCounts : jhandles' = jhandles + k
          /\ fault' = IndexFault(jhandles')
     ELSE UNCHANGED <<connected, jhandles, fault>>
  /\ UNCHANGED <<clientVars, telemetryVars, target_io, workerVars, robotVars,
                 plugin_loaded, scene, io_arg, answer, asked, inits,
                 requests>>

---------------------------------------------------------------------------
(* simRTDE.disconnect *)

DisconnectCall ==
  /\ "disconnect" \in Calls
  /\ plugin_loaded
  /\ StopFlag("disc_iio")
  /\ UNCHANGED pluginVars

DisconnectIO == ResetIO("disc_iio", "disc_ircv") /\ UNCHANGED pluginVars

DisconnectReturns ==
  /\ ResetReceive("disc_ircv", "idle")
  /\ connected' = FALSE
  /\ UNCHANGED <<plugin_loaded, jhandles, scene, io_arg, answer, asked, inits,
                 requests>>

---------------------------------------------------------------------------
(* simRTDE.getIO, simRTDE.setIO, and the module-handle message *)

GetIOCall ==
  /\ "getIO" \in Calls
  /\ main = "idle"
  /\ plugin_loaded
  /\ \E io \in IoIds : io_arg' = Byte(io)
  /\ main' = "getIO"
  /\ UNCHANGED <<clientVars, telemetryVars, target_io, workerVars, robotVars,
                 fault, plugin_loaded, connected, jhandles, scene, answer,
                 asked, inits, requests>>

(* current_io.back() waits for a snapshot; indexing past its end yields    *)
(* whatever is there.  The script gets High(answer), the signal.           *)
GetIOReturns ==
  /\ main = "getIO"
  /\ ~IsEmpty(current_io)
  /\ \E state \in IF io_arg \in Pins THEN {Back(current_io)[io_arg + 1]}
                                     ELSE {0, 1} :
       answer' = [answer EXCEPT ![io_arg] = state]
  /\ io_arg' = 0
  /\ main' = "idle"
  /\ UNCHANGED <<clientVars, telemetryVars, target_io, workerVars, robotVars,
                 fault, plugin_loaded, connected, jhandles, scene, asked,
                 inits, requests>>

(* The signal asked for is not passed on. *)
SetIOCall ==
  /\ "setIO" \in Calls
  /\ main = "idle"
  /\ plugin_loaded
  /\ requests < MaxRequests
  /\ requests' = requests + 1
  /\ \E io \in IoIds, signal \in BOOLEAN :
       /\ target_io' = PushBack(target_io, Byte(io))
       /\ asked' = asked \cup {<<io, signal>>}
  /\ UNCHANGED <<clientVars, telemetryVars, workerVars, robotVars, main,
                 fault, plugin_loaded, connected, jhandles, scene, io_arg,
                 answer, inits>>

(* Faulty: does not look at `connected'. *)
HandlesAlways ==
  /\ "modulehandle" \in Calls
  /\ main = "idle"
  /\ plugin_loaded
  /\ main' = "joints"
  /\ UNCHANGED <<clientVars, telemetryVars, target_io, workerVars, robotVars,
                 fault, pluginVars>>

ModuleHandle ==
  /\ "modulehandle" \in Calls
  /\ main = "idle"
  /\ plugin_loaded
  /\ connected
  /\ main' = "joints"
  /\ UNCHANGED <<clientVars, telemetryVars, target_io, workerVars, robotVars,
                 fault, pluginVars>>

(* current_joint_positions.back() waits for a joint vector, which is then  *)
(* applied joint by joint through jhandles[0 .. dofs-1], as far as the     *)
(* robot's handles go.                                                     *)
ApplyJoints ==
  /\ main = "joints"
  /\ ~IsEmpty(current_joint_positions)
  /\ fault' = IndexFault(jhandles)
  /\ scene' = IF jhandles = 0 THEN scene ELSE Back(current_joint_positions)
  /\ main' = "idle"
  /\ UNCHANGED <<clientVars, telemetryVars, target_io, workerVars, robotVars,
                 plugin_loaded, connected, jhandles, io_arg, answer, asked,
                 inits, requests>>

---------------------------------------------------------------------------
Init ==
  /\ ClientInit
  /\ plugin_loaded = FALSE
  /\ connected = FALSE
  /\ jhandles = 0
  /\ scene = 0
  /\ io_arg = 0
  /\ answer = [b \in Bytes |-> 0]
  /\ asked = {}
  /\ inits = 0
  /\ requests = 0

(* The communication threads and the robot know nothing of the plugin. *)
Communicate(w) == WorkerStep(w) /\ UNCHANGED pluginVars
Robot == (ReceivePacket \/ OutputChanges \/ LinkLost) /\ UNCHANGED pluginVars

(* A call the script or the simulator starts, and the rest of a call. *)
Call ==
  \/ FirstInit \/ Reinit \/ ConnectCall \/ DisconnectCall
  \/ GetIOCall \/ SetIOCall \/ ModuleHandle

Continue ==
  \/ DestroyIO \/ DestroyReceive \/ DestroyRtde \/ DestroyThread
  \/ ConnectStep \/ ConnectReturns
  \/ DisconnectIO \/ DisconnectReturns
  \/ GetIOReturns \/ ApplyJoints

(* Undefined behaviour ends the process: nothing is claimed of what it     *)
(* would do next.                                                          *)
Next ==
  /\ fault = "none"
  /\ \/ \E w \in Sessions : Communicate(w)
     \/ Robot
     \/ Call
     \/ Continue

Spec == Init /\ [][Next]_vars

(* Every thread that can run does, and packets keep arriving while the     *)
(* link is up.  Nothing makes the script call, or the link fail.           *)
Fairness ==
  /\ \A w \in Sessions : WF_vars(fault = "none" /\ Communicate(w))
  /\ WF_vars(fault = "none" /\ Continue)
  /\ WF_vars(fault = "none" /\ ReceivePacket /\ UNCHANGED pluginVars)

LiveSpec == Spec /\ Fairness

---------------------------------------------------------------------------
(* Types *)

WorkerLabels ==
  {"off", "while_alive", "stop", "joints_push", "joints_size", "joints_pop",
   "io_size", "io_pop", "target_empty", "target_pop", "done"}
    \cup ReceiveCalls \cup IOCalls

MainLabels ==
  {"idle", "conn_rcv", "conn_io", "conn_launch", "conn_join", "conn_ret",
   "disc_iio", "disc_ircv", "init_iio", "init_ircv", "init_rtde", "init_join",
   "getIO", "joints"}

Faults == {"none", "null", "dangling", "released", "empty_back", "empty_pop",
           "handleIndex"}

Session == Sessions \cup {Null}
Snapshots == [1 .. NIO -> OutStates]

ClientTypeOK ==
  /\ m_alive \in BOOLEAN
  /\ m_ircv \in Session /\ m_iio \in Session /\ m_thr \in Session
  /\ current_joint_positions \in Seq(Positions)
  /\ current_io \in Seq(Snapshots)
  /\ target_io \in Seq(Bytes)
  /\ attempts \in 0 .. MaxConnects
  /\ main \in MainLabels
  /\ main \in {"conn_rcv", "conn_io", "conn_launch", "conn_join", "conn_ret"}
       => attempts # 0
  /\ fault \in Faults

WorkerTypeOK ==
  /\ wpc \in [Sessions -> WorkerLabels]
  /\ wobj \in [Sessions -> Session]
  /\ wq \in [Sessions -> Positions]
  /\ wio \in [Sessions -> Seq(OutStates)]
  /\ \A w \in Sessions : Len(wio[w]) <= NIO
  /\ wpin \in [Sessions -> Bytes]

RobotTypeOK ==
  /\ up \in BOOLEAN
  /\ now \in Positions
  /\ seen \in [Pins -> OutStates] /\ out \in [Pins -> OutStates]

PluginTypeOK ==
  /\ plugin_loaded \in BOOLEAN /\ connected \in BOOLEAN
  /\ jhandles \in Nat
  /\ scene \in Positions
  /\ io_arg \in Bytes
  /\ answer \in [Bytes -> OutStates]
  /\ asked \subseteq IoIds \X BOOLEAN
  /\ inits \in 0 .. MaxInits
  /\ requests \in 0 .. MaxRequests

(* Every variable holds a value of its type: a pushed output snapshot is   *)
(* complete, a request in target_io fits the uint8_t it is sent as, and    *)
(* the steps of a connect have a session to name what they create.         *)
TypeOK == ClientTypeOK /\ WorkerTypeOK /\ RobotTypeOK /\ PluginTypeOK

---------------------------------------------------------------------------
(* Safety *)

(* At most one communication thread runs, the one m_thr stands for; a      *)
(* second exists only while RTDEconnect waits for the first to end.  This  *)
(* is what the join hidden in the assignment of RTDEclient.cpp:28 and in   *)
(* the destructor of m_thr gives.                                          *)
WorkersJoined ==
  LiveWorkers \subseteq
    (IF main = "conn_join" THEN {m_thr, attempts} ELSE {m_thr})

(* The telemetry queues exceed buffer_size by at most one entry for each   *)
(* thread that is busy trimming them (RTDEclient.cpp:70 and :80), whatever *)
(* the interleaving.                                                       *)
TrimmingJoints == {w \in Sessions : wpc[w] \in {"joints_size", "joints_pop"}}
TrimmingIO == {w \in Sessions : wpc[w] \in {"io_size", "io_pop"}}

QueuesBounded ==
  /\ Len(current_joint_positions) <= BufferSize + Cardinality(TrimmingJoints)
  /\ Len(current_io) <= BufferSize + Cardinality(TrimmingIO)

(* Telemetry, once there, stays until simRTDE.init makes new queues: two   *)
(* threads that trim at the same time never empty a queue, so pop_front()  *)
(* never waits, and neither does back() in a later callback.               *)
TelemetryStays ==
  [][inits' = inits /\ main # "init_join" =>
       /\ ~IsEmpty(current_joint_positions) => ~IsEmpty(current_joint_positions')
       /\ ~IsEmpty(current_io) => ~IsEmpty(current_io')]_vars

(* Without a second connect and without the shutdown of a live client,     *)
(* nothing undefined is reached: the thread never calls through a null or  *)
(* dead interface and never reads or pops an empty target_io, and jhandles *)
(* is never indexed while it is empty, if connects find a joint.           *)
NoFault == fault = "none"

(* While the plugin says it is connected and the link is up, a thread is   *)
(* there to serve the queues: run() gives up only on a dead link.          *)
ConnectedIsServed ==
  connected /\ up /\ main \in {"idle", "joints", "getIO"} /\ fault = "none"
    => LiveWorkers # {}

(* getIO reports of an output only states that this output has taken, and  *)
(* takes no report back: an earlier state never follows a later one.  Each *)
(* snapshot is assembled output by output while packets arrive and outputs *)
(* change, and travels through a queue that is trimmed at the other end.   *)
AnswersLag == \A p \in Pins : answer[p] <= out[p]

AnswersOrdered == [][\A p \in Pins : answer[p] <= answer'[p]]_vars

(* The scene is a lagging mirror of the robot: it never goes back and      *)
(* never gets ahead, although the joint vector travels through a local of  *)
(* run(), a queue that is trimmed at the other end, and back().            *)
Mirror == INSTANCE JointMirror WITH real <- now, shown <- scene
MirrorSpec == Mirror!Spec

(* Every setIO is carried out: it is queued, being sent, or the output is  *)
(* high, where no program of the robot clears it (MaxChanges = 0).  This   *)
(* is what simExtRTDE.h:21 says queues are for.                            *)
NoRequestLost ==
  \A r \in asked :
    Byte(r[1]) \in Pins =>
      \/ High(out[Byte(r[1])])
      \/ \E i \in 1 .. Len(target_io) : target_io[i] = Byte(r[1])
      \/ \E w \in Sessions :
           wpc[w] = "setStandardDigitalOut" /\ wpin[w] = Byte(r[1])

---------------------------------------------------------------------------
(* Liveness *)

(* A lost link ends the communication threads, unless a connect comes      *)
(* first.                                                                  *)
LinkLossStops ==
  (~up /\ main = "idle") ~> (LiveWorkers = {} \/ up \/ fault # "none")

(* The module-handle message and getIO return. *)
CallbacksReturn ==
  (main \in {"joints", "getIO"}) ~> (main = "idle" \/ fault # "none")

(* Requests are taken out of the queue. *)
TargetsDrain == connected ~> IsEmpty(target_io)

(* Each state of an output, whoever brought it about, or a later one is    *)
(* eventually what getIO would report.                                     *)
OutputsReported ==
  \A p \in Pins, state \in OutStates :
    (connected /\ out[p] = state)
      ~> (~IsEmpty(current_io) /\ Back(current_io)[p + 1] >= state)

(* A callback that waits for the old communication thread returns, or the  *)
(* process has died: simRTDE.init always, for it has told the thread to    *)
(* stop; simRTDE.connect, which waits for a thread nobody has told to      *)
(* stop, if the new link is lost meanwhile, as the old thread uses it too. *)
JoinsReturn ==
  (main = "init_join" \/ (main = "conn_join" /\ ~up))
    ~> (main = "idle" \/ fault # "none")

---------------------------------------------------------------------------
(* Inductive invariants *)

(* Threads are joined, a connect that has not joined yet is newer than the *)
(* thread m_thr stands for, and before the first init nothing has begun.   *)
JoinInv ==
  /\ WorkersJoined
  /\ m_thr <= attempts
  /\ main \in {"conn_rcv", "conn_io", "conn_launch", "conn_join"}
       => m_thr < attempts
  /\ ~plugin_loaded => main = "idle" /\ m_thr = Null

(* A thread about to trim has left buffer_size entries or more, and two of *)
(* them one more: each decided on a queue that was too long.               *)
LeavesEnough(q, label) ==
  \A v, w \in Sessions :
    wpc[v] = label /\ wpc[w] = label
      => Len(q) >= IF v = w THEN BufferSize ELSE BufferSize + 1

TrimInv ==
  /\ LeavesEnough(current_joint_positions, "joints_pop")
  /\ LeavesEnough(current_io, "io_pop")

(* When connect is called once per init, one thread at a time takes joint  *)
(* vectors: what it holds is no older than the back of the queue, which is *)
(* no older than what the scene shows.                                     *)
MirrorInv ==
  /\ main \in {"conn_rcv", "conn_io", "conn_launch", "conn_join"}
       => m_thr = Null
  /\ scene <= now
  /\ ~IsEmpty(current_joint_positions) =>
       /\ scene <= Back(current_joint_positions)
       /\ Back(current_joint_positions) <= now
  /\ \A w \in Sessions : wpc[w] = "joints_push" =>
       /\ scene <= wq[w] /\ wq[w] <= now
       /\ ~IsEmpty(current_joint_positions) =>
            Back(current_joint_positions) <= wq[w]

(* Nothing is ahead of the robot: not the packet, nor a snapshot half      *)
(* taken, nor the queue, nor the answers.                                  *)
NotAhead(snapshot, outputs) ==
  \A i \in 1 .. Len(snapshot) : snapshot[i] <= outputs[i - 1]

ReportInv ==
  /\ AnswersLag
  /\ \A p \in Pins : seen[p] <= out[p]
  /\ \A w \in Sessions : NotAhead(wio[w], seen)
  /\ \A k \in 1 .. Len(current_io) : NotAhead(current_io[k], out)

(* With one thread, a state that getIO has reported or would report now is *)
(* no later than what it may report from now on: the snapshot that is      *)
(* being taken, and the packet it is taken from.                           *)
NoLater(state, p) ==
  /\ state <= seen[p]
  /\ \A w \in Sessions : p < Len(wio[w]) => state <= wio[w][p + 1]

StandInv ==
  /\ \A w \in Sessions : wpc[w] # "getDigitalOutState" => wio[w] = <<>>
  /\ \A p \in Pins :
       /\ NoLater(answer[p], p)
       /\ ~IsEmpty(current_io) =>
            /\ answer[p] <= Back(current_io)[p + 1]
            /\ NoLater(Back(current_io)[p + 1], p)

(* The scope in which the plugin reaches nothing undefined: one init, one  *)
(* connect that creates a thread, no disconnect, and a scene with a joint  *)
(* of the robot in it.                                                     *)
OneSession ==
  /\ ~Reconnects
  /\ MaxInits <= 1
  /\ "disconnect" \notin Calls
  /\ 0 \notin HandleCounts

(* The interfaces outlive the calls through them. *)
PointersInv ==
  /\ LiveWorkers # {} => m_ircv # Null /\ m_iio # Null
  /\ \A w \in Sessions :
       wobj[w] # Null => /\ wpc[w] \in ReceiveCalls \cup IOCalls
                         /\ wobj[w] = Pointer(w)
  /\ main \in {"conn_io", "conn_launch"} => m_ircv # Null
  /\ main = "conn_launch" => m_iio # Null

(* The request the thread found is still there when it takes it. *)
TargetInv ==
  \A w \in Sessions :
    wpc[w] \in {"target_back", "setStandardDigitalOut", "target_pop"}
      => ~IsEmpty(target_io)

(* Where the callbacks can be, and what `connected' stands for. *)
ScopeInv ==
  /\ main \in {"idle", "conn_rcv", "conn_io", "conn_launch", "conn_join",
               "conn_ret", "getIO", "joints"}
  /\ plugin_loaded => inits = MaxInits
  /\ main = "joints" => connected
  /\ main = "conn_ret" => m_thr # Null
  /\ connected => plugin_loaded /\ m_thr # Null /\ jhandles # 0

(* The thread that was launched runs as long as its link is up. *)
Launched == IF main = "conn_join" THEN attempts ELSE m_thr

ServedInv ==
  up /\ Launched # Null =>
    m_alive /\ Live(Launched) /\ wpc[Launched] # "stop"

SessionInv ==
  /\ MirrorInv /\ NoFault
  /\ PointersInv /\ TargetInv /\ ScopeInv /\ ServedInv

===========================================================================
