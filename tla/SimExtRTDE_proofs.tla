------------------------- MODULE SimExtRTDE_proofs -------------------------
(***************************************************************************)
(* Theorems about SimExtRTDE for every value of its constants: any number  *)
(* of connects and inits, any buffer_size above one, any script.  First    *)
(* types, the joining of threads, telemetry and mirror; then what getIO    *)
(* tells a script of the robot's digital outputs; then that one            *)
(* session with the robot, from connect to the end of the process, reaches *)
(* nothing undefined and is served as long as the link is up.              *)
(***************************************************************************)
EXTENDS SimExtRTDE, Sequences_proofs, FiniteSetTheorems

USE DEF Null

(* The constants give the sets the types are made of. *)
LEMMA ConstantFacts ==
  /\ 0 \in Positions /\ 0 \in Bytes /\ Pins \subseteq Bytes
  /\ Sessions \subseteq Nat \ {0}
  /\ BufferSize \in Nat /\ BufferSize >= 2
  /\ \A io \in Nat : Byte(io) \in Bytes
BY SizeAssumption, BoundAssumption
   DEF Positions, Bytes, Pins, Sessions, Byte

(* An output may start low or high, and driving it stays within its states. *)
LEMMA OutFacts ==
  /\ 0 \in OutStates /\ 1 \in OutStates
  /\ OutStates \subseteq Nat
  /\ \A state \in OutStates : ~High(state) => state + 1 \in OutStates
  /\ \A state \in OutStates : state < MaxChanges => state + 1 \in OutStates
BY BoundAssumption DEF OutStates, High

---------------------------------------------------------------------------
(* Type correctness *)

LEMMA InitType == Init => TypeOK
<1>1. ASSUME Init PROVE ClientTypeOK
  BY <1>1, BoundAssumption
     DEF Init, ClientInit, ClientTypeOK, Session, EmptyQueue, MainLabels, Faults
<1>2. ASSUME Init PROVE WorkerTypeOK
  <2>1. <<>> \in Seq(OutStates) /\ Len(<<>>) <= NIO
    BY SizeAssumption
  <2>2. \A w \in Sessions : wio[w] = <<>>
    BY <1>2 DEF Init, ClientInit
  <2>3. wio \in [Sessions -> Seq(OutStates)]
    BY <1>2, <2>1 DEF Init, ClientInit
  <2>4. QED
    BY <1>2, <2>1, <2>2, <2>3, ConstantFacts
       DEF Init, ClientInit, WorkerTypeOK, Session, WorkerLabels
<1>3. ASSUME Init PROVE RobotTypeOK
  BY <1>3, ConstantFacts, OutFacts DEF Init, ClientInit, RobotTypeOK
<1>4. ASSUME Init PROVE PluginTypeOK
  <2>1. answer \in [Bytes -> OutStates]
    BY <1>4, OutFacts DEF Init
  <2>2. asked \subseteq IoIds \X BOOLEAN
    BY <1>4 DEF Init
  <2>3. 0 \in 0 .. MaxInits /\ 0 \in 0 .. MaxRequests
    BY PluginAssumption
  <2>4. scene = 0 /\ io_arg = 0 /\ jhandles = 0 /\ inits = 0 /\ requests = 0
        /\ plugin_loaded = FALSE /\ connected = FALSE
    BY <1>4 DEF Init
  <2>5. QED
    BY <2>1, <2>2, <2>3, <2>4, ConstantFacts DEF PluginTypeOK
<1>5. QED
  BY <1>1, <1>2, <1>3, <1>4 DEF TypeOK

LEMMA WorkerStepType ==
  ASSUME TypeOK, NEW w \in Sessions, WorkerStep(w)
  PROVE  ClientTypeOK' /\ WorkerTypeOK' /\ RobotTypeOK'
<1> USE DEF TypeOK, clientVars, telemetryVars, localVars, robotVars, Goto,
            WorkerLabels, ReceiveCalls, IOCalls
<1>1. CASE CheckAlive(w)
  BY <1>1 DEF CheckAlive, ClientTypeOK, WorkerTypeOK, RobotTypeOK
<1>2. CASE LoadInterface(w)
  BY <1>2 DEF LoadInterface, Pointer, Faults, ClientTypeOK, WorkerTypeOK, RobotTypeOK
<1>3. CASE DanglingReturn(w) \/ ReleasedAccess(w)
  BY <1>3 DEF DanglingReturn, ReleasedAccess, Faults, ClientTypeOK, WorkerTypeOK, RobotTypeOK
<1>4. CASE IsConnected(w)
  BY <1>4 DEF IsConnected, Returns, Session, ClientTypeOK, WorkerTypeOK, RobotTypeOK
<1>5. CASE StopSelf(w)
  BY <1>5 DEF StopSelf, ClientTypeOK, WorkerTypeOK, RobotTypeOK
<1>6. CASE GetActualQ(w)
  BY <1>6 DEF GetActualQ, Returns, Session, ClientTypeOK, WorkerTypeOK, RobotTypeOK
<1>7. CASE PushJoints(w)
  <2>1. current_joint_positions' \in Seq(Positions)
    BY <1>7, PushBackFacts DEF PushJoints, ClientTypeOK, WorkerTypeOK
  <2>2. QED
    BY <1>7, <2>1, ConstantFacts DEF PushJoints, ClientTypeOK, WorkerTypeOK, RobotTypeOK
<1>8. CASE CheckJointsSize(w)
  BY <1>8 DEF CheckJointsSize, ClientTypeOK, WorkerTypeOK, RobotTypeOK
<1>9. CASE PopJoints(w)
  <2>1. current_joint_positions' \in Seq(Positions)
    BY <1>9, PopFrontFacts DEF PopJoints, ClientTypeOK, WorkerTypeOK
  <2>2. QED
    BY <1>9, <2>1, ConstantFacts DEF PopJoints, ClientTypeOK, WorkerTypeOK, RobotTypeOK
<1>10. CASE GetDigitalOutState(w)
  <2>1. wio[w] \in Seq(OutStates) /\ Len(wio[w]) \in Pins
    BY <1>10, SizeAssumption DEF GetDigitalOutState, WorkerTypeOK, Pins
  <2>2. seen[Len(wio[w])] \in OutStates
    BY <2>1 DEF RobotTypeOK
  <2>3. DEFINE longer == Append(wio[w], seen[Len(wio[w])])
  <2>4. longer \in Seq(OutStates) /\ Len(longer) <= NIO
    BY <2>1, <2>2, <1>10, SizeAssumption DEF GetDigitalOutState
  <2>5. wio' = [wio EXCEPT ![w] = longer]
    BY <1>10 DEF GetDigitalOutState
  <2> HIDE DEF longer
  <2>6. wio' \in [Sessions -> Seq(OutStates)] /\ \A v \in Sessions : Len(wio'[v]) <= NIO
    BY <2>4, <2>5 DEF WorkerTypeOK
  <2>7. QED
    BY <1>10, <2>6
       DEF GetDigitalOutState, Returns, Session, ClientTypeOK, WorkerTypeOK, RobotTypeOK
<1>11. CASE PushIO(w)
  <2>1. wio[w] \in Snapshots
    BY <1>11 DEF PushIO, WorkerTypeOK, Snapshots
  <2>2. current_io' \in Seq(Snapshots)
    BY <1>11, <2>1, PushBackFacts DEF PushIO, ClientTypeOK
  <2>3. <<>> \in Seq(OutStates) /\ Len(<<>>) <= NIO
    BY SizeAssumption
  <2>4. wio' \in [Sessions -> Seq(OutStates)] /\ \A v \in Sessions : Len(wio'[v]) <= NIO
    BY <1>11, <2>3 DEF PushIO, WorkerTypeOK
  <2>5. QED
    BY <1>11, <2>2, <2>4 DEF PushIO, ClientTypeOK, WorkerTypeOK, RobotTypeOK
<1>12. CASE CheckIOSize(w)
  BY <1>12 DEF CheckIOSize, ClientTypeOK, WorkerTypeOK, RobotTypeOK
<1>13. CASE PopIO(w)
  <2>1. current_io' \in Seq(Snapshots)
    BY <1>13, PopFrontFacts DEF PopIO, ClientTypeOK, WorkerTypeOK
  <2>2. QED
    BY <1>13, <2>1, ConstantFacts DEF PopIO, ClientTypeOK, WorkerTypeOK, RobotTypeOK
<1>14. CASE CheckTargets(w)
  BY <1>14 DEF CheckTargets, ClientTypeOK, WorkerTypeOK, RobotTypeOK
<1>15. CASE ReadTarget(w)
  <2>1. CASE IsEmpty(target_io)
    BY <1>15, <2>1 DEF ReadTarget, Faults, ClientTypeOK, WorkerTypeOK, RobotTypeOK
  <2>2. CASE ~IsEmpty(target_io)
    <3>1. Back(target_io) \in Bytes
      BY <2>2, BackFacts DEF ClientTypeOK
    <3>2. QED
      BY <1>15, <2>2, <3>1 DEF ReadTarget, ClientTypeOK, WorkerTypeOK, RobotTypeOK
  <2>3. QED
    BY <2>1, <2>2
<1>16. CASE SetStandardDigitalOut(w)
  <2>1. out' \in [Pins -> OutStates]
    BY <1>16, OutFacts DEF SetStandardDigitalOut, Driven, RobotTypeOK
  <2>2. QED
    BY <1>16, <2>1
       DEF SetStandardDigitalOut, Returns, Session, ClientTypeOK, WorkerTypeOK, RobotTypeOK
<1>17. CASE PopTarget(w)
  <2>1. CASE IsEmpty(target_io)
    BY <1>17, <2>1 DEF PopTarget, Faults, ClientTypeOK, WorkerTypeOK, RobotTypeOK
  <2>2. CASE ~IsEmpty(target_io)
    <3>1. target_io' \in Seq(Bytes)
      BY <1>17, <2>2, PopBackFacts DEF PopTarget, ClientTypeOK
    <3>2. wpin' \in [Sessions -> Bytes]
      BY <1>17, <2>2, ConstantFacts DEF PopTarget, WorkerTypeOK
    <3>3. QED
      BY <1>17, <2>2, <3>1, <3>2
         DEF PopTarget, ClientTypeOK, WorkerTypeOK, RobotTypeOK
  <2>3. QED
    BY <2>1, <2>2
<1>18. QED
  BY <1>1, <1>2, <1>3, <1>4, <1>5, <1>6, <1>7, <1>8, <1>9, <1>10, <1>11,
     <1>12, <1>13, <1>14, <1>15, <1>16, <1>17 DEF WorkerStep

(* The robot's steps. *)
LEMMA RobotType ==
  ASSUME TypeOK, Robot
  PROVE  TypeOK'
<1> USE DEF TypeOK, clientVars, telemetryVars, workerVars, localVars, pluginVars
<1>1. CASE ReceivePacket /\ UNCHANGED pluginVars
  BY <1>1 DEF ReceivePacket, ClientTypeOK, WorkerTypeOK, RobotTypeOK, PluginTypeOK
<1>2. CASE LinkLost /\ UNCHANGED pluginVars
  BY <1>2 DEF LinkLost, ClientTypeOK, WorkerTypeOK, RobotTypeOK, PluginTypeOK
<1>3. CASE OutputChanges /\ UNCHANGED pluginVars
  <2>1. out' \in [Pins -> OutStates]
    BY <1>3, OutFacts DEF OutputChanges, RobotTypeOK
  <2>2. QED
    BY <1>3, <2>1 DEF OutputChanges, ClientTypeOK, WorkerTypeOK, RobotTypeOK, PluginTypeOK
<1>4. QED
  BY <1>1, <1>2, <1>3 DEF Robot

(* The first step of a callback, or a callback of one step. *)
LEMMA CallType ==
  ASSUME TypeOK, Call
  PROVE  TypeOK'
<1> USE DEF TypeOK, clientVars, telemetryVars, workerVars, localVars, robotVars,
            pluginVars, MainLabels
<1>1. CASE FirstInit
  <2>1. inits' \in 0 .. MaxInits
    BY <1>1, PluginAssumption DEF FirstInit, PluginTypeOK
  <2>2. ClientTypeOK' /\ WorkerTypeOK' /\ RobotTypeOK'
    BY <1>1 DEF FirstInit, NewObjects, EmptyQueue, Session, ClientTypeOK,
                WorkerTypeOK, RobotTypeOK
  <2>3. QED
    BY <1>1, <2>1, <2>2 DEF FirstInit, NewObjects, PluginTypeOK
<1>2. CASE Reinit
  <2>1. inits' \in 0 .. MaxInits
    BY <1>2, PluginAssumption DEF Reinit, PluginTypeOK
  <2>2. ClientTypeOK' /\ WorkerTypeOK' /\ RobotTypeOK'
    BY <1>2 DEF Reinit, StopFlag, ClientTypeOK, WorkerTypeOK, RobotTypeOK
  <2>3. QED
    BY <1>2, <2>1, <2>2 DEF Reinit, PluginTypeOK
<1>3. CASE ConnectCall
  <2>1. attempts' \in 0 .. MaxConnects /\ attempts' # 0
    BY <1>3, BoundAssumption DEF ConnectCall, BeginConnect, ClientTypeOK
  <2>2. QED
    BY <1>3, <2>1 DEF ConnectCall, BeginConnect, ClientTypeOK, WorkerTypeOK,
                      RobotTypeOK, PluginTypeOK
<1>4. CASE DisconnectCall
  BY <1>4, ConstantFacts, BoundAssumption, PluginAssumption, PushBackFacts
     DEF DisconnectCall, StopFlag, ClientTypeOK, WorkerTypeOK, RobotTypeOK, PluginTypeOK
<1>5. CASE GetIOCall
  BY <1>5, ConstantFacts, BoundAssumption, PluginAssumption, PushBackFacts
     DEF GetIOCall, ClientTypeOK, WorkerTypeOK, RobotTypeOK, PluginTypeOK
<1>6. CASE SetIOCall
  <2>1. requests' \in 0 .. MaxRequests
    BY <1>6, PluginAssumption DEF SetIOCall, PluginTypeOK
  <2>2. PICK io \in IoIds, signal \in BOOLEAN :
          /\ target_io' = PushBack(target_io, Byte(io))
          /\ asked' = asked \cup {<<io, signal>>}
    BY <1>6 DEF SetIOCall
  <2>3. target_io' \in Seq(Bytes)
    BY <2>2, PushBackFacts, ConstantFacts, PluginAssumption DEF ClientTypeOK
  <2>4. asked' \subseteq IoIds \X BOOLEAN
    BY <2>2 DEF PluginTypeOK
  <2>5. ClientTypeOK' /\ WorkerTypeOK' /\ RobotTypeOK'
    BY <1>6, <2>3 DEF SetIOCall, ClientTypeOK, WorkerTypeOK, RobotTypeOK
  <2>6. QED
    BY <1>6, <2>1, <2>4, <2>5 DEF SetIOCall, PluginTypeOK
<1>7. CASE ModuleHandle
  BY <1>7, ConstantFacts, BoundAssumption, PluginAssumption, PushBackFacts
     DEF ModuleHandle, ClientTypeOK, WorkerTypeOK, RobotTypeOK, PluginTypeOK
<1>8. QED
  BY <1>1, <1>2, <1>3, <1>4, <1>5, <1>6, <1>7 DEF Call

(* The rest of a callback. *)
LEMMA ContinueType ==
  ASSUME TypeOK, Continue
  PROVE  TypeOK'
<1> USE DEF TypeOK, clientVars, telemetryVars, workerVars, localVars, robotVars,
            pluginVars, MainLabels, Goto
<1>1. CASE DestroyIO
  BY <1>1, ConstantFacts, BoundAssumption, PluginAssumption, BackFacts
     DEF DestroyIO, ResetIO, Session, ClientTypeOK, WorkerTypeOK, RobotTypeOK, PluginTypeOK
<1>2. CASE DestroyReceive
  BY <1>2, ConstantFacts, BoundAssumption, PluginAssumption, BackFacts
     DEF DestroyReceive, ResetReceive, Session, ClientTypeOK, WorkerTypeOK, RobotTypeOK, PluginTypeOK
<1>3. CASE DestroyThread
  BY <1>3, ConstantFacts, BoundAssumption, PluginAssumption, BackFacts
     DEF DestroyThread, NewObjects, EmptyQueue, Session, ClientTypeOK, WorkerTypeOK, RobotTypeOK, PluginTypeOK
<1>4. CASE CreateReceive /\ UNCHANGED pluginVars
  <2>1. ClientTypeOK'
    BY <1>4, BoundAssumption DEF CreateReceive, Session, Sessions, ClientTypeOK
  <2>2. WorkerTypeOK' /\ RobotTypeOK' /\ PluginTypeOK'
    BY <1>4 DEF CreateReceive, WorkerTypeOK, RobotTypeOK, PluginTypeOK
  <2>3. QED
    BY <2>1, <2>2
<1>5. CASE CreateIO /\ UNCHANGED pluginVars
  BY <1>5, ConstantFacts, BoundAssumption, PluginAssumption, BackFacts
     DEF CreateIO, Session, Sessions, ClientTypeOK, WorkerTypeOK, RobotTypeOK, PluginTypeOK
<1>6. CASE ConnectThrows /\ UNCHANGED pluginVars
  BY <1>6, ConstantFacts, BoundAssumption, PluginAssumption, BackFacts
     DEF ConnectThrows, ClientTypeOK, WorkerTypeOK, RobotTypeOK, PluginTypeOK
<1>7. CASE Launch /\ UNCHANGED pluginVars
  BY <1>7, ConstantFacts, BoundAssumption, PluginAssumption, BackFacts
     DEF Launch, WorkerLabels, ClientTypeOK, WorkerTypeOK, RobotTypeOK, PluginTypeOK
<1>8. CASE JoinOld /\ UNCHANGED pluginVars
  BY <1>8, ConstantFacts, BoundAssumption, PluginAssumption, BackFacts
     DEF JoinOld, Session, Sessions, ClientTypeOK, WorkerTypeOK, RobotTypeOK, PluginTypeOK
<1>9. CASE ConnectReturns
  <2>1. jhandles' \in Nat
    <3>1. jhandles' = jhandles \/ \E k \in HandleCounts : jhandles' = jhandles + k
      BY <1>9 DEF ConnectReturns
    <3>2. \A k \in HandleCounts : k \in Nat
      BY PluginAssumption
    <3>3. jhandles \in Nat
      BY DEF PluginTypeOK
    <3>4. QED
      BY <3>1, <3>2, <3>3
  <2>2. fault' \in Faults
    BY <1>9 DEF ConnectReturns, IndexFault, Faults, ClientTypeOK
  <2>3. QED
    BY <1>9, <2>1, <2>2 DEF ConnectReturns, ClientTypeOK, WorkerTypeOK,
                            RobotTypeOK, PluginTypeOK
<1>10. CASE DisconnectIO
  BY <1>10, ConstantFacts, BoundAssumption, PluginAssumption, BackFacts
     DEF DisconnectIO, ResetIO, Session, ClientTypeOK, WorkerTypeOK, RobotTypeOK, PluginTypeOK
<1>11. CASE DisconnectReturns
  BY <1>11, ConstantFacts, BoundAssumption, PluginAssumption, BackFacts
     DEF DisconnectReturns, ResetReceive, Session, ClientTypeOK, WorkerTypeOK, RobotTypeOK, PluginTypeOK
<1>12. CASE GetIOReturns
  <2>1. PICK state \in IF io_arg \in Pins THEN {Back(current_io)[io_arg + 1]}
                                          ELSE {0, 1} :
          answer' = [answer EXCEPT ![io_arg] = state]
    BY <1>12 DEF GetIOReturns
  <2>2. Back(current_io) \in Snapshots
    BY <1>12, BackFacts DEF GetIOReturns, ClientTypeOK
  <2>3. io_arg \in Pins => io_arg + 1 \in 1 .. NIO
    BY SizeAssumption DEF Pins
  <2>4. state \in OutStates
    BY <2>1, <2>2, <2>3, OutFacts DEF Snapshots
  <2>5. answer' \in [Bytes -> OutStates]
    BY <2>1, <2>4 DEF PluginTypeOK
  <2>6. QED
    BY <1>12, <2>5, ConstantFacts
       DEF GetIOReturns, ClientTypeOK, WorkerTypeOK, RobotTypeOK, PluginTypeOK
<1>13. CASE ApplyJoints
  BY <1>13, ConstantFacts, BoundAssumption, PluginAssumption, BackFacts
     DEF ApplyJoints, IndexFault, Faults, ClientTypeOK, WorkerTypeOK, RobotTypeOK, PluginTypeOK
<1>14. CASE DestroyRtde
  BY <1>14 DEF DestroyRtde, ClientTypeOK, WorkerTypeOK, RobotTypeOK, PluginTypeOK
<1>15. QED
  BY <1>1, <1>2, <1>3, <1>4, <1>5, <1>6, <1>7, <1>8, <1>9, <1>10, <1>11, <1>12,
     <1>13, <1>14 DEF Continue, ConnectStep

(* No step of the plugin takes a variable out of its type. *)
LEMMA NextType ==
  ASSUME TypeOK, [Next]_vars
  PROVE  TypeOK'
<1>1. ASSUME NEW w \in Sessions, Communicate(w) PROVE TypeOK'
  BY <1>1, WorkerStepType DEF Communicate, TypeOK, PluginTypeOK, pluginVars
<1>2. CASE UNCHANGED vars
  BY <1>2 DEF vars, clientStepVars, clientVars, telemetryVars, workerVars,
              localVars, robotVars, pluginVars, TypeOK, ClientTypeOK,
              WorkerTypeOK, RobotTypeOK, PluginTypeOK
<1>3. QED
  BY <1>1, <1>2, RobotType, CallType, ContinueType DEF Next

(* Type correctness of the plugin, its client and its threads. *)
THEOREM TypeCorrect == Spec => []TypeOK
<1>1. QED
  BY InitType, NextType, PTL DEF Spec

---------------------------------------------------------------------------
(* One thread at a time *)

(* A communication thread that takes a step is live, moves no label but    *)
(* its own, and leaves the CoppeliaSim thread and its plugin alone.        *)
LEMMA WorkerFrame ==
  ASSUME TypeOK, NEW w \in Sessions, WorkerStep(w)
  PROVE  /\ Live(w)
         /\ \A v \in Sessions : v # w => wpc'[v] = wpc[v] /\ wq'[v] = wq[v]
         /\ UNCHANGED <<main, m_thr, attempts, now>>
<1> USE DEF TypeOK, WorkerTypeOK, clientVars, telemetryVars, localVars,
            robotVars, Goto, Live, ReceiveCalls, IOCalls, Returns, AtQueue, QueueCalls
<1>1. CASE CheckAlive(w)
  BY <1>1 DEF CheckAlive
<1>2. CASE LoadInterface(w)
  BY <1>2 DEF LoadInterface
<1>3. CASE DanglingReturn(w) \/ ReleasedAccess(w)
  BY <1>3 DEF DanglingReturn, ReleasedAccess
<1>4. CASE IsConnected(w)
  BY <1>4 DEF IsConnected
<1>5. CASE StopSelf(w)
  BY <1>5 DEF StopSelf
<1>6. CASE GetActualQ(w)
  BY <1>6 DEF GetActualQ
<1>7. CASE PushJoints(w)
  BY <1>7 DEF PushJoints
<1>8. CASE CheckJointsSize(w)
  BY <1>8 DEF CheckJointsSize
<1>9. CASE PopJoints(w)
  BY <1>9 DEF PopJoints
<1>10. CASE GetDigitalOutState(w)
  BY <1>10 DEF GetDigitalOutState
<1>11. CASE PushIO(w)
  BY <1>11 DEF PushIO
<1>12. CASE CheckIOSize(w)
  BY <1>12 DEF CheckIOSize
<1>13. CASE PopIO(w)
  BY <1>13 DEF PopIO
<1>14. CASE CheckTargets(w)
  BY <1>14 DEF CheckTargets
<1>15. CASE ReadTarget(w)
  BY <1>15 DEF ReadTarget
<1>16. CASE SetStandardDigitalOut(w)
  BY <1>16 DEF SetStandardDigitalOut
<1>17. CASE PopTarget(w)
  BY <1>17 DEF PopTarget
<1>18. QED
  BY <1>1, <1>2, <1>3, <1>4, <1>5, <1>6, <1>7, <1>8, <1>9, <1>10, <1>11,
  <1>12, <1>13, <1>14, <1>15, <1>16, <1>17 DEF WorkerStep

(* Threads are joined: a new one is launched while RTDEconnect is on its   *)
(* way to wait for the old one, and destroyed clients leave none behind.   *)
LEMMA InitJoin == Init => JoinInv
BY BoundAssumption DEF Init, ClientInit, JoinInv, WorkersJoined, LiveWorkers, Live

LEMMA NextJoin ==
  ASSUME TypeOK, JoinInv, [Next]_vars
  PROVE  JoinInv'
<1> USE DEF JoinInv, WorkersJoined
<1>0. m_thr \in Nat /\ attempts \in Nat
  BY BoundAssumption DEF TypeOK, ClientTypeOK, Session, Sessions
<1>1. ASSUME NEW w \in Sessions, Communicate(w) PROVE JoinInv'
  <2>1. LiveWorkers' \subseteq LiveWorkers
    BY <1>1, WorkerFrame DEF Communicate, LiveWorkers, Live
  <2>2. QED
    BY <1>1, <2>1, WorkerFrame DEF Communicate, pluginVars
<1>2. CASE Robot
  BY <1>2 DEF Robot, ReceivePacket, OutputChanges, LinkLost, LiveWorkers, Live, clientVars,
              workerVars, pluginVars
<1>3. CASE FirstInit
  BY <1>0, <1>3 DEF FirstInit, NewObjects, LiveWorkers, Live, workerVars
<1>4. CASE ConnectCall
  <2>1. LiveWorkers' = LiveWorkers /\ m_thr' = m_thr /\ attempts' = attempts + 1
    BY <1>4 DEF ConnectCall, BeginConnect, LiveWorkers, Live, workerVars
  <2>2. main # "conn_join" /\ main' # "conn_join" /\ plugin_loaded'
    BY <1>4 DEF ConnectCall, BeginConnect, pluginVars
  <2>3. QED
    BY <1>0, <2>1, <2>2
<1>5. CASE Reinit \/ DisconnectCall \/ GetIOCall \/ SetIOCall \/ ModuleHandle
  <2>1. LiveWorkers' = LiveWorkers /\ m_thr' = m_thr /\ attempts' = attempts
    BY <1>5 DEF Reinit, DisconnectCall, GetIOCall, SetIOCall, ModuleHandle,
                StopFlag, LiveWorkers, Live, clientVars, workerVars
  <2>2. /\ main = "idle" /\ plugin_loaded'
        /\ main' \notin {"conn_rcv", "conn_io", "conn_launch", "conn_join"}
    BY <1>5 DEF Reinit, DisconnectCall, GetIOCall, SetIOCall, ModuleHandle,
                StopFlag, pluginVars
  <2>3. QED
    BY <2>1, <2>2
<1>6. CASE DestroyThread
  <2>1. LiveWorkers = {}
    BY <1>6 DEF DestroyThread, Finished, LiveWorkers, Live, Sessions
  <2>2. LiveWorkers' = {} /\ m_thr' = Null /\ attempts' = attempts
    BY <1>6, <2>1 DEF DestroyThread, NewObjects, LiveWorkers, Live, workerVars
  <2>3. main' = "idle" /\ plugin_loaded'
    BY <1>6 DEF DestroyThread, NewObjects
  <2>4. QED
    BY <1>0, <2>2, <2>3
<1>7. CASE Launch /\ UNCHANGED pluginVars
  <2>1. LiveWorkers' \subseteq LiveWorkers \cup {attempts}
    BY <1>7 DEF Launch, Goto, LiveWorkers, Live, TypeOK, WorkerTypeOK
  <2>2. QED
    BY <1>7, <2>1 DEF Launch, pluginVars
<1>8. CASE JoinOld /\ UNCHANGED pluginVars
  <2>1. LiveWorkers \subseteq {attempts}
    BY <1>8 DEF JoinOld, Finished, LiveWorkers, Live, Sessions
  <2>2. LiveWorkers' = LiveWorkers
    BY <1>8 DEF JoinOld, LiveWorkers, Live, workerVars
  <2>3. m_thr' = attempts /\ attempts' = attempts /\ main' = "conn_ret"
        /\ plugin_loaded' = plugin_loaded /\ main = "conn_join"
    BY <1>8 DEF JoinOld, pluginVars
  <2>4. QED
    BY <1>0, <2>1, <2>2, <2>3
<1>9. CASE (CreateReceive \/ CreateIO) /\ UNCHANGED pluginVars
  <2>1. LiveWorkers' = LiveWorkers /\ m_thr' = m_thr /\ attempts' = attempts
    BY <1>9 DEF CreateReceive, CreateIO, LiveWorkers, Live, clientVars, workerVars
  <2>2. /\ main \in {"conn_rcv", "conn_io"} /\ main' \in {"conn_io", "conn_launch"}
        /\ plugin_loaded' = plugin_loaded
    BY <1>9 DEF CreateReceive, CreateIO, pluginVars
  <2>3. QED
    BY <2>1, <2>2
<1>10. CASE \/ DestroyIO \/ DestroyReceive \/ DestroyRtde \/ ConnectReturns \/ DisconnectIO
            \/ DisconnectReturns \/ GetIOReturns \/ ApplyJoints
            \/ ConnectThrows /\ UNCHANGED pluginVars
  <2>1. LiveWorkers' = LiveWorkers /\ m_thr' = m_thr /\ attempts' = attempts
    BY <1>10 DEF DestroyIO, DestroyReceive, DestroyRtde, ConnectReturns, DisconnectIO,
                 DisconnectReturns, GetIOReturns, ApplyJoints, ConnectThrows,
                 ResetIO, ResetReceive, LiveWorkers, Live, clientVars, workerVars
  <2>2. /\ main \notin {"conn_join", "idle"}
        /\ main' \notin {"conn_rcv", "conn_io", "conn_launch", "conn_join"}
        /\ plugin_loaded' = plugin_loaded
    BY <1>10 DEF DestroyIO, DestroyReceive, DestroyRtde, ConnectReturns, DisconnectIO,
                 DisconnectReturns, GetIOReturns, ApplyJoints, ConnectThrows,
                 ResetIO, ResetReceive, pluginVars
  <2>3. QED
    BY <2>1, <2>2
<1>11. CASE UNCHANGED vars
  BY <1>11 DEF vars, clientStepVars, clientVars, workerVars, pluginVars,
               LiveWorkers, Live
<1>12. QED
  BY <1>1, <1>2, <1>3, <1>4, <1>5, <1>6, <1>7, <1>8, <1>9, <1>10, <1>11
     DEF Next, Call, Continue, ConnectStep

(* Whatever the script does, a second communication thread exists only     *)
(* while RTDEconnect waits for the first.                                  *)
THEOREM Joined == Spec => []WorkersJoined
<1>1. TypeOK /\ JoinInv /\ [Next]_vars => (TypeOK /\ JoinInv)'
  BY NextType, NextJoin
<1>2. JoinInv => WorkersJoined
  BY DEF JoinInv
<1>3. QED
  BY InitType, InitJoin, <1>1, <1>2, PTL DEF Spec

---------------------------------------------------------------------------
(* The telemetry queues *)

(* Every step is a communication thread's; or leaves the queues and every  *)
(* busy thread's label alone; or makes new queues while no thread runs.    *)
LEMMA StepCases ==
  ASSUME TypeOK, JoinInv, [Next]_vars
  PROVE  \/ \E w \in Sessions : Communicate(w)
         \/ /\ UNCHANGED telemetryVars
            /\ \A w \in Sessions :
                 wpc'[w] = wpc[w] \/ (~Live(w) /\ wpc'[w] = "while_alive")
         \/ /\ LiveWorkers = {} /\ UNCHANGED wpc
            /\ current_joint_positions' = EmptyQueue
            /\ current_io' = EmptyQueue
            /\ main = "init_join" \/ inits' # inits
<1>1. CASE FirstInit
  <2>1. inits \in Nat /\ m_thr = Null /\ main = "idle"
    BY <1>1, PluginAssumption DEF FirstInit, JoinInv, TypeOK, PluginTypeOK
  <2>2. LiveWorkers = {}
    BY <2>1, ConstantFacts DEF JoinInv, WorkersJoined, LiveWorkers
  <2>3. QED
    BY <1>1, <2>1, <2>2 DEF FirstInit, NewObjects, workerVars
<1>2. CASE DestroyThread
  <2>1. LiveWorkers = {}
    BY <1>2 DEF DestroyThread, Finished, JoinInv, WorkersJoined, LiveWorkers, Live,
                Sessions
  <2>2. QED
    BY <1>2, <2>1 DEF DestroyThread, NewObjects, workerVars
<1>3. CASE Launch /\ UNCHANGED pluginVars
  <2>1. attempts \in Nat /\ m_thr < attempts /\ main # "conn_join"
    BY <1>3, BoundAssumption DEF Launch, JoinInv, TypeOK, ClientTypeOK
  <2>2. attempts \in Sessions => ~Live(attempts)
    BY <2>1, ConstantFacts DEF JoinInv, WorkersJoined, LiveWorkers, TypeOK,
       ClientTypeOK, Session
  <2>3. QED
    BY <1>3, <2>2 DEF Launch, Goto, telemetryVars, TypeOK, WorkerTypeOK
<1>4. CASE Robot
  BY <1>4 DEF Robot, ReceivePacket, OutputChanges, LinkLost, workerVars
<1>5. CASE Reinit \/ ConnectCall \/ DisconnectCall \/ GetIOCall \/ SetIOCall
           \/ ModuleHandle
  BY <1>5 DEF Reinit, ConnectCall, DisconnectCall, GetIOCall, SetIOCall,
              ModuleHandle, BeginConnect, StopFlag, workerVars
<1>6. CASE \/ DestroyIO \/ DestroyReceive \/ DestroyRtde \/ ConnectReturns \/ DisconnectIO
           \/ DisconnectReturns \/ GetIOReturns \/ ApplyJoints
           \/ CreateReceive \/ CreateIO \/ ConnectThrows \/ JoinOld
  BY <1>6 DEF DestroyIO, DestroyReceive, DestroyRtde, ConnectReturns, DisconnectIO,
              DisconnectReturns, GetIOReturns, ApplyJoints, CreateReceive,
              CreateIO, ConnectThrows, JoinOld, ResetIO, ResetReceive, workerVars
<1>7. CASE UNCHANGED vars
  BY <1>7 DEF vars, clientStepVars, workerVars
<1>8. QED
  BY <1>1, <1>2, <1>3, <1>4, <1>5, <1>6, <1>7
     DEF Next, Call, Continue, ConnectStep

(* There are never three threads. *)
LEMMA TwoThreads ==
  ASSUME JoinInv, NEW u \in LiveWorkers, NEW v \in LiveWorkers, NEW w \in LiveWorkers
  PROVE  u = v \/ v = w \/ u = w
BY DEF JoinInv, WorkersJoined

(* What one thread does to the queues: it pushes, or looks at a size and   *)
(* decides, or takes a front it has decided on, or leaves them alone.      *)
LEMMA JointsSteps ==
  ASSUME TypeOK, NEW w \in Sessions, WorkerStep(w)
  PROVE  \/ PushJoints(w) \/ CheckJointsSize(w) \/ PopJoints(w)
         \/ ReleasedAccess(w)
         \/ /\ UNCHANGED current_joint_positions
            /\ wpc[w] \notin {"joints_push", "joints_size", "joints_pop"}
            /\ wpc'[w] \notin {"joints_size", "joints_pop"}
<1> USE DEF TypeOK, WorkerTypeOK, telemetryVars, Goto, ReceiveCalls, IOCalls, Returns
<1>1. CASE CheckAlive(w)
  BY <1>1 DEF CheckAlive
<1>2. CASE LoadInterface(w)
  BY <1>2 DEF LoadInterface
<1>3. CASE DanglingReturn(w) \/ ReleasedAccess(w)
  BY <1>3 DEF DanglingReturn, ReleasedAccess
<1>4. CASE IsConnected(w)
  BY <1>4 DEF IsConnected
<1>5. CASE StopSelf(w)
  BY <1>5 DEF StopSelf
<1>6. CASE GetActualQ(w)
  BY <1>6 DEF GetActualQ
<1>7. CASE GetDigitalOutState(w)
  BY <1>7 DEF GetDigitalOutState
<1>8. CASE PushIO(w)
  BY <1>8 DEF PushIO
<1>9. CASE CheckIOSize(w)
  BY <1>9 DEF CheckIOSize
<1>10. CASE PopIO(w)
  BY <1>10 DEF PopIO
<1>11. CASE CheckTargets(w)
  BY <1>11 DEF CheckTargets
<1>12. CASE ReadTarget(w)
  BY <1>12 DEF ReadTarget
<1>13. CASE SetStandardDigitalOut(w)
  BY <1>13 DEF SetStandardDigitalOut
<1>14. CASE PopTarget(w)
  BY <1>14 DEF PopTarget
<1>15. QED
  BY <1>1, <1>2, <1>3, <1>4, <1>5, <1>6, <1>7, <1>8, <1>9, <1>10, <1>11,
  <1>12, <1>13, <1>14 DEF WorkerStep

LEMMA IOSteps ==
  ASSUME TypeOK, NEW w \in Sessions, WorkerStep(w)
  PROVE  \/ PushIO(w) \/ CheckIOSize(w) \/ PopIO(w) \/ ReleasedAccess(w)
         \/ /\ UNCHANGED current_io
            /\ wpc[w] \notin {"io_size", "io_pop"}
            /\ wpc'[w] \notin {"io_size", "io_pop"}
<1> USE DEF TypeOK, WorkerTypeOK, telemetryVars, Goto, ReceiveCalls, IOCalls, Returns
<1>1. CASE CheckAlive(w)
  BY <1>1 DEF CheckAlive
<1>2. CASE LoadInterface(w)
  BY <1>2 DEF LoadInterface
<1>3. CASE DanglingReturn(w) \/ ReleasedAccess(w)
  BY <1>3 DEF DanglingReturn, ReleasedAccess
<1>4. CASE IsConnected(w)
  BY <1>4 DEF IsConnected
<1>5. CASE StopSelf(w)
  BY <1>5 DEF StopSelf
<1>6. CASE GetActualQ(w)
  BY <1>6 DEF GetActualQ
<1>7. CASE PushJoints(w)
  BY <1>7 DEF PushJoints
<1>8. CASE CheckJointsSize(w)
  BY <1>8 DEF CheckJointsSize
<1>9. CASE PopJoints(w)
  BY <1>9 DEF PopJoints
<1>10. CASE GetDigitalOutState(w)
  BY <1>10 DEF GetDigitalOutState
<1>11. CASE CheckTargets(w)
  BY <1>11 DEF CheckTargets
<1>12. CASE ReadTarget(w)
  BY <1>12 DEF ReadTarget
<1>13. CASE SetStandardDigitalOut(w)
  BY <1>13 DEF SetStandardDigitalOut
<1>14. CASE PopTarget(w)
  BY <1>14 DEF PopTarget
<1>15. QED
  BY <1>1, <1>2, <1>3, <1>4, <1>5, <1>6, <1>7, <1>8, <1>9, <1>10, <1>11,
  <1>12, <1>13, <1>14 DEF WorkerStep

(* A thread takes a front only after it has seen one entry too many, so    *)
(* two threads together leave at least one.                                *)
LEMMA InitTrim == Init => TrimInv
BY DEF Init, ClientInit, TrimInv, LeavesEnough

LEMMA WorkerTrim ==
  ASSUME TypeOK, JoinInv, TrimInv, NEW w \in Sessions, WorkerStep(w)
  PROVE  TrimInv'
<1> USE DEF LeavesEnough
<1>1. \A v \in Sessions : v # w => wpc'[v] = wpc[v]
  BY WorkerFrame
<1>2. LeavesEnough(current_joint_positions, "joints_pop")'
  <2>1. current_joint_positions \in Seq(Positions) /\ Len(current_joint_positions) \in Nat
    BY DEF TypeOK, ClientTypeOK
  <2>2. CASE PushJoints(w)
    <3>1. Len(current_joint_positions') = Len(current_joint_positions) + 1
      BY <2>1, <2>2 DEF PushJoints, PushBack
    <3>2. wpc'[w] = "joints_size"
      BY <2>2 DEF PushJoints, Goto, TypeOK, WorkerTypeOK
    <3>3. QED
      BY <1>1, <2>1, <3>1, <3>2, ConstantFacts DEF TrimInv
  <2>3. CASE CheckJointsSize(w)
    <3>1. current_joint_positions' = current_joint_positions
      BY <2>3 DEF CheckJointsSize, telemetryVars
    <3>2. wpc'[w] = "joints_pop" => Len(current_joint_positions) >= BufferSize + 1
      BY <2>1, <2>3, ConstantFacts
         DEF CheckJointsSize, TooLong, Goto, TypeOK, WorkerTypeOK
    <3>3. QED
      BY <1>1, <2>1, <3>1, <3>2, ConstantFacts DEF TrimInv
  <2>4. CASE PopJoints(w)
    <3>1. Len(current_joint_positions') = Len(current_joint_positions) - 1
      BY <2>1, <2>4, PopFrontFacts DEF PopJoints
    <3>2. wpc[w] = "joints_pop" /\ wpc'[w] = "joints_size"
      BY <2>4 DEF PopJoints, Goto, TypeOK, WorkerTypeOK
    <3>3. ASSUME NEW u \in Sessions, NEW v \in Sessions,
                 wpc'[u] = "joints_pop", wpc'[v] = "joints_pop"
          PROVE  Len(current_joint_positions') >= IF u = v THEN BufferSize ELSE BufferSize + 1
      <4>1. u # w /\ v # w /\ wpc[u] = "joints_pop" /\ wpc[v] = "joints_pop"
        BY <1>1, <3>2, <3>3
      <4>2. u = v
        BY <3>2, <4>1, TwoThreads DEF LiveWorkers, Live
      <4>3. Len(current_joint_positions) >= BufferSize + 1
        BY <3>2, <4>1 DEF TrimInv
      <4>4. QED
        BY <2>1, <3>1, <4>2, <4>3, ConstantFacts
    <3>4. QED
      BY <3>3
  <2>5. CASE /\ UNCHANGED current_joint_positions
             /\ wpc'[w] \notin {"joints_size", "joints_pop"}
    BY <1>1, <2>5 DEF TrimInv
  <2>6. CASE ReleasedAccess(w)
    BY <2>6 DEF ReleasedAccess, telemetryVars, TrimInv
  <2>7. QED
    BY <2>2, <2>3, <2>4, <2>5, <2>6, JointsSteps
<1>3. LeavesEnough(current_io, "io_pop")'
  <2>1. current_io \in Seq(Snapshots) /\ Len(current_io) \in Nat
    BY DEF TypeOK, ClientTypeOK
  <2>2. CASE PushIO(w)
    <3>1. Len(current_io') = Len(current_io) + 1
      BY <2>1, <2>2 DEF PushIO, PushBack
    <3>2. wpc'[w] = "io_size"
      BY <2>2 DEF PushIO, Goto, TypeOK, WorkerTypeOK
    <3>3. QED
      BY <1>1, <2>1, <3>1, <3>2, ConstantFacts DEF TrimInv
  <2>3. CASE CheckIOSize(w)
    <3>1. current_io' = current_io
      BY <2>3 DEF CheckIOSize, telemetryVars
    <3>2. wpc'[w] = "io_pop" => Len(current_io) >= BufferSize + 1
      BY <2>1, <2>3, ConstantFacts
         DEF CheckIOSize, TooLong, Goto, TypeOK, WorkerTypeOK
    <3>3. QED
      BY <1>1, <2>1, <3>1, <3>2, ConstantFacts DEF TrimInv
  <2>4. CASE PopIO(w)
    <3>1. Len(current_io') = Len(current_io) - 1
      BY <2>1, <2>4, PopFrontFacts DEF PopIO
    <3>2. wpc[w] = "io_pop" /\ wpc'[w] = "io_size"
      BY <2>4 DEF PopIO, Goto, TypeOK, WorkerTypeOK
    <3>3. ASSUME NEW u \in Sessions, NEW v \in Sessions,
                 wpc'[u] = "io_pop", wpc'[v] = "io_pop"
          PROVE  Len(current_io') >= IF u = v THEN BufferSize ELSE BufferSize + 1
      <4>1. u # w /\ v # w /\ wpc[u] = "io_pop" /\ wpc[v] = "io_pop"
        BY <1>1, <3>2, <3>3
      <4>2. u = v
        BY <3>2, <4>1, TwoThreads DEF LiveWorkers, Live
      <4>3. Len(current_io) >= BufferSize + 1
        BY <3>2, <4>1 DEF TrimInv
      <4>4. QED
        BY <2>1, <3>1, <4>2, <4>3, ConstantFacts
    <3>4. QED
      BY <3>3
  <2>5. CASE /\ UNCHANGED current_io
             /\ wpc'[w] \notin {"io_size", "io_pop"}
    BY <1>1, <2>5 DEF TrimInv
  <2>6. CASE ReleasedAccess(w)
    BY <2>6 DEF ReleasedAccess, telemetryVars, TrimInv
  <2>7. QED
    BY <2>2, <2>3, <2>4, <2>5, <2>6, IOSteps
<1>4. QED
  BY <1>2, <1>3 DEF TrimInv

LEMMA NextTrim ==
  ASSUME TypeOK, JoinInv, TrimInv, [Next]_vars
  PROVE  TrimInv'
<1>1. CASE \E w \in Sessions : Communicate(w)
  BY <1>1, WorkerTrim DEF Communicate
<1>2. CASE /\ UNCHANGED telemetryVars
           /\ \A w \in Sessions :
                wpc'[w] = wpc[w] \/ (~Live(w) /\ wpc'[w] = "while_alive")
  BY <1>2 DEF TrimInv, LeavesEnough, telemetryVars
<1>3. CASE LiveWorkers = {} /\ UNCHANGED wpc
  BY <1>3 DEF TrimInv, LeavesEnough, LiveWorkers, Live
<1>4. QED
  BY <1>1, <1>2, <1>3, StepCases

(* A queue with an entry keeps one until simRTDE.init replaces it: what    *)
(* back() found once it finds again, and pop_front() never waits.          *)
LEMMA StepKeepsTelemetry ==
  ASSUME TypeOK, JoinInv, TrimInv, [Next]_vars,
         inits' = inits, main # "init_join"
  PROVE  /\ ~IsEmpty(current_joint_positions) => ~IsEmpty(current_joint_positions')
         /\ ~IsEmpty(current_io) => ~IsEmpty(current_io')
<1>1. CASE \E w \in Sessions : Communicate(w)
  <2>1. PICK w \in Sessions : WorkerStep(w)
    BY <1>1 DEF Communicate
  <2>2. /\ current_joint_positions \in Seq(Positions)
        /\ current_io \in Seq(Snapshots)
    BY DEF TypeOK, ClientTypeOK
  <2>3. ~IsEmpty(current_joint_positions) => ~IsEmpty(current_joint_positions')
    <3>1. CASE PushJoints(w)
      BY <2>2, <3>1 DEF PushJoints, PushBack, IsEmpty
    <3>2. CASE PopJoints(w)
      <4>1. Len(current_joint_positions) >= BufferSize
        BY <3>2 DEF PopJoints, TrimInv, LeavesEnough
      <4>2. Len(current_joint_positions') = Len(current_joint_positions) - 1
        BY <2>2, <3>2, PopFrontFacts DEF PopJoints
      <4>3. QED
        BY <2>2, <4>1, <4>2, ConstantFacts DEF IsEmpty
    <3>3. CASE CheckJointsSize(w) \/ ReleasedAccess(w)
      BY <3>3 DEF CheckJointsSize, ReleasedAccess, telemetryVars
    <3>4. QED
      BY <2>1, <3>1, <3>2, <3>3, JointsSteps
  <2>4. ~IsEmpty(current_io) => ~IsEmpty(current_io')
    <3>1. CASE PushIO(w)
      BY <2>2, <3>1 DEF PushIO, PushBack, IsEmpty
    <3>2. CASE PopIO(w)
      <4>1. Len(current_io) >= BufferSize
        BY <3>2 DEF PopIO, TrimInv, LeavesEnough
      <4>2. Len(current_io') = Len(current_io) - 1
        BY <2>2, <3>2, PopFrontFacts DEF PopIO
      <4>3. QED
        BY <2>2, <4>1, <4>2, ConstantFacts DEF IsEmpty
    <3>3. CASE CheckIOSize(w) \/ ReleasedAccess(w)
      BY <3>3 DEF CheckIOSize, ReleasedAccess, telemetryVars
    <3>4. QED
      BY <2>1, <3>1, <3>2, <3>3, IOSteps
  <2>5. QED
    BY <2>3, <2>4
<1>2. CASE UNCHANGED telemetryVars
  BY <1>2 DEF telemetryVars
<1>3. QED
  BY <1>1, <1>2, StepCases

(* Telemetry stays, for every buffer_size above one and any interleaving   *)
(* of a reconnect with the thread it replaces.                             *)
THEOREM TelemetryKept == Spec => TelemetryStays
<1>1. TypeOK /\ JoinInv /\ TrimInv /\ [Next]_vars => (TypeOK /\ JoinInv /\ TrimInv)'
  BY NextType, NextJoin, NextTrim
<1>2. TypeOK /\ JoinInv /\ TrimInv /\ [Next]_vars =>
        [inits' = inits /\ main # "init_join" =>
           /\ ~IsEmpty(current_joint_positions) => ~IsEmpty(current_joint_positions')
           /\ ~IsEmpty(current_io) => ~IsEmpty(current_io')]_vars
  BY StepKeepsTelemetry
<1>3. QED
  BY InitType, InitJoin, InitTrim, <1>1, <1>2, PTL DEF Spec, TelemetryStays

---------------------------------------------------------------------------
(* The bound on the telemetry queues *)

LEMMA TrimmingFinite ==
  /\ IsFiniteSet(TrimmingJoints) /\ Cardinality(TrimmingJoints) \in Nat
  /\ IsFiniteSet(TrimmingIO) /\ Cardinality(TrimmingIO) \in Nat
  /\ Cardinality(TrimmingJoints') \in Nat /\ Cardinality(TrimmingIO') \in Nat
<1>1. IsFiniteSet(Sessions)
  BY FS_Interval, BoundAssumption DEF Sessions
<1>2. \A S \in SUBSET Sessions : IsFiniteSet(S) /\ Cardinality(S) \in Nat
  BY <1>1, FS_Subset, FS_CardinalityType
<1>3. /\ TrimmingJoints \in SUBSET Sessions /\ TrimmingIO \in SUBSET Sessions
      /\ TrimmingJoints' \in SUBSET Sessions /\ TrimmingIO' \in SUBSET Sessions
  BY DEF TrimmingJoints, TrimmingIO
<1>4. QED
  BY <1>2, <1>3

LEMMA InitBounded == Init => QueuesBounded
BY TrimmingFinite, ConstantFacts DEF Init, ClientInit, EmptyQueue, QueuesBounded

LEMMA WorkerBounded ==
  ASSUME TypeOK, QueuesBounded, NEW w \in Sessions, WorkerStep(w)
  PROVE  QueuesBounded'
<1>1. \A v \in Sessions : v # w => wpc'[v] = wpc[v]
  BY WorkerFrame
<1>2. /\ IsFiniteSet(TrimmingJoints) /\ Cardinality(TrimmingJoints) \in Nat
      /\ IsFiniteSet(TrimmingIO) /\ Cardinality(TrimmingIO) \in Nat
      /\ Cardinality(TrimmingJoints') \in Nat /\ Cardinality(TrimmingIO') \in Nat
  BY TrimmingFinite
<1>3. (Len(current_joint_positions) <= BufferSize + Cardinality(TrimmingJoints))'
  <2>1. current_joint_positions \in Seq(Positions) /\ Len(current_joint_positions) \in Nat
    BY DEF TypeOK, ClientTypeOK
  <2>2. CASE PushJoints(w)
    <3>1. Len(current_joint_positions') = Len(current_joint_positions) + 1
      BY <2>1, <2>2 DEF PushJoints, PushBack
    <3>2. w \notin TrimmingJoints /\ wpc'[w] = "joints_size"
      BY <2>2 DEF PushJoints, TrimmingJoints, Goto, TypeOK, WorkerTypeOK
    <3>3. TrimmingJoints' = TrimmingJoints \cup {w}
      BY <1>1, <3>2 DEF TrimmingJoints
    <3>4. Cardinality(TrimmingJoints') = Cardinality(TrimmingJoints) + 1
      BY <1>2, <3>2, <3>3, FS_AddElement
    <3>5. QED
      BY <1>2, <2>1, <3>1, <3>4, ConstantFacts DEF QueuesBounded
  <2>3. CASE CheckJointsSize(w)
    <3>1. current_joint_positions' = current_joint_positions
      BY <2>3 DEF CheckJointsSize, telemetryVars
    <3>2. CASE TooLong(current_joint_positions)
      <4>1. wpc'[w] = "joints_pop" /\ wpc[w] = "joints_size"
        BY <2>3, <3>2 DEF CheckJointsSize, Goto, TypeOK, WorkerTypeOK
      <4>2. TrimmingJoints' = TrimmingJoints
        BY <1>1, <4>1 DEF TrimmingJoints
      <4>3. QED
        BY <3>1, <4>2 DEF QueuesBounded
    <3>3. CASE ~TooLong(current_joint_positions)
      BY <1>2, <2>1, <3>1, <3>3, ConstantFacts DEF TooLong
    <3>4. QED
      BY <3>2, <3>3
  <2>4. CASE PopJoints(w)
    <3>1. Len(current_joint_positions') = Len(current_joint_positions) - 1
      BY <2>1, <2>4, PopFrontFacts DEF PopJoints
    <3>2. wpc[w] = "joints_pop" /\ wpc'[w] = "joints_size"
      BY <2>4 DEF PopJoints, Goto, TypeOK, WorkerTypeOK
    <3>3. TrimmingJoints' = TrimmingJoints
      BY <1>1, <3>2 DEF TrimmingJoints
    <3>4. QED
      BY <1>2, <2>1, <3>1, <3>3, ConstantFacts DEF QueuesBounded
  <2>5. CASE /\ UNCHANGED current_joint_positions
             /\ wpc[w] \notin {"joints_size", "joints_pop"}
             /\ wpc'[w] \notin {"joints_size", "joints_pop"}
    <3>1. TrimmingJoints' = TrimmingJoints
      BY <1>1, <2>5 DEF TrimmingJoints
    <3>2. QED
      BY <2>5, <3>1 DEF QueuesBounded
  <2>6. CASE ReleasedAccess(w)
    BY <2>6 DEF ReleasedAccess, telemetryVars, TrimmingJoints, QueuesBounded
  <2>7. QED
    BY <2>2, <2>3, <2>4, <2>5, <2>6, JointsSteps
<1>4. (Len(current_io) <= BufferSize + Cardinality(TrimmingIO))'
  <2>1. current_io \in Seq(Snapshots) /\ Len(current_io) \in Nat
    BY DEF TypeOK, ClientTypeOK
  <2>2. CASE PushIO(w)
    <3>1. Len(current_io') = Len(current_io) + 1
      BY <2>1, <2>2 DEF PushIO, PushBack
    <3>2. w \notin TrimmingIO /\ wpc'[w] = "io_size"
      BY <2>2 DEF PushIO, TrimmingIO, Goto, TypeOK, WorkerTypeOK
    <3>3. TrimmingIO' = TrimmingIO \cup {w}
      BY <1>1, <3>2 DEF TrimmingIO
    <3>4. Cardinality(TrimmingIO') = Cardinality(TrimmingIO) + 1
      BY <1>2, <3>2, <3>3, FS_AddElement
    <3>5. QED
      BY <1>2, <2>1, <3>1, <3>4, ConstantFacts DEF QueuesBounded
  <2>3. CASE CheckIOSize(w)
    <3>1. current_io' = current_io
      BY <2>3 DEF CheckIOSize, telemetryVars
    <3>2. CASE TooLong(current_io)
      <4>1. wpc'[w] = "io_pop" /\ wpc[w] = "io_size"
        BY <2>3, <3>2 DEF CheckIOSize, Goto, TypeOK, WorkerTypeOK
      <4>2. TrimmingIO' = TrimmingIO
        BY <1>1, <4>1 DEF TrimmingIO
      <4>3. QED
        BY <3>1, <4>2 DEF QueuesBounded
    <3>3. CASE ~TooLong(current_io)
      BY <1>2, <2>1, <3>1, <3>3, ConstantFacts DEF TooLong
    <3>4. QED
      BY <3>2, <3>3
  <2>4. CASE PopIO(w)
    <3>1. Len(current_io') = Len(current_io) - 1
      BY <2>1, <2>4, PopFrontFacts DEF PopIO
    <3>2. wpc[w] = "io_pop" /\ wpc'[w] = "io_size"
      BY <2>4 DEF PopIO, Goto, TypeOK, WorkerTypeOK
    <3>3. TrimmingIO' = TrimmingIO
      BY <1>1, <3>2 DEF TrimmingIO
    <3>4. QED
      BY <1>2, <2>1, <3>1, <3>3, ConstantFacts DEF QueuesBounded
  <2>5. CASE /\ UNCHANGED current_io
             /\ wpc[w] \notin {"io_size", "io_pop"}
             /\ wpc'[w] \notin {"io_size", "io_pop"}
    <3>1. TrimmingIO' = TrimmingIO
      BY <1>1, <2>5 DEF TrimmingIO
    <3>2. QED
      BY <2>5, <3>1 DEF QueuesBounded
  <2>6. CASE ReleasedAccess(w)
    BY <2>6 DEF ReleasedAccess, telemetryVars, TrimmingIO, QueuesBounded
  <2>7. QED
    BY <2>2, <2>3, <2>4, <2>5, <2>6, IOSteps
<1>5. QED
  BY <1>3, <1>4 DEF QueuesBounded

LEMMA NextBounded ==
  ASSUME TypeOK, JoinInv, QueuesBounded, [Next]_vars
  PROVE  QueuesBounded'
<1>1. CASE \E w \in Sessions : Communicate(w)
  BY <1>1, WorkerBounded DEF Communicate
<1>2. CASE /\ UNCHANGED telemetryVars
           /\ \A w \in Sessions :
                wpc'[w] = wpc[w] \/ (~Live(w) /\ wpc'[w] = "while_alive")
  <2>1. TrimmingJoints' = TrimmingJoints /\ TrimmingIO' = TrimmingIO
    BY <1>2 DEF TrimmingJoints, TrimmingIO, Live
  <2>2. QED
    BY <1>2, <2>1 DEF QueuesBounded, telemetryVars
<1>3. CASE /\ current_joint_positions' = EmptyQueue
           /\ current_io' = EmptyQueue
  <2>1. Cardinality(TrimmingJoints') \in Nat /\ Cardinality(TrimmingIO') \in Nat
    BY TrimmingFinite
  <2>2. QED
    BY <1>3, <2>1, ConstantFacts DEF QueuesBounded, EmptyQueue
<1>4. QED
  BY <1>1, <1>2, <1>3, StepCases

(* The telemetry queues stay within buffer_size and one entry per thread   *)
(* at work on them.                                                        *)
THEOREM Bounded == Spec => []QueuesBounded
<1>1. TypeOK /\ JoinInv /\ QueuesBounded /\ [Next]_vars
        => (TypeOK /\ JoinInv /\ QueuesBounded)'
  BY NextType, NextJoin, NextBounded
<1>2. QED
  BY InitType, InitJoin, InitBounded, <1>1, PTL DEF Spec

---------------------------------------------------------------------------
(* The scene mirrors the robot, when connect is called once per init *)

(* Without reconnects there is one communication thread at most. *)
LEMMA OneThread ==
  ASSUME TypeOK, JoinInv, MirrorInv
  PROVE  \A v, w \in LiveWorkers : v = w
<1>1. LiveWorkers \subseteq Nat \ {0}
  BY ConstantFacts DEF LiveWorkers
<1>2. CASE main = "conn_join"
  BY <1>1, <1>2 DEF JoinInv, WorkersJoined, MirrorInv
<1>3. CASE main # "conn_join"
  BY <1>3 DEF JoinInv, WorkersJoined
<1>4. QED
  BY <1>2, <1>3

LEMMA InitMirror == Init => MirrorInv
BY DEF Init, ClientInit, MirrorInv, IsEmpty, EmptyQueue

(* The other steps of a thread have nothing to do with joint vectors. *)
LEMMA QuietSteps ==
  ASSUME TypeOK, NEW w \in Sessions, WorkerStep(w)
  PROVE  \/ PushJoints(w) \/ PopJoints(w) \/ GetActualQ(w) \/ CheckJointsSize(w)
         \/ ReleasedAccess(w)
         \/ /\ UNCHANGED current_joint_positions
            /\ wpc[w] # "joints_push" /\ wpc'[w] # "joints_push"
<1> USE DEF TypeOK, WorkerTypeOK, telemetryVars, Goto, ReceiveCalls, IOCalls, Returns
<1>1. CASE CheckAlive(w)
  BY <1>1 DEF CheckAlive
<1>2. CASE LoadInterface(w)
  BY <1>2 DEF LoadInterface
<1>3. CASE DanglingReturn(w) \/ ReleasedAccess(w)
  BY <1>3 DEF DanglingReturn, ReleasedAccess
<1>4. CASE IsConnected(w)
  BY <1>4 DEF IsConnected
<1>5. CASE StopSelf(w)
  BY <1>5 DEF StopSelf
<1>6. CASE PushIO(w)
  BY <1>6 DEF PushIO
<1>7. CASE CheckIOSize(w)
  BY <1>7 DEF CheckIOSize
<1>8. CASE PopIO(w)
  BY <1>8 DEF PopIO
<1>9. CASE GetDigitalOutState(w)
  BY <1>9 DEF GetDigitalOutState
<1>10. CASE CheckTargets(w)
  BY <1>10 DEF CheckTargets
<1>11. CASE ReadTarget(w)
  BY <1>11 DEF ReadTarget
<1>12. CASE SetStandardDigitalOut(w)
  BY <1>12 DEF SetStandardDigitalOut
<1>13. CASE PopTarget(w)
  BY <1>13 DEF PopTarget
<1>14. QED
  BY <1>1, <1>2, <1>3, <1>4, <1>5, <1>6, <1>7, <1>8, <1>9, <1>10, <1>11,
     <1>12, <1>13 DEF WorkerStep

LEMMA WorkerMirror ==
  ASSUME TypeOK, JoinInv, MirrorInv, NEW w \in Sessions, Communicate(w)
  PROVE  MirrorInv'
<1> DEFINE Q == current_joint_positions
<1>1. WorkerStep(w) /\ UNCHANGED pluginVars
  BY DEF Communicate
<1>2. /\ Live(w)
      /\ \A v \in Sessions : v # w => wpc'[v] = wpc[v] /\ wq'[v] = wq[v]
      /\ UNCHANGED <<main, m_thr, now, scene>>
  BY <1>1, WorkerFrame DEF pluginVars
<1>3. \A v \in Sessions : wpc[v] = "joints_push" => v = w
  BY <1>2, OneThread DEF LiveWorkers, Live
<1>4. /\ Q \in Seq(Positions) /\ now \in Nat /\ scene \in Nat
      /\ \A v \in Sessions : wq[v] \in Nat
  BY BoundAssumption
     DEF TypeOK, ClientTypeOK, WorkerTypeOK, RobotTypeOK, PluginTypeOK, Positions
<1>5. ~IsEmpty(Q) => Back(Q) \in Nat
  BY <1>4, BackFacts, BoundAssumption DEF Positions
<1>6. CASE PushJoints(w)
  <2>1. wpc[w] = "joints_push" /\ wpc'[w] = "joints_size" /\ Q' = PushBack(Q, wq[w])
    BY <1>6 DEF PushJoints, Goto, TypeOK, WorkerTypeOK
  <2>2. Back(Q') = wq[w]
    BY <1>4, <2>1 DEF PushBack, Back
  <2>3. \A v \in Sessions : wpc'[v] # "joints_push"
    BY <1>2, <1>3, <2>1
  <2>4. QED
    BY <1>2, <2>1, <2>2, <2>3 DEF MirrorInv
<1>7. CASE PopJoints(w)
  <2>1. wpc[w] = "joints_pop" /\ wpc'[w] = "joints_size" /\ ~IsEmpty(Q)
    BY <1>7 DEF PopJoints, Goto, TypeOK, WorkerTypeOK
  <2>2. ~IsEmpty(Q') => Back(Q') = Back(Q)
    BY <1>4, <1>7, PopFrontFacts DEF PopJoints
  <2>3. \A v \in Sessions : wpc'[v] # "joints_push"
    BY <1>2, <1>3, <2>1
  <2>4. QED
    BY <1>2, <2>1, <2>2, <2>3 DEF MirrorInv
<1>8. CASE GetActualQ(w)
  <2>1. Q' = Q /\ wpc[w] # "joints_push" /\ wq'[w] = now
    BY <1>8 DEF GetActualQ, Returns, telemetryVars, TypeOK, WorkerTypeOK
  <2>2. QED
    BY <1>2, <1>3, <1>4, <1>5, <2>1 DEF MirrorInv
<1>9. CASE CheckJointsSize(w)
  <2>1. Q' = Q /\ wpc[w] # "joints_push" /\ wpc'[w] # "joints_push"
    BY <1>9 DEF CheckJointsSize, telemetryVars, Goto, TypeOK, WorkerTypeOK
  <2>2. QED
    BY <1>2, <1>3, <2>1 DEF MirrorInv
<1>10. CASE Q' = Q /\ wpc[w] # "joints_push" /\ wpc'[w] # "joints_push"
  BY <1>2, <1>3, <1>10 DEF MirrorInv
<1>11. CASE ReleasedAccess(w)
  <2>1. UNCHANGED <<main, m_thr, now, current_joint_positions, wq, wpc>>
    BY <1>11 DEF ReleasedAccess, clientVars, telemetryVars, localVars, robotVars
  <2>2. QED
    BY <1>2, <2>1 DEF MirrorInv
<1>12. QED
  BY <1>1, <1>6, <1>7, <1>8, <1>9, <1>10, <1>11, QuietSteps

(* The steps of the CoppeliaSim thread and of the robot. *)
LEMMA OtherMirror ==
  ASSUME ~Reconnects, TypeOK, JoinInv, MirrorInv, [Next]_vars,
         ~\E w \in Sessions : Communicate(w)
  PROVE  MirrorInv'
<1> DEFINE Q == current_joint_positions
           Starting == {"conn_rcv", "conn_io", "conn_launch", "conn_join"}
<1>1. /\ Q \in Seq(Positions) /\ now \in Nat /\ scene \in Nat
      /\ \A v \in Sessions : wq[v] \in Nat
  BY BoundAssumption
     DEF TypeOK, ClientTypeOK, WorkerTypeOK, RobotTypeOK, PluginTypeOK, Positions
<1>2. ~IsEmpty(Q) => Back(Q) \in Nat
  BY <1>1, BackFacts, BoundAssumption DEF Positions
<1>3. ASSUME main' \in Starting => m_thr' = Null, now' \in Nat, now <= now',
             UNCHANGED <<scene, current_joint_positions, wq>>,
             \A w \in Sessions : wpc'[w] = "joints_push" => wpc[w] = "joints_push"
      PROVE  MirrorInv'
  BY <1>1, <1>2, <1>3 DEF MirrorInv
<1>4. CASE Robot
  <2>1. now' \in Nat /\ now <= now'
    BY <1>1, <1>4 DEF Robot, ReceivePacket, OutputChanges, LinkLost
  <2>2. UNCHANGED <<main, m_thr, scene, current_joint_positions, wq, wpc>>
    BY <1>4 DEF Robot, ReceivePacket, OutputChanges, LinkLost, clientVars, telemetryVars,
                workerVars, localVars, pluginVars
  <2>3. QED
    BY <1>3, <2>1, <2>2 DEF MirrorInv
<1>5. CASE FirstInit \/ DestroyThread
  <2>1. /\ current_joint_positions' = EmptyQueue /\ m_thr' = Null
        /\ UNCHANGED <<scene, now, wq, wpc>>
    BY <1>5 DEF FirstInit, DestroyThread, NewObjects, workerVars, localVars, robotVars
  <2>2. IsEmpty(current_joint_positions')
    BY <2>1 DEF IsEmpty, EmptyQueue
  <2>3. QED
    BY <2>1, <2>2 DEF MirrorInv
<1>6. CASE ApplyJoints
  <2>1. /\ UNCHANGED <<now, current_joint_positions, wq, wpc>>
        /\ scene' = scene \/ scene' = Back(Q)
        /\ ~IsEmpty(Q) /\ main' = "idle"
    BY <1>6 DEF ApplyJoints, workerVars, localVars, robotVars, telemetryVars
  <2>2. QED
    BY <1>1, <1>2, <2>1 DEF MirrorInv
<1>7. CASE ConnectCall
  <2>1. m_thr' = Null
    BY <1>7 DEF ConnectCall, BeginConnect
  <2>2. UNCHANGED <<scene, now, current_joint_positions, wq, wpc>>
    BY <1>7 DEF ConnectCall, BeginConnect, telemetryVars, workerVars, localVars,
                robotVars, pluginVars
  <2>3. QED
    BY <1>1, <1>3, <2>1, <2>2
<1>8. CASE (CreateReceive \/ CreateIO) /\ UNCHANGED pluginVars
  <2>1. main \in Starting /\ m_thr' = m_thr
    BY <1>8 DEF CreateReceive, CreateIO
  <2>2. UNCHANGED <<scene, now, current_joint_positions, wq, wpc>>
    BY <1>8 DEF CreateReceive, CreateIO, telemetryVars, workerVars, localVars,
                robotVars, pluginVars
  <2>3. QED
    BY <1>1, <1>3, <2>1, <2>2 DEF MirrorInv
<1>9. CASE Launch /\ UNCHANGED pluginVars
  <2>1. main \in Starting /\ m_thr' = m_thr
    BY <1>9 DEF Launch
  <2>2. UNCHANGED <<scene, now, current_joint_positions, wq>>
    BY <1>9 DEF Launch, telemetryVars, localVars, robotVars, pluginVars
  <2>3. \A w \in Sessions : wpc'[w] = "joints_push" => wpc[w] = "joints_push"
    BY <1>9 DEF Launch, Goto, TypeOK, WorkerTypeOK
  <2>4. QED
    BY <1>1, <1>3, <2>1, <2>2, <2>3 DEF MirrorInv
<1>10. CASE \/ Reinit \/ DisconnectCall \/ GetIOCall \/ SetIOCall \/ ModuleHandle
            \/ DestroyIO \/ DestroyReceive \/ DestroyRtde \/ ConnectReturns \/ DisconnectIO
            \/ DisconnectReturns \/ GetIOReturns
            \/ (ConnectThrows \/ JoinOld) /\ UNCHANGED pluginVars
  <2>1. main' \notin Starting
    BY <1>10 DEF Reinit, DisconnectCall, GetIOCall, SetIOCall, ModuleHandle,
                 DestroyIO, DestroyReceive, DestroyRtde, ConnectReturns, DisconnectIO,
                 DisconnectReturns, GetIOReturns, ConnectThrows, JoinOld,
                 StopFlag, ResetIO, ResetReceive
  <2>2. UNCHANGED <<scene, now, current_joint_positions, wq, wpc>>
    BY <1>10 DEF Reinit, DisconnectCall, GetIOCall, SetIOCall, ModuleHandle,
                 DestroyIO, DestroyReceive, DestroyRtde, ConnectReturns, DisconnectIO,
                 DisconnectReturns, GetIOReturns, ConnectThrows, JoinOld,
                 StopFlag, ResetIO, ResetReceive, telemetryVars, workerVars,
                 localVars, robotVars, pluginVars
  <2>3. QED
    BY <1>1, <1>3, <2>1, <2>2
<1>11. CASE UNCHANGED vars
  <2>1. UNCHANGED <<main, m_thr, scene, now, current_joint_positions, wq, wpc>>
    BY <1>11 DEF vars, clientStepVars, clientVars, telemetryVars, workerVars,
                 localVars, robotVars, pluginVars
  <2>2. QED
    BY <1>1, <1>3, <2>1 DEF MirrorInv
<1>12. QED
  BY <1>4, <1>5, <1>6, <1>7, <1>8, <1>9, <1>10, <1>11
     DEF Next, Call, Continue, ConnectStep

(* Only a packet moves the robot, and only a simulation step the scene. *)
LEMMA MirrorStep ==
  ASSUME TypeOK, MirrorInv, [Next]_vars
  PROVE  [Mirror!Next]_(Mirror!mirrorVars)
<1> USE DEF Mirror!Next, Mirror!mirrorVars
<1>1. now \in Nat /\ scene \in Nat
  BY BoundAssumption DEF TypeOK, RobotTypeOK, PluginTypeOK, Positions
<1>2. ASSUME NEW w \in Sessions, Communicate(w) PROVE UNCHANGED <<now, scene>>
  BY <1>2, WorkerFrame DEF Communicate, pluginVars
<1>3. CASE Robot
  <2>1. scene' = scene /\ (now' = now \/ now' = now + 1)
    BY <1>1, <1>3 DEF Robot, ReceivePacket, OutputChanges, LinkLost, pluginVars
  <2>2. QED
    BY <2>1 DEF Mirror!Move
<1>4. CASE ApplyJoints
  <2>1. ~IsEmpty(current_joint_positions) /\ now' = now
    BY <1>4 DEF ApplyJoints, robotVars
  <2>2. scene' = scene \/ scene' = Back(current_joint_positions)
    BY <1>4 DEF ApplyJoints
  <2>3. Back(current_joint_positions) \in Nat
    BY <2>1, BackFacts, BoundAssumption DEF TypeOK, ClientTypeOK, Positions
  <2>4. scene' \in scene .. now
    BY <1>1, <2>1, <2>2, <2>3 DEF MirrorInv
  <2>5. QED
    BY <2>1, <2>4 DEF Mirror!Show
<1>5. CASE \/ Call \/ DestroyIO \/ DestroyReceive \/ DestroyRtde \/ DestroyThread \/ ConnectStep
           \/ ConnectReturns \/ DisconnectIO \/ DisconnectReturns \/ GetIOReturns
  <2>1. scene' = scene
    BY <1>5 DEF Call, FirstInit, Reinit, ConnectCall, DisconnectCall, GetIOCall,
                SetIOCall, ModuleHandle, DestroyIO, DestroyReceive, DestroyRtde, DestroyThread,
                NewObjects, ConnectStep, ConnectReturns, DisconnectIO,
                DisconnectReturns, GetIOReturns, pluginVars
  <2>2. now' = now
    BY <1>5 DEF Call, FirstInit, Reinit, ConnectCall, DisconnectCall, GetIOCall,
                SetIOCall, ModuleHandle, DestroyIO, DestroyReceive, DestroyRtde, DestroyThread,
                NewObjects, ConnectStep, CreateReceive, CreateIO, ConnectThrows,
                Launch, JoinOld, ConnectReturns, DisconnectIO, DisconnectReturns,
                GetIOReturns, BeginConnect, StopFlag, ResetIO, ResetReceive,
                robotVars
  <2>3. QED
    BY <2>1, <2>2
<1>6. CASE UNCHANGED vars
  BY <1>6 DEF vars, clientStepVars, robotVars, pluginVars
<1>7. QED
  BY <1>2, <1>3, <1>4, <1>5, <1>6 DEF Next, Continue

(* With one connect per init the plugin implements the lagging mirror: the *)
(* scene never goes back and never gets ahead of the robot.                *)
THEOREM Mirrored ==
  ASSUME ~Reconnects
  PROVE  Spec => MirrorSpec
<1> DEFINE IInv == TypeOK /\ JoinInv /\ MirrorInv
<1>1. Init => IInv
  BY InitType, InitJoin, InitMirror
<1>2. IInv /\ [Next]_vars => IInv'
  <2>1. ASSUME IInv, [Next]_vars PROVE MirrorInv'
    BY <2>1, WorkerMirror, OtherMirror
  <2>2. QED
    BY <2>1, NextType, NextJoin
<1>3. Init => Mirror!Init
  BY DEF Init, ClientInit, Mirror!Init
<1>4. IInv /\ [Next]_vars => [Mirror!Next]_(Mirror!mirrorVars)
  BY MirrorStep
<1> HIDE DEF IInv
<1>5. QED
  BY <1>1, <1>2, <1>3, <1>4, PTL DEF Spec, MirrorSpec, Mirror!Spec

---------------------------------------------------------------------------
(* What a step may touch *)

(* A thread works on its own locals, and on no interface, flag of the link *)
(* or packet received.                                                     *)
LEMMA WorkerLocals ==
  ASSUME TypeOK, NEW w \in Sessions, WorkerStep(w)
  PROVE  /\ \A v \in Sessions : v # w =>
              wobj'[v] = wobj[v] /\ wio'[v] = wio[v] /\ wpin'[v] = wpin[v]
         /\ UNCHANGED <<m_ircv, m_iio, up, seen>>
<1> USE DEF TypeOK, WorkerTypeOK, clientVars, localVars, robotVars, Returns
<1>1. CASE CheckAlive(w) \/ LoadInterface(w) \/ DanglingReturn(w)
           \/ ReleasedAccess(w) \/ IsConnected(w) \/ StopSelf(w)
  BY <1>1 DEF CheckAlive, LoadInterface, DanglingReturn, ReleasedAccess,
              IsConnected, StopSelf
<1>2. CASE GetActualQ(w) \/ PushJoints(w) \/ CheckJointsSize(w) \/ PopJoints(w)
  BY <1>2 DEF GetActualQ, PushJoints, CheckJointsSize, PopJoints
<1>3. CASE GetDigitalOutState(w) \/ PushIO(w) \/ CheckIOSize(w) \/ PopIO(w)
  BY <1>3 DEF GetDigitalOutState, PushIO, CheckIOSize, PopIO
<1>4. CASE CheckTargets(w) \/ ReadTarget(w)
  BY <1>4 DEF CheckTargets, ReadTarget
<1>5. CASE SetStandardDigitalOut(w) \/ PopTarget(w)
  BY <1>5 DEF SetStandardDigitalOut, PopTarget
<1>6. QED
  BY <1>1, <1>2, <1>3, <1>4, <1>5 DEF WorkerStep

(* The steps of a thread that have to do with outputs, and the others.     *)
LEMMA OutputSteps ==
  ASSUME TypeOK, NEW w \in Sessions, WorkerStep(w)
  PROVE  \/ GetDigitalOutState(w) \/ PushIO(w) \/ PopIO(w)
         \/ ReadTarget(w) \/ SetStandardDigitalOut(w) \/ PopTarget(w)
         \/ /\ UNCHANGED <<wio, wpin, current_io, target_io, out>>
            /\ wpc[w] = "getDigitalOutState" => wpc'[w] = wpc[w]
            /\ wpc'[w] = "setStandardDigitalOut" => wpc'[w] = wpc[w]
            /\ wpc'[w] = "getDigitalOutState" => wpc'[w] = wpc[w] \/ CheckJointsSize(w)
<1> USE DEF TypeOK, WorkerTypeOK, telemetryVars, localVars, robotVars, Goto,
            Returns, ReceiveCalls, IOCalls
<1>1. CASE CheckAlive(w)
  BY <1>1 DEF CheckAlive
<1>2. CASE LoadInterface(w)
  BY <1>2 DEF LoadInterface
<1>3. CASE DanglingReturn(w) \/ ReleasedAccess(w)
  BY <1>3 DEF DanglingReturn, ReleasedAccess
<1>4. CASE IsConnected(w)
  BY <1>4 DEF IsConnected
<1>5. CASE StopSelf(w)
  BY <1>5 DEF StopSelf
<1>6. CASE GetActualQ(w)
  BY <1>6 DEF GetActualQ
<1>7. CASE PushJoints(w)
  BY <1>7 DEF PushJoints
<1>8. CASE CheckJointsSize(w)
  BY <1>8 DEF CheckJointsSize
<1>9. CASE PopJoints(w)
  BY <1>9 DEF PopJoints
<1>10. CASE CheckIOSize(w)
  BY <1>10 DEF CheckIOSize
<1>11. CASE CheckTargets(w)
  BY <1>11 DEF CheckTargets
<1>12. QED
  BY <1>1, <1>2, <1>3, <1>4, <1>5, <1>6, <1>7, <1>8, <1>9, <1>10, <1>11
     DEF WorkerStep

(* The CoppeliaSim thread and the robot leave the locals of the threads    *)
(* alone; only the robot changes an output, a packet or a new connection   *)
(* brings the outputs as they are, and getIO alone answers.                *)
LEMMA MainFrame ==
  ASSUME [Next]_vars, ~\E w \in Sessions : Communicate(w)
  PROVE  /\ UNCHANGED <<wobj, wio, wpin>>
         /\ OutputChanges \/ out' = out
         /\ seen' = seen \/ (seen' = out /\ out' = out)
         /\ GetIOReturns \/ answer' = answer
<1> USE DEF workerVars, localVars, robotVars, pluginVars
<1>1. CASE Robot
  BY <1>1 DEF Robot, ReceivePacket, OutputChanges, LinkLost
<1>2. CASE FirstInit \/ Reinit \/ ConnectCall
  BY <1>2 DEF FirstInit, Reinit, ConnectCall, NewObjects, StopFlag, BeginConnect
<1>3. CASE DisconnectCall \/ GetIOCall \/ SetIOCall \/ ModuleHandle
  BY <1>3 DEF DisconnectCall, GetIOCall, SetIOCall, ModuleHandle, StopFlag
<1>4. CASE DestroyIO \/ DestroyReceive \/ DestroyRtde \/ DestroyThread \/ DisconnectIO
           \/ DisconnectReturns
  BY <1>4 DEF DestroyIO, DestroyReceive, DestroyRtde, DestroyThread, DisconnectIO,
              DisconnectReturns, NewObjects, ResetIO, ResetReceive
<1>5. CASE ConnectStep
  BY <1>5 DEF ConnectStep, CreateReceive, CreateIO, ConnectThrows, Launch, JoinOld
<1>6. CASE ConnectReturns \/ GetIOReturns \/ ApplyJoints
  BY <1>6 DEF ConnectReturns, GetIOReturns, ApplyJoints
<1>7. CASE UNCHANGED vars
  BY <1>7 DEF vars, clientStepVars
<1>8. QED
  BY <1>1, <1>2, <1>3, <1>4, <1>5, <1>6, <1>7 DEF Next, Call, Continue

---------------------------------------------------------------------------
(* What getIO reports *)

(* The states of an output are numbered in the order it takes them. *)
LEMMA OutputsRise ==
  ASSUME TypeOK, [Next]_vars
  PROVE  \A p \in Pins : out[p] <= out'[p]
<1>1. \A p \in Pins : out[p] \in Nat
  BY OutFacts DEF TypeOK, RobotTypeOK
<1>2. CASE out' = out
  BY <1>1, <1>2
<1>3. CASE OutputChanges
  BY <1>1, <1>3 DEF OutputChanges, TypeOK, RobotTypeOK
<1>4. ASSUME NEW w \in Sessions, Communicate(w)
      PROVE  out' = out \/ \E pin : out' = Driven(pin)
  <2>1. WorkerStep(w)
    BY <1>4 DEF Communicate
  <2>2. CASE SetStandardDigitalOut(w)
    BY <2>2 DEF SetStandardDigitalOut
  <2>3. CASE GetDigitalOutState(w) \/ PushIO(w) \/ PopIO(w) \/ ReadTarget(w)
             \/ PopTarget(w)
    BY <2>3 DEF GetDigitalOutState, PushIO, PopIO, ReadTarget, PopTarget, robotVars
  <2>4. QED
    BY <2>1, <2>2, <2>3, OutputSteps
<1>5. ASSUME NEW pin, out' = Driven(pin) PROVE \A p \in Pins : out[p] <= out'[p]
  BY <1>1, <1>5 DEF Driven
<1>6. QED
  BY <1>2, <1>3, <1>4, <1>5, MainFrame

LEMMA InitReport == Init => ReportInv
<1>1. ASSUME Init PROVE \A w \in Sessions : Len(wio[w]) = 0
  BY <1>1 DEF Init, ClientInit
<1>2. ASSUME Init PROVE Len(current_io) = 0
  BY <1>2 DEF Init, ClientInit, EmptyQueue
<1>3. ASSUME Init PROVE AnswersLag /\ \A p \in Pins : seen[p] <= out[p]
  BY <1>3, ConstantFacts DEF Init, ClientInit, AnswersLag
<1>4. QED
  BY <1>1, <1>2, <1>3 DEF ReportInv, NotAhead

(* The queries on a snapshot: it is as long as the loop over the outputs   *)
(* has come, its indices are outputs and its entries are numbers.          *)
LEMMA SnapshotFacts ==
  ASSUME TypeOK
  PROVE  /\ \A w \in Sessions :
              /\ wio[w] \in Seq(OutStates) /\ Len(wio[w]) \in Nat /\ Len(wio[w]) <= NIO
              /\ \A i \in 1 .. Len(wio[w]) : i \in Nat /\ i - 1 \in Pins
         /\ current_io \in Seq(Snapshots) /\ Len(current_io) \in Nat
         /\ \A s \in Snapshots :
              /\ s \in Seq(OutStates) /\ Len(s) = NIO
              /\ \A i \in 1 .. Len(s) : i \in Nat /\ i - 1 \in Pins
         /\ \A p \in Pins : p \in Nat /\ p < NIO /\ p + 1 \in 1 .. NIO /\ (p + 1) - 1 = p
         /\ NIO \in Nat
<1>1. NIO \in Nat
  BY SizeAssumption
<1>2. \A p \in Pins : p \in Nat /\ p < NIO /\ p + 1 \in 1 .. NIO /\ (p + 1) - 1 = p
  BY <1>1 DEF Pins
<1>3. \A i \in 1 .. NIO : i \in Nat /\ i - 1 \in Pins
  BY <1>1 DEF Pins
<1>4. ASSUME NEW w \in Sessions
      PROVE  /\ wio[w] \in Seq(OutStates) /\ Len(wio[w]) \in Nat /\ Len(wio[w]) <= NIO
             /\ \A i \in 1 .. Len(wio[w]) : i \in Nat /\ i - 1 \in Pins
  <2>1. wio[w] \in Seq(OutStates) /\ Len(wio[w]) <= NIO
    BY DEF TypeOK, WorkerTypeOK
  <2>2. Len(wio[w]) \in Nat
    BY <2>1
  <2>3. QED
    BY <1>1, <1>3, <2>1, <2>2
<1>5. ASSUME NEW s \in Snapshots
      PROVE  s \in Seq(OutStates) /\ Len(s) = NIO
  BY <1>1 DEF Snapshots
<1>6. current_io \in Seq(Snapshots) /\ Len(current_io) \in Nat
  BY DEF TypeOK, ClientTypeOK
<1>7. QED
  BY <1>1, <1>2, <1>3, <1>4, <1>5, <1>6

(* What is not ahead of some outputs is not ahead of later ones. *)
LEMMA LaterOutputs ==
  ASSUME NEW snapshot \in Seq(OutStates),
         \A i \in 1 .. Len(snapshot) : i - 1 \in Pins,
         NEW earlier \in [Pins -> OutStates], NEW later \in [Pins -> OutStates],
         \A p \in Pins : earlier[p] <= later[p],
         NotAhead(snapshot, earlier)
  PROVE  NotAhead(snapshot, later)
<1>1. ASSUME NEW i \in 1 .. Len(snapshot) PROVE snapshot[i] <= later[i - 1]
  <2>1. snapshot[i] \in OutStates /\ i - 1 \in Pins
    OBVIOUS
  <2>2. earlier[i - 1] \in OutStates /\ later[i - 1] \in OutStates
    BY <2>1
  <2>3. snapshot[i] \in Nat /\ earlier[i - 1] \in Nat /\ later[i - 1] \in Nat
    BY <2>1, <2>2, OutFacts
  <2>4. snapshot[i] <= earlier[i - 1] /\ earlier[i - 1] <= later[i - 1]
    BY <2>1 DEF NotAhead
  <2>5. QED
    BY <2>3, <2>4
<1>2. QED
  BY <1>1 DEF NotAhead

(* A step that answers nothing, while outputs change and packets arrive. *)
LEMMA AnswersStillLag ==
  ASSUME TypeOK, TypeOK', ReportInv, [Next]_vars, answer' = answer
  PROVE  AnswersLag'
<1>1. \A p \in Pins : /\ answer[p] \in Nat /\ out[p] \in Nat /\ out'[p] \in Nat
                      /\ answer[p] <= out[p] /\ out[p] <= out'[p]
  BY OutputsRise, OutFacts, ConstantFacts
     DEF TypeOK, PluginTypeOK, RobotTypeOK, ReportInv, AnswersLag
<1>2. QED
  BY <1>1 DEF AnswersLag

LEMMA WorkerReport ==
  ASSUME TypeOK, TypeOK', ReportInv, [Next]_vars, NEW w \in Sessions, Communicate(w)
  PROVE  ReportInv'
<1>1. /\ \A v \in Sessions : v # w => wio'[v] = wio[v]
      /\ UNCHANGED <<seen, answer>>
      /\ WorkerStep(w) /\ wio \in [Sessions -> Seq(OutStates)]
      /\ seen \in [Pins -> OutStates]
      /\ out \in [Pins -> OutStates] /\ out' \in [Pins -> OutStates]
  BY WorkerLocals DEF Communicate, pluginVars, TypeOK, WorkerTypeOK, RobotTypeOK
<1>2. \A p \in Pins : out[p] <= out'[p]
  BY OutputsRise
<1>3. AnswersLag' /\ \A p \in Pins : seen'[p] <= out'[p]
  <2>1. \A p \in Pins : /\ seen[p] \in Nat /\ out[p] \in Nat /\ out'[p] \in Nat
                        /\ seen[p] <= out[p]
    BY <1>1, OutFacts DEF ReportInv
  <2>2. QED
    BY <1>1, <1>2, <2>1, AnswersStillLag
<1>4. \A k \in 1 .. Len(current_io) : NotAhead(current_io[k], out')
  <2>1. TAKE k \in 1 .. Len(current_io)
  <2>2. current_io[k] \in Snapshots
    BY SnapshotFacts
  <2>3. NotAhead(current_io[k], out)
    BY DEF ReportInv
  <2>4. QED
    BY <1>1, <1>2, <2>2, <2>3, SnapshotFacts, LaterOutputs
<1>5. ASSUME NotAhead(wio'[w], seen), current_io' = current_io
      PROVE  ReportInv'
  BY <1>1, <1>3, <1>4, <1>5 DEF ReportInv
<1>6. CASE GetDigitalOutState(w)
  <2>1. /\ current_io' = current_io /\ wio'[w] = Append(wio[w], seen[Len(wio[w])])
        /\ Len(wio[w]) < NIO
    BY <1>1, <1>6 DEF GetDigitalOutState, telemetryVars
  <2>2. Len(wio[w]) \in Pins /\ seen[Len(wio[w])] \in Nat
    <3>1. Len(wio[w]) \in Pins
      BY <2>1, SnapshotFacts DEF Pins
    <3>2. seen[Len(wio[w])] \in OutStates
      BY <1>1, <3>1
    <3>3. QED
      BY <3>1, <3>2, OutFacts
  <2>3. NotAhead(wio[w], seen)
    BY DEF ReportInv
  <2>4. /\ Len(wio'[w]) = Len(wio[w]) + 1
        /\ wio'[w][Len(wio[w]) + 1] = seen[Len(wio[w])]
        /\ \A i \in 1 .. Len(wio[w]) : wio'[w][i] = wio[w][i]
    BY <2>1, <2>2, SnapshotFacts
  <2>5. ASSUME NEW i \in 1 .. Len(wio'[w]) PROVE wio'[w][i] <= seen[i - 1]
    <3>1. Len(wio[w]) \in Nat
      BY SnapshotFacts
    <3>2. CASE i \in 1 .. Len(wio[w])
      BY <2>3, <2>4, <3>2 DEF NotAhead
    <3>3. CASE i = Len(wio[w]) + 1
      <4>1. i - 1 = Len(wio[w])
        BY <3>1, <3>3
      <4>2. QED
        BY <2>2, <2>4, <3>3, <4>1
    <3>4. QED
      BY <2>4, <3>1, <3>2, <3>3
  <2>6. NotAhead(wio'[w], seen)
    BY <2>5 DEF NotAhead
  <2>7. QED
    BY <1>5, <2>1, <2>6
<1>7. CASE PushIO(w)
  <2>1. /\ current_io' = PushBack(current_io, wio[w]) /\ wio'[w] = <<>>
        /\ Len(wio[w]) = NIO
    BY <1>1, <1>7 DEF PushIO
  <2>2. wio[w] \in Snapshots
    BY <2>1, SnapshotFacts DEF Snapshots
  <2>3. /\ Len(current_io') = Len(current_io) + 1
        /\ current_io'[Len(current_io) + 1] = wio[w]
        /\ \A k \in 1 .. Len(current_io) : current_io'[k] = current_io[k]
    BY <2>1, <2>2, SnapshotFacts DEF PushBack
  <2>4. NotAhead(wio[w], out')
    <3>1. NotAhead(wio[w], seen) /\ \A p \in Pins : seen[p] <= out'[p]
      BY <1>1, <1>3 DEF ReportInv
    <3>2. QED
      BY <1>1, <3>1, SnapshotFacts, LaterOutputs
  <2>5. NotAhead(wio'[w], seen)
    <3>1. Len(wio'[w]) = 0
      BY <2>1
    <3>2. QED
      BY <3>1 DEF NotAhead
  <2>6. ASSUME NEW k \in 1 .. Len(current_io') PROVE NotAhead(current_io'[k], out')
    <3>1. CASE k \in 1 .. Len(current_io)
      BY <1>4, <2>3, <3>1
    <3>2. CASE k = Len(current_io) + 1
      BY <2>3, <2>4, <3>2
    <3>3. Len(current_io) \in Nat /\ Len(current_io') = Len(current_io) + 1
      BY <2>3, SnapshotFacts
    <3>4. k \in 1 .. Len(current_io) \/ k = Len(current_io) + 1
      BY <3>3
    <3>5. QED
      BY <3>1, <3>2, <3>4
  <2>7. QED
    BY <1>1, <1>3, <2>5, <2>6 DEF ReportInv
<1>8. CASE PopIO(w)
  <2>1. ~IsEmpty(current_io) /\ current_io' = PopFront(current_io) /\ wio' = wio
    BY <1>8 DEF PopIO, localVars
  <2>2. Len(current_io') = Len(current_io) - 1 /\ Len(current_io) >= 1
    BY <2>1, PopFrontFacts, BackFacts, SnapshotFacts
  <2>3. \A k \in 1 .. Len(current_io') : current_io'[k] = current_io[k + 1]
    BY <2>1, <2>2, SnapshotFacts DEF PopFront
  <2>4. ASSUME NEW k \in 1 .. Len(current_io') PROVE NotAhead(current_io'[k], out')
    <3>1. k + 1 \in 1 .. Len(current_io)
      BY <2>2, SnapshotFacts
    <3>2. QED
      BY <1>4, <2>3, <3>1
  <2>5. QED
    BY <1>1, <1>3, <2>1, <2>4 DEF ReportInv
<1>9. CASE ReadTarget(w) \/ SetStandardDigitalOut(w) \/ PopTarget(w)
  BY <1>5, <1>9 DEF ReadTarget, SetStandardDigitalOut, PopTarget, telemetryVars,
                    localVars, ReportInv
<1>10. CASE wio' = wio /\ current_io' = current_io
  BY <1>5, <1>10 DEF ReportInv
<1>11. QED
  BY <1>1, <1>6, <1>7, <1>8, <1>9, <1>10, OutputSteps

LEMMA NextReport ==
  ASSUME TypeOK, TypeOK', JoinInv, ReportInv, [Next]_vars
  PROVE  ReportInv'
<1>1. CASE \E w \in Sessions : Communicate(w)
  BY <1>1, WorkerReport
<1>2. CASE ~\E w \in Sessions : Communicate(w)
  <2>1. /\ wio' = wio
        /\ seen' = seen \/ (seen' = out /\ out' = out)
        /\ GetIOReturns \/ answer' = answer
    BY <1>2, MainFrame
  <2>2. /\ seen \in [Pins -> OutStates] /\ seen' \in [Pins -> OutStates]
        /\ out \in [Pins -> OutStates] /\ out' \in [Pins -> OutStates]
    BY DEF TypeOK, RobotTypeOK
  <2>3. \A p \in Pins : seen[p] <= out[p] /\ out[p] <= out'[p]
    BY OutputsRise DEF ReportInv
  <2>4. \A p \in Pins : seen[p] <= seen'[p] /\ seen'[p] <= out'[p]
    <3>1. \A p \in Pins : seen[p] \in Nat /\ out[p] \in Nat /\ out'[p] \in Nat
      BY <2>2, OutFacts
    <3>2. QED
      BY <2>1, <2>3, <3>1
  <2>5. \A w \in Sessions : NotAhead(wio[w], seen')
    <3>1. TAKE w \in Sessions
    <3>2. NotAhead(wio[w], seen)
      BY DEF ReportInv
    <3>3. QED
      BY <2>2, <2>4, <3>2, SnapshotFacts, LaterOutputs
  <2>6. \A k \in 1 .. Len(current_io) : NotAhead(current_io[k], out')
    <3>1. TAKE k \in 1 .. Len(current_io)
    <3>2. current_io[k] \in Snapshots
      BY SnapshotFacts
    <3>3. NotAhead(current_io[k], out)
      BY DEF ReportInv
    <3>4. QED
      BY <2>2, <2>3, <3>2, <3>3, SnapshotFacts, LaterOutputs
  <2>7. AnswersLag'
    <3>1. CASE GetIOReturns
      <4>1. PICK state \in IF io_arg \in Pins THEN {Back(current_io)[io_arg + 1]}
                                              ELSE {0, 1} :
              answer' = [answer EXCEPT ![io_arg] = state]
        BY <3>1 DEF GetIOReturns
      <4>2. answer \in [Bytes -> OutStates] /\ Pins \subseteq Bytes
        BY ConstantFacts DEF TypeOK, PluginTypeOK
      <4>3. ~IsEmpty(current_io) /\ Back(current_io) \in Snapshots
            /\ Len(current_io) \in 1 .. Len(current_io) /\ out' = out
        BY <3>1, BackFacts, SnapshotFacts DEF GetIOReturns, IsEmpty, robotVars
      <4>4. NotAhead(Back(current_io), out)
        BY <4>3 DEF ReportInv, Back
      <4>5. io_arg \in Pins => Back(current_io)[io_arg + 1] <= out[io_arg]
        BY <4>3, <4>4, SnapshotFacts DEF NotAhead
      <4>6. \A p \in Pins : answer[p] <= out[p]
        BY DEF ReportInv, AnswersLag
      <4>7. \A p \in Pins : answer'[p] <= out[p]
        BY <4>1, <4>2, <4>5, <4>6
      <4>8. QED
        BY <4>3, <4>7 DEF AnswersLag
    <3>2. CASE answer' = answer
      BY <3>2, AnswersStillLag
    <3>3. QED
      BY <2>1, <3>1, <3>2
  <2>8. current_io' = current_io \/ current_io' = EmptyQueue
    BY <1>2, StepCases DEF telemetryVars
  <2>9. \A k \in 1 .. Len(current_io') : NotAhead(current_io'[k], out')
    BY <2>6, <2>8 DEF EmptyQueue
  <2>10. QED
    BY <2>1, <2>4, <2>5, <2>7, <2>9 DEF ReportInv
<1>3. QED
  BY <1>1, <1>2

(* getIO never reports of an output a state it has not taken, whatever the *)
(* script and the robot's programs do and however many threads fill the    *)
(* queue.                                                                  *)
THEOREM Lagging == Spec => []AnswersLag
<1>1. TypeOK /\ JoinInv /\ ReportInv /\ [Next]_vars => (TypeOK /\ JoinInv /\ ReportInv)'
  BY NextType, NextJoin, NextReport
<1>2. ReportInv => AnswersLag
  BY DEF ReportInv
<1>3. QED
  BY InitType, InitJoin, InitReport, <1>1, <1>2, PTL DEF Spec

---------------------------------------------------------------------------
(* Reports come in order, when connect is called once per init *)

LEMMA InitStand == Init => StandInv
<1>1. SUFFICES ASSUME Init PROVE StandInv
  OBVIOUS
<1>2. \A w \in Sessions : wio[w] = <<>> /\ Len(wio[w]) = 0
  BY <1>1 DEF Init, ClientInit
<1>3. \A p \in Pins : p \in Nat /\ answer[p] = 0 /\ seen[p] \in {0, 1}
  BY <1>1, ConstantFacts, SizeAssumption DEF Init, ClientInit, Pins
<1>4. \A p \in Pins : NoLater(answer[p], p)
  BY <1>2, <1>3 DEF NoLater
<1>5. IsEmpty(current_io)
  BY <1>1 DEF Init, ClientInit, IsEmpty, EmptyQueue
<1>6. QED
  BY <1>2, <1>4, <1>5 DEF StandInv

(* A step that leaves the snapshots in the making alone, whatever newer    *)
(* packet arrives.                                                         *)
LEMMA StandKept ==
  ASSUME TypeOK, TypeOK', StandInv,
         \A w \in Sessions :
           wpc'[w] = wpc[w] \/ wpc[w] # "getDigitalOutState",
         UNCHANGED wio,
         \A p \in Pins : seen[p] <= seen'[p],
         \A p \in Pins :
           /\ NoLater(answer'[p], p)
           /\ ~IsEmpty(current_io') =>
                /\ answer'[p] <= Back(current_io')[p + 1]
                /\ NoLater(Back(current_io')[p + 1], p)
  PROVE  StandInv'
<1>1. \A p \in Pins : /\ seen[p] \in Nat /\ seen'[p] \in Nat /\ answer'[p] \in Nat
                      /\ p + 1 \in 1 .. NIO
  <2>1. \A p \in Pins : /\ seen[p] \in OutStates /\ seen'[p] \in OutStates
                        /\ answer'[p] \in OutStates
    BY ConstantFacts DEF TypeOK, RobotTypeOK, PluginTypeOK
  <2>2. QED
    BY <2>1, OutFacts, SnapshotFacts
<1>2. ASSUME NEW p \in Pins, ~IsEmpty(current_io')
      PROVE  Back(current_io')[p + 1] \in Nat
  <2>1. current_io' \in Seq(Snapshots)
    BY DEF TypeOK, ClientTypeOK
  <2>2. Back(current_io') \in Snapshots
    BY <1>2, <2>1, BackFacts
  <2>3. QED
    BY <1>1, <2>2, OutFacts DEF Snapshots
<1>3. ASSUME NEW p \in Pins, NEW state \in Nat, NoLater(state, p)
      PROVE  /\ state <= seen'[p]
             /\ \A w \in Sessions : p < Len(wio'[w]) => state <= wio'[w][p + 1]
  BY <1>1, <1>3 DEF NoLater
<1>4. \A p \in Pins : /\ NoLater(answer[p], p)'
                      /\ ~IsEmpty(current_io') => NoLater(Back(current_io)[p + 1], p)'
  BY <1>1, <1>2, <1>3 DEF NoLater
<1>5. \A w \in Sessions : wpc'[w] # "getDigitalOutState" => wio'[w] = <<>>
  BY DEF StandInv
<1>6. QED
  BY <1>4, <1>5 DEF StandInv

LEMMA WorkerStand ==
  ASSUME TypeOK, TypeOK', JoinInv, MirrorInv, ReportInv, StandInv,
         NEW w \in Sessions, Communicate(w)
  PROVE  StandInv'
<1>1. /\ \A v \in Sessions : v # w => wio'[v] = wio[v] /\ wpc'[v] = wpc[v]
      /\ UNCHANGED <<seen, answer>> /\ WorkerStep(w) /\ Live(w)
      /\ wio \in [Sessions -> Seq(OutStates)] /\ wpc \in [Sessions -> WorkerLabels]
      /\ \A p \in Pins : seen[p] \in Nat
  BY WorkerLocals, WorkerFrame, OutFacts
     DEF Communicate, pluginVars, TypeOK, WorkerTypeOK, RobotTypeOK
<1>2. \A v \in Sessions : v # w => wio[v] = <<>> /\ wpc[v] # "getDigitalOutState"
  BY <1>1, OneThread DEF LiveWorkers, Live, StandInv
<1>3. CASE GetDigitalOutState(w)
  <2>1. /\ wpc[w] = "getDigitalOutState" /\ wpc' = wpc /\ current_io' = current_io
        /\ wio'[w] = Append(wio[w], seen[Len(wio[w])]) /\ Len(wio[w]) < NIO
    BY <1>1, <1>3 DEF GetDigitalOutState, Returns, telemetryVars
  <2>2. Len(wio[w]) \in Pins /\ seen[Len(wio[w])] \in Nat
    BY <1>1, <2>1, SnapshotFacts DEF Pins
  <2>3. /\ Len(wio'[w]) = Len(wio[w]) + 1
        /\ wio'[w][Len(wio[w]) + 1] = seen[Len(wio[w])]
        /\ \A i \in 1 .. Len(wio[w]) : wio'[w][i] = wio[w][i]
    BY <2>1, <2>2, SnapshotFacts
  <2>4. ASSUME NEW p \in Pins, NEW state, NoLater(state, p), p < Len(wio'[w])
        PROVE  state <= wio'[w][p + 1]
    <3>1. p \in Nat /\ Len(wio[w]) \in Nat
      BY SnapshotFacts
    <3>2. CASE p < Len(wio[w])
      <4>1. p + 1 \in 1 .. Len(wio[w])
        BY <3>1, <3>2
      <4>2. state <= wio[w][p + 1]
        BY <2>4, <3>2 DEF NoLater
      <4>3. QED
        BY <2>3, <4>1, <4>2
    <3>3. CASE p = Len(wio[w])
      BY <2>3, <2>4, <3>3 DEF NoLater
    <3>4. QED
      BY <2>3, <2>4, <3>1, <3>2, <3>3
  <2>5. ASSUME NEW p \in Pins, NEW state, NoLater(state, p)
        PROVE  /\ state <= seen'[p]
               /\ \A v \in Sessions : p < Len(wio'[v]) => state <= wio'[v][p + 1]
    BY <1>1, <2>4, <2>5 DEF NoLater
  <2>6. \A p \in Pins :
          /\ NoLater(answer[p], p)
          /\ ~IsEmpty(current_io) => /\ answer[p] <= Back(current_io)[p + 1]
                                     /\ NoLater(Back(current_io)[p + 1], p)
    BY DEF StandInv
  <2>7. \A p \in Pins : /\ NoLater(answer[p], p)'
                        /\ ~IsEmpty(current_io) => NoLater(Back(current_io)[p + 1], p)'
    BY <1>1, <2>1, <2>5, <2>6 DEF NoLater
  <2>8. \A v \in Sessions : wpc'[v] # "getDigitalOutState" => wio'[v] = <<>>
    BY <1>1, <2>1 DEF StandInv
  <2>9. QED
    BY <1>1, <2>1, <2>6, <2>7, <2>8 DEF StandInv
<1>4. CASE PushIO(w)
  <2>1. /\ wpc'[w] = "io_size" /\ wio'[w] = <<>> /\ Len(wio[w]) = NIO
        /\ current_io' = PushBack(current_io, wio[w])
    BY <1>1, <1>4 DEF PushIO, Goto
  <2>2. wio[w] \in Snapshots
    BY <2>1, SnapshotFacts DEF Snapshots
  <2>3. Back(current_io') = wio[w] /\ ~IsEmpty(current_io')
    BY <2>1, <2>2, SnapshotFacts, PushBackFacts
  <2>4. \A v \in Sessions : wio'[v] = <<>> /\ Len(wio'[v]) = 0
    BY <1>1, <1>2, <2>1
  <2>5. \A p \in Pins : p \in Nat /\ p < NIO /\ p + 1 \in 1 .. NIO /\ (p + 1) - 1 = p
    BY SnapshotFacts
  <2>6. \A p \in Pins : answer[p] <= seen[p] /\ answer[p] <= wio[w][p + 1]
    BY <2>1, <2>5 DEF StandInv, NoLater
  <2>7. \A p \in Pins : wio[w][p + 1] <= seen[p]
    BY <2>1, <2>5 DEF ReportInv, NotAhead
  <2>8. \A p \in Pins, v \in Sessions : ~(p < Len(wio'[v]))
    BY <2>4, <2>5
  <2>9. \A p \in Pins :
          /\ NoLater(answer[p], p)'
          /\ answer'[p] <= Back(current_io')[p + 1]
          /\ NoLater(Back(current_io)[p + 1], p)'
    BY <1>1, <2>3, <2>6, <2>7, <2>8 DEF NoLater
  <2>10. QED
    BY <2>4, <2>9 DEF StandInv
<1>5. ASSUME wio' = wio,
             ~IsEmpty(current_io') =>
               ~IsEmpty(current_io) /\ Back(current_io') = Back(current_io),
             wpc'[w] = wpc[w] \/ wpc[w] # "getDigitalOutState"
      PROVE  StandInv'
  <2>1. \A p \in Pins :
          /\ NoLater(answer'[p], p)
          /\ ~IsEmpty(current_io') =>
               /\ answer'[p] <= Back(current_io')[p + 1]
               /\ NoLater(Back(current_io')[p + 1], p)
    BY <1>1, <1>5 DEF StandInv
  <2>2. \A p \in Pins : seen[p] <= seen'[p]
    BY <1>1
  <2>3. \A v \in Sessions : wpc'[v] = wpc[v] \/ wpc[v] # "getDigitalOutState"
    BY <1>1, <1>5
  <2>4. QED
    BY <1>5, <2>1, <2>2, <2>3, StandKept
<1>6. CASE PopIO(w)
  <2>1. /\ ~IsEmpty(current_io) /\ current_io' = PopFront(current_io)
        /\ wio' = wio /\ wpc[w] = "io_pop"
    BY <1>6 DEF PopIO, localVars
  <2>2. ~IsEmpty(current_io') => Back(current_io') = Back(current_io)
    BY <2>1, PopFrontFacts, SnapshotFacts
  <2>3. QED
    BY <1>5, <2>1, <2>2
<1>7. CASE ReadTarget(w) \/ SetStandardDigitalOut(w) \/ PopTarget(w)
  <2>1. wio' = wio /\ current_io' = current_io /\ wpc[w] # "getDigitalOutState"
    BY <1>7 DEF ReadTarget, SetStandardDigitalOut, PopTarget, Returns,
                telemetryVars, localVars
  <2>2. QED
    BY <1>5, <2>1
<1>8. CASE /\ wio' = wio /\ current_io' = current_io
           /\ wpc[w] = "getDigitalOutState" => wpc'[w] = wpc[w]
  BY <1>5, <1>8
<1>9. QED
  BY <1>1, <1>3, <1>4, <1>6, <1>7, <1>8, OutputSteps

LEMMA NextStand ==
  ASSUME TypeOK, TypeOK', JoinInv, MirrorInv, ReportInv, StandInv, [Next]_vars
  PROVE  StandInv' /\ \A p \in Pins : answer[p] <= answer'[p]
<1>0. \A p \in Pins : /\ answer[p] \in Nat /\ seen[p] \in Nat /\ out[p] \in Nat
  BY OutFacts, ConstantFacts DEF TypeOK, RobotTypeOK, PluginTypeOK
<1>1. ASSUME NEW w \in Sessions, Communicate(w)
      PROVE  StandInv' /\ answer' = answer
  BY <1>1, WorkerStand DEF Communicate, pluginVars
<1>2. CASE ~\E w \in Sessions : Communicate(w)
  <2>1. wio' = wio /\ (seen' = seen \/ seen' = out) /\ (GetIOReturns \/ answer' = answer)
    BY <1>2, MainFrame
  <2>2. \A p \in Pins : seen[p] <= seen'[p]
    BY <1>0, <2>1 DEF ReportInv
  <2>3. \A w \in Sessions : wpc'[w] = wpc[w] \/ wpc[w] # "getDigitalOutState"
    BY <1>2, StepCases DEF Live
  <2>4. \A p \in Pins :
          /\ NoLater(answer[p], p)
          /\ ~IsEmpty(current_io) => /\ answer[p] <= Back(current_io)[p + 1]
                                     /\ NoLater(Back(current_io)[p + 1], p)
    BY DEF StandInv
  <2>5. CASE GetIOReturns
    <3>1. PICK state \in IF io_arg \in Pins THEN {Back(current_io)[io_arg + 1]}
                                            ELSE {0, 1} :
            answer' = [answer EXCEPT ![io_arg] = state]
      BY <2>5 DEF GetIOReturns
    <3>2. ~IsEmpty(current_io) /\ current_io' = current_io
      BY <2>5 DEF GetIOReturns, telemetryVars
    <3>3. answer \in [Bytes -> OutStates] /\ Pins \subseteq Bytes
      BY ConstantFacts DEF TypeOK, PluginTypeOK
    <3>4. \A p \in Pins : answer'[p] = answer[p] \/ answer'[p] = Back(current_io)[p + 1]
      BY <3>1, <3>3
    <3>5. \A p \in Pins : Back(current_io)[p + 1] \in Nat
      <4>1. Back(current_io) \in Snapshots
        BY <3>2, BackFacts, SnapshotFacts
      <4>2. QED
        BY <4>1, SnapshotFacts, OutFacts DEF Snapshots
    <3>6. \A p \in Pins :
            /\ answer[p] <= answer'[p]
            /\ answer'[p] <= Back(current_io)[p + 1]
            /\ NoLater(answer'[p], p)
      BY <1>0, <2>4, <3>2, <3>4, <3>5
    <3>7. StandInv'
      BY <2>1, <2>2, <2>3, <2>4, <3>2, <3>6, StandKept
    <3>8. QED
      BY <3>6, <3>7
  <2>6. CASE answer' = answer
    <3>1. current_io' = current_io \/ current_io' = EmptyQueue
      BY <1>2, StepCases DEF telemetryVars
    <3>2. \A p \in Pins :
            /\ NoLater(answer'[p], p)
            /\ ~IsEmpty(current_io') =>
                 /\ answer'[p] <= Back(current_io')[p + 1]
                 /\ NoLater(Back(current_io')[p + 1], p)
      BY <2>4, <2>6, <3>1 DEF IsEmpty, EmptyQueue
    <3>3. QED
      BY <1>0, <2>1, <2>2, <2>3, <2>6, <3>2, StandKept
  <2>7. QED
    BY <2>1, <2>5, <2>6
<1>3. QED
  BY <1>0, <1>1, <1>2

(* With one connect per init, snapshots reach the script in the order they *)
(* were taken: what getIO reports of an output is never an earlier state   *)
(* than what it has reported, whatever the robot's programs set or clear.  *)
THEOREM Ordered ==
  ASSUME ~Reconnects
  PROVE  Spec => AnswersOrdered
<1> DEFINE IInv == TypeOK /\ JoinInv /\ MirrorInv /\ ReportInv /\ StandInv
           Rises == \A p \in Pins : answer[p] <= answer'[p]
<1>1. Init => IInv
  BY InitType, InitJoin, InitMirror, InitReport, InitStand
<1>2. IInv /\ [Next]_vars => IInv' /\ Rises
  BY NextType, NextJoin, WorkerMirror, OtherMirror, NextReport, NextStand
<1>3. AnswersOrdered <=> [][Rises]_vars
  BY DEF AnswersOrdered
<1> HIDE DEF IInv, Rises
<1>4. QED
  BY <1>1, <1>2, <1>3, PTL DEF Spec

---------------------------------------------------------------------------
(* One session *)

LEMMA InitSession ==
  ASSUME OneSession
  PROVE  Init => SessionInv
<1> USE DEF Init, ClientInit
<1>1. Init => LiveWorkers = {} /\ \A w \in Sessions : wobj[w] = Null /\ wpc[w] = "off"
  BY DEF LiveWorkers, Live
<1>2. Init => PointersInv /\ TargetInv /\ NoFault
  BY <1>1 DEF PointersInv, TargetInv, NoFault
<1>3. Init => ScopeInv /\ ServedInv
  BY DEF ScopeInv, ServedInv, Launched
<1>4. QED
  BY <1>2, <1>3, InitMirror DEF SessionInv

(* Without a disconnect and a second init the interfaces are never given   *)
(* up, except for those of a later attempt to connect.                     *)
LEMMA SessionSteps ==
  ASSUME OneSession, TypeOK, ScopeInv, [Next]_vars
  PROVE  \/ \E w \in Sessions : Communicate(w)
         \/ Robot \/ FirstInit \/ ConnectCall \/ GetIOCall \/ SetIOCall
         \/ ModuleHandle \/ ConnectStep \/ ConnectReturns \/ GetIOReturns
         \/ ApplyJoints \/ UNCHANGED vars
<1>1. ~Reinit
  BY PluginAssumption DEF Reinit, ScopeInv, TypeOK, PluginTypeOK
<1>2. ~DisconnectCall
  BY DEF DisconnectCall, OneSession
<1>3. ~DestroyIO /\ ~DestroyReceive /\ ~DestroyRtde /\ ~DestroyThread
      /\ ~DisconnectIO /\ ~DisconnectReturns
  BY DEF DestroyIO, DestroyReceive, DestroyRtde, DestroyThread, DisconnectIO,
         DisconnectReturns, ResetIO, ResetReceive, ScopeInv
<1>4. QED
  BY <1>1, <1>2, <1>3 DEF Next, Call, Continue

(* While m_thr stands for no thread, none runs. *)
LEMMA NoThreads ==
  ASSUME JoinInv, m_thr = Null, main # "conn_join"
  PROVE  LiveWorkers = {} /\ \A w \in Sessions : ~Live(w)
BY ConstantFacts DEF JoinInv, WorkersJoined, LiveWorkers

(* A step of a thread whose interfaces are there and whose request is in   *)
(* the queue: nothing undefined happens, and it does not give up on a      *)
(* link that is up.                                                        *)
LEMMA ThreadSession ==
  ASSUME TypeOK, PointersInv, TargetInv, ScopeInv, NoFault,
         NEW w \in Sessions, WorkerStep(w)
  PROVE  /\ fault' = "none"
         /\ wobj'[w] # Null =>
              /\ wpc'[w] \in ReceiveCalls \cup IOCalls
              /\ wobj'[w] = IF wpc'[w] \in IOCalls THEN m_iio ELSE m_ircv
         /\ wpc'[w] \in {"target_back", "setStandardDigitalOut", "target_pop"}
              => ~IsEmpty(target_io')
         /\ up /\ m_alive /\ wpc[w] # "stop"
              => m_alive' /\ wpc'[w] \notin {"off", "done", "stop"}
<1> USE DEF TypeOK, WorkerTypeOK, NoFault, telemetryVars, localVars, robotVars,
            clientVars, Goto, ReceiveCalls, IOCalls, Pointer, Returns
<1>1. /\ wobj[w] # Null => /\ wpc[w] \in ReceiveCalls \cup IOCalls
                           /\ wobj[w] = Pointer(w)
      /\ wpc[w] \notin {"off", "done"} => m_ircv # Null /\ m_iio # Null
      /\ wpc[w] \in {"target_back", "setStandardDigitalOut", "target_pop"}
           => ~IsEmpty(target_io)
  BY DEF PointersInv, TargetInv, LiveWorkers, Live
<1>2. CASE CheckAlive(w)
  BY <1>1, <1>2 DEF CheckAlive
<1>3. CASE LoadInterface(w)
  BY <1>1, <1>3 DEF LoadInterface
<1>4. CASE DanglingReturn(w) \/ ReleasedAccess(w)
  BY <1>1, <1>4 DEF DanglingReturn, ReleasedAccess, ScopeInv
<1>5. CASE IsConnected(w)
  BY <1>1, <1>5 DEF IsConnected
<1>6. CASE StopSelf(w)
  BY <1>1, <1>6 DEF StopSelf
<1>7. CASE GetActualQ(w)
  BY <1>1, <1>7 DEF GetActualQ
<1>8. CASE PushJoints(w)
  BY <1>1, <1>8 DEF PushJoints
<1>9. CASE CheckJointsSize(w)
  BY <1>1, <1>9 DEF CheckJointsSize
<1>10. CASE PopJoints(w)
  BY <1>1, <1>10 DEF PopJoints
<1>11. CASE GetDigitalOutState(w)
  BY <1>1, <1>11 DEF GetDigitalOutState
<1>12. CASE PushIO(w)
  BY <1>1, <1>12 DEF PushIO
<1>13. CASE CheckIOSize(w)
  BY <1>1, <1>13 DEF CheckIOSize
<1>14. CASE PopIO(w)
  BY <1>1, <1>14 DEF PopIO
<1>15. CASE CheckTargets(w)
  BY <1>1, <1>15 DEF CheckTargets
<1>16. CASE ReadTarget(w)
  BY <1>1, <1>16 DEF ReadTarget
<1>17. CASE SetStandardDigitalOut(w)
  BY <1>1, <1>17 DEF SetStandardDigitalOut
<1>18. CASE PopTarget(w)
  BY <1>1, <1>18 DEF PopTarget
<1>19. QED
  BY <1>2, <1>3, <1>4, <1>5, <1>6, <1>7, <1>8, <1>9, <1>10, <1>11, <1>12,
     <1>13, <1>14, <1>15, <1>16, <1>17, <1>18 DEF WorkerStep

LEMMA WorkerSession ==
  ASSUME TypeOK, JoinInv, SessionInv, NEW w \in Sessions, Communicate(w)
  PROVE  SessionInv'
<1>1. /\ Live(w) /\ WorkerStep(w)
      /\ \A v \in Sessions : v # w => wpc'[v] = wpc[v] /\ wobj'[v] = wobj[v]
      /\ UNCHANGED <<main, m_thr, attempts, m_ircv, m_iio, up, pluginVars>>
  BY WorkerFrame, WorkerLocals DEF Communicate
<1>2. \A v \in LiveWorkers : v = w
  BY <1>1, OneThread DEF LiveWorkers, SessionInv
<1>3. /\ fault' = "none"
      /\ wobj'[w] # Null =>
           /\ wpc'[w] \in ReceiveCalls \cup IOCalls
           /\ wobj'[w] = IF wpc'[w] \in IOCalls THEN m_iio ELSE m_ircv
      /\ wpc'[w] \in {"target_back", "setStandardDigitalOut", "target_pop"}
           => ~IsEmpty(target_io')
      /\ up /\ m_alive /\ wpc[w] # "stop"
           => m_alive' /\ wpc'[w] \notin {"off", "done", "stop"}
  BY <1>1, ThreadSession DEF SessionInv
<1>4. w \in LiveWorkers
  BY <1>1 DEF LiveWorkers
<1>5. PointersInv'
  BY <1>1, <1>3, <1>4 DEF SessionInv, PointersInv, Pointer
<1>6. TargetInv'
  <2>1. \A v \in Sessions : v # w => wpc[v] \in {"off", "done"}
    BY <1>2 DEF LiveWorkers, Live
  <2>2. QED
    BY <1>1, <1>3, <2>1 DEF TargetInv
<1>7. ScopeInv'
  BY <1>1 DEF SessionInv, ScopeInv, pluginVars
<1>8. ServedInv'
  <2>1. Launched' = Launched /\ up' = up
    BY <1>1 DEF Launched
  <2>2. Launched # Null => Launched \in Sessions
    BY BoundAssumption DEF Launched, TypeOK, ClientTypeOK, Session, Sessions
  <2>3. CASE up /\ Launched # Null
    <3>1. m_alive /\ Launched = w /\ wpc[w] # "stop"
      BY <1>2, <2>2, <2>3 DEF SessionInv, ServedInv, LiveWorkers
    <3>2. QED
      BY <1>3, <2>1, <2>3, <3>1 DEF ServedInv, Live
  <2>4. CASE ~(up /\ Launched # Null)
    BY <2>1, <2>4 DEF ServedInv
  <2>5. QED
    BY <2>3, <2>4
<1>9. MirrorInv'
  BY WorkerMirror DEF SessionInv
<1>10. QED
  BY <1>3, <1>5, <1>6, <1>7, <1>8, <1>9 DEF SessionInv, NoFault

(* The steps of the CoppeliaSim thread and of the robot. *)
LEMMA OtherSession ==
  ASSUME OneSession, TypeOK, JoinInv, SessionInv, [Next]_vars,
         ~\E w \in Sessions : Communicate(w)
  PROVE  SessionInv'
<1> DEFINE Starting == {"conn_rcv", "conn_io", "conn_launch", "conn_join"}
<1>1. MirrorInv'
  BY OtherMirror DEF SessionInv, OneSession
<1>2. UNCHANGED <<wobj>>
      /\ \A w \in Sessions :
           wpc'[w] = wpc[w] \/ (~Live(w) /\ wpc'[w] = "while_alive")
  BY MainFrame, StepCases DEF workerVars
<1>3. /\ \A w \in Sessions : ~Live(w) => wobj[w] = Null
      /\ m_thr \in Nat /\ attempts \in Nat /\ jhandles \in Nat /\ Dofs \in Nat
  BY BoundAssumption, PluginAssumption
     DEF SessionInv, PointersInv, Live, ReceiveCalls, IOCalls, TypeOK,
         ClientTypeOK, PluginTypeOK, Session, Sessions
(* A step that neither launches a thread nor touches the interfaces. *)
<1>4. ASSUME UNCHANGED <<m_ircv, m_iio, wpc>>, main' \notin {"conn_io", "conn_launch"}
      PROVE  PointersInv'
  BY <1>2, <1>4 DEF SessionInv, PointersInv, LiveWorkers, Live, Pointer
<1>5. ASSUME UNCHANGED wpc, target_io' = target_io \/ ~IsEmpty(target_io')
      PROVE  TargetInv'
  BY <1>5 DEF SessionInv, TargetInv
<1>6. ASSUME UNCHANGED <<m_alive, m_thr, attempts, wpc>>, up' => up,
             (main' = "conn_join") = (main = "conn_join")
      PROVE  ServedInv'
  BY <1>6 DEF SessionInv, ServedInv, Launched, Live
<1>7. CASE Robot
  <2>1. UNCHANGED <<m_ircv, m_iio, m_alive, m_thr, attempts, wpc, target_io, main,
                    fault, pluginVars>> /\ (up' => up)
    BY <1>7 DEF Robot, ReceivePacket, OutputChanges, LinkLost, clientVars, workerVars
  <2>2. PointersInv'
    BY <1>2, <2>1 DEF SessionInv, PointersInv, LiveWorkers, Live, Pointer
  <2>3. ScopeInv'
    BY <2>1 DEF SessionInv, ScopeInv, pluginVars
  <2>4. QED
    BY <1>1, <1>5, <1>6, <2>1, <2>2, <2>3 DEF SessionInv, NoFault
<1>8. CASE FirstInit
  <2>1. m_thr = Null /\ main = "idle" /\ inits' = MaxInits
    BY <1>8, PluginAssumption
       DEF FirstInit, JoinInv, OneSession, TypeOK, PluginTypeOK
  <2>2. \A w \in Sessions : ~Live(w)
    BY <2>1, NoThreads
  <2>3. /\ UNCHANGED <<wpc, wobj, main, fault, connected>>
        /\ m_thr' = Null /\ ~plugin_loaded /\ plugin_loaded' = TRUE
    BY <1>8 DEF FirstInit, NewObjects, workerVars
  <2>4. PointersInv' /\ TargetInv'
    BY <1>3, <2>1, <2>2, <2>3 DEF PointersInv, TargetInv, LiveWorkers, Live
  <2>5. ScopeInv'
    BY <2>1, <2>3 DEF SessionInv, ScopeInv
  <2>6. ServedInv'
    BY <2>1, <2>3 DEF ServedInv, Launched
  <2>7. QED
    BY <1>1, <2>3, <2>4, <2>5, <2>6 DEF SessionInv, NoFault
<1>9. CASE ConnectCall
  <2>1. m_thr = Null /\ main = "idle" /\ main' = "conn_rcv"
    BY <1>9 DEF ConnectCall, BeginConnect, OneSession
  <2>2. UNCHANGED <<m_ircv, m_iio, m_alive, m_thr, wpc, up, target_io, fault,
                    pluginVars>>
    BY <1>9 DEF ConnectCall, BeginConnect, workerVars, robotVars
  <2>3. ScopeInv'
    BY <2>1, <2>2 DEF SessionInv, ScopeInv, pluginVars
  <2>4. ServedInv'
    BY <2>1, <2>2 DEF ServedInv, Launched
  <2>5. QED
    BY <1>1, <1>4, <1>5, <2>1, <2>2, <2>3, <2>4 DEF SessionInv, NoFault
<1>10. CASE GetIOCall \/ SetIOCall \/ ModuleHandle
  <2>1. /\ UNCHANGED <<m_ircv, m_iio, m_alive, m_thr, attempts, wpc, up, fault,
                       plugin_loaded, inits, connected, jhandles>>
        /\ main = "idle" /\ main' \in {"idle", "getIO", "joints"}
        /\ main' = "joints" => connected
    BY <1>10 DEF GetIOCall, SetIOCall, ModuleHandle, clientVars, workerVars,
                 robotVars, pluginVars
  <2>2. target_io' = target_io \/ ~IsEmpty(target_io')
    <3>1. CASE SetIOCall
      <4>1. PICK io \in IoIds : target_io' = PushBack(target_io, Byte(io))
        BY <3>1 DEF SetIOCall
      <4>2. target_io \in Seq(Bytes) /\ Byte(io) \in Bytes
        BY ConstantFacts, PluginAssumption DEF TypeOK, ClientTypeOK
      <4>3. QED
        BY <4>1, <4>2, PushBackFacts
    <3>2. QED
      BY <1>10, <3>1 DEF GetIOCall, ModuleHandle
  <2>3. ScopeInv'
    BY <2>1 DEF SessionInv, ScopeInv
  <2>4. QED
    BY <1>1, <1>4, <1>5, <1>6, <2>1, <2>2, <2>3 DEF SessionInv, NoFault
<1>11. CASE CreateReceive /\ UNCHANGED pluginVars
  <2>1. m_thr = Null /\ \A w \in Sessions : ~Live(w)
    BY <1>11, NoThreads DEF CreateReceive, SessionInv, MirrorInv
  <2>2. /\ UNCHANGED <<wpc, m_thr, target_io, fault, pluginVars>>
        /\ m_ircv' = attempts /\ attempts # Null /\ main' = "conn_io"
    BY <1>11 DEF CreateReceive, workerVars, TypeOK, ClientTypeOK
  <2>3. PointersInv'
    BY <1>2, <1>3, <2>1, <2>2 DEF PointersInv, LiveWorkers, Live
  <2>4. ScopeInv'
    BY <2>2 DEF SessionInv, ScopeInv, pluginVars
  <2>5. ServedInv'
    BY <2>1, <2>2 DEF ServedInv, Launched
  <2>6. QED
    BY <1>1, <1>5, <2>2, <2>3, <2>4, <2>5 DEF SessionInv, NoFault
<1>12. CASE CreateIO /\ UNCHANGED pluginVars
  <2>1. m_thr = Null /\ m_ircv # Null /\ \A w \in Sessions : ~Live(w)
    BY <1>12, NoThreads DEF CreateIO, SessionInv, MirrorInv, PointersInv
  <2>2. /\ UNCHANGED <<wpc, m_ircv, m_thr, target_io, fault, pluginVars>>
        /\ m_iio' = attempts /\ attempts # Null /\ main' = "conn_launch"
    BY <1>12 DEF CreateIO, workerVars, TypeOK, ClientTypeOK
  <2>3. PointersInv'
    BY <1>2, <1>3, <2>1, <2>2 DEF PointersInv, LiveWorkers, Live
  <2>4. ScopeInv'
    BY <2>2 DEF SessionInv, ScopeInv, pluginVars
  <2>5. ServedInv'
    BY <2>1, <2>2 DEF ServedInv, Launched
  <2>6. QED
    BY <1>1, <1>5, <2>2, <2>3, <2>4, <2>5 DEF SessionInv, NoFault
<1>13. CASE ConnectThrows /\ UNCHANGED pluginVars
  <2>1. m_thr = Null
    BY <1>13 DEF ConnectThrows, SessionInv, MirrorInv
  <2>2. /\ UNCHANGED <<wpc, m_ircv, m_iio, m_thr, target_io, fault, pluginVars>>
        /\ main' = "idle"
    BY <1>13 DEF ConnectThrows, workerVars
  <2>3. ScopeInv'
    BY <2>2 DEF SessionInv, ScopeInv, pluginVars
  <2>4. ServedInv'
    BY <2>1, <2>2 DEF ServedInv, Launched
  <2>5. QED
    BY <1>1, <1>4, <1>5, <2>2, <2>3, <2>4 DEF SessionInv, NoFault
<1>14. CASE Launch /\ UNCHANGED pluginVars
  <2>1. /\ m_ircv # Null /\ m_iio # Null
        /\ \A w \in Sessions : ~Live(w)
    BY <1>14, NoThreads DEF Launch, SessionInv, MirrorInv, PointersInv
  <2>2. /\ UNCHANGED <<m_ircv, m_iio, m_thr, attempts, target_io, fault, pluginVars>>
        /\ m_alive' = TRUE /\ main' = "conn_join"
        /\ wpc' = [wpc EXCEPT ![attempts] = "while_alive"]
    BY <1>14 DEF Launch, Goto
  <2>3. attempts \in Sessions
    BY <1>14, BoundAssumption DEF Launch, TypeOK, ClientTypeOK, Sessions
  <2>4. wpc'[attempts] = "while_alive"
    BY <2>2, <2>3 DEF TypeOK, WorkerTypeOK
  <2>5. PointersInv'
    BY <1>2, <1>3, <2>1, <2>2 DEF PointersInv
  <2>6. TargetInv'
    BY <1>2, <2>1 DEF TargetInv, Live
  <2>7. ScopeInv'
    BY <2>2 DEF SessionInv, ScopeInv, pluginVars
  <2>8. ServedInv'
    BY <2>2, <2>4 DEF ServedInv, Launched, Live
  <2>9. QED
    BY <1>1, <2>2, <2>5, <2>6, <2>7, <2>8 DEF SessionInv, NoFault
<1>15. CASE JoinOld /\ UNCHANGED pluginVars
  <2>1. /\ UNCHANGED <<wpc, m_ircv, m_iio, m_alive, attempts, up, target_io, fault,
                       pluginVars>>
        /\ m_thr' = attempts /\ main = "conn_join" /\ main' = "conn_ret"
        /\ attempts # Null
    BY <1>15 DEF JoinOld, workerVars, robotVars, TypeOK, ClientTypeOK
  <2>2. ScopeInv'
    BY <2>1 DEF SessionInv, ScopeInv, pluginVars
  <2>3. ServedInv'
    BY <2>1 DEF SessionInv, ServedInv, Launched, Live
  <2>4. QED
    BY <1>1, <1>4, <1>5, <2>1, <2>2, <2>3 DEF SessionInv, NoFault
<1>16. CASE ConnectReturns
  <2>1. /\ UNCHANGED <<wpc, m_ircv, m_iio, m_alive, m_thr, attempts, up, target_io,
                       plugin_loaded, inits>>
        /\ main = "conn_ret" /\ main' = "idle" /\ m_thr # Null
    BY <1>16 DEF ConnectReturns, SessionInv, ScopeInv, clientVars, workerVars,
                 robotVars
  <2>2. plugin_loaded
    BY <2>1 DEF JoinInv
  <2>3. CASE up
    <3>1. PICK k \in HandleCounts : jhandles' = jhandles + k
      BY <1>16, <2>3 DEF ConnectReturns
    <3>2. jhandles' # 0
      BY <1>3, <3>1, PluginAssumption DEF OneSession
    <3>3. fault' = "none"
      BY <1>16, <2>3, <3>2 DEF ConnectReturns, IndexFault
    <3>4. ScopeInv'
      BY <2>1, <2>2, <3>2 DEF SessionInv, ScopeInv
    <3>5. QED
      BY <1>1, <1>4, <1>5, <1>6, <2>1, <3>3, <3>4 DEF SessionInv, NoFault
  <2>4. CASE ~up
    <3>1. UNCHANGED <<connected, jhandles, fault>>
      BY <1>16, <2>4 DEF ConnectReturns
    <3>2. ScopeInv'
      BY <2>1, <3>1 DEF SessionInv, ScopeInv
    <3>3. QED
      BY <1>1, <1>4, <1>5, <1>6, <2>1, <3>1, <3>2 DEF SessionInv, NoFault
  <2>5. QED
    BY <2>3, <2>4
<1>17. CASE GetIOReturns \/ ApplyJoints
  <2>1. /\ UNCHANGED <<m_ircv, m_iio, m_alive, m_thr, attempts, wpc, up, target_io,
                       plugin_loaded, inits, connected, jhandles>>
        /\ main' = "idle" /\ main # "conn_join"
    BY <1>17 DEF GetIOReturns, ApplyJoints, clientVars, workerVars, robotVars
  <2>2. fault' = fault
    BY <1>3, <1>17 DEF GetIOReturns, ApplyJoints, IndexFault, SessionInv, ScopeInv,
                         NoFault
  <2>3. ScopeInv'
    BY <2>1 DEF SessionInv, ScopeInv
  <2>4. QED
    BY <1>1, <1>4, <1>5, <1>6, <2>1, <2>2, <2>3 DEF SessionInv, NoFault
<1>18. CASE UNCHANGED vars
  <2>1. UNCHANGED <<m_ircv, m_iio, m_alive, m_thr, attempts, wpc, up, target_io,
                    main, fault, pluginVars>>
    BY <1>18 DEF vars, clientStepVars, clientVars, workerVars, robotVars
  <2>2. PointersInv'
    BY <1>2, <2>1 DEF SessionInv, PointersInv, LiveWorkers, Live, Pointer
  <2>3. ScopeInv'
    BY <2>1 DEF SessionInv, ScopeInv, pluginVars
  <2>4. QED
    BY <1>1, <1>5, <1>6, <2>1, <2>2, <2>3 DEF SessionInv, NoFault
<1>19. QED
  <2>1. ScopeInv
    BY DEF SessionInv
  <2>2. QED
    BY <2>1, SessionSteps, <1>7, <1>8, <1>9, <1>10, <1>11, <1>12, <1>13, <1>14,
       <1>15, <1>16, <1>17, <1>18 DEF ConnectStep

LEMMA NextSession ==
  ASSUME OneSession, TypeOK, JoinInv, SessionInv, [Next]_vars
  PROVE  SessionInv'
BY WorkerSession, OtherSession

(* In one session nothing undefined is reached, whenever the link drops,   *)
(* whatever is asked of the outputs and however often an earlier connect   *)
(* has failed.                                                             *)
THEOREM Faultless ==
  ASSUME OneSession
  PROVE  Spec => []NoFault
<1>1. TypeOK /\ JoinInv /\ SessionInv /\ [Next]_vars
        => (TypeOK /\ JoinInv /\ SessionInv)'
  BY NextType, NextJoin, NextSession
<1>2. SessionInv => NoFault
  BY DEF SessionInv
<1>3. QED
  BY InitType, InitJoin, InitSession, <1>1, <1>2, PTL DEF Spec

(* In one session a thread is there to serve the queues as long as the     *)
(* plugin says it is connected and the link is up.                         *)
THEOREM Served ==
  ASSUME OneSession
  PROVE  Spec => []ConnectedIsServed
<1>1. TypeOK /\ JoinInv /\ SessionInv /\ [Next]_vars
        => (TypeOK /\ JoinInv /\ SessionInv)'
  BY NextType, NextJoin, NextSession
<1>2. TypeOK /\ SessionInv => ConnectedIsServed
  BY DEF SessionInv, ScopeInv, ServedInv, Launched, ConnectedIsServed,
         LiveWorkers, TypeOK, ClientTypeOK, Session
<1>3. QED
  BY InitType, InitJoin, InitSession, <1>1, <1>2, PTL DEF Spec

===========================================================================
