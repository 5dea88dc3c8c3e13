----------------------------- MODULE PluginLife -----------------------------
(***************************************************************************)
(* The plugin between being loaded and being unloaded: simStart, which     *)
(* loads CoppeliaSim's library and binds its functions (simLib.cpp),       *)
(* simMessage, simEnd, and what the callbacks do with the objects of the   *)
(* scene, which CoppeliaSim may replace at any time.                       *)
(*                                                                         *)
(* RTDEclient is reduced to its thread, which may end at any time (a lost   *)
(* link), to whether it has delivered a joint vector, and to who holds the *)
(* queues; RTDEclient.tla has it step by step.  All else happens on the    *)
(* CoppeliaSim thread.  CoppeliaSim itself is not in the repository; a     *)
(* handle is taken to name one joint of one scene, for good.               *)
(***************************************************************************)
EXTENDS Naturals, Sequences

CONSTANTS
  Current, Deprecated,  \* functions getSimProcAddresses asks for
  Libraries,            \* sets of functions a version of CoppeliaSim may have
  Dofs,                 \* Robot::dofs, 6 in the code
  Robots,               \* numbers of joints the robot of a scene may have
  Modes,                \* values of the error report mode
  Ignore,               \* the one that simMessage works under
  MaxScenes,            \* bound: scenes shown in a behaviour
  MaxConnects           \* bound: calls of simRTDE.connect

Functions == Current \cup Deprecated

(* Functions the plugin may call: in simStart, in simMessage, and in the  *)
(* callbacks, there for the scene and through CStackArray.                 *)
CalledByStart == {"simGetIntegerParameter", "simRegisterScriptVariable",
                  "simRegisterScriptCallbackFunction"}

CalledByMessage == {"simGetIntegerParameter", "simSetIntegerParameter",
                    "simSetJointPosition"}

CalledForRobot == {"simGetObjectHandle", "simGetJointInterval",
                   "simGetObjectFloatParameter", "simAddStatusbarMessage"}

CalledFromStack ==
  {"simGetStackSize", "simMoveStackItemToTop", "simIsStackValueNull",
   "simGetStackBoolValue", "simGetStackDoubleValue", "simGetStackStringValue",
   "simReleaseBuffer", "simGetStackTableInfo", "simGetStackDoubleTable",
   "simUnfoldStackTable", "simPopStackItem"}

CalledOntoStack ==
  {"simPushNullOntoStack", "simPushBoolOntoStack", "simPushDoubleOntoStack",
   "simPushInt32OntoStack", "simPushStringOntoStack",
   "simPushDoubleTableOntoStack", "simPushTableOntoStack",
   "simInsertDataIntoStackTable"}

CalledByScript == CalledForRobot \cup CalledFromStack \cup CalledOntoStack

ASSUME LifeAssumption ==
  /\ CalledByStart \cup CalledByMessage \cup CalledByScript \subseteq Functions
  /\ "simAddLog" \in Current
  /\ Libraries \subseteq SUBSET Functions
  /\ Dofs \in Nat \ {0}
  /\ Robots \subseteq 0 .. Dofs
  /\ Ignore \in Modes
  /\ MaxScenes \in Nat /\ MaxConnects \in Nat

VARIABLES
  exports,         \* functions this version of CoppeliaSim has
  recent,          \* is it version 4.0.0 rev 1 or later?
  library,         \* references the plugin has to the library
  bound,           \* each function pointer: "null", "own" or "sim"
  plugin,          \* "absent", "binding", "checking", "registering",
                   \* "running", "ended", "robot_gone", "client_gone", "gone"
  message,         \* the message simMessage is handling, or "none"
  errorMode,       \* CoppeliaSim's error report mode
  errorModeSaved,
  wanted,          \* the mode last set by anyone but the plugin
  refreshDlgFlag,
  callback,        \* the callback that waits for the thread, or "none"
  plugin_loaded, connected,
  thread,          \* does RTDEclient's thread live?
  holders,         \* of the queues: "robot" (RobotInterface), "client"
  telemetry,       \* is there a joint vector in the queue?
  jhandles,
  scene,           \* the scene shown: its number, and the robot's joints
  pose,            \* for each joint the component of q it was set to, or 0
  connects,        \* calls of connect so far
  fault

startVars == <<exports, recent, library, bound>>
messageVars == <<message, errorMode, errorModeSaved, wanted, refreshDlgFlag>>
queueVars == <<holders, telemetry>>
clientVars == <<callback, plugin_loaded, connected, thread, queueVars, jhandles,
                connects>>
sceneVars == <<scene, pose>>
vars == <<startVars, plugin, messageVars, clientVars, sceneVars, fault>>

Messages == {"refreshdialogs", "instancepass", "modulehandle", "guipass"}
Joints == 1 .. Dofs

(* A handle names one joint of one scene. *)
Handle(number, j) == [scene |-> number, joint |-> j]

(* Calls through pointers that are not bound end the process. *)
Calling(functions) ==
  fault' = IF \E f \in functions : bound[f] = "null" THEN "null" ELSE fault

Init ==
  /\ exports \in Libraries
  /\ recent \in BOOLEAN
  /\ library = 0
  /\ bound = [f \in Functions |-> IF f = "simAddLog" THEN "own" ELSE "null"]
  /\ plugin = "absent"
  /\ message = "none"
  /\ errorMode \in Modes /\ wanted = errorMode
  /\ errorModeSaved = Ignore
  /\ refreshDlgFlag = TRUE
  /\ callback = "none"
  /\ plugin_loaded = FALSE /\ connected = FALSE
  /\ thread = FALSE /\ holders = {} /\ telemetry = FALSE
  /\ jhandles = << >>
  /\ scene = [number |-> 0, joints |-> 0]
  /\ pose = [j \in Joints |-> 0]
  /\ connects = 0
  /\ fault = "none"

---------------------------------------------------------------------------
(* simStart *)

LoadSimLibrary ==
  /\ plugin = "absent"
  /\ \/ plugin' = "binding" /\ library' = library + 1
     \/ plugin' = "gone" /\ UNCHANGED library
  /\ UNCHANGED <<exports, recent, bound, messageVars, clientVars, sceneVars,
                 fault>>

(* dlsym: null for a name the library does not have. *)
GetProcAddress(f) == IF f \in exports THEN "sim" ELSE "null"

(* One assignment for each pointer; where a name is missing, even the      *)
(* default of simAddLog gives way to null.                                 *)
ResolveCurrent(pointers) ==
  [f \in Functions |->
     IF f \in Current THEN GetProcAddress(f) ELSE pointers[f]]

ResolveDeprecated(pointers) ==
  [f \in Functions |->
     IF f \in Deprecated THEN GetProcAddress(f) ELSE pointers[f]]

(* One test for each pointer but simAddLog. *)
CurrentFound(pointers) ==
  \A f \in Current \ {"simAddLog"} : pointers[f] # "null"

DeprecatedFound(pointers) == \A f \in Deprecated : pointers[f] # "null"

AllFound(pointers) == CurrentFound(pointers) /\ DeprecatedFound(pointers)

GetSimProcAddresses ==
  /\ plugin = "binding"
  /\ bound' = ResolveDeprecated(ResolveCurrent(bound))
  /\ IF AllFound(bound')
     THEN plugin' = "checking" /\ UNCHANGED library
     ELSE plugin' = "gone" /\ library' = library - 1
  /\ UNCHANGED <<exports, recent, messageVars, clientVars, sceneVars, fault>>

(* Faulty: the library is kept. *)
VersionChecked ==
  /\ plugin = "checking"
  /\ Calling({"simGetIntegerParameter"})
  /\ plugin' = IF recent THEN "registering" ELSE "gone"
  /\ UNCHANGED <<startVars, messageVars, clientVars, sceneVars>>

CheckVersion ==
  /\ plugin = "checking"
  /\ IF recent
     THEN /\ plugin' = "registering" /\ UNCHANGED library
          /\ Calling({"simGetIntegerParameter"})
     ELSE /\ plugin' = "gone" /\ library' = library - 1
          /\ Calling({"simGetIntegerParameter", "simAddStatusbarMessage"})
  /\ UNCHANGED <<exports, recent, bound, messageVars, clientVars, sceneVars>>

Register ==
  /\ plugin = "registering"
  /\ Calling(CalledByStart)
  /\ plugin' = "running"
  /\ UNCHANGED <<startVars, messageVars, clientVars, sceneVars>>

---------------------------------------------------------------------------
(* simMessage *)

(* The plugin is called when it runs and no call of it is under way. *)
Free == plugin = "running" /\ message = "none" /\ callback = "none"

MessageBegins(m) ==
  /\ Free
  /\ Calling(CalledByMessage)
  /\ message' = m
  /\ errorModeSaved' = errorMode
  /\ errorMode' = Ignore
  /\ UNCHANGED <<startVars, plugin, wanted, refreshDlgFlag, clientVars,
                 sceneVars>>

(* An instance pass tells whether the content of the scene has changed. *)
Refresh ==
  CASE message = "refreshdialogs" -> refreshDlgFlag' = TRUE
    [] message = "instancepass" -> refreshDlgFlag' \in {refreshDlgFlag, TRUE}
    [] message = "guipass" -> refreshDlgFlag' = FALSE
    [] OTHER -> UNCHANGED refreshDlgFlag

(* simMessage asks RTDEclient for joints, and waits until it has some. *)
Moves == message = "modulehandle" /\ plugin_loaded /\ connected

(* The joint that jhandles[i] names in the scene shown, or 0: a handle     *)
(* from an earlier scene names none, and what lies beyond the end of the   *)
(* vector, a number like a handle, names any joint or none.                *)
Named(i) ==
  IF i \in DOMAIN jhandles
  THEN {IF jhandles[i].scene = scene.number THEN jhandles[i].joint ELSE 0}
  ELSE 0 .. scene.joints

(* simSetJointPosition for jhandles[0 .. dofs-1], whose failures nobody    *)
(* looks at; a vector that never held anything reads from a null pointer.  *)
ModuleHandle ==
  \/ ~Moves /\ UNCHANGED <<pose, fault>>
  \/ Moves /\ jhandles = << >> /\ fault' = "index" /\ UNCHANGED pose
  \/ /\ Moves /\ jhandles # << >>
     /\ \E named \in [Joints -> 0 .. scene.joints] :
          /\ \A i \in Joints : named[i] \in Named(i)
          /\ pose' = [j \in Joints |->
                       IF \E i \in Joints : named[i] = j
                       THEN CHOOSE i \in Joints :
                              /\ named[i] = j
                              /\ \A k \in Joints : named[k] = j => k <= i
                       ELSE pose[j]]
     /\ UNCHANGED fault

(* Faulty: returns from inside the branch of a message. *)
MessageReturnsEarly ==
  /\ message # "none"
  /\ Moves => telemetry
  /\ Refresh
  /\ ModuleHandle
  /\ errorMode' = IF message = "guipass" THEN errorMode ELSE errorModeSaved
  /\ message' = "none"
  /\ UNCHANGED <<startVars, plugin, errorModeSaved, wanted, clientVars, scene>>

MessageEnds ==
  /\ message # "none"
  /\ Moves => telemetry
  /\ Refresh
  /\ ModuleHandle
  /\ errorMode' = errorModeSaved
  /\ message' = "none"
  /\ UNCHANGED <<startVars, plugin, errorModeSaved, wanted, clientVars, scene>>

---------------------------------------------------------------------------
(* The callbacks, as far as the thread and the handles go *)

(* Faulty: the old RobotInterface goes before the old client. *)
InitsRobotFirst ==
  /\ Free
  /\ Calling(CalledByScript)
  /\ callback' = "init"
  /\ holders' = {}
  /\ UNCHANGED <<startVars, plugin, messageVars, plugin_loaded, connected,
                 thread, telemetry, jhandles, connects, sceneVars>>

(* simRTDE.init: the old client's thread is waited for.  The old client    *)
(* gives up its share of the queues first.                                 *)
InitCall ==
  /\ Free
  /\ Calling(CalledByScript)
  /\ callback' = "init"
  /\ holders' = holders \ {"client"}
  /\ UNCHANGED <<startVars, plugin, messageVars, plugin_loaded, connected,
                 thread, telemetry, jhandles, connects, sceneVars>>

(* A new RobotInterface with new queues, and a new client of them. *)
InitReturns ==
  /\ callback = "init"
  /\ ~thread
  /\ callback' = "none"
  /\ plugin_loaded' = TRUE
  /\ holders' = {"robot", "client"}
  /\ telemetry' = FALSE
  /\ jhandles' = << >>
  /\ Calling(CalledByScript)
  /\ UNCHANGED <<startVars, plugin, messageVars, connected, thread, connects,
                 sceneVars>>

(* simRTDE.connect: an exception, or a new thread after the old one. *)
ConnectCall ==
  /\ Free
  /\ plugin_loaded
  /\ connects < MaxConnects
  /\ connects' = connects + 1
  /\ Calling(CalledByScript)
  /\ callback' \in {"none", "connect"}
  /\ UNCHANGED <<startVars, plugin, messageVars, plugin_loaded, connected,
                 thread, queueVars, jhandles, sceneVars>>

(* Faulty: the loop over the joints begins with the second. *)
RobotHandlesFromSecond ==
  jhandles \o [j \in 1 .. scene.joints - 1 |-> Handle(scene.number, j + 1)]

(* simExtGetRobotHandles: the joints are asked for one by one, up to the   *)
(* first that is missing; what was found is appended.                      *)
RobotHandles ==
  jhandles \o [j \in 1 .. scene.joints |-> Handle(scene.number, j)]

(* A robot that answers late is not connected when RTDEconnect returns.    *)
(* simExtGetJointLimits reads jhandles[0 .. dofs-1]; it stops at the first *)
(* handle the scene does not have, and nobody looks at that.               *)
ConnectReturns ==
  /\ callback = "connect"
  /\ ~thread
  /\ callback' = "none"
  /\ thread' = TRUE
  /\ \/ /\ connected' = TRUE
        /\ jhandles' = RobotHandles
        /\ IF jhandles' = << >> THEN fault' = "index"
           ELSE Calling(CalledByScript)
     \/ UNCHANGED <<connected, jhandles>> /\ Calling(CalledByScript)
  /\ UNCHANGED <<startVars, plugin, messageVars, plugin_loaded, queueVars,
                 connects, sceneVars>>

DisconnectCall ==
  /\ Free
  /\ plugin_loaded
  /\ connected' = FALSE
  /\ Calling(CalledByScript)
  /\ UNCHANGED <<startVars, plugin, messageVars, callback, plugin_loaded,
                 thread, queueVars, jhandles, connects, sceneVars>>

(* run(): a joint vector is pushed, into queues that somebody still holds  *)
(* or into what was a queue; the thread ends when its flag is down or the  *)
(* link is lost.                                                           *)
Telemetry ==
  /\ thread
  /\ IF holders # {} THEN telemetry' = TRUE /\ UNCHANGED fault
     ELSE fault' = "released" /\ UNCHANGED telemetry
  /\ UNCHANGED <<startVars, plugin, messageVars, callback, plugin_loaded,
                 connected, thread, holders, jhandles, connects, sceneVars>>

ThreadEnds ==
  /\ thread
  /\ thread' = FALSE
  /\ UNCHANGED <<startVars, plugin, messageVars, callback, plugin_loaded,
                 connected, queueVars, jhandles, connects, sceneVars, fault>>

---------------------------------------------------------------------------
(* simEnd, and the static destructors *)

SimEnd ==
  /\ Free
  /\ plugin' = "ended"
  /\ library' = library - 1
  /\ UNCHANGED <<exports, recent, bound, messageVars, clientVars, sceneVars,
                 fault>>

(* The static declared last, ptr_robot_interface, is destroyed first. *)
DestroyRobot ==
  /\ plugin = "ended"
  /\ plugin' = "robot_gone"
  /\ holders' = holders \ {"robot"}
  /\ UNCHANGED <<startVars, messageVars, callback, plugin_loaded, connected,
                 thread, telemetry, jhandles, connects, sceneVars, fault>>

(* ~RTDEclient: of the members, m_rtde goes before m_thr. *)
DestroyClient ==
  /\ plugin = "robot_gone"
  /\ plugin' = "client_gone"
  /\ holders' = holders \ {"client"}
  /\ UNCHANGED <<startVars, messageVars, callback, plugin_loaded, connected,
                 thread, telemetry, jhandles, connects, sceneVars, fault>>

(* The destructor of m_thr waits; then the code is unmapped. *)
Unload ==
  /\ plugin = "client_gone"
  /\ ~thread
  /\ plugin' = "gone"
  /\ UNCHANGED <<startVars, messageVars, clientVars, sceneVars, fault>>

---------------------------------------------------------------------------
(* CoppeliaSim and its user *)

(* Another scene: no robot, a whole one, or one that lacks joints. *)
NewScene ==
  /\ Free
  /\ scene.number < MaxScenes
  /\ \E joints \in Robots :
       scene' = [number |-> scene.number + 1, joints |-> joints]
  /\ pose' = [j \in Joints |-> 0]
  /\ UNCHANGED <<startVars, plugin, messageVars, clientVars, fault>>

SetMode ==
  /\ message = "none"
  /\ errorMode' \in Modes
  /\ wanted' = errorMode'
  /\ UNCHANGED <<startVars, plugin, message, errorModeSaved, refreshDlgFlag,
                 clientVars, sceneVars, fault>>

Next ==
  /\ fault = "none"
  /\ \/ LoadSimLibrary \/ GetSimProcAddresses \/ CheckVersion \/ Register
     \/ \E m \in Messages : MessageBegins(m)
     \/ MessageEnds
     \/ InitCall \/ InitReturns \/ ConnectCall \/ ConnectReturns
     \/ DisconnectCall \/ Telemetry \/ ThreadEnds
     \/ SimEnd \/ DestroyRobot \/ DestroyClient \/ Unload
     \/ NewScene \/ SetMode

Spec == Init /\ [][Next]_vars

---------------------------------------------------------------------------
(* Properties *)

Ended == {"ended", "robot_gone", "client_gone"}

(* simStart and simEnd close the library as often as they opened it, on    *)
(* every way out, and the plugin runs with the library open.               *)
LibraryHeld ==
  library = IF plugin \in {"absent", "gone"} \cup Ended THEN 0 ELSE 1

(* No call goes through a pointer that getSimProcAddresses left null: what *)
(* simStart lets pass is all the plugin will ever call.                    *)
NoNullCall == fault # "null"

(* Between two messages CoppeliaSim reports errors as everybody but the    *)
(* plugin wants it to, whichever branch of simMessage was taken.           *)
ErrorModeKept == message = "none" => errorMode = wanted

(* Until simEnd, no thread loses the queues it works on, although           *)
(* simRTDE.init replaces both of their owners while it may run.            *)
QueuesHeld == plugin = "running" /\ thread => holders # {}

(* A joint of the robot never shows another joint's angle, although        *)
(* handles of several connects and several scenes pile up in jhandles.     *)
OwnAngle == \A j \in Joints : pose[j] \in {0, j}

---------------------------------------------------------------------------
(* Inductive invariants *)

JointHandles == [scene : Nat, joint : Joints]

TypeOK ==
  /\ library \in Nat
  /\ bound \in [Functions -> {"null", "own", "sim"}]
  /\ jhandles \in Seq(JointHandles)
  /\ scene \in [number : Nat, joints : 0 .. Dofs]

(* Once simStart has tested the pointers, all it may use are bound. *)
BoundInv ==
  /\ plugin \in {"checking", "registering", "running"} =>
       \A f \in Functions \ {"simAddLog"} : bound[f] # "null"
  /\ NoNullCall

(* While a message is handled, the mode to restore is the one wanted. *)
ModeInv == IF message = "none" THEN errorMode = wanted
           ELSE errorModeSaved = wanted

(* Calls of the plugin, and threads, exist only where it runs. *)
CallInv ==
  /\ plugin # "running" => message = "none" /\ callback = "none"
  /\ plugin \notin {"running"} \cup Ended => ~thread

(* Where a client may have a thread, RobotInterface holds the queues. *)
HoldInv ==
  /\ thread \/ callback = "connect" => plugin_loaded
  /\ plugin_loaded /\ plugin \notin Ended \cup {"gone"} => "robot" \in holders

LifeInv ==
  /\ TypeOK /\ LibraryHeld /\ BoundInv /\ ModeInv /\ CallInv /\ HoldInv

(* jhandles begins with a whole robot, whatever was appended since. *)
HandleInv ==
  fault = "none" =>
    \/ jhandles = << >>
    \/ /\ Len(jhandles) >= Dofs
       /\ \A i \in Joints : jhandles[i].joint = i

AngleInv == scene.joints \in {0, Dofs} /\ HandleInv /\ OwnAngle
=============================================================================
