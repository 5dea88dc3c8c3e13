------------------------- MODULE PluginLife_proofs -------------------------
(***************************************************************************)
(* The life of the plugin, for any library, any robots, any number of      *)
(* scenes and connects: LifeInv is inductive, and where robots are whole   *)
(* or missing so is AngleInv beside it.                                    *)
(***************************************************************************)
EXTENDS PluginLife, TLAPS

(* What the plugin calls, apart from the log function it never calls. *)
LEMMA CalledFunctions ==
  /\ CalledByStart \cup CalledByMessage \cup CalledByScript
       \subseteq Functions \ {"simAddLog"}
BY LifeAssumption DEF CalledByStart, CalledByMessage, CalledByScript,
   CalledForRobot, CalledFromStack, CalledOntoStack

(* Calls through bound pointers change nothing of fault. *)
LEMMA BoundCalls ==
  ASSUME NEW calls \in SUBSET (Functions \ {"simAddLog"}), Calling(calls),
         \A f \in Functions \ {"simAddLog"} : bound[f] # "null"
  PROVE  fault' = fault
BY DEF Calling

(* simExtGetRobotHandles appends handles of joints. *)
LEMMA RobotHandlesType ==
  ASSUME TypeOK
  PROVE  RobotHandles \in Seq(JointHandles)
<1>1. [j \in 1 .. scene.joints |-> Handle(scene.number, j)]
        \in Seq(JointHandles)
  <2>1. scene.joints \in 0 .. Dofs /\ scene.number \in Nat /\ Dofs \in Nat
    BY LifeAssumption DEF TypeOK
  <2>2. \A j \in 1 .. scene.joints :
          Handle(scene.number, j) \in JointHandles
    BY <2>1 DEF Handle, JointHandles, Joints
  <2> QED  BY <2>1, <2>2
<1> QED  BY <1>1 DEF TypeOK, RobotHandles

(* Where robots are whole or missing, what connect finds is a whole robot   *)
(* in front, of this scene or of an earlier one, or nothing at all.        *)
LEMMA WholeRobotFirst ==
  ASSUME TypeOK, fault = "none", HandleInv, scene.joints \in {0, Dofs}
  PROVE  \/ RobotHandles = << >>
         \/ /\ Len(RobotHandles) >= Dofs
            /\ \A i \in Joints : RobotHandles[i].joint = i
<1> DEFINE found == [j \in 1 .. scene.joints |-> Handle(scene.number, j)]
<1>1. scene.joints \in 0 .. Dofs /\ scene.number \in Nat /\ Dofs \in Nat \ {0}
  BY LifeAssumption DEF TypeOK
<1>2. found \in Seq(JointHandles) /\ Len(found) = scene.joints
  <2>1. \A j \in 1 .. scene.joints : Handle(scene.number, j) \in JointHandles
    BY <1>1 DEF Handle, JointHandles, Joints
  <2> QED  BY <1>1, <2>1
<1>3. jhandles \in Seq(JointHandles)
  BY DEF TypeOK
<1>4. RobotHandles = jhandles \o found
  BY DEF RobotHandles
<1>5. CASE jhandles = << >>
  <2>1. RobotHandles = found
    BY <1>2, <1>4, <1>5
  <2>2. CASE scene.joints = 0
    BY <1>2, <2>1, <2>2
  <2>3. CASE scene.joints = Dofs
    BY <1>1, <1>2, <2>1, <2>3 DEF Handle, Joints
  <2> QED  BY <2>2, <2>3
<1>6. CASE jhandles # << >>
  <2>1. Len(jhandles) >= Dofs /\ \A i \in Joints : jhandles[i].joint = i
    BY <1>6 DEF HandleInv
  <2>2. Len(RobotHandles) >= Dofs
    BY <1>1, <1>2, <1>3, <1>4, <2>1
  <2>3. \A i \in Joints : RobotHandles[i] = jhandles[i]
    BY <1>1, <1>2, <1>3, <1>4, <2>1 DEF Joints
  <2> QED  BY <2>1, <2>2, <2>3
<1> QED  BY <1>5, <1>6

(* simMessage sets each joint to its own component of the joint vector.    *)
LEMMA OwnComponent ==
  ASSUME TypeOK, fault = "none", AngleInv, ModuleHandle
  PROVE  OwnAngle'
<1>1. CASE UNCHANGED pose
  BY <1>1 DEF AngleInv, OwnAngle
<1>2. ASSUME jhandles # << >>,
             NEW named \in [Joints -> 0 .. scene.joints],
             \A i \in Joints : named[i] \in Named(i),
             pose' = [j \in Joints |->
                       IF \E i \in Joints : named[i] = j
                       THEN CHOOSE i \in Joints :
                              /\ named[i] = j
                              /\ \A k \in Joints : named[k] = j => k <= i
                       ELSE pose[j]]
      PROVE  OwnAngle'
  <2>1. Len(jhandles) >= Dofs /\ \A i \in Joints : jhandles[i].joint = i
    BY <1>2 DEF AngleInv, HandleInv
  <2>2. \A i \in Joints : i \in DOMAIN jhandles
    BY <2>1, LifeAssumption DEF TypeOK, Joints
  <2>3. \A i \in Joints : named[i] \in {0, i}
    BY <1>2, <2>1, <2>2 DEF Named
  <2>4. \A i, j \in Joints : named[i] = j => i = j
    BY <2>3, LifeAssumption DEF Joints
  <2>5. ASSUME NEW j \in Joints PROVE pose'[j] \in {0, j}
    <3>1. CASE \E i \in Joints : named[i] = j
      <4>1. named[j] = j /\ \A k \in Joints : named[k] = j => k <= j
        BY <2>4, <3>1, LifeAssumption DEF Joints
      <4>2. \E i \in Joints : /\ named[i] = j
                              /\ \A k \in Joints : named[k] = j => k <= i
        BY <4>1
      <4>3. (CHOOSE i \in Joints : /\ named[i] = j
                                   /\ \A k \in Joints : named[k] = j => k <= i)
              = j
        BY <4>2, <2>4
      <4> QED  BY <1>2, <3>1, <4>3
    <3>2. CASE ~ \E i \in Joints : named[i] = j
      BY <1>2, <3>2 DEF AngleInv, OwnAngle
    <3> QED  BY <3>1, <3>2
  <2> QED  BY <2>5 DEF OwnAngle
<1> QED  BY <1>1, <1>2 DEF ModuleHandle

LEMMA LifeInit == Init => LifeInv
<1> SUFFICES ASSUME Init PROVE LifeInv
  OBVIOUS
<1>1. TypeOK
  BY LifeAssumption DEF Init, TypeOK
<1>2. LibraryHeld /\ BoundInv /\ ModeInv /\ CallInv /\ HoldInv
  BY DEF Init, LibraryHeld, BoundInv, NoNullCall, ModeInv, CallInv, HoldInv,
         Ended
<1> QED  BY <1>1, <1>2 DEF LifeInv

(* A step that touches none of the variables an invariant is about. *)
LEMMA LifeStutter == LifeInv /\ UNCHANGED vars => LifeInv'
BY DEF LifeInv, TypeOK, LibraryHeld, BoundInv, NoNullCall, ModeInv, CallInv,
       HoldInv, Ended, vars, startVars, messageVars, clientVars, queueVars,
     sceneVars

(* Steps of simStart. *)
LEMMA StartSteps ==
  ASSUME LifeInv, fault = "none",
         LoadSimLibrary \/ GetSimProcAddresses \/ CheckVersion \/ Register
  PROVE  LifeInv'
<1> USE DEF LifeInv
<1>1. CASE LoadSimLibrary
  BY <1>1 DEF LoadSimLibrary, TypeOK, LibraryHeld, BoundInv, NoNullCall,
     ModeInv, CallInv, HoldInv, Ended, messageVars, clientVars, queueVars,
     sceneVars
<1>2. CASE GetSimProcAddresses
  <2>1. bound' \in [Functions -> {"null", "own", "sim"}]
    BY <1>2 DEF GetSimProcAddresses, ResolveCurrent, ResolveDeprecated,
       GetProcAddress, TypeOK, Functions
  <2>2. plugin' = "checking" =>
          \A f \in Functions \ {"simAddLog"} : bound'[f] # "null"
    BY <1>2 DEF GetSimProcAddresses, AllFound, CurrentFound, DeprecatedFound,
       Functions
  <2>3. plugin' \in {"checking", "gone"} /\ plugin = "binding"
    BY <1>2 DEF GetSimProcAddresses
  <2>4. TypeOK' /\ LibraryHeld'
    BY <1>2, <2>1 DEF GetSimProcAddresses, TypeOK, LibraryHeld, Ended,
       clientVars, sceneVars
  <2>5. BoundInv'
    BY <1>2, <2>2, <2>3 DEF GetSimProcAddresses, BoundInv, NoNullCall
  <2>6. ModeInv' /\ CallInv' /\ HoldInv'
    BY <1>2, <2>3 DEF GetSimProcAddresses, ModeInv, CallInv, HoldInv,
       Ended, messageVars, clientVars, queueVars,
     sceneVars
  <2> QED  BY <2>4, <2>5, <2>6
<1>3. CASE CheckVersion
  <2>1. fault' = fault
    <3>1. \A f \in Functions \ {"simAddLog"} : bound[f] # "null"
      BY <1>3 DEF CheckVersion, BoundInv
    <3>2. {"simGetIntegerParameter"} \in SUBSET (Functions \ {"simAddLog"})
      BY CalledFunctions DEF CalledByStart
    <3>3. {"simGetIntegerParameter", "simAddStatusbarMessage"}
            \in SUBSET (Functions \ {"simAddLog"})
      BY CalledFunctions DEF CalledByStart, CalledByScript, CalledForRobot
    <3>4. CASE Calling({"simGetIntegerParameter"})
      BY <3>1, <3>2, <3>4, BoundCalls
    <3>5. CASE Calling({"simGetIntegerParameter", "simAddStatusbarMessage"})
      BY <3>1, <3>3, <3>5, BoundCalls
    <3> QED  BY <1>3, <3>4, <3>5 DEF CheckVersion
  <2> QED
    BY <1>3, <2>1 DEF CheckVersion, TypeOK, LibraryHeld, BoundInv, NoNullCall,
       ModeInv, CallInv, HoldInv, Ended, messageVars, clientVars, queueVars,
     sceneVars
<1>4. CASE Register
  <2>1. fault' = fault
    <3>1. \A f \in Functions \ {"simAddLog"} : bound[f] # "null"
      BY <1>4 DEF Register, BoundInv
    <3>2. CalledByStart \in SUBSET (Functions \ {"simAddLog"})
      BY CalledFunctions
    <3> QED  BY <1>4, <3>1, <3>2, BoundCalls DEF Register
  <2> QED
    BY <1>4, <2>1 DEF Register, TypeOK, LibraryHeld, BoundInv, NoNullCall,
       ModeInv, CallInv, HoldInv, Ended, startVars, messageVars, clientVars,
       queueVars, sceneVars
<1> QED  BY <1>1, <1>2, <1>3, <1>4

(* Steps of simMessage. *)
LEMMA MessageSteps ==
  ASSUME LifeInv, fault = "none",
         (\E m \in Messages : MessageBegins(m)) \/ MessageEnds
  PROVE  LifeInv'
<1> USE DEF LifeInv
<1>1. ASSUME NEW m \in Messages, MessageBegins(m) PROVE LifeInv'
  <2>1. fault' = fault
    <3>1. \A f \in Functions \ {"simAddLog"} : bound[f] # "null"
      BY <1>1 DEF MessageBegins, Free, BoundInv
    <3>2. CalledByMessage \in SUBSET (Functions \ {"simAddLog"})
      BY CalledFunctions
    <3> QED  BY <1>1, <3>1, <3>2, BoundCalls DEF MessageBegins
  <2>2. m # "none"
    BY DEF Messages
  <2> QED
    BY <1>1, <2>1, <2>2 DEF MessageBegins, Free, TypeOK, LibraryHeld, BoundInv,
       NoNullCall, ModeInv, CallInv, HoldInv, Ended, startVars, clientVars,
       queueVars, sceneVars
<1>2. CASE MessageEnds
  <2>1. fault' # "null"
    BY <1>2 DEF MessageEnds, ModuleHandle, BoundInv, NoNullCall
  <2> QED
    BY <1>2, <2>1 DEF MessageEnds, TypeOK, LibraryHeld, BoundInv, NoNullCall,
       ModeInv, CallInv, HoldInv, Ended, startVars, clientVars, queueVars
<1> QED  BY <1>1, <1>2

(* Steps of the callbacks and of the communication thread. *)
LEMMA CallbackSteps ==
  ASSUME LifeInv, fault = "none",
         \/ InitCall \/ InitReturns \/ ConnectCall \/ ConnectReturns
         \/ DisconnectCall \/ Telemetry \/ ThreadEnds
  PROVE  LifeInv'
<1> USE DEF LifeInv
<1>1. ASSUME plugin = "running", Calling(CalledByScript)
      PROVE  fault' = fault
  <2>1. CalledByScript \in SUBSET (Functions \ {"simAddLog"})
    BY CalledFunctions
  <2> QED  BY <1>1, <2>1, BoundCalls DEF BoundInv
<1>2. CASE InitCall
  <2>1. fault' = fault
    BY <1>1, <1>2 DEF InitCall, Free
  <2> QED
    BY <1>2, <2>1 DEF InitCall, Free, TypeOK, LibraryHeld, BoundInv,
       NoNullCall, ModeInv, CallInv, HoldInv, Ended, startVars, messageVars,
       sceneVars
<1>3. CASE InitReturns
  <2>1. plugin = "running"
    BY <1>3 DEF InitReturns, CallInv
  <2>2. fault' = fault
    BY <1>1, <1>3, <2>1 DEF InitReturns
  <2>3. jhandles' = << >> /\ << >> \in Seq(JointHandles)
    BY <1>3 DEF InitReturns
  <2> QED
    BY <1>3, <2>1, <2>2, <2>3 DEF InitReturns, TypeOK, LibraryHeld, BoundInv,
       NoNullCall, ModeInv, CallInv, HoldInv, Ended, startVars, messageVars,
       sceneVars
<1>4. CASE ConnectCall
  <2>1. fault' = fault
    BY <1>1, <1>4 DEF ConnectCall, Free
  <2> QED
    BY <1>4, <2>1 DEF ConnectCall, Free, TypeOK, LibraryHeld, BoundInv,
       NoNullCall, ModeInv, CallInv, HoldInv, Ended, startVars, messageVars,
       queueVars, sceneVars
<1>5. CASE ConnectReturns
  <2>1. plugin = "running" /\ plugin_loaded
    BY <1>5 DEF ConnectReturns, CallInv, HoldInv
  <2>2. /\ UNCHANGED <<library, bound, plugin, message, errorMode, holders,
                       errorModeSaved, wanted, scene, plugin_loaded>>
        /\ callback' = "none"
    BY <1>5 DEF ConnectReturns, startVars, messageVars, sceneVars, queueVars
  <2>3. jhandles' \in Seq(JointHandles)
    BY <1>5, RobotHandlesType DEF ConnectReturns, TypeOK
  <2>4. fault' # "null"
    BY <1>1, <1>5, <2>1 DEF ConnectReturns, BoundInv, NoNullCall
  <2> QED
    BY <2>1, <2>2, <2>3, <2>4 DEF TypeOK, LibraryHeld, BoundInv, NoNullCall,
       ModeInv, CallInv, HoldInv, Ended
<1>6. CASE DisconnectCall
  <2>1. fault' = fault
    BY <1>1, <1>6 DEF DisconnectCall, Free
  <2> QED
    BY <1>6, <2>1 DEF DisconnectCall, Free, TypeOK, LibraryHeld, BoundInv,
       NoNullCall, ModeInv, CallInv, HoldInv, Ended, startVars, messageVars,
       queueVars, sceneVars
<1>7. CASE Telemetry
  BY <1>7 DEF Telemetry, TypeOK, LibraryHeld, BoundInv, NoNullCall, ModeInv,
     CallInv, HoldInv, Ended, startVars, messageVars, sceneVars
<1>8. CASE ThreadEnds
  BY <1>8 DEF ThreadEnds, TypeOK, LibraryHeld, BoundInv, NoNullCall, ModeInv,
     CallInv, HoldInv, Ended, startVars, messageVars, queueVars, sceneVars
<1> QED  BY <1>2, <1>3, <1>4, <1>5, <1>6, <1>7, <1>8

(* The end of the plugin, and what CoppeliaSim and its user do. *)
LEMMA OtherSteps ==
  ASSUME LifeInv, fault = "none",
         \/ SimEnd \/ DestroyRobot \/ DestroyClient \/ Unload
         \/ NewScene \/ SetMode
  PROVE  LifeInv'
<1> USE DEF LifeInv
<1>1. CASE SimEnd
  BY <1>1 DEF SimEnd, Free, clientVars, queueVars, TypeOK, LibraryHeld,
     BoundInv, NoNullCall, ModeInv, CallInv, HoldInv, Ended, messageVars,
     sceneVars
<1>2. CASE DestroyRobot
  BY <1>2 DEF DestroyRobot, TypeOK, LibraryHeld, BoundInv, NoNullCall, ModeInv,
     CallInv, HoldInv, Ended, startVars, messageVars, sceneVars
<1>3. CASE DestroyClient
  BY <1>3 DEF DestroyClient, TypeOK, LibraryHeld, BoundInv, NoNullCall, ModeInv,
     CallInv, HoldInv, Ended, startVars, messageVars, sceneVars
<1>4. CASE Unload
  BY <1>4 DEF Unload, clientVars, queueVars, TypeOK, LibraryHeld, BoundInv,
     NoNullCall, ModeInv, CallInv, HoldInv, Ended, startVars, messageVars,
     sceneVars
<1>5. CASE NewScene
  <2>1. scene' \in [number : Nat, joints : 0 .. Dofs]
    BY <1>5, LifeAssumption DEF NewScene, TypeOK
  <2> QED
    BY <1>5, <2>1 DEF NewScene, TypeOK, LibraryHeld, BoundInv, NoNullCall,
       ModeInv, CallInv, HoldInv, Ended, startVars, messageVars, clientVars,
       queueVars
<1>6. CASE SetMode
  BY <1>6 DEF SetMode, clientVars, queueVars, TypeOK, LibraryHeld, BoundInv,
     NoNullCall, ModeInv, CallInv, HoldInv, Ended, startVars, messageVars,
     sceneVars
<1> QED  BY <1>1, <1>2, <1>3, <1>4, <1>5, <1>6

(* Where robots are whole or missing, every step keeps the order of the    *)
(* handles, and with it the angles.                                        *)
LEMMA AngleSteps ==
  ASSUME Robots \subseteq {0, Dofs}, TypeOK, AngleInv, [Next]_vars
  PROVE  AngleInv'
<1> USE DEF AngleInv
<1>1. CASE UNCHANGED <<jhandles, scene, pose, fault>>
  BY <1>1 DEF HandleInv, OwnAngle
<1>2. ASSUME fault = "none", UNCHANGED <<jhandles, scene, pose>>
      PROVE  AngleInv'
  BY <1>2 DEF HandleInv, OwnAngle
<1>3. CASE fault = "none" /\ MessageEnds
  <2>1. UNCHANGED <<jhandles, scene>>
    BY <1>3 DEF MessageEnds, clientVars
  <2>2. HandleInv'
    BY <1>3, <2>1 DEF HandleInv
  <2>3. OwnAngle'
    BY <1>3, OwnComponent DEF MessageEnds
  <2> QED  BY <2>1, <2>2, <2>3
<1>4. CASE fault = "none" /\ InitReturns
  BY <1>4 DEF InitReturns, HandleInv, OwnAngle, sceneVars
<1>5. CASE fault = "none" /\ ConnectReturns
  <2>1. UNCHANGED <<scene, pose>>
    BY <1>5 DEF ConnectReturns, sceneVars
  <2>2. jhandles' = RobotHandles \/ jhandles' = jhandles
    BY <1>5 DEF ConnectReturns
  <2>3. HandleInv'
    BY <1>5, <2>2, WholeRobotFirst DEF HandleInv
  <2> QED  BY <2>1, <2>3 DEF OwnAngle
<1>6. CASE fault = "none" /\ NewScene
  <2>1. scene'.joints \in {0, Dofs}
    BY <1>6 DEF NewScene
  <2>2. jhandles' = jhandles /\ fault' = fault
    BY <1>6 DEF NewScene, clientVars
  <2>3. \A j \in Joints : pose'[j] = 0
    BY <1>6 DEF NewScene
  <2> QED  BY <2>1, <2>2, <2>3 DEF HandleInv, OwnAngle
<1>7. CASE UNCHANGED vars
  BY <1>1, <1>7 DEF vars, clientVars, sceneVars
<1>8. CASE /\ fault = "none"
           /\ \/ LoadSimLibrary \/ GetSimProcAddresses \/ CheckVersion
              \/ Register \/ InitCall \/ ConnectCall \/ DisconnectCall
              \/ \E m \in Messages : MessageBegins(m)
              \/ Telemetry \/ ThreadEnds \/ SimEnd \/ DestroyRobot
              \/ DestroyClient \/ Unload \/ SetMode
  <2>1. UNCHANGED <<jhandles, scene, pose>>
    BY <1>8 DEF LoadSimLibrary, GetSimProcAddresses, CheckVersion, Register,
       InitCall, ConnectCall, DisconnectCall, MessageBegins, Telemetry,
       ThreadEnds, SimEnd, DestroyRobot, DestroyClient, Unload, SetMode,
       clientVars, sceneVars
  <2> QED  BY <1>2, <1>8, <2>1
<1> QED  BY <1>3, <1>4, <1>5, <1>6, <1>7, <1>8 DEF Next

---------------------------------------------------------------------------
(* The theorems *)

(* LifeInv holds throughout the plugin's life. *)
THEOREM Life == Spec => []LifeInv
<1>1. Init => LifeInv
  BY LifeInit
<1>2. LifeInv /\ [Next]_vars => LifeInv'
  <2> SUFFICES ASSUME LifeInv, Next PROVE LifeInv'
    BY LifeStutter
  <2> QED
    BY StartSteps, MessageSteps, CallbackSteps, OtherSteps DEF Next
<1> QED  BY <1>1, <1>2, PTL DEF Spec

(* On every way out of simStart and in simEnd the library is given back    *)
(* once, and the plugin runs with the library open.                        *)
THEOREM Held == Spec => []LibraryHeld
<1>1. LifeInv => LibraryHeld
  BY DEF LifeInv
<1> QED  BY <1>1, Life, PTL

(* Whatever functions the library has, none that is missing is called.     *)
THEOREM Bound == Spec => []NoNullCall
<1>1. LifeInv => NoNullCall
  BY DEF LifeInv, BoundInv
<1> QED  BY <1>1, Life, PTL

(* simMessage leaves the error report mode as it found it.                 *)
THEOREM Kept == Spec => []ErrorModeKept
<1>1. LifeInv => ErrorModeKept
  BY DEF LifeInv, ModeInv, ErrorModeKept
<1> QED  BY <1>1, Life, PTL

(* Through any number of simRTDE.init and simRTDE.connect the queues are   *)
(* there for the thread, up to simEnd.                                     *)
THEOREM QueuesKept == Spec => []QueuesHeld
<1>1. LifeInv => QueuesHeld
  BY DEF LifeInv, HoldInv, QueuesHeld, Ended
<1> QED  BY <1>1, Life, PTL

(* Where each scene's robot is whole or missing, a joint shows its own     *)
(* component of the joint vector or none, for any number of joints,        *)
(* scenes, inits and connects.                                             *)
THEOREM Angles ==
  ASSUME Robots \subseteq {0, Dofs}
  PROVE  Spec => []OwnAngle
<1>1. Init => AngleInv
  BY DEF Init, AngleInv, HandleInv, OwnAngle
<1>2. LifeInv /\ AngleInv /\ [Next]_vars => AngleInv'
  BY AngleSteps DEF LifeInv
<1>3. AngleInv => OwnAngle
  BY DEF AngleInv
<1> QED  BY <1>1, <1>2, <1>3, Life, PTL DEF Spec
=============================================================================
