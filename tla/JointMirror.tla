--------------------------- MODULE JointMirror ---------------------------
(***************************************************************************)
(* What the plugin promises a scene: the simulated robot is a lagging      *)
(* mirror of the real one.  Joint vectors are numbered in the order the    *)
(* robot takes them; the scene shows one of them at a time, may skip some  *)
(* and may lag behind, but never goes back and never gets ahead.           *)
(***************************************************************************)
EXTENDS Naturals

VARIABLES
  real,   \* the newest joint vector received from the robot
  shown   \* the joint vector applied to the scene

mirrorVars == <<real, shown>>

Init == real = 0 /\ shown = 0

Move ==
  /\ real' = real + 1
  /\ UNCHANGED shown

Show ==
  /\ shown' \in shown .. real
  /\ UNCHANGED real

Next == Move \/ Show

Spec == Init /\ [][Next]_mirrorVars

===========================================================================
