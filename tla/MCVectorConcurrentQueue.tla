---------------------- MODULE MCVectorConcurrentQueue ----------------------
(***************************************************************************)
(* The vector queue as the plugin uses current_joint_positions: the        *)
(* CoppeliaSim thread looks at the back, two communication threads push    *)
(* and trim, one of them also looks at the sizes; and clear(), push_front  *)
(* and at(), which nobody calls yet, on the side.                          *)
(***************************************************************************)
EXTENDS VectorConcurrentQueue, TLC

CONSTANTS sim, worker, other

Call(op, arg) == [op |-> op, arg |-> arg]

MCThreads == {sim, worker, other}
MCCalls ==
  sim :> {Call("empty", NoArg), Call("back", NoArg), Call("at", 1)}
    @@ worker :> {Call("push_back", 1), Call("pop_front", NoArg),
                  Call("size", NoArg), Call("clear", NoArg)}
    @@ other :> {Call("push_front", 2), Call("pop_back", NoArg)}

===========================================================================
