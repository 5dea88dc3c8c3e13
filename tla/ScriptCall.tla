----------------------------- MODULE ScriptCall -----------------------------
(***************************************************************************)
(* One call of a plugin function by a Lua script: the arguments wait on    *)
(* the script stack, CStackArray::buildFromStack takes them, the callback  *)
(* looks at them and does its work, and CStackArray::buildOntoStack leaves *)
(* the results.  Callbacks are those of simExtRTDE.cpp, and two that use   *)
(* the library as any plugin may:                                          *)
(*   "echo"   returns its arguments, taken apart with is... and get... and *)
(*            put together with push... and set...;                        *)
(*   "build"  fills its result with any calls of CStackArray's methods.    *)
(***************************************************************************)
EXTENDS StackObjects

CONSTANTS
  Given,      \* argument lists a script may pass
  Scalars,    \* objects the callback "build" pushes
  MaxBuild    \* bound: calls "build" makes

RTDECallbacks == {"init", "connect", "disconnect", "getIO", "setIO"}

(* A value on the stack, as far as its type goes. *)
ScriptValue(v) ==
  /\ v.kind \in {"null", "bool", "number", "string", "table", "circular"}
  /\ v.kind = "bool" => v.bool \in BOOLEAN
  /\ v.kind = "number" => v.num \in Int
  /\ v.kind = "table" => v.pairs \in Seq(Range(v.pairs))

ASSUME CallAssumption ==
  /\ MaxBuild \in Nat
  /\ \A args \in Given :
       /\ args \in Seq(Range(args))
       /\ \A v \in Range(args) : ScriptValue(v)

VARIABLES
  given,          \* the arguments, as the script pushed them
  callback,       \* the function called
  plugin_loaded,
  stack,
  phase,          \* "test", "read", "body", "write", "done"
  turn,           \* passes of the loop under way
  allNumbers,
  inArguments,
  outArguments,
  pushed,         \* the objects the callback pushed and was told it could
  reached         \* what the callback asked of RTDEclient

vars == <<given, callback, plugin_loaded, stack, phase, turn, allNumbers,
          inArguments, outArguments, pushed, reached>>

NotReached == [call |-> "none", io |-> 0, signal |-> FALSE]

Init ==
  /\ given \in Given
  /\ callback \in RTDECallbacks \cup {"echo", "build"}
  /\ plugin_loaded \in BOOLEAN
  /\ stack = given
  /\ phase = "test"
  /\ turn = 0
  /\ allNumbers = TRUE
  /\ inArguments = CStackArray
  /\ outArguments = CStackArray
  /\ pushed = << >>
  /\ reached = NotReached

---------------------------------------------------------------------------
(* CStackArray::buildFromStack *)

(* The first loop turns the whole stack round and looks at every item. *)
TestItem ==
  /\ phase = "test"
  /\ turn < Len(stack)
  /\ turn' = turn + 1
  /\ stack' = MoveStackItemToTop(stack, 0)
  /\ allNumbers' = (allNumbers /\ Last(stack').kind = "number")
  /\ UNCHANGED <<given, callback, plugin_loaded, phase, inArguments,
                 outArguments, pushed, reached>>

TestEnds ==
  /\ phase = "test"
  /\ turn = Len(stack)
  /\ phase' = "read"
  /\ turn' = 0
  /\ UNCHANGED <<given, callback, plugin_loaded, stack, allNumbers,
                 inArguments, outArguments, pushed, reached>>

(* Faulty: each argument decides for itself how it is stored. *)
TakeEach(arr, s) ==
  IF Last(s).kind = "number"
  THEN [obj |-> [arr EXCEPT !.doubles = Append(@, Last(s).num)],
        stack |-> PopStackItem(s, 1)]
  ELSE AppendTop(arr, s, BuildItemFromTop(s))

(* Doubles are stored and popped; anything else becomes an object. *)
TakeItem(arr, s) ==
  IF allNumbers
  THEN [obj |-> [arr EXCEPT !.doubles = Append(@, Last(s).num)],
        stack |-> PopStackItem(s, 1)]
  ELSE AppendTop(arr, s, BuildItemFromTop(s))

ReadItem ==
  /\ phase = "read"
  /\ turn < Len(given)
  /\ turn' = turn + 1
  /\ LET taken == TakeItem(inArguments, MoveStackItemToTop(stack, 0))
     IN  stack' = taken.stack /\ inArguments' = taken.obj
  /\ UNCHANGED <<given, callback, plugin_loaded, phase, allNumbers,
                 outArguments, pushed, reached>>

ReadEnds ==
  /\ phase = "read"
  /\ turn = Len(given)
  /\ phase' = "body"
  /\ turn' = 0
  /\ UNCHANGED <<given, callback, plugin_loaded, stack, allNumbers,
                 inArguments, outArguments, pushed, reached>>

---------------------------------------------------------------------------
(* The callbacks of simExtRTDE.cpp *)

(* Faulty: the type of the second argument is not looked at. *)
AcceptsAny(call, args) ==
  CASE call \in {"init", "connect", "disconnect"} -> GetSize(args) = 0
    [] call = "getIO" -> GetSize(args) = 1 /\ HasType(args, 0, "number")
    [] call = "setIO" -> GetSize(args) = 2 /\ HasType(args, 0, "number")

Accepts(call, args) ==
  CASE call \in {"init", "connect", "disconnect"} -> GetSize(args) = 0
    [] call = "getIO" -> GetSize(args) = 1 /\ HasType(args, 0, "number")
    [] call = "setIO" -> /\ GetSize(args) = 2
                         /\ HasType(args, 0, "number")
                         /\ HasType(args, 1, "bool")

(* A callback that does not accept its arguments, or that comes before     *)
(* init, returns without touching the stack again.                         *)
Refuse ==
  /\ phase = "body"
  /\ callback \in RTDECallbacks
  /\ ~Accepts(callback, inArguments) \/ ~(plugin_loaded \/ callback = "init")
  /\ phase' = "done"
  /\ UNCHANGED <<given, callback, plugin_loaded, stack, turn, allNumbers,
                 inArguments, outArguments, pushed, reached>>

(* connect, disconnect and getIO return one bool, the client's answer. *)
Perform ==
  /\ phase = "body"
  /\ callback \in RTDECallbacks
  /\ Accepts(callback, inArguments)
  /\ plugin_loaded \/ callback = "init"
  /\ plugin_loaded' = TRUE
  /\ reached' = [call |-> callback, io |-> GetInt(inArguments, 0),
                 signal |-> GetBool(inArguments, 1)]
  /\ IF callback \in {"init", "setIO"}
     THEN phase' = "done" /\ UNCHANGED <<outArguments, pushed>>
     ELSE \E success \in BOOLEAN :
            /\ phase' = "write"
            /\ outArguments' = Push(outArguments, CStackBool(success)).arr
            /\ pushed' = <<CStackBool(success)>>
  /\ UNCHANGED <<given, callback, stack, turn, allNumbers, inArguments>>

---------------------------------------------------------------------------
(* A callback that takes its arguments apart *)

(* An array keeps its numbers; any other is copied. *)
RebuiltArray(arr) ==
  IF IsNumberArray(arr) THEN SetNumbers(CStackArray, FillInts(arr).doubles).arr
  ELSE Copy(arr)

(* A map is asked for each key of the other map's keys. *)
RebuiltMap(map) ==
  LET Rebuilt(new, key) ==
        MapSet(new, key,
          IF MapContains(map, key, "array", 1, TRUE)
          THEN RebuiltArray(MapGet(map, key, "array", CStackArray))
          ELSE Copy(MapGet(map, key,
                 CHOOSE t \in {"null", "number", "bool", "string", "array",
                               "map"} : MapHasType(map, key, t), CStackNull)))
  IN  FoldLeft(Rebuilt, CStackMap, SetToSeq(DOMAIN map.items))

(* What "echo" pushes for the argument at index. *)
EchoOf(index) ==
  CASE HasType(inArguments, index, "number") ->
         CStackNumber(GetDouble(inArguments, index))
    [] HasType(inArguments, index, "bool") ->
         CStackBool(GetBool(inArguments, index))
    [] HasType(inArguments, index, "null") -> CStackNull
    [] HasType(inArguments, index, "string") ->
         GetObject(inArguments, index, "string", CStackString(<< >>))
    [] IsArrayAt(inArguments, index, 0) ->
         RebuiltArray(GetObject(inArguments, index, "array", CStackArray))
    [] HasType(inArguments, index, "map") ->
         RebuiltMap(GetObject(inArguments, index, "map", CStackMap))

(* One result more, if the array takes it. *)
PushResult(obj) ==
  LET push == Push(outArguments, obj)
  IN  /\ outArguments' = push.arr
      /\ pushed' = IF push.ok THEN Append(pushed, obj) ELSE pushed

Echo ==
  /\ phase = "body"
  /\ callback = "echo"
  /\ turn < GetSize(inArguments)
  /\ PushResult(EchoOf(turn))
  /\ turn' = turn + 1
  /\ UNCHANGED <<given, callback, plugin_loaded, stack, phase, allNumbers,
                 inArguments, reached>>

---------------------------------------------------------------------------
(* A callback that calls what it likes on its result *)

Build ==
  /\ phase = "body"
  /\ callback = "build"
  /\ turn < MaxBuild
  /\ turn' = turn + 1
  /\ \/ \E obj \in Scalars : PushResult(obj)
     \/ \E i \in 0 .. GetSize(inArguments) - 1, type \in {"array", "map"} :
          /\ HasType(inArguments, i, type)
          /\ PushResult(Copy(GetObject(inArguments, i, type, CStackNull)))
     \/ \E numbers \in {<< >>, <<3, 4>>} :
          LET set == SetNumbers(outArguments, numbers)
          IN  /\ outArguments' = set.arr
              /\ pushed' = IF set.ok
                           THEN [i \in DOMAIN numbers |->
                                   CStackNumber(numbers[i])]
                           ELSE pushed
     \/ outArguments' = FillInts(outArguments) /\ UNCHANGED pushed
  /\ UNCHANGED <<given, callback, plugin_loaded, stack, phase, allNumbers,
                 inArguments, reached>>

BodyEnds ==
  /\ phase = "body"
  /\ \/ callback = "echo" /\ turn = GetSize(inArguments)
     \/ callback = "build"
  /\ phase' = "write"
  /\ UNCHANGED <<given, callback, plugin_loaded, stack, turn, allNumbers,
                 inArguments, outArguments, pushed, reached>>

---------------------------------------------------------------------------
(* CStackArray::buildOntoStack *)

Results(arr) ==
  IF arr.doubles # << >>
  THEN [i \in DOMAIN arr.doubles |-> Number(arr.doubles[i])]
  ELSE FoldLeft(BuildItemOnto, PopStackItem(stack, 0), arr.objs)

WriteResults ==
  /\ phase = "write"
  /\ stack' = Results(outArguments)
  /\ phase' = "done"
  /\ UNCHANGED <<given, callback, plugin_loaded, turn, allNumbers,
                 inArguments, outArguments, pushed, reached>>

(* The call has returned; it can end nowhere else. *)
Returned == phase = "done" /\ UNCHANGED vars

Next ==
  \/ TestItem \/ TestEnds \/ ReadItem \/ ReadEnds
  \/ Refuse \/ Perform \/ Echo \/ Build \/ BodyEnds
  \/ WriteResults \/ Returned

Spec == Init /\ [][Next]_vars

---------------------------------------------------------------------------
(* Properties *)

(* No sequence of calls makes an array hold objects beside numbers, and    *)
(* the numbers handed out as ints are the array's own.                     *)
ArraysUnmixed ==
  /\ outArguments.objs = << >> \/ TakesObjects(outArguments)
  /\ \/ outArguments.ints = << >>
     \/ outArguments.ints = [i \in DOMAIN outArguments.doubles |->
                               Truncated(outArguments.doubles[i])]

WellFormed(call, s) ==
  CASE call \in {"init", "connect", "disconnect"} -> s = << >>
    [] call = "getIO" -> Len(s) = 1 /\ s[1].kind = "number"
    [] call = "setIO" -> /\ Len(s) = 2
                         /\ s[1].kind = "number"
                         /\ s[2].kind = "bool"

(* RTDEclient is asked exactly when the script's call has the arguments    *)
(* the function is registered with and the plugin is initialised, and then *)
(* for what the script wrote, numbers without their fraction.              *)
Dispatched ==
  phase = "done" /\ callback \in RTDECallbacks =>
    /\ (reached.call = callback) <=>
         WellFormed(callback, given) /\ plugin_loaded
    /\ callback \in {"getIO", "setIO"} /\ reached # NotReached =>
         reached.io = Truncated(given[1].num)
    /\ callback = "setIO" /\ reached # NotReached =>
         reached.signal = given[2].bool
=============================================================================
