---------------------------- MODULE FunctionData ----------------------------
(***************************************************************************)
(* A function call by either transport: over a script stack                *)
(* (CScriptFunctionData) or over the buffers of SLuaCallBack               *)
(* (CLuaFunctionData).  Both keep the promises of FunctionCall, on the way *)
(* in and on the way out.                                                  *)
(***************************************************************************)
EXTENDS FunctionDataItem

CONSTANTS StackCalls, BufferCalls   \* the calls made over each transport

(* The reader of a SLuaCallBack takes a string to end at the first 0.  One *)
(* with a 0 inside would be cut there, and those behind it misread: none   *)
(* is sent that way.                                                       *)
EndsOnce(item) ==
  item.type = "string" =>
    \A i \in DOMAIN item.values : CString(item.values[i].str) = item.values[i].str

ASSUME CallsAssumption ==
  /\ StackCalls \subseteq FunctionCalls
  /\ BufferCalls \subseteq FunctionCalls
  /\ \A c \in BufferCalls : \A h \in Halves :
       \A i \in DOMAIN c[h].sent : EndsOnce(c[h].sent[i])

VARIABLES
  transport,   \* "stack" or "buffers", fixed
  call, half, phase, turn, data, verdict,
  stack, argCnt,          \* of ScriptFunctionData
  counts, p, cursor       \* of LuaFunctionData

scriptVars == <<stack, argCnt>>
luaVars == <<counts, p, cursor>>

Script == INSTANCE ScriptFunctionData WITH Calls <- StackCalls
Lua == INSTANCE LuaFunctionData WITH Calls <- BufferCalls

Init ==
  \/ /\ transport = "stack" /\ Script!Init
     /\ counts = Lua!AllZero /\ cursor = Lua!AllZero
     /\ p = [h \in Halves |-> Lua!NoBlock]
  \/ /\ transport = "buffers" /\ Lua!Init
     /\ stack = << >> /\ argCnt = 0

Next ==
  /\ \/ transport = "stack" /\ Script!Next /\ UNCHANGED luaVars
     \/ transport = "buffers" /\ Lua!Next /\ UNCHANGED scriptVars
  /\ UNCHANGED transport

vars == <<transport, Script!vars, luaVars>>

Spec == Init /\ [][Next]_vars

---------------------------------------------------------------------------
(* Properties *)

Delivered(h) == IF verdict[h] = "delivered" THEN data[h] ELSE << >>

ArgumentHalf == INSTANCE FunctionCall WITH
  converts <- (transport = "stack"), c <- call["in"], got <- Delivered("in"),
  verdict <- verdict["in"]

ResultHalf == INSTANCE FunctionCall WITH
  converts <- (transport = "stack"), c <- call["out"], got <- Delivered("out"),
  verdict <- verdict["out"]

(* The function gets the caller's arguments, each with its value and in    *)
(* its place, as far as it expects them and up to a nil it does not allow, *)
(* or it refuses, and then for a reason: though the stack is turned while  *)
(* it is read and tables are taken apart on it, and though items of many   *)
(* types share six buffers and their cursors.                              *)
ArgumentsArrive == ArgumentHalf!Spec

(* The same of the results on their way back. *)
ResultsArrive == ResultHalf!Spec

(* In SLuaCallBack, the loop that fills the buffers stays within the room  *)
(* the loop that counts asked for, and the reader's cursors within what    *)
(* was filled.                                                             *)
BuffersExact == transport = "buffers" => Lua!BuffersExact
=============================================================================
