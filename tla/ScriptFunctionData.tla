------------------------- MODULE ScriptFunctionData -------------------------
(***************************************************************************)
(* CScriptFunctionData: a function call whose arguments and results travel *)
(* over a script stack.  Either side may be a plugin that uses the class:  *)
(* the caller writes its arguments (writeDataToStack_scriptFunctionCall),  *)
(* the function called reads them (readDataFromStack) and writes results   *)
(* (writeDataToStack), which the caller reads                              *)
(* (readDataFromStack_scriptFunctionCall).  The two halves, "in" and       *)
(* "out", share _writeData and _readData.                                  *)
(***************************************************************************)
EXTENDS FunctionDataItem

CONSTANT Calls   \* the calls a behaviour may make: see Init

VARIABLES
  call,      \* per half: the items sent, those expected, how many required
  stack,
  half,      \* "in", then "out"
  phase,     \* "clear", "write", "count", "read", "returned"
  turn,      \* passes of the loop under way
  argCnt,    \* size of the stack when _readData began
  data,      \* per half: the reader's _inData, _outData
  verdict    \* per half: "open", "refused", "delivered"

vars == <<call, stack, half, phase, turn, argCnt, data, verdict>>

Init ==
  /\ call \in Calls
  /\ stack = << >>
  /\ half = "in"
  /\ phase = "clear"
  /\ turn = 0
  /\ argCnt = 0
  /\ data = [h \in Halves |-> << >>]
  /\ verdict = [h \in Halves |-> "open"]

---------------------------------------------------------------------------
(* _writeData *)

(* What the writer pushes for one item; it pushes a table of numbers at    *)
(* once, any other entry by entry.                                         *)
PushItem(s, item) ==
  LET pushed[i \in 0 .. Len(item.values)] ==
        IF i = 0 THEN Append(s, Table(<< >>))
        ELSE InsertDataIntoStackTable(
               pushed[i - 1] \o <<Number(2 * i), item.values[i]>>)
  IN  IF item.table THEN pushed[Len(item.values)]
      ELSE Append(s, item.values[1])

ClearStack(h) ==
  /\ half = h
  /\ phase = "clear"
  /\ stack' = PopStackItem(stack, 0)
  /\ phase' = "write" /\ turn' = 0
  /\ UNCHANGED <<call, half, argCnt, data, verdict>>

WriteItem(h) ==
  /\ half = h
  /\ phase = "write"
  /\ turn < Len(call[h].sent)
  /\ stack' = PushItem(stack, call[h].sent[turn + 1])
  /\ turn' = turn + 1
  /\ UNCHANGED <<call, half, phase, argCnt, data, verdict>>

WriteEnds(h) ==
  /\ half = h
  /\ phase = "write"
  /\ turn = Len(call[h].sent)
  /\ phase' = "count"
  /\ UNCHANGED <<call, stack, half, turn, argCnt, data, verdict>>

---------------------------------------------------------------------------
(* _readData *)

InfoType(type) ==
  CASE type = "nil" -> 1
    [] type \in {"int", "float", "double"} -> 2
    [] type = "bool" -> 3
    [] type \in {"string", "buffer"} -> 4

KindOf(type) == TypeOfInfo[InfoType(type)]

(* A value as the getter for the type returns it. *)
Got(v, type) ==
  CASE type = "int" -> Number(2 * Truncated(v.num))
    [] type = "float" -> Number(Rounded(v.num))
    [] type = "string" -> String(CString(v.str))
    [] OTHER -> v

(* Faulty: each value is put behind those read. *)
ReadReversed(s, type) ==
  LET Take(read, i) == [values |-> Append(read.values, Got(Last(read.stack), type)),
                        stack |-> PopStackItem(read.stack, 2)]
      all == FoldLeft(Take, [values |-> << >>, stack |-> UnfoldStackTable(s)],
                      [i \in 1 .. TableSize(s) |-> i])
  IN  [item |-> TableItem(type, all.values),
       stack |-> Append(all.stack, Table(<< >>))]

(* A table of bools or strings is unfolded, read from the top down, each   *)
(* value put before those read, and an empty table takes its place.        *)
ReadUnfolded(s, type) ==
  LET n == TableSize(s)
      read[i \in 0 .. n] ==
        IF i = 0 THEN [values |-> << >>, stack |-> UnfoldStackTable(s)]
        ELSE [values |-> <<Got(Last(read[i - 1].stack), type)>>
                           \o read[i - 1].values,
              stack |-> PopStackItem(read[i - 1].stack, 2)]
  IN  [item |-> TableItem(type, read[n].values),
       stack |-> Append(read[n].stack, Table(<< >>))]

ReadTable(s, type) ==
  IF type \in {"bool", "string"} THEN ReadUnfolded(s, type)
  ELSE [item |-> TableItem(type, [i \in DOMAIN Last(s).pairs |->
                                    Got(Last(s).pairs[i][2], type)]),
        stack |-> s]

TableFits(s, e) ==
  /\ AllOfType(s, InfoType(e.type))
  /\ TableSize(s) >= e.min \/ e.min = 0
  /\ e.type # "buffer"

ScalarFits(s, e) ==
  /\ Last(s).kind = KindOf(e.type)
  /\ e.type = "buffer" => Len(Last(s).str) >= e.min \/ e.min = 0

Refused == [outcome |-> "refused"]
Enough == [outcome |-> "enough"]
Read(item, s) == [outcome |-> "item", item |-> item, stack |-> s]

(* What becomes of the argument on top of the stack. *)
ReadArgument(s, e, have, required) ==
  CASE Last(s) = Nil /\ e.nilAllowed -> Read(NilItem, s)
    [] Last(s) = Nil /\ ~e.nilAllowed ->
         IF have < required THEN Refused ELSE Enough
    [] Last(s) # Nil /\ (TableSize(s) >= 0) # e.table -> Refused
    [] Last(s) # Nil /\ TableSize(s) >= 0 /\ e.table ->
         IF TableFits(s, e)
         THEN LET t == ReadTable(s, e.type) IN Read(t.item, t.stack)
         ELSE Refused
    [] OTHER ->
         IF ScalarFits(s, e) THEN Read(Item(e.type, Got(Last(s), e.type)), s)
         ELSE Refused

(* The reader returns: the stack is cleared, whatever happened. *)
Return(h, answer) ==
  /\ verdict' = [verdict EXCEPT ![h] = answer]
  /\ stack' = PopStackItem(stack, 0)
  /\ phase' = "returned"
  /\ UNCHANGED <<turn, argCnt>>

Count(h) ==
  /\ half = h
  /\ phase = "count"
  /\ data' = [data EXCEPT ![h] = << >>]
  /\ IF Len(stack) < call[h].required
     THEN Return(h, "refused")
     ELSE /\ argCnt' = Len(stack)
          /\ turn' = 0
          /\ phase' = "read"
          /\ UNCHANGED <<stack, verdict>>
  /\ UNCHANGED <<call, half>>

ReadNext(h) ==
  /\ half = h
  /\ phase = "read"
  /\ turn < argCnt /\ turn < Len(call[h].expected)
  /\ LET read == ReadArgument(MoveStackItemToTop(stack, 0),
                              call[h].expected[turn + 1],
                              Len(data[h]), call[h].required)
     IN  CASE read.outcome = "refused" ->
                Return(h, "refused") /\ UNCHANGED data
           [] read.outcome = "enough" ->
                Return(h, "delivered") /\ UNCHANGED data
           [] read.outcome = "item" ->
                /\ data' = [data EXCEPT ![h] = Append(@, read.item)]
                /\ stack' = PopStackItem(read.stack, 1)
                /\ turn' = turn + 1
                /\ UNCHANGED <<phase, argCnt, verdict>>
  /\ UNCHANGED <<call, half>>

ReadEnds(h) ==
  /\ half = h
  /\ phase = "read"
  /\ turn = argCnt \/ turn = Len(call[h].expected)
  /\ Return(h, "delivered")
  /\ UNCHANGED <<call, half, data>>

---------------------------------------------------------------------------
(* The call *)

WritesArguments == ClearStack("in") \/ WriteItem("in") \/ WriteEnds("in")
ReadsArguments == Count("in") \/ ReadNext("in") \/ ReadEnds("in")
WritesResults == ClearStack("out") \/ WriteItem("out") \/ WriteEnds("out")
ReadsResults == Count("out") \/ ReadNext("out") \/ ReadEnds("out")

(* The function goes on to its results only with arguments it accepted. *)
Execute ==
  /\ half = "in" /\ phase = "returned" /\ verdict["in"] = "delivered"
  /\ half' = "out" /\ phase' = "clear"
  /\ UNCHANGED <<call, stack, turn, argCnt, data, verdict>>

Over ==
  /\ phase = "returned"
  /\ half = "out" \/ verdict["in"] = "refused"
  /\ UNCHANGED vars

Next ==
  \/ WritesArguments \/ ReadsArguments \/ Execute
  \/ WritesResults \/ ReadsResults \/ Over

Spec == Init /\ [][Next]_vars

=============================================================================
