-------------------------- MODULE LuaFunctionData --------------------------
(***************************************************************************)
(* CLuaFunctionData: a function call whose arguments and results travel in *)
(* a SLuaCallBack, one buffer per type and one array that gives the type   *)
(* and size of every item.  The caller writes its arguments                *)
(* (writeDataToLua_luaFunctionCall), the function called reads them        *)
(* (readDataFromLua) and writes results (writeDataToLua), which the caller *)
(* reads (readDataFromLua_luaFunctionCall) before it releases the buffers. *)
(* CoppeliaSim carries the buffers from one side to the other.             *)
(*                                                                         *)
(* Both halves have the same code, for the input and for the output        *)
(* members of SLuaCallBack.                                                *)
(***************************************************************************)
EXTENDS FunctionDataItem

CONSTANT Calls   \* the calls a behaviour may make: see Init

VARIABLES
  call,      \* per half: the items sent, those expected, how many required
  half,      \* "in", then "out"
  phase,     \* "count", "fill", "read", "returned", "released"
  turn,      \* passes of the loop under way
  counts,    \* cells the counting loop found for each buffer
  p,         \* SLuaCallBack, per half: the type-and-size array and buffers
  cursor,    \* the reader's place in each buffer
  data,      \* per half: the reader's _inData, _outData
  verdict    \* per half: "open", "refused", "delivered"

vars == <<call, half, phase, turn, counts, p, cursor, data, verdict>>

Buffers == {"bool", "int", "float", "double", "char", "charBuff"}
AllZero == [b \in Buffers |-> 0]
NoBlock == [shape |-> << >>, buf |-> [b \in Buffers |-> << >>]]

BufferFor(type) ==
  CASE type = "string" -> "char" [] type = "buffer" -> "charBuff"
    [] OTHER -> type

(* The types of the arguments without the flag that allows nil: what the   *)
(* function is registered with.                                            *)
Registered(expected) ==
  [i \in DOMAIN expected |-> <<expected[i].type, expected[i].table>>]

Init ==
  /\ call \in Calls
  /\ half = "in"
  /\ phase = "count"
  /\ turn = 0
  /\ counts = AllZero
  /\ p = [h \in Halves |-> NoBlock]
  /\ cursor = AllZero
  /\ data = [h \in Halves |-> << >>]
  /\ verdict = [h \in Halves |-> "open"]

---------------------------------------------------------------------------
(* Writing: one loop counts, the next one fills the buffers made for the   *)
(* counts.                                                                 *)

StringsLength(item, end) ==
  LET length[i \in 0 .. Len(item.values)] ==
        IF i = 0 THEN 0 ELSE length[i - 1] + Len(item.values[i].str) + end
  IN  length[Len(item.values)]

(* Faulty: no room for the character that ends a string. *)
CountsNoEnd(item) ==
  CASE item.type = "nil" -> 0
    [] item.type = "string" -> StringsLength(item, 0)
    [] item.type = "buffer" -> StringsLength(item, 0)
    [] OTHER -> Len(item.values)

CellCount(item) ==
  CASE item.type = "nil" -> 0
    [] item.type = "string" -> StringsLength(item, 1)
    [] item.type = "buffer" -> StringsLength(item, 0)
    [] OTHER -> Len(item.values)

Cells(item) ==
  CASE item.type = "nil" -> << >>
    [] item.type = "string" ->
         FlattenSeq([i \in DOMAIN item.values |->
                       item.values[i].str \o <<NUL>>])
    [] item.type = "buffer" -> item.values[1].str
    [] OTHER -> item.values

ShapeOf(item) ==
  [type |-> item.type, table |-> item.table,
   size |-> CASE item.table -> Len(item.values)
              [] item.type = "buffer" -> Len(item.values[1].str)
              [] OTHER -> 0]

CountItem(h) ==
  /\ half = h /\ phase = "count"
  /\ turn < Len(call[h].sent)
  /\ LET item == call[h].sent[turn + 1]
     IN  /\ p' = [p EXCEPT ![h].shape = Append(@, ShapeOf(item))]
         /\ counts' = [b \in Buffers |->
              IF b = BufferFor(item.type) THEN counts[b] + CellCount(item)
              ELSE counts[b]]
  /\ turn' = turn + 1
  /\ UNCHANGED <<call, half, phase, cursor, data, verdict>>

CreateBuffers(h) ==
  /\ half = h /\ phase = "count"
  /\ turn = Len(call[h].sent)
  /\ phase' = "fill" /\ turn' = 0
  /\ UNCHANGED <<call, half, counts, p, cursor, data, verdict>>

FillItem(h) ==
  /\ half = h /\ phase = "fill"
  /\ turn < Len(call[h].sent)
  /\ LET item == call[h].sent[turn + 1]
     IN  p' = IF item.type = "nil" THEN p
              ELSE [p EXCEPT ![h].buf[BufferFor(item.type)] =
                               @ \o Cells(item)]
  /\ turn' = turn + 1
  /\ UNCHANGED <<call, half, phase, counts, cursor, data, verdict>>

FillEnds(h) ==
  /\ half = h /\ phase = "fill"
  /\ turn = Len(call[h].sent)
  /\ phase' = "read" /\ turn' = 0
  /\ cursor' = AllZero
  /\ data' = [data EXCEPT ![h] = << >>]
  /\ UNCHANGED <<call, half, counts, p, verdict>>

---------------------------------------------------------------------------
(* Reading *)

(* What a buffer holds from the cursor on. *)
From(h, b) == SubSeq(p[h].buf[b], cursor[b] + 1, Len(p[h].buf[b]))

StringsSkipping(cells, n, end) ==
  LET Skip(read) ==
        LET str == CString(read.left)
        IN  [values |-> Append(read.values, String(str)),
             left |-> SubSeq(read.left, Len(str) + end + 1, Len(read.left))]
      read[i \in 0 .. n] ==
        IF i = 0 THEN [values |-> << >>, left |-> cells]
        ELSE Skip(read[i - 1])
  IN  read[n].values

(* Faulty: the cursor stops at the end of a string, not behind it. *)
StringsUnended(cells, n) == StringsSkipping(cells, n, 0)

(* The first n strings of a buffer. *)
StringsAt(cells, n) == StringsSkipping(cells, n, 1)

(* The values of the item with this shape at the cursors. *)
ReadValues(h, shape) ==
  LET n == IF shape.table THEN shape.size ELSE 1
  IN  CASE shape.type = "nil" -> [i \in 1 .. n |-> Nil]
        [] shape.type = "string" -> StringsAt(From(h, "char"), n)
        [] shape.type = "buffer" ->
             <<String(SubSeq(From(h, "charBuff"), 1, shape.size))>>
        [] OTHER -> SubSeq(From(h, shape.type), 1, n)

ReadItem(h, shape) ==
  [type |-> shape.type, table |-> shape.table, values |-> ReadValues(h, shape)]

TooSmall(shape, e) ==
  (shape.table \/ shape.type = "buffer") /\ shape.size < e.min /\ e.min # 0

Return(h, answer) ==
  /\ verdict' = [verdict EXCEPT ![h] = answer]
  /\ phase' = "returned"
  /\ UNCHANGED <<turn, cursor, data>>

TakeItem(h, item) ==
  /\ data' = [data EXCEPT ![h] = Append(@, item)]
  /\ cursor' = [b \in Buffers |->
                  IF b = BufferFor(item.type)
                  THEN cursor[b] + CellCount(item) ELSE cursor[b]]
  /\ turn' = turn + 1
  /\ UNCHANGED <<phase, verdict>>

TooFew(h) ==
  /\ half = h /\ phase = "read" /\ turn = 0
  /\ Len(p[h].shape) < call[h].required
  /\ Return(h, "refused")
  /\ UNCHANGED <<call, half, counts, p>>

ReadNext(h) ==
  /\ half = h /\ phase = "read"
  /\ Len(p[h].shape) >= call[h].required
  /\ turn < Len(p[h].shape) /\ turn < Len(call[h].expected)
  /\ LET shape == p[h].shape[turn + 1]
         e == call[h].expected[turn + 1]
     IN  IF shape.type = "nil" /\ ~shape.table
         THEN IF e.nilAllowed THEN TakeItem(h, NilItem)
              ELSE IF Len(data[h]) < call[h].required
              THEN Return(h, "refused")
              ELSE Return(h, "delivered")
         ELSE IF \/ <<shape.type, shape.table>>
                      # Registered(call[h].expected)[turn + 1]
                 \/ TooSmall(shape, e)
                 \/ shape.table /\ shape.type = "buffer"
              THEN Return(h, "refused")
              ELSE TakeItem(h, ReadItem(h, shape))
  /\ UNCHANGED <<call, half, counts, p>>

ReadEnds(h) ==
  /\ half = h /\ phase = "read"
  /\ Len(p[h].shape) >= call[h].required
  /\ turn = Len(p[h].shape) \/ turn = Len(call[h].expected)
  /\ Return(h, "delivered")
  /\ UNCHANGED <<call, half, counts, p>>

---------------------------------------------------------------------------
(* The call *)

CallerCounts == CountItem("in") \/ CreateBuffers("in")
CallerFills == FillItem("in") \/ FillEnds("in")
FunctionReads == TooFew("in") \/ ReadNext("in") \/ ReadEnds("in")
FunctionCounts == CountItem("out") \/ CreateBuffers("out")
FunctionFills == FillItem("out") \/ FillEnds("out")
CallerReads == TooFew("out") \/ ReadNext("out") \/ ReadEnds("out")

(* The function goes on to its results only with arguments it accepted. *)
Execute ==
  /\ half = "in" /\ phase = "returned" /\ verdict["in"] = "delivered"
  /\ half' = "out" /\ phase' = "count" /\ turn' = 0
  /\ counts' = AllZero
  /\ UNCHANGED <<call, p, cursor, data, verdict>>

ReleaseBuffers ==
  /\ phase = "returned"
  /\ half = "out" \/ verdict["in"] = "refused"
  /\ p' = [h \in Halves |-> NoBlock]
  /\ phase' = "released"
  /\ UNCHANGED <<call, half, turn, counts, cursor, data, verdict>>

Over == phase = "released" /\ UNCHANGED vars

Next ==
  \/ CallerCounts \/ CallerFills \/ FunctionReads \/ Execute
  \/ FunctionCounts \/ FunctionFills \/ CallerReads
  \/ ReleaseBuffers \/ Over

Spec == Init /\ [][Next]_vars

---------------------------------------------------------------------------
(* Properties *)

(* The loop that fills the buffers never writes past the room the loop     *)
(* that counts asked for, leaves no cell of it unwritten, and the reader's *)
(* cursors never leave a buffer.                                           *)
BuffersExact ==
  /\ phase = "fill" =>
       \A b \in Buffers : Len(p[half].buf[b]) <= counts[b]
  /\ phase = "read" => \A b \in Buffers :
       /\ Len(p[half].buf[b]) = counts[b]
       /\ cursor[b] <= counts[b]
=============================================================================
