-------------------------- MODULE FunctionContract --------------------------
(***************************************************************************)
(* What CScriptFunctionData and CLuaFunctionData promise of one half of a  *)
(* function call between a script and a plugin: when the items one side    *)
(* sent can be delivered, and how the other side receives them.            *)
(*                                                                         *)
(* An item has a type, says whether it is a table, and holds the values of *)
(* SimStack.  An expected argument has a type, a minimum size (0 for none) *)
(* and may allow nil in its place.  Where a transport converts, numbers of *)
(* another type fit, too.                                                  *)
(***************************************************************************)
EXTENDS SimStack

IsNil(item) == item.type = "nil" /\ ~item.table

Group(converts, type) ==
  CASE converts /\ type \in {"int", "float", "double"} -> "number"
    [] converts /\ type \in {"string", "buffer"} -> "text"
    [] OTHER -> type

ItemSize(item) ==
  IF item.table THEN Len(item.values) ELSE Len(item.values[1].str)

Fits(converts, item, e) ==
  IF IsNil(item) THEN e.nilAllowed
  ELSE /\ item.table = e.table
       /\ \/ Group(converts, item.type) = Group(converts, e.type)
          \/ converts /\ item.table /\ item.values = << >>
       /\ ~(e.table /\ e.type = "buffer")
       /\ (e.table \/ e.type = "buffer") /\ e.min # 0 =>
            ItemSize(item) >= e.min

Converted(v, type) ==
  CASE type = "int" -> Number(2 * Truncated(v.num))
    [] type = "float" -> Number(Rounded(v.num))
    [] type = "string" -> String(CString(v.str))
    [] OTHER -> v

Received(item, e) ==
  IF IsNil(item) THEN item
  ELSE [type |-> e.type, table |-> e.table,
        values |-> [i \in DOMAIN item.values |->
                      Converted(item.values[i], e.type)]]

(* The calls are records of the items sent, the arguments expected, and    *)
(* how many of them are required.  Arguments beyond those expected do not  *)
(* count, nor does anything from a nil on that stands where nil is not     *)
(* allowed.                                                                *)
Looked(c) == DOMAIN c.sent \cap DOMAIN c.expected

Passes(c, i) == ~IsNil(c.sent[i]) \/ c.expected[i].nilAllowed

Counted(c) == {i \in Looked(c) : \A j \in 1 .. i : Passes(c, j)}

Deliverable(converts, c) ==
  /\ Len(c.sent) >= c.required
  /\ \A i \in Counted(c) : Fits(converts, c.sent[i], c.expected[i])
  /\ Counted(c) # Looked(c) => \A i \in 1 .. c.required : i \in Counted(c)
=============================================================================
