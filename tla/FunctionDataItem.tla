-------------------------- MODULE FunctionDataItem --------------------------
(***************************************************************************)
(* CScriptFunctionDataItem and CLuaFunctionDataItem, which are alike: one  *)
(* argument or result, with a type, that is one value or a table of them.  *)
(* The values are those of SimStack.                                       *)
(***************************************************************************)
EXTENDS SimStack

Types == {"nil", "bool", "int", "float", "double", "string", "buffer"}

(* The values of a type; an int is counted in halves, too, and a float is  *)
(* a number that survives being rounded to one.                            *)
ValuesOf(type) ==
  CASE type = "nil" -> {Nil}
    [] type = "bool" -> [kind : {"bool"}, bool : BOOLEAN]
    [] type = "int" -> {v \in [kind : {"number"}, num : Int] : v.num % 2 = 0}
    [] type = "float" ->
         {v \in [kind : {"number"}, num : Int] : Rounded(v.num) = v.num}
    [] type = "double" -> [kind : {"number"}, num : Int]
    [] type \in {"string", "buffer"} -> [kind : {"string"}, str : Seq(Nat)]

Value == ValuesOf("nil") \cup ValuesOf("bool") \cup ValuesOf("double")
         \cup ValuesOf("string")

(* The items the constructors make. *)
Items ==
  {item \in [type : Types, table : BOOLEAN, values : Seq(Value)] :
     /\ item.values \in Seq(ValuesOf(item.type))
     /\ item.table => item.type # "buffer"
     /\ ~item.table => Len(item.values) = 1}

(* One half of a call: the items sent, the arguments expected (a minimum   *)
(* size of 0 is none), and how many of them are required.                  *)
Halves == {"in", "out"}

Expectations ==
  [type : Types, table : BOOLEAN, min : Nat, nilAllowed : BOOLEAN]

FunctionCalls ==
  [Halves -> [sent : Seq(Items), expected : Seq(Expectations),
              required : Nat]]

Item(type, value) == [type |-> type, table |-> FALSE, values |-> <<value>>]
TableItem(type, values) == [type |-> type, table |-> TRUE, values |-> values]

NilItem == Item("nil", Nil)

(* setNilTable, which only an item that is nil obeys. *)
NilTable(item, size) ==
  IF item.type = "nil" THEN TableItem("nil", [i \in 1 .. size |-> Nil])
  ELSE item
=============================================================================
