------------------------------ MODULE SimStack ------------------------------
(***************************************************************************)
(* CoppeliaSim's script stack as src/coppelia/common uses it (simLib.h):   *)
(* a script pushes the arguments of a plugin function, the first lowest,   *)
(* and takes its results from the same stack.  CoppeliaSim itself is not   *)
(* in the repository.                                                      *)
(*                                                                         *)
(* A number is counted in halves, so that a number with a fraction exists; *)
(* a string is a sequence of characters, 0 among them.                     *)
(***************************************************************************)
EXTENDS Integers, SequencesExt

NUL == 0

Nil == [kind |-> "null"]
Bool(b) == [kind |-> "bool", bool |-> b]
Number(n) == [kind |-> "number", num |-> n]
String(s) == [kind |-> "string", str |-> s]
Table(pairs) == [kind |-> "table", pairs |-> pairs]   \* <<key, value>> pairs
Circular == [kind |-> "circular"]   \* a table that contains itself

(* The table a script writes {v1, v2, ...}. *)
Array(values) ==
  Table([i \in DOMAIN values |-> <<Number(2 * i), values[i]>>])

(* A double converted to an int. *)
Truncated(n) == IF n >= 0 THEN n \div 2 ELSE -((-n) \div 2)

(* A double converted to a float, which keeps 24 binary digits: the        *)
(* nearest there is, of two the even one.                                  *)
FloatDigits == 24
FloatExponent == 104   \* of the last digit, at most

Rounded(n) ==
  LET size == IF n >= 0 THEN n ELSE -n
      k == CHOOSE i \in 0 .. FloatExponent :
             /\ size < 2^(FloatDigits + i)
             /\ i = 0 \/ size >= 2^(FloatDigits + i - 1)
      unit == 2^k
      below == size - (size % unit)
      above == \/ 2 * (size % unit) > unit
               \/ 2 * (size % unit) = unit /\ (below \div unit) % 2 = 1
      nearest == IF above THEN below + unit ELSE below
  IN  IF n >= 0 THEN nearest ELSE -nearest

(* The part of a buffer that a reader of a C string sees. *)
CString(s) ==
  LET ends == {i \in DOMAIN s : s[i] = NUL}
  IN  IF ends = {} THEN s ELSE SubSeq(s, 1, (CHOOSE i \in ends :
                                  \A j \in ends : i <= j) - 1)

---------------------------------------------------------------------------
(* The operations *)

(* simPopStackItem: a count of 0 clears the stack. *)
PopStackItem(stack, n) ==
  IF n = 0 THEN << >> ELSE SubSeq(stack, 1, Len(stack) - n)

(* simMoveStackItemToTop: i counts from the bottom, from 0. *)
MoveStackItemToTop(stack, i) == Append(RemoveAt(stack, i + 1), stack[i + 1])

(* simUnfoldStackTable: the table at the top gives way to its entries, the *)
(* key of each below its value.                                            *)
UnfoldStackTable(stack) ==
  LET pairs == Last(stack).pairs
  IN  Front(stack) \o [i \in 1 .. 2 * Len(pairs) |->
                          pairs[(i + 1) \div 2][IF i % 2 = 1 THEN 1 ELSE 2]]

(* simInsertDataIntoStackTable: table, key and value are the three top     *)
(* items; an entry with the same key is replaced.                          *)
InsertDataIntoStackTable(stack) ==
  LET n == Len(stack)
      pairs == stack[n - 2].pairs
      entry == <<stack[n - 1], stack[n]>>
      same == {i \in DOMAIN pairs : pairs[i][1] = entry[1]}
  IN  Append(SubSeq(stack, 1, n - 3),
             Table(IF same = {} THEN Append(pairs, entry)
                   ELSE [i \in DOMAIN pairs |->
                           IF i \in same THEN entry ELSE pairs[i]]))

---------------------------------------------------------------------------
(* simGetStackTableInfo *)

NotTable == -3
MapTable == -2
CircularRef == -4
EmptyTable == 0

IsArrayTable(pairs) ==
  \A i \in DOMAIN pairs : pairs[i][1] = Number(2 * i)

(* Type 0 asks what the top item is: the length of an array, or a code. *)
TableSize(stack) ==
  LET v == Last(stack)
  IN  CASE v.kind = "circular" -> CircularRef
        [] v.kind = "table" ->
             IF IsArrayTable(v.pairs) THEN Len(v.pairs) ELSE MapTable
        [] OTHER -> NotTable

(* Types above 0 ask whether all entries of an array have that type. *)
TypeOfInfo == <<"null", "number", "bool", "string", "table">>

AllOfType(stack, infoType) ==
  \A i \in DOMAIN Last(stack).pairs :
    Last(stack).pairs[i][2].kind = TypeOfInfo[infoType]
=============================================================================
