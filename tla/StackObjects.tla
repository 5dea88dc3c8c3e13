---------------------------- MODULE StackObjects ----------------------------
(***************************************************************************)
(* src/coppelia/common/stack: the objects a plugin function reads its      *)
(* arguments into and builds its results from.  CStackNull, CStackBool,    *)
(* CStackNumber and CStackString hold one value; CStackArray holds objects *)
(* or doubles, and a cache of the doubles as ints; CStackMap holds objects *)
(* under keys of three types.                                              *)
(*                                                                         *)
(* The methods CStackMap has once per key type are one operator here: a    *)
(* key is <<"str", s>>, <<"int", i>> or <<"bool", b>>, one per std::map.   *)
(* Numbers are in halves, as on the stack.                                 *)
(*                                                                         *)
(* Copying and building go down into the objects inside an object.  What   *)
(* they make of one of those is a constant, CopyEntry for Copy and so on,  *)
(* and MCScriptCall gives it that operator for its value: so the recursion *)
(* of the code is what TLC runs, while proofs hold for any entries.        *)
(***************************************************************************)
EXTENDS SimStack

CONSTANTS
  CopyEntry(_),           \* copyYourself of an entry
  BuildEntry(_),          \* buildItemFromTopStackPosition for an entry
  BuildEntryOnto(_, _)    \* buildItemOntoStack for an entry

CStackNull == [type |-> "null"]
CStackBool(b) == [type |-> "bool", value_b |-> b]
CStackNumber(n) == [type |-> "number", value_n |-> n]
CStackString(s) == [type |-> "string", value_s |-> s]

CStackArray == [type |-> "array", objs |-> << >>, doubles |-> << >>,
                ints |-> << >>, circular |-> FALSE]

NoItems == [k \in {} |-> CStackNull]
CStackMap == [type |-> "map", items |-> NoItems]

---------------------------------------------------------------------------
(* CStackArray *)

(* Objects are refused as soon as the array holds doubles. *)
TakesObjects(arr) == arr.doubles = << >> /\ arr.ints = << >>

(* Faulty: objects join the doubles. *)
PushAnyway(arr, obj) ==
  [arr |-> [arr EXCEPT !.objs = Append(@, obj)], ok |-> TRUE]

(* pushNull ... pushMap: the array afterwards, and what the call returned. *)
Push(arr, obj) ==
  IF TakesObjects(arr)
  THEN [arr |-> [arr EXCEPT !.objs = Append(@, obj)], ok |-> TRUE]
  ELSE [arr |-> arr, ok |-> FALSE]

(* setDoubleArray and setIntArray, on halves. *)
SetNumbers(arr, numbers) ==
  IF TakesObjects(arr) /\ arr.objs = << >>
  THEN [arr |-> [arr EXCEPT !.doubles = numbers], ok |-> TRUE]
  ELSE [arr |-> arr, ok |-> FALSE]

(* getIntPointer and getInts fill the cache of ints first. *)
FillInts(arr) ==
  IF arr.ints = << >>
  THEN [arr EXCEPT !.ints = [i \in DOMAIN arr.doubles |->
                               Truncated(arr.doubles[i])]]
  ELSE arr

GetSize(arr) == IF arr.objs # << >> THEN Len(arr.objs) ELSE Len(arr.doubles)

IsNumberArray(arr) == arr.objs = << >>

(* isNull ... isMap; index counts from 0. *)
HasType(arr, index, type) ==
  IF index < Len(arr.objs) THEN arr.objs[index + 1].type = type
  ELSE type = "number" /\ index < Len(arr.doubles)

IsArrayAt(arr, index, minSize) ==
  HasType(arr, index, "array") /\ GetSize(arr.objs[index + 1]) >= minSize

(* getDouble, and getInt with the conversion to int: 0 for all else. *)
GetDouble(arr, index) ==
  IF index < Len(arr.objs) /\ arr.objs[index + 1].type = "number"
  THEN arr.objs[index + 1].value_n
  ELSE IF index < Len(arr.doubles) THEN arr.doubles[index + 1] ELSE 0

GetInt(arr, index) == Truncated(GetDouble(arr, index))

GetBool(arr, index) ==
  HasType(arr, index, "bool") /\ arr.objs[index + 1].value_b

(* getString, getArray, getMap: the entry, or else the default. *)
GetObject(arr, index, type, default) ==
  IF index < Len(arr.objs) /\ arr.objs[index + 1].type = type
  THEN arr.objs[index + 1] ELSE default

---------------------------------------------------------------------------
(* CStackMap *)

KeyPresent(map, key) == key \in DOMAIN map.items

MapHasType(map, key, type) ==
  KeyPresent(map, key) /\ map.items[key].type = type

(* isArray with a minimum size, and contains, whose type -1 is "any". *)
MapContains(map, key, type, minSize, onlyNumbers) ==
  /\ KeyPresent(map, key)
  /\ type = "any" \/ map.items[key].type = type
  /\ type = "array" => /\ GetSize(map.items[key]) >= minSize
                       /\ onlyNumbers => IsNumberArray(map.items[key])

(* getBool ... getMap: the item if it has the type, the default otherwise. *)
MapGet(map, key, type, default) ==
  IF MapHasType(map, key, type) THEN map.items[key] ELSE default

MapRemove(map, key) ==
  [map EXCEPT !.items = Restrict(@, DOMAIN @ \ {key})]

(* setNull ... setMap: the old object goes, the new one takes its key. *)
MapSet(map, key, obj) ==
  [map EXCEPT !.items = MapRemove(map, key).items @@ (key :> obj)]

---------------------------------------------------------------------------
(* copyYourself *)

(* Faulty: the doubles of an array stay behind. *)
CopyObjects(obj) ==
  CASE obj.type = "array" ->
         [CStackArray EXCEPT !.objs = [i \in DOMAIN obj.objs |->
                                         CopyEntry(obj.objs[i])]]
    [] obj.type = "map" ->
         [obj EXCEPT !.items = [k \in DOMAIN obj.items |->
                                  CopyEntry(obj.items[k])]]
    [] OTHER -> obj

Copy(obj) ==
  CASE obj.type = "array" ->
         [CStackArray EXCEPT !.ints = obj.ints, !.doubles = obj.doubles,
                             !.objs = [i \in DOMAIN obj.objs |->
                                         CopyEntry(obj.objs[i])]]
    [] obj.type = "map" ->
         [obj EXCEPT !.items = [k \in DOMAIN obj.items |->
                                  CopyEntry(obj.items[k])]]
    [] OTHER -> obj

---------------------------------------------------------------------------
(* From the stack: the object built of the top item, and the stack without *)
(* the item.                                                               *)

(* The key under which a map's entry is kept.  A simBool is an unsigned    *)
(* char, for which C++ chooses the overload for int; a number loses its    *)
(* fraction.  Tables are no keys.                                          *)
KeyOf(key) ==
  CASE key.kind = "number" -> <<"int", Truncated(key.num)>>
    [] key.kind = "bool" -> <<"int", IF key.bool THEN 1 ELSE 0>>
    [] key.kind = "string" -> <<"str", CString(key.str)>>

(* appendTopStackItem, where top is what is built of the top item: that of *)
(* CStackArray leaves the item on the stack when it does not take it, that *)
(* of CStackMap replaces.                                                  *)
AppendTop(arr, stack, top) ==
  IF TakesObjects(arr)
  THEN [obj |-> Push(arr, top.obj).arr, stack |-> top.stack]
  ELSE [obj |-> arr, stack |-> stack]

MapAppendTop(map, key, top) ==
  [obj |-> MapSet(map, key, top.obj), stack |-> top.stack]

(* The loops over an unfolded table: the item at the table's old place is  *)
(* a key, and once that is gone, the value that followed it.               *)
ReadEntries(new, stack) ==
  LET place == Len(stack) - 1
      unfolded == UnfoldStackTable(stack)
      count == (Len(unfolded) - place) \div 2
      Entry(so_far) ==
        LET keyed == MoveStackItemToTop(so_far.stack, place)
            valued == MoveStackItemToTop(PopStackItem(keyed, 1), place)
            top == BuildEntry(valued)
        IN  IF new.type = "array" THEN AppendTop(so_far.obj, valued, top)
            ELSE MapAppendTop(so_far.obj, KeyOf(Last(keyed)), top)
      read[i \in 0 .. count] ==
        IF i = 0 THEN [obj |-> new, stack |-> unfolded]
        ELSE Entry(read[i - 1])
  IN  read[count]

NumbersOf(pairs) == [i \in DOMAIN pairs |-> pairs[i][2].num]

BuildItemFromTop(stack) ==
  LET v == Last(stack)
      Popped(obj) == [obj |-> obj, stack |-> PopStackItem(stack, 1)]
      size == TableSize(stack)
  IN  CASE v.kind = "null" -> Popped(CStackNull)
        [] v.kind = "bool" -> Popped(CStackBool(v.bool))
        [] v.kind = "number" -> Popped(CStackNumber(v.num))
        [] v.kind = "string" -> Popped(CStackString(v.str))
        [] size = CircularRef ->
             Popped([CStackArray EXCEPT !.circular = TRUE])
        [] size = EmptyTable -> Popped(CStackArray)
        [] size > 0 /\ AllOfType(stack, 2) ->
             Popped(SetNumbers(CStackArray, NumbersOf(v.pairs)).arr)
        [] size > 0 /\ ~AllOfType(stack, 2) -> ReadEntries(CStackArray, stack)
        [] size = MapTable -> ReadEntries(CStackMap, stack)

---------------------------------------------------------------------------
(* Onto the stack *)

(* Faulty: a table counted from 0. *)
InsertFromZero(stack, key, obj) ==
  LET from == IF key.kind = "number" THEN Number(key.num - 2) ELSE key
  IN  InsertDataIntoStackTable(BuildEntryOnto(Append(stack, from), obj))

(* A table grows by one key and value at a time. *)
InsertObject(stack, key, obj) ==
  InsertDataIntoStackTable(BuildEntryOnto(Append(stack, key), obj))

(* Of a map only the entries with string keys are pushed. *)
StringKeys(map) == {k \in DOMAIN map.items : k[1] = "str"}

BuildItemOnto(stack, obj) ==
  CASE obj.type = "null" -> Append(stack, Nil)
    [] obj.type = "bool" -> Append(stack, Bool(obj.value_b))
    [] obj.type = "number" -> Append(stack, Number(obj.value_n))
    [] obj.type = "string" -> Append(stack, String(obj.value_s))
    [] obj.type = "array" /\ IsNumberArray(obj) ->
         Append(stack, Array([i \in DOMAIN obj.doubles |->
                                Number(obj.doubles[i])]))
    [] obj.type = "array" /\ ~IsNumberArray(obj) ->
         LET Insert(s, i) == InsertObject(s, Number(2 * i), obj.objs[i])
         IN  FoldLeftDomain(Insert, Append(stack, Table(<< >>)), obj.objs)
    [] obj.type = "map" ->
         LET Insert(s, k) == InsertObject(s, String(k[2]), obj.items[k])
         IN  FoldLeft(Insert, Append(stack, Table(<< >>)),
                      SetToSeq(StringKeys(obj)))
=============================================================================
