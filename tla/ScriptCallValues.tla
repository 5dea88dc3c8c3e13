-------------------------- MODULE ScriptCallValues --------------------------
(***************************************************************************)
(* ScriptCall as the script sees it: the values that go into a call and    *)
(* come out of it, and what the library promises of them.                  *)
(***************************************************************************)
EXTENDS ScriptCall

---------------------------------------------------------------------------
(* What a script sees of an object: a map's keys of every type. *)

RECURSIVE View(_)
View(obj) ==
  CASE obj.type = "null" -> Nil
    [] obj.type = "bool" -> Bool(obj.value_b)
    [] obj.type = "number" -> Number(obj.value_n)
    [] obj.type = "string" -> String(obj.value_s)
    [] obj.type = "array" ->
         Array(IF obj.objs = << >>
               THEN [i \in DOMAIN obj.doubles |-> Number(obj.doubles[i])]
               ELSE [i \in DOMAIN obj.objs |-> View(obj.objs[i])])
    [] obj.type = "map" ->
         LET Key(k) == CASE k[1] = "str" -> String(k[2])
                         [] k[1] = "int" -> Number(2 * k[2])
                         [] k[1] = "bool" -> Bool(k[2])
             keys == SetToSeq(DOMAIN obj.items)
         IN  Table([i \in DOMAIN keys |->
                      <<Key(keys[i]), View(obj.items[keys[i]])>>])

Views(objs) == [i \in DOMAIN objs |-> View(objs[i])]

Values(arr) == [i \in 1 .. GetSize(arr) |-> View(arr).pairs[i][2]]

(* Two values a script cannot tell apart: a table's entries have no order. *)
RECURSIVE Same(_, _)
Same(v, w) ==
  IF v.kind = "table" /\ w.kind = "table"
  THEN /\ Len(v.pairs) = Len(w.pairs)
       /\ \A i \in DOMAIN v.pairs : \E j \in DOMAIN w.pairs :
            /\ Same(v.pairs[i][1], w.pairs[j][1])
            /\ Same(v.pairs[i][2], w.pairs[j][2])
  ELSE v = w

SameValues(s, t) ==
  Len(s) = Len(t) /\ \A i \in DOMAIN s : Same(s[i], t[i])

(* A value the library can hold: no table inside itself, and a table that  *)
(* is no array has only keys of one of the given kinds, whole numbers and  *)
(* strings without a 0 character among them.                               *)
RECURSIVE Plain(_, _)
Plain(v, keyKinds) ==
  CASE v.kind = "circular" -> FALSE
    [] v.kind = "table" ->
         \A i \in DOMAIN v.pairs :
           /\ Plain(v.pairs[i][2], keyKinds)
           /\ \/ IsArrayTable(v.pairs)
              \/ LET key == v.pairs[i][1]
                 IN  /\ key.kind \in keyKinds
                     /\ key.kind = "number" => key.num % 2 = 0
                     /\ key.kind = "string" => CString(key.str) = key.str
    [] OTHER -> TRUE

AllPlain(s, keyKinds) == \A i \in DOMAIN s : Plain(s[i], keyKinds)

---------------------------------------------------------------------------
(* Properties *)

AnyKey == {"string", "number"}

(* While buildFromStack reads, what it has read and what is left on the    *)
(* stack are together the arguments the script gave, in their order, each  *)
(* with the value it had: turning the stack, unfolding a table above the   *)
(* arguments still waiting and popping exactly what was read lose nothing. *)
ArgumentsInOrder ==
  phase \in {"read", "body"} /\ AllPlain(given, AnyKey) =>
    SameValues(Values(inArguments) \o stack, given)

(* When the callback returns, the script finds on the stack what the       *)
(* callback was told it had pushed, in that order, and none of its own     *)
(* arguments -- as far as maps have string keys and nothing is circular.   *)
ResultsAsPushed ==
  phase = "done" /\ AllPlain(given, {"string"}) =>
    SameValues(stack, Views(pushed))

(* A function that takes its arguments apart with the classes' accessors   *)
(* and returns them gives the script back what it passed.                  *)
Echoed ==
  phase = "done" /\ callback = "echo" /\ AllPlain(given, {"string"}) =>
    SameValues(stack, given)
=============================================================================
