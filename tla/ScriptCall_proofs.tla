------------------------- MODULE ScriptCall_proofs -------------------------
(***************************************************************************)
(* Proofs about the call of a plugin function by a script, for any         *)
(* arguments and whatever objects are built of, or pushed for, the entries *)
(* of a table: an array never mixes objects with numbers, and RTDEclient   *)
(* is asked exactly for what the script wrote.                             *)
(***************************************************************************)
EXTENDS ScriptCall, Sequences_proofs

---------------------------------------------------------------------------
(* The operations on the stack *)

(* Part of a sequence. *)
IsPart(S, p, s, m, n) ==
  /\ p \in Seq(S)
  /\ Len(p) = n - m + 1
  /\ \A i \in 1 .. n - m + 1 : p[i] = s[i + m - 1]

LEMMA PartFacts ==
  ASSUME NEW S, NEW s \in Seq(S), NEW m \in Nat, NEW n \in Nat,
         m >= 1, m <= n + 1, n <= Len(s)
  PROVE  IsPart(S, SubSeq(s, m, n), s, m, n)
<1>1. m \in Int /\ n \in Int /\ Len(s) \in Nat
  OBVIOUS
<1>2. \A i \in m .. n : s[i] \in S
  BY <1>1
<1> DEFINE p == SubSeq(s, m, n)
<1>3. /\ p \in Seq(S)
      /\ Len(p) = IF m <= n THEN n - m + 1 ELSE 0
      /\ \A i \in 1 .. n - m + 1 : p[i] = s[m + i - 1]
  BY <1>1, <1>2, SubSeqProperties
<1> HIDE DEF p
<1>4. Len(p) = n - m + 1
  BY <1>1, <1>3
<1>5. \A i \in 1 .. n - m + 1 : p[i] = s[i + m - 1]
  BY <1>1, <1>3
<1>6. QED
  BY <1>3, <1>4, <1>5 DEF p, IsPart

(* The lowest item goes to the top. *)
LEMMA MoveFacts ==
  ASSUME NEW S, NEW s \in Seq(S), Len(s) # 0
  PROVE  /\ MoveStackItemToTop(s, 0) \in Seq(S)
         /\ Len(MoveStackItemToTop(s, 0)) = Len(s)
         /\ \A i \in 1 .. Len(s) - 1 : MoveStackItemToTop(s, 0)[i] = s[i + 1]
         /\ MoveStackItemToTop(s, 0)[Len(s)] = s[1]
         /\ Last(MoveStackItemToTop(s, 0)) = s[1]
<1> DEFINE a == SubSeq(s, 1, 0)
           b == SubSeq(s, 2, Len(s))
<1>1. Len(s) \in Nat /\ Len(s) >= 1 /\ s[1] \in S
  OBVIOUS
<1>2. a \in Seq(S) /\ Len(a) = 0
  BY <1>1
<1>3. /\ b \in Seq(S) /\ Len(b) = Len(s) - 1
      /\ \A i \in 1 .. Len(b) : b[i] = s[i + 1]
  <2>1. IsPart(S, b, s, 2, Len(s))
    <3>1. /\ 2 \in Nat /\ Len(s) \in Nat /\ 2 >= 1
          /\ 2 <= Len(s) + 1 /\ Len(s) <= Len(s)
      BY <1>1
    <3>2. QED
      BY <3>1, PartFacts, Zenon
  <2> HIDE DEF b
  <2>2. QED
    BY <1>1, <2>1 DEF IsPart
<1>4. MoveStackItemToTop(s, 0) = Append(a \o b, s[1])
  BY <1>1 DEF MoveStackItemToTop, RemoveAt
<1> HIDE DEF a, b
<1>5. Concatenated(S, a, b, a \o b)
  BY <1>2, <1>3, ConcatFacts
<1>6. /\ a \o b \in Seq(S) /\ Len(a \o b) = Len(s) - 1
      /\ \A i \in 1 .. Len(s) - 1 : (a \o b)[i] = s[i + 1]
  BY <1>1, <1>2, <1>3, <1>5 DEF Concatenated
<1> DEFINE c == a \o b
<1> HIDE DEF c
<1>7. /\ Append(c, s[1]) \in Seq(S) /\ Len(Append(c, s[1])) = Len(s)
      /\ \A i \in 1 .. Len(s) - 1 : Append(c, s[1])[i] = s[i + 1]
      /\ Append(c, s[1])[Len(s)] = s[1]
  <2>1. /\ c \in Seq(S) /\ Len(c) = Len(s) - 1
        /\ \A i \in 1 .. Len(s) - 1 : c[i] = s[i + 1]
    BY <1>6 DEF c
  <2>2. QED
    BY <1>1, <2>1
<1>8. QED
  BY <1>4, <1>7 DEF c, Last

(* Without the lowest item a stack is what was above it. *)
LEMMA TakeLowest ==
  ASSUME NEW S, NEW s \in Seq(S), Len(s) # 0
  PROVE  PopStackItem(MoveStackItemToTop(s, 0), 1) = SubSeq(s, 2, Len(s))
<1> DEFINE t == MoveStackItemToTop(s, 0)
<1>1. /\ t \in Seq(S) /\ Len(t) = Len(s)
      /\ \A i \in 1 .. Len(s) - 1 : t[i] = s[i + 1]
  BY MoveFacts
<1> HIDE DEF t
<1>2. PopStackItem(t, 1) = SubSeq(t, 1, Len(t) - 1)
  BY DEF PopStackItem
<1>3. SubSeq(t, 1, Len(t) - 1) = SubSeq(s, 2, Len(s))
  <2>1. Len(s) \in Nat /\ Len(s) >= 1
    OBVIOUS
  <2>2. /\ SubSeq(t, 1, Len(t) - 1) \in Seq(S)
        /\ Len(SubSeq(t, 1, Len(t) - 1)) = Len(s) - 1
        /\ \A i \in 1 .. Len(s) - 1 : SubSeq(t, 1, Len(t) - 1)[i] = t[i]
    BY <1>1, <2>1
  <2>3. /\ SubSeq(s, 2, Len(s)) \in Seq(S)
        /\ Len(SubSeq(s, 2, Len(s))) = Len(s) - 1
        /\ \A i \in 1 .. Len(s) - 1 : SubSeq(s, 2, Len(s))[i] = s[i + 1]
    <3> DEFINE b == SubSeq(s, 2, Len(s))
    <3>1. IsPart(S, b, s, 2, Len(s))
      <4>1. /\ 2 \in Nat /\ Len(s) \in Nat /\ 2 >= 1
            /\ 2 <= Len(s) + 1 /\ Len(s) <= Len(s)
        BY <2>1
      <4>2. QED
        BY <4>1, PartFacts, Zenon
    <3> HIDE DEF b
    <3>2. /\ b \in Seq(S) /\ Len(b) = Len(s) - 1
          /\ \A i \in 1 .. Len(s) - 1 : b[i] = s[i + 1]
      BY <2>1, <3>1 DEF IsPart
    <3>3. QED
      BY <3>2 DEF b
  <2> DEFINE x == SubSeq(t, 1, Len(t) - 1)
             y == SubSeq(s, 2, Len(s))
  <2> HIDE DEF x, y
  <2>4. /\ x \in Seq(S) /\ y \in Seq(S) /\ Len(x) = Len(y)
        /\ \A i \in 1 .. Len(x) : x[i] = y[i]
    BY <1>1, <2>1, <2>2, <2>3 DEF x, y
  <2>5. x = y
    BY <2>4
  <2>6. QED
    BY <2>5 DEF x, y
<1>4. QED
  BY <1>2, <1>3 DEF t

---------------------------------------------------------------------------
(* The object built of an item *)

(* What can be told of an object by its type and its value. *)
Mirrors(obj, v) ==
  /\ (obj.type = "number") <=> (v.kind = "number")
  /\ (obj.type = "bool") <=> (v.kind = "bool")
  /\ v.kind = "number" => obj.value_n = v.num
  /\ v.kind = "bool" => obj.value_b = v.bool

(* A table's entries leave the type of the object they are put into. *)
Typed(obj, type) == "type" \in DOMAIN obj /\ obj.type = type

LEMMA EntryTyped ==
  ASSUME NEW type, NEW obj, Typed(obj, type), NEW s, NEW top, NEW key
  PROVE  /\ Typed(AppendTop(obj, s, top).obj, type)
         /\ Typed(MapAppendTop(obj, key, top).obj, type)
BY DEF Typed, AppendTop, MapAppendTop, Push, MapSet

(* Unfolding gives each entry of the table two places on the stack. *)
LEMMA UnfoldCount ==
  ASSUME NEW S, NEW s \in Seq(S), Len(s) # 0,
         Last(s).pairs \in Seq(Range(Last(s).pairs))
  PROVE  (Len(UnfoldStackTable(s)) - (Len(s) - 1)) \div 2 \in Nat
<1> DEFINE pairs == Last(s).pairs
           Half(i) == pairs[(i + 1) \div 2][IF i % 2 = 1 THEN 1 ELSE 2]
           halves == [i \in 1 .. 2 * Len(pairs) |-> Half(i)]
           T == S \cup {Half(i) : i \in 1 .. 2 * Len(pairs)}
<1>1. Len(s) \in Nat /\ Len(pairs) \in Nat /\ 2 * Len(pairs) \in Nat
  OBVIOUS
<1>2. UnfoldStackTable(s) = Front(s) \o halves
  BY DEF UnfoldStackTable
<1> HIDE DEF pairs
<1>3. halves \in Seq(T) /\ Len(halves) = 2 * Len(pairs)
  <2> DEFINE n == 2 * Len(pairs)
  <2>1. n \in Nat /\ halves = [i \in 1 .. n |-> Half(i)]
        /\ \A i \in 1 .. n : Half(i) \in T
    BY <1>1
  <2> HIDE DEF n, Half, T
  <2>2. QED
    BY <2>1 DEF n
<1> HIDE DEF halves
<1>4. Front(s) \in Seq(T) /\ Len(Front(s)) = Len(s) - 1
  <2>1. Front(s) \in Seq(S) /\ Len(Front(s)) = Len(s) - 1
    <3>1. IsPart(S, Front(s), s, 1, Len(s) - 1)
      <4>1. /\ 1 \in Nat /\ Len(s) - 1 \in Nat /\ 1 >= 1
            /\ 1 <= (Len(s) - 1) + 1 /\ Len(s) - 1 <= Len(s)
        BY <1>1
      <4>2. QED
        BY <4>1, PartFacts, Zenon DEF Front
    <3>2. QED
      BY <1>1, <3>1 DEF IsPart
  <2> HIDE DEF Half
  <2>2. S \subseteq T
    OBVIOUS
  <2> HIDE DEF T
  <2>3. QED
    BY <2>1, <2>2
<1> HIDE DEF T
<1>5. Concatenated(T, Front(s), halves, Front(s) \o halves)
  BY <1>3, <1>4, ConcatFacts
<1>6. Len(Front(s) \o halves) = Len(s) - 1 + 2 * Len(pairs)
  BY <1>3, <1>4, <1>5 DEF Concatenated
<1>7. QED
  BY <1>1, <1>2, <1>6

(* An array or a map stays one while a table's entries are read into it,   *)
(* whatever objects are built of them.                                     *)
LEMMA ReadEntriesTyped ==
  ASSUME NEW S, NEW s \in Seq(S), Len(s) # 0,
         Last(s).pairs \in Seq(Range(Last(s).pairs)),
         NEW type, NEW new, Typed(new, type)
  PROVE  Typed(ReadEntries(new, s).obj, type)
<1> DEFINE place == Len(s) - 1
           unfolded == UnfoldStackTable(s)
           count == (Len(unfolded) - place) \div 2
           Entry(so_far) ==
             LET keyed == MoveStackItemToTop(so_far.stack, place)
                 valued == MoveStackItemToTop(PopStackItem(keyed, 1), place)
                 top == BuildEntry(valued)
             IN  IF new.type = "array"
                 THEN AppendTop(so_far.obj, valued, top)
                 ELSE MapAppendTop(so_far.obj, KeyOf(Last(keyed)), top)
           base == [obj |-> new, stack |-> unfolded]
           Step(f, i) == IF i = 0 THEN base ELSE Entry(f[i - 1])
           Upto(m, f) == f = [i \in 0 .. m |-> Step(f, i)]
           read == CHOOSE f : Upto(count, f)
<1>1. count \in Nat
  BY UnfoldCount
<1>2. ReadEntries(new, s) = read[count]
  BY DEF ReadEntries
<1>3. ASSUME NEW so_far, Typed(so_far.obj, type)
      PROVE  Typed(Entry(so_far).obj, type)
  BY <1>3, EntryTyped
<1>4. base.obj = new
  OBVIOUS
<1> HIDE DEF Entry, base, count
<1>5. \E f : Upto(count, f)
  <2> DEFINE R == {m \in 0 .. count : \E f : Upto(m, f)}
  <2>1. 0 \in R
    <3> DEFINE f == [i \in 0 .. 0 |-> base]
    <3>1. Upto(0, f)
      OBVIOUS
    <3> HIDE DEF f
    <3>2. QED
      BY <1>1, <3>1
  <2>2. ASSUME NEW m \in 1 .. count, m - 1 \in R PROVE m \in R
    <3>1. PICK f : Upto(m - 1, f)
      BY <2>2
    <3> DEFINE g == [i \in 0 .. m |-> IF i = m THEN Entry(f[m - 1]) ELSE f[i]]
    <3>2. m \in 1 .. count /\ m \in Int /\ m >= 1 /\ m # 0
      BY <1>1
    <3>3. \A i \in 0 .. m : g[i] = Step(g, i)
      <4>1. \A i \in 0 .. m - 1 : f[i] = Step(f, i) /\ g[i] = f[i]
        BY <3>1, <3>2
      <4>2. g[m] = Entry(f[m - 1]) /\ g[m - 1] = f[m - 1]
        BY <3>2, <4>1
      <4> HIDE DEF g
      <4>3. ASSUME NEW i \in 0 .. m PROVE g[i] = Step(g, i)
        <5>1. CASE i = m
          BY <3>2, <4>2, <5>1
        <5>2. CASE i = 0
          BY <3>2, <4>1, <5>2
        <5>3. CASE i # m /\ i # 0
          <6>1. i \in 0 .. m - 1 /\ i - 1 \in 0 .. m - 1
            BY <3>2, <5>3
          <6>2. f[i] = Step(f, i) /\ g[i] = f[i] /\ g[i - 1] = f[i - 1]
            BY <4>1, <6>1
          <6>3. QED
            BY <5>3, <6>2
        <5>4. QED
          BY <5>1, <5>2, <5>3
      <4>4. QED
        BY <4>3
    <3>4. g = [i \in 0 .. m |-> g[i]]
      OBVIOUS
    <3> HIDE DEF g
    <3>5. Upto(m, g)
      BY <3>3, <3>4
    <3>6. QED
      BY <3>2, <3>5
  <2> HIDE DEF R
  <2>3. \A m \in 0 .. count : m \in R
    BY <1>1, <2>1, <2>2, InductionUpto
  <2>4. count \in R
    BY <1>1, <2>3
  <2>5. QED
    BY <2>4 DEF R
<1>6. Upto(count, read)
  BY <1>5
<1> HIDE DEF read
<1> DEFINE Kept == {i \in 0 .. count : Typed(read[i].obj, type)}
<1>7. 0 \in Kept
  <2>1. read[0] = base
    BY <1>1, <1>6
  <2>2. QED
    BY <1>1, <1>4, <2>1
<1>8. ASSUME NEW i \in 1 .. count, i - 1 \in Kept PROVE i \in Kept
  <2>1. i \in 0 .. count /\ i # 0
    BY <1>1
  <2>2. read[i] = Entry(read[i - 1])
    BY <1>6, <2>1
  <2>3. QED
    BY <1>3, <1>8, <2>1, <2>2
<1> HIDE DEF Kept
<1>9. count \in Kept
  <2>1. \A i \in 0 .. count : i \in Kept
    BY <1>1, <1>7, <1>8, InductionUpto
  <2>2. QED
    BY <1>1, <2>1
<1>10. QED
  BY <1>2, <1>9 DEF Kept

(* A stack of script values. *)
IsStack(s, S) == s \in Seq(S) /\ \A v \in S : ScriptValue(v)

(* The object built of the top item tells as much as the item, and an item *)
(* that is no table is popped.                                             *)
LEMMA BuildFacts ==
  ASSUME NEW S, NEW s, IsStack(s, S), Len(s) # 0
  PROVE  /\ Mirrors(BuildItemFromTop(s).obj, Last(s))
         /\ Last(s).kind # "table" =>
              BuildItemFromTop(s).stack = PopStackItem(s, 1)
<1> DEFINE v == Last(s)
           size == TableSize(s)
           built == BuildItemFromTop(s)
           Popped(obj) == [obj |-> obj, stack |-> PopStackItem(s, 1)]
<1>1. s \in Seq(S) /\ ScriptValue(v)
  BY DEF IsStack, Last
<1>2. CASE v.kind \in {"null", "bool", "number", "string"}
  <2>0. size = NotTable
    BY <1>2 DEF TableSize
  <2>1. CASE v.kind = "null"
    <3>1. built = Popped(CStackNull)
      BY <2>1, <2>0 DEF BuildItemFromTop, NotTable, CircularRef,
                          EmptyTable, MapTable
    <3>2. QED
      BY <2>1, <3>1 DEF Mirrors, CStackNull
  <2>2. CASE v.kind = "bool"
    <3>1. built = Popped(CStackBool(v.bool))
      BY <2>2, <2>0 DEF BuildItemFromTop, NotTable, CircularRef,
                          EmptyTable, MapTable
    <3>2. QED
      BY <2>2, <3>1 DEF Mirrors, CStackBool
  <2>3. CASE v.kind = "number"
    <3>1. built = Popped(CStackNumber(v.num))
      BY <2>3, <2>0 DEF BuildItemFromTop, NotTable, CircularRef,
                          EmptyTable, MapTable
    <3>2. QED
      BY <2>3, <3>1 DEF Mirrors, CStackNumber
  <2>4. CASE v.kind = "string"
    <3>1. built = Popped(CStackString(v.str))
      BY <2>4, <2>0 DEF BuildItemFromTop, NotTable, CircularRef,
                          EmptyTable, MapTable
    <3>2. QED
      BY <2>4, <3>1 DEF Mirrors, CStackString
  <2>5. QED
    BY <1>2, <2>1, <2>2, <2>3, <2>4
<1>3. CASE v.kind = "circular"
  <2>1. size = CircularRef
    BY <1>3 DEF TableSize
  <2>2. built = Popped([CStackArray EXCEPT !.circular = TRUE])
    BY <1>3, <2>1 DEF BuildItemFromTop, CircularRef, EmptyTable, MapTable
  <2>3. QED
    BY <1>3, <2>2 DEF Mirrors, CStackArray
<1>4. CASE v.kind = "table"
  <2>0. /\ v.kind # "null" /\ v.kind # "bool" /\ v.kind # "number"
        /\ v.kind # "string"
    BY <1>4
  <2>1. v.pairs \in Seq(Range(v.pairs)) /\ Len(v.pairs) \in Nat
    BY <1>1, <1>4 DEF ScriptValue
  <2>2. size \in Nat \/ size = MapTable
    BY <1>4, <2>1 DEF TableSize
  <2>3. built.obj.type \in {"array", "map"}
    <3>1. Typed(CStackArray, "array") /\ Typed(CStackMap, "map")
      BY DEF Typed, CStackArray, CStackMap
    <3>2. /\ Typed(ReadEntries(CStackArray, s).obj, "array")
          /\ Typed(ReadEntries(CStackMap, s).obj, "map")
      BY <1>1, <2>1, <3>1, ReadEntriesTyped
    <3>0. /\ size = EmptyTable => ~(size > 0) /\ size # MapTable
          /\ size \in Nat /\ size > 0 => size # EmptyTable /\ size # MapTable
          /\ size = MapTable => ~(size > 0) /\ size # EmptyTable
          /\ size # CircularRef
      BY <2>2 DEF CircularRef, EmptyTable, MapTable
    <3>3. CASE size = EmptyTable
      <4>1. built = Popped(CStackArray)
        BY <2>0, <3>3, <3>0 DEF BuildItemFromTop
      <4>2. QED
        BY <4>1 DEF CStackArray
    <3>4. CASE size \in Nat /\ size > 0 /\ AllOfType(s, 2)
      <4>1. built = Popped(SetNumbers(CStackArray, NumbersOf(v.pairs)).arr)
        BY <2>0, <3>4, <3>0 DEF BuildItemFromTop
      <4>2. QED
        BY <4>1 DEF SetNumbers, CStackArray
    <3>5. CASE size \in Nat /\ size > 0 /\ ~AllOfType(s, 2)
      <4>1. built = ReadEntries(CStackArray, s)
        BY <2>0, <3>5, <3>0 DEF BuildItemFromTop
      <4>2. QED
        BY <3>2, <4>1 DEF Typed
    <3>6. CASE size = MapTable
      <4>1. built = ReadEntries(CStackMap, s)
        BY <2>0, <3>6, <3>0 DEF BuildItemFromTop
      <4>2. QED
        BY <3>2, <4>1 DEF Typed
    <3>7. QED
      BY <2>2, <3>3, <3>4, <3>5, <3>6 DEF EmptyTable
  <2>4. QED
    BY <1>4, <2>3 DEF Mirrors
<1>5. QED
  BY <1>1, <1>2, <1>3, <1>4 DEF ScriptValue

---------------------------------------------------------------------------
(* The results *)

(* A CStackArray. *)
IsArray(arr) ==
  arr = [type |-> "array", objs |-> arr.objs, doubles |-> arr.doubles,
         ints |-> arr.ints, circular |-> arr.circular]

(* An array holds objects or numbers, and the ints are the numbers'. *)
Unmixed(arr) ==
  /\ IsArray(arr)
  /\ arr.objs = << >> \/ TakesObjects(arr)
  /\ \/ arr.ints = << >>
     \/ arr.ints = [i \in DOMAIN arr.doubles |-> Truncated(arr.doubles[i])]

(* No call of the class mixes an array. *)
LEMMA PushUnmixed ==
  ASSUME NEW arr, Unmixed(arr), NEW obj
  PROVE  Unmixed(Push(arr, obj).arr)
<1>1. CASE TakesObjects(arr)
  <2> DEFINE objs == Append(arr.objs, obj)
             new == [arr EXCEPT !.objs = objs]
  <2>1. Push(arr, obj).arr = new
    BY <1>1 DEF Push
  <2>2. /\ new.doubles = arr.doubles /\ new.ints = arr.ints
        /\ IsArray(new)
    <3> HIDE DEF objs
    <3>1. IsArray(arr)
      BY DEF Unmixed
    <3>2. QED
      BY <3>1 DEF IsArray
  <2> HIDE DEF new
  <2>3. QED
    BY <1>1, <2>1, <2>2 DEF Unmixed, TakesObjects
<1>2. CASE ~TakesObjects(arr)
  BY <1>2 DEF Push
<1>3. QED
  BY <1>1, <1>2

LEMMA SetNumbersUnmixed ==
  ASSUME NEW arr, Unmixed(arr), NEW numbers
  PROVE  Unmixed(SetNumbers(arr, numbers).arr)
<1>1. CASE TakesObjects(arr) /\ arr.objs = << >>
  <2> DEFINE new == [arr EXCEPT !.doubles = numbers]
  <2>1. SetNumbers(arr, numbers).arr = new
    BY <1>1 DEF SetNumbers
  <2>2. new.objs = arr.objs /\ new.ints = arr.ints /\ IsArray(new)
    BY DEF Unmixed, IsArray
  <2> HIDE DEF new
  <2>3. QED
    BY <1>1, <2>1, <2>2 DEF Unmixed, TakesObjects
<1>2. CASE ~(TakesObjects(arr) /\ arr.objs = << >>)
  BY <1>2 DEF SetNumbers
<1>3. QED
  BY <1>1, <1>2

LEMMA FillIntsUnmixed ==
  ASSUME NEW arr, Unmixed(arr)
  PROVE  Unmixed(FillInts(arr))
<1>1. CASE arr.ints = << >>
  <2> DEFINE ints == [i \in DOMAIN arr.doubles |-> Truncated(arr.doubles[i])]
             new == [arr EXCEPT !.ints = ints]
  <2>1. FillInts(arr) = new
    BY <1>1 DEF FillInts
  <2>2. /\ new.objs = arr.objs /\ new.doubles = arr.doubles
        /\ new.ints = ints /\ IsArray(new)
    BY DEF Unmixed, IsArray
  <2>3. arr.doubles = << >> => ints = << >>
    OBVIOUS
  <2>4. ints = [i \in DOMAIN new.doubles |-> Truncated(new.doubles[i])]
    BY <2>2
  <2> HIDE DEF new, ints
  <2>5. QED
    BY <1>1, <2>1, <2>2, <2>3, <2>4 DEF Unmixed, TakesObjects
<1>2. CASE arr.ints # << >>
  BY <1>2 DEF FillInts
<1>3. QED
  BY <1>1, <1>2

(* The results of a call are never mixed. *)
ResultsUnmixed == Unmixed(outArguments)

LEMMA InitUnmixed ==
  Init => ResultsUnmixed
BY DEF Init, ResultsUnmixed, Unmixed, IsArray, CStackArray, TakesObjects

LEMMA NextUnmixed ==
  ResultsUnmixed /\ [Next]_vars => ResultsUnmixed'
<1> SUFFICES ASSUME Unmixed(outArguments), [Next]_vars
             PROVE  Unmixed(outArguments')
  BY DEF ResultsUnmixed
<1>1. CASE UNCHANGED outArguments
  BY <1>1
<1>2. CASE Perform
  <2>1. \/ outArguments' = outArguments
        \/ \E success \in BOOLEAN :
             outArguments' = Push(outArguments, CStackBool(success)).arr
    BY <1>2 DEF Perform
  <2>2. QED
    BY <2>1, PushUnmixed
<1>3. CASE Echo
  <2>1. outArguments' = Push(outArguments, EchoOf(turn)).arr
    BY <1>3 DEF Echo, PushResult
  <2>2. QED
    BY <2>1, PushUnmixed
<1>4. CASE Build
  <2>1. \/ \E obj : outArguments' = Push(outArguments, obj).arr
        \/ \E numbers : outArguments' = SetNumbers(outArguments, numbers).arr
        \/ outArguments' = FillInts(outArguments)
    BY <1>4 DEF Build, PushResult
  <2>2. QED
    BY <2>1, PushUnmixed, SetNumbersUnmixed, FillIntsUnmixed
<1>5. QED
  BY <1>1, <1>2, <1>3, <1>4
     DEF Next, vars, TestItem, TestEnds, ReadItem, ReadEnds, Refuse, BodyEnds,
         WriteResults, Returned

(* A function's results are objects or numbers, never both, and the ints   *)
(* handed out are its numbers: whatever calls the function makes.          *)
THEOREM ArraysAreUnmixed == Spec => []ArraysUnmixed
<1>1. ResultsUnmixed => ArraysUnmixed
  BY DEF ResultsUnmixed, Unmixed, ArraysUnmixed
<1>2. QED
  BY <1>1, InitUnmixed, NextUnmixed, PTL DEF Spec

---------------------------------------------------------------------------
(* The arguments *)

(* k turns of the stack. *)
Turned(s, args, k) ==
  /\ Len(s) = Len(args)
  /\ \A i \in 1 .. Len(args) :
       s[i] = args[IF i + k <= Len(args) THEN i + k ELSE i + k - Len(args)]

(* The first k arguments are numbers; none of them is a table. *)
Numbers(args, k) == \A i \in 1 .. k : args[i].kind = "number"
NoTables(args, k) == \A i \in 1 .. k : args[i].kind # "table"

(* What is read of the first k arguments: numbers, or as many objects, of  *)
(* which those before and at the first table mirror the arguments.  What   *)
(* an object inside that table leaves on the stack is not said.            *)
NumbersTaken(arr, args, k) ==
  /\ arr.objs = << >>
  /\ arr.doubles \in Seq(Int) /\ Len(arr.doubles) = k
  /\ \A i \in 1 .. k : arr.doubles[i] = args[i].num

ObjectsTaken(arr, args, k) ==
  /\ arr.doubles = << >>
  /\ arr.objs \in Seq(Range(arr.objs)) /\ Len(arr.objs) = k
  /\ \A i \in 1 .. k : NoTables(args, i - 1) => Mirrors(arr.objs[i], args[i])

Taken(arr, args, k) ==
  /\ IsArray(arr) /\ arr.ints = << >>
  /\ IF Numbers(args, Len(args)) THEN NumbersTaken(arr, args, k)
     ELSE ObjectsTaken(arr, args, k)

Testing ==
  phase = "test" =>
    /\ turn \in 0 .. Len(given)
    /\ stack \in Seq(Range(given)) /\ Turned(stack, given, turn)
    /\ allNumbers = Numbers(given, turn)
    /\ inArguments = CStackArray

Reading ==
  phase = "read" =>
    /\ turn \in 0 .. Len(given)
    /\ allNumbers = Numbers(given, Len(given))
    /\ Taken(inArguments, given, turn)
    /\ NoTables(given, turn) => stack = SubSeq(given, turn + 1, Len(given))

HasRead ==
  phase \in {"body", "write", "done"} => Taken(inArguments, given, Len(given))

(* What Dispatched says once the callback has looked at its arguments. *)
Answered ==
  /\ (reached.call = callback) <=>
       WellFormed(callback, given) /\ plugin_loaded
  /\ callback \in {"getIO", "setIO"} /\ reached # NotReached =>
       reached.io = Truncated(given[1].num)
  /\ callback = "setIO" /\ reached # NotReached =>
       reached.signal = given[2].bool

Asked ==
  /\ phase \in {"test", "read", "body"} => reached = NotReached
  /\ phase \in {"write", "done"} /\ callback \in RTDECallbacks => Answered

(* The inductive invariant. *)
ArgumentsInv ==
  /\ given \in Given
  /\ phase \in {"test", "read", "body", "write", "done"}
  /\ Testing /\ Reading /\ HasRead /\ Asked

(* The arguments are script values. *)
LEMMA GivenFacts ==
  ASSUME NEW args \in Given
  PROVE  /\ IsStack(args, Range(args))
         /\ args \in Seq(Range(args)) /\ Len(args) \in Nat
         /\ \A i \in 1 .. Len(args) : ScriptValue(args[i])
<1>1. args \in Seq(Range(args)) /\ \A v \in Range(args) : ScriptValue(v)
  BY CallAssumption
<1>2. Len(args) \in Nat /\ \A i \in 1 .. Len(args) : args[i] \in Range(args)
  BY <1>1
<1>3. QED
  BY <1>1, <1>2 DEF IsStack

(* What the callbacks of the plugin look at, once all is read. *)
Looks(arr, args) ==
  /\ GetSize(arr) = Len(args)
  /\ Len(args) >= 1 => (HasType(arr, 0, "number") <=> args[1].kind = "number")
  /\ Len(args) >= 1 /\ args[1].kind = "number" =>
       GetDouble(arr, 0) = args[1].num
  /\ Len(args) >= 2 /\ args[1].kind = "number" =>
       (HasType(arr, 1, "bool") <=> args[2].kind = "bool")
  /\ Len(args) >= 2 /\ args[1].kind = "number" /\ args[2].kind = "bool" =>
       GetBool(arr, 1) = args[2].bool

LEMMA LooksFacts ==
  ASSUME NEW args \in Given, NEW arr, Taken(arr, args, Len(args))
  PROVE  Looks(arr, args)
<1>1. Len(args) \in Nat /\ \A i \in 1 .. Len(args) : ScriptValue(args[i])
  BY GivenFacts
<1>2. CASE Numbers(args, Len(args))
  <2>1. /\ arr.objs = << >> /\ Len(arr.objs) = 0
        /\ Len(arr.doubles) = Len(args)
        /\ \A i \in 1 .. Len(args) : arr.doubles[i] = args[i].num
    BY <1>2 DEF Taken, NumbersTaken
  <2>2. \A i \in 1 .. Len(args) : args[i].kind = "number"
    BY <1>2 DEF Numbers
  <2>3. GetSize(arr) = Len(args)
    BY <2>1 DEF GetSize
  <2>4. ASSUME Len(args) >= 1
        PROVE  /\ HasType(arr, 0, "number") /\ args[1].kind = "number"
               /\ GetDouble(arr, 0) = args[1].num
    BY <1>1, <2>1, <2>2, <2>4 DEF HasType, GetDouble
  <2>5. ASSUME Len(args) >= 2
        PROVE  ~HasType(arr, 1, "bool") /\ args[2].kind # "bool"
    BY <1>1, <2>1, <2>2, <2>5 DEF HasType
  <2>6. /\ HasType(arr, 0, "number") \in BOOLEAN
        /\ HasType(arr, 1, "bool") \in BOOLEAN
    BY <2>1 DEF HasType
  <2>7. QED
    BY <2>3, <2>4, <2>5, <2>6 DEF Looks
<1>3. CASE ~Numbers(args, Len(args))
  <2>1. /\ Len(arr.objs) = Len(args)
        /\ \A i \in 1 .. Len(args) :
             NoTables(args, i - 1) => Mirrors(arr.objs[i], args[i])
    BY <1>3 DEF Taken, ObjectsTaken
  <2>2. Len(args) >= 1
    BY <1>1, <1>3 DEF Numbers
  <2>3. arr.objs # << >> /\ GetSize(arr) = Len(args)
    BY <1>1, <2>1, <2>2 DEF GetSize
  <2>4. Mirrors(arr.objs[1], args[1])
    <3>1. NoTables(args, 1 - 1)
      BY DEF NoTables
    <3>2. QED
      BY <1>1, <2>1, <2>2, <3>1
  <2>5. ASSUME Len(args) >= 2, args[1].kind = "number"
        PROVE  Mirrors(arr.objs[2], args[2])
    <3>1. NoTables(args, 2 - 1)
      BY <2>5 DEF NoTables
    <3>2. QED
      BY <1>1, <2>1, <2>5, <3>1
  <2>6. HasType(arr, 0, "number") <=> args[1].kind = "number"
    BY <1>1, <2>1, <2>2, <2>4 DEF HasType, Mirrors
  <2>7. args[1].kind = "number" => GetDouble(arr, 0) = args[1].num
    BY <1>1, <2>1, <2>2, <2>4 DEF GetDouble, Mirrors
  <2>8. ASSUME Len(args) >= 2, args[1].kind = "number"
        PROVE  /\ HasType(arr, 1, "bool") <=> args[2].kind = "bool"
               /\ args[2].kind = "bool" => GetBool(arr, 1) = args[2].bool
    <3>1. Mirrors(arr.objs[2], args[2]) /\ ScriptValue(args[2])
      BY <1>1, <2>5, <2>8
    <3>2. HasType(arr, 1, "bool") <=> args[2].kind = "bool"
      BY <1>1, <2>1, <2>8, <3>1 DEF HasType, Mirrors
    <3>3. ASSUME args[2].kind = "bool"
          PROVE  GetBool(arr, 1) = args[2].bool
      <4>1. arr.objs[2].value_b = args[2].bool /\ args[2].bool \in BOOLEAN
        BY <3>1, <3>3 DEF Mirrors, ScriptValue
      <4>2. HasType(arr, 1, "bool")
        BY <3>2, <3>3
      <4>3. GetBool(arr, 1) = (HasType(arr, 1, "bool") /\ arr.objs[2].value_b)
        BY DEF GetBool
      <4>4. QED
        BY <4>1, <4>2, <4>3
    <3>4. QED
      BY <3>2, <3>3
  <2>9. /\ HasType(arr, 0, "number") \in BOOLEAN
        /\ HasType(arr, 1, "bool") \in BOOLEAN
    BY DEF HasType
  <2>10. QED
    BY <2>3, <2>6, <2>7, <2>8, <2>9 DEF Looks
<1>4. QED
  BY <1>2, <1>3

(* A callback accepts the arguments it is registered with, and no others. *)
LEMMA AcceptsFacts ==
  ASSUME NEW args \in Given, NEW arr, Taken(arr, args, Len(args)),
         NEW call \in RTDECallbacks
  PROVE  /\ Accepts(call, arr) <=> WellFormed(call, args)
         /\ call \in {"getIO", "setIO"} /\ Accepts(call, arr) =>
              GetInt(arr, 0) = Truncated(args[1].num)
         /\ call = "setIO" /\ Accepts(call, arr) =>
              GetBool(arr, 1) = args[2].bool
<1>1. Looks(arr, args)
  BY LooksFacts
<1>2. args \in Seq(Range(args)) /\ Len(args) \in Nat
  BY GivenFacts
<1>3. CASE call \in {"init", "connect", "disconnect"}
  <2>1. Accepts(call, arr) <=> GetSize(arr) = 0
    BY <1>3 DEF Accepts
  <2>2. WellFormed(call, args) <=> args = << >>
    BY <1>3 DEF WellFormed
  <2>3. args = << >> <=> Len(args) = 0
    BY <1>2
  <2>4. QED
    BY <1>1, <1>3, <2>1, <2>2, <2>3 DEF Looks
<1>4. CASE call = "getIO"
  <2>1. Accepts(call, arr) <=> GetSize(arr) = 1 /\ HasType(arr, 0, "number")
    BY <1>4 DEF Accepts
  <2>2. WellFormed(call, args) <=> Len(args) = 1 /\ args[1].kind = "number"
    BY <1>4 DEF WellFormed
  <2>3. GetSize(arr) = Len(args)
    BY <1>1 DEF Looks
  <2>4. ASSUME Len(args) = 1
        PROVE  /\ HasType(arr, 0, "number") <=> args[1].kind = "number"
               /\ args[1].kind = "number" => GetDouble(arr, 0) = args[1].num
    <3>1. Len(args) >= 1
      BY <2>4
    <3>2. QED
      BY <1>1, <3>1, Zenon DEF Looks
  <2>5. Accepts(call, arr) <=> WellFormed(call, args)
    BY <2>1, <2>2, <2>3, <2>4, Zenon
  <2>6. Accepts(call, arr) => GetInt(arr, 0) = Truncated(args[1].num)
    BY <2>1, <2>3, <2>4, Zenon DEF GetInt
  <2>7. QED
    BY <1>4, <2>5, <2>6, Zenon
<1>5. CASE call = "setIO"
  <2>1. Accepts(call, arr) <=> /\ GetSize(arr) = 2 /\ HasType(arr, 0, "number")
                               /\ HasType(arr, 1, "bool")
    BY <1>5 DEF Accepts
  <2>2. WellFormed(call, args) <=> /\ Len(args) = 2 /\ args[1].kind = "number"
                                   /\ args[2].kind = "bool"
    BY <1>5 DEF WellFormed
  <2>3. GetSize(arr) = Len(args)
    BY <1>1 DEF Looks
  <2>4. ASSUME Len(args) = 2
        PROVE  /\ HasType(arr, 0, "number") <=> args[1].kind = "number"
               /\ args[1].kind = "number" => GetDouble(arr, 0) = args[1].num
               /\ args[1].kind = "number" =>
                    (HasType(arr, 1, "bool") <=> args[2].kind = "bool")
               /\ args[1].kind = "number" /\ args[2].kind = "bool" =>
                    GetBool(arr, 1) = args[2].bool
    <3>1. Len(args) >= 1 /\ Len(args) >= 2
      BY <2>4
    <3>2. QED
      BY <1>1, <3>1, Zenon DEF Looks
  <2>5. Accepts(call, arr) <=> WellFormed(call, args)
    BY <2>1, <2>2, <2>3, <2>4, Zenon
  <2>6. Accepts(call, arr) => /\ GetInt(arr, 0) = Truncated(args[1].num)
                              /\ GetBool(arr, 1) = args[2].bool
    BY <2>1, <2>3, <2>4, Zenon DEF GetInt
  <2>7. QED
    BY <1>5, <2>5, <2>6, Zenon
<1>6. QED
  BY <1>3, <1>4, <1>5 DEF RTDECallbacks

---------------------------------------------------------------------------
(* Each step keeps the invariant. *)

(* Another turn. *)
LEMMA TurnedFacts ==
  ASSUME NEW args, Len(args) \in Nat, NEW S, NEW s \in Seq(S), NEW k \in Nat,
         k < Len(args), Turned(s, args, k)
  PROVE  /\ Turned(MoveStackItemToTop(s, 0), args, k + 1)
         /\ Last(MoveStackItemToTop(s, 0)) = args[k + 1]
<1> DEFINE t == MoveStackItemToTop(s, 0)
           n == Len(args)
<1>1. Len(s) = n /\ n # 0
  BY DEF Turned
<1>2. /\ Len(t) = n /\ Last(t) = s[1] /\ t[n] = s[1]
      /\ \A i \in 1 .. n - 1 : t[i] = s[i + 1]
  BY <1>1, MoveFacts
<1>3. \A i \in 1 .. n : s[i] = args[IF i + k <= n THEN i + k ELSE i + k - n]
  BY DEF Turned
<1> HIDE DEF t
<1>4. s[1] = args[k + 1]
  BY <1>1, <1>3
<1>5. ASSUME NEW i \in 1 .. n
      PROVE  t[i] = args[IF i + (k + 1) <= n THEN i + (k + 1)
                         ELSE i + (k + 1) - n]
  <2>1. CASE i = n
    BY <1>2, <1>4, <2>1
  <2>2. CASE i # n
    <3>1. i \in 1 .. n - 1 /\ i + 1 \in 1 .. n /\ (i + 1) + k = i + (k + 1)
      BY <2>2
    <3>2. t[i] = s[i + 1]
      BY <1>2, <3>1
    <3>3. s[i + 1] = args[IF (i + 1) + k <= n THEN (i + 1) + k
                          ELSE (i + 1) + k - n]
      BY <1>3, <3>1
    <3>4. QED
      BY <3>1, <3>2, <3>3
  <2>3. QED
    BY <2>1, <2>2
<1>6. QED
  BY <1>2, <1>4, <1>5 DEF t, Turned

(* One number more. *)
LEMMA NumbersFacts ==
  ASSUME NEW args, NEW k \in Nat
  PROVE  Numbers(args, k + 1) =
           (Numbers(args, k) /\ args[k + 1].kind = "number")
<1>1. Numbers(args, k + 1) <=> Numbers(args, k) /\ args[k + 1].kind = "number"
  BY DEF Numbers
<1>2. QED
  BY <1>1 DEF Numbers

LEMMA TestItemStep ==
  ArgumentsInv /\ TestItem => ArgumentsInv'
<1> SUFFICES ASSUME ArgumentsInv, TestItem PROVE ArgumentsInv'
  OBVIOUS
<1>1. /\ given \in Given /\ phase = "test" /\ turn \in 0 .. Len(given)
      /\ stack \in Seq(Range(given)) /\ Turned(stack, given, turn)
      /\ allNumbers = Numbers(given, turn) /\ inArguments = CStackArray
      /\ turn < Len(stack) /\ reached = NotReached
  BY DEF ArgumentsInv, Testing, Asked, TestItem
<1>2. /\ given' = given /\ phase' = phase /\ turn' = turn + 1
      /\ stack' = MoveStackItemToTop(stack, 0)
      /\ allNumbers' = (allNumbers /\ Last(stack').kind = "number")
      /\ inArguments' = inArguments /\ reached' = reached
  BY DEF TestItem
<1>3. Len(given) \in Nat /\ Len(stack) = Len(given) /\ turn \in Nat
      /\ turn < Len(given) /\ Len(stack) # 0
  BY <1>1, GivenFacts DEF Turned
<1>4. Turned(stack', given, turn + 1) /\ Last(stack') = given[turn + 1]
  BY <1>1, <1>2, <1>3, TurnedFacts
<1>5. stack' \in Seq(Range(given))
  BY <1>1, <1>2, <1>3, MoveFacts
<1>6. allNumbers' = Numbers(given, turn + 1)
  BY <1>1, <1>2, <1>3, <1>4, NumbersFacts
<1>7. Testing'
  BY <1>1, <1>2, <1>3, <1>4, <1>5, <1>6 DEF Testing
<1>8. Reading' /\ HasRead' /\ Asked'
  BY <1>1, <1>2 DEF Reading, HasRead, Asked
<1>9. QED
  BY <1>1, <1>2, <1>7, <1>8 DEF ArgumentsInv

LEMMA TestEndsStep ==
  ArgumentsInv /\ TestEnds => ArgumentsInv'
<1> SUFFICES ASSUME ArgumentsInv, TestEnds PROVE ArgumentsInv'
  OBVIOUS
<1> DEFINE n == Len(given)
<1>1. /\ given \in Given /\ phase = "test" /\ turn = Len(stack)
      /\ stack \in Seq(Range(given)) /\ Turned(stack, given, turn)
      /\ allNumbers = Numbers(given, turn) /\ inArguments = CStackArray
      /\ reached = NotReached
  BY DEF ArgumentsInv, Testing, Asked, TestEnds
<1>2. /\ given' = given /\ phase' = "read" /\ turn' = 0 /\ stack' = stack
      /\ allNumbers' = allNumbers /\ inArguments' = inArguments
      /\ reached' = reached
  BY DEF TestEnds
<1>3. /\ n \in Nat /\ turn = n /\ Len(stack) = n
      /\ given \in Seq(Range(given))
  BY <1>1, GivenFacts DEF Turned
<1>4. stack = SubSeq(given, 1, n)
  <2>1. \A i \in 1 .. n : stack[i] = given[i]
    BY <1>1, <1>3 DEF Turned
  <2>2. stack = given
    BY <1>1, <1>3, <2>1
  <2>3. SubSeq(given, 1, n) = given
    BY <1>3
  <2>4. QED
    BY <2>2, <2>3
<1>5. Taken(CStackArray, given, 0)
  BY DEF Taken, NumbersTaken, ObjectsTaken, IsArray, CStackArray
<1>6. Reading'
  <2>1. 0 \in 0 .. n /\ 0 + 1 = 1
    BY <1>3
  <2>2. QED
    BY <1>1, <1>2, <1>3, <1>4, <1>5, <2>1 DEF Reading
<1>7. Testing' /\ HasRead' /\ Asked'
  BY <1>1, <1>2 DEF Testing, HasRead, Asked
<1>8. QED
  BY <1>1, <1>2, <1>6, <1>7 DEF ArgumentsInv

(* One entry more at the end. *)
LEMMA AppendFacts ==
  ASSUME NEW S, NEW s \in Seq(S), NEW x
  PROVE  /\ Append(s, x) \in Seq(Range(Append(s, x)))
         /\ Len(Append(s, x)) = Len(s) + 1
         /\ \A i \in 1 .. Len(s) : Append(s, x)[i] = s[i]
         /\ Append(s, x)[Len(s) + 1] = x
<1> DEFINE T == S \cup {x}
           t == Append(s, x)
<1>1. s \in Seq(T) /\ x \in T /\ Len(s) \in Nat
  <2>1. S \subseteq T /\ x \in T
    OBVIOUS
  <2> HIDE DEF T
  <2>2. QED
    BY <2>1
<1> HIDE DEF T
<1>2. /\ t \in Seq(T) /\ Len(t) = Len(s) + 1
      /\ \A i \in 1 .. Len(s) : t[i] = s[i]
      /\ t[Len(s) + 1] = x
  BY <1>1
<1> HIDE DEF t
<1>3. t \in Seq(Range(t))
  <2>1. DOMAIN t = 1 .. Len(t) /\ Len(t) \in Nat
    BY <1>2
  <2>2. \A i \in 1 .. Len(t) : t[i] \in Range(t)
    BY <2>1 DEF Range
  <2>3. t \in [1 .. Len(t) -> Range(t)]
    BY <1>2, <2>1, <2>2
  <2>4. QED
    BY <1>2, <2>1, <2>2, <2>3
<1>4. QED
  BY <1>1, <1>2, <1>3 DEF t

(* A number is taken. *)
LEMMA NumberTaken ==
  ASSUME NEW args, NEW k \in Nat, NEW arr, IsArray(arr),
         NumbersTaken(arr, args, k), args[k + 1].num \in Int
  PROVE  LET new == [arr EXCEPT !.doubles = Append(@, args[k + 1].num)]
         IN  IsArray(new) /\ new.ints = arr.ints
             /\ NumbersTaken(new, args, k + 1)
<1> DEFINE x == args[k + 1].num
           doubles == Append(arr.doubles, x)
           new == [arr EXCEPT !.doubles = Append(@, x)]
<1>1. /\ IsArray(new) /\ new.objs = arr.objs /\ new.ints = arr.ints
      /\ new.doubles = doubles
  BY DEF IsArray
<1>2. /\ arr.objs = << >> /\ arr.doubles \in Seq(Int) /\ Len(arr.doubles) = k
      /\ \A i \in 1 .. k : arr.doubles[i] = args[i].num
  BY DEF NumbersTaken
<1>3. /\ doubles \in Seq(Int) /\ Len(doubles) = k + 1
      /\ \A i \in 1 .. k + 1 : doubles[i] = args[i].num
  <2>1. /\ doubles \in Seq(Int) /\ Len(doubles) = k + 1
        /\ \A i \in 1 .. k : doubles[i] = arr.doubles[i]
        /\ doubles[k + 1] = x
    BY <1>2
  <2> HIDE DEF doubles
  <2>2. QED
    BY <1>2, <2>1
<1> HIDE DEF new, doubles
<1>4. NumbersTaken(new, args, k + 1)
  BY <1>1, <1>2, <1>3 DEF NumbersTaken
<1>5. QED
  BY <1>1, <1>4 DEF new

(* An object is taken. *)
LEMMA ObjectTaken ==
  ASSUME NEW args, NEW k \in Nat, NEW arr, IsArray(arr), arr.ints = << >>,
         ObjectsTaken(arr, args, k), NEW obj,
         NoTables(args, k) => Mirrors(obj, args[k + 1])
  PROVE  /\ IsArray(Push(arr, obj).arr)
         /\ Push(arr, obj).arr.ints = << >>
         /\ ObjectsTaken(Push(arr, obj).arr, args, k + 1)
<1> DEFINE objs == Append(arr.objs, obj)
           new == [arr EXCEPT !.objs = Append(@, obj)]
<1>1. /\ arr.doubles = << >>
      /\ arr.objs \in Seq(Range(arr.objs)) /\ Len(arr.objs) = k
      /\ \A i \in 1 .. k : NoTables(args, i - 1) => Mirrors(arr.objs[i], args[i])
  BY DEF ObjectsTaken
<1>2. Push(arr, obj).arr = new
  BY <1>1 DEF Push, TakesObjects
<1>3. /\ IsArray(new) /\ new.doubles = arr.doubles /\ new.ints = arr.ints
      /\ new.objs = objs
  BY DEF IsArray
<1>4. /\ objs \in Seq(Range(objs)) /\ Len(objs) = k + 1
      /\ \A i \in 1 .. k : objs[i] = arr.objs[i]
      /\ objs[k + 1] = obj
  BY <1>1, AppendFacts
<1> HIDE DEF objs, new
<1>5. ASSUME NEW i \in 1 .. k + 1, NoTables(args, i - 1)
      PROVE  Mirrors(objs[i], args[i])
  <2>1. CASE i = k + 1
    BY <1>4, <1>5, <2>1
  <2>2. CASE i # k + 1
    <3>1. i \in 1 .. k
      BY <2>2
    <3>2. QED
      BY <1>1, <1>4, <1>5, <3>1
  <2>3. QED
    BY <2>1, <2>2
<1>6. ObjectsTaken(new, args, k + 1)
  BY <1>1, <1>3, <1>4, <1>5 DEF ObjectsTaken
<1>7. QED
  BY <1>2, <1>3, <1>6

(* The arguments that wait. *)
Waits(s, args, k) ==
  /\ IsStack(s, Range(args)) /\ s \in Seq(Range(args))
  /\ Len(s) = Len(args) - k
  /\ Len(s) # 0 => /\ s[1] = args[k + 1]
                   /\ SubSeq(s, 2, Len(s)) = SubSeq(args, k + 2, Len(args))

LEMMA WaitsFacts ==
  ASSUME NEW args \in Given, NEW k \in Nat, k < Len(args)
  PROVE  Waits(SubSeq(args, k + 1, Len(args)), args, k)
<1> DEFINE n == Len(args)
           R == Range(args)
           s == SubSeq(args, k + 1, n)
           rest == SubSeq(args, k + 2, n)
           tail == SubSeq(s, 2, Len(s))
<1>1. args \in Seq(R) /\ n \in Nat /\ IsStack(args, R)
  BY GivenFacts
<1> HIDE DEF R
<1>2. IsPart(R, s, args, k + 1, n)
  <2>1. /\ k + 1 \in Nat /\ n \in Nat /\ k + 1 >= 1 /\ k + 1 <= n + 1
        /\ n <= Len(args)
    BY <1>1
  <2>2. QED
    BY <1>1, <2>1, PartFacts, Zenon
<1>3. IsPart(R, rest, args, k + 2, n)
  <2>1. /\ k + 2 \in Nat /\ n \in Nat /\ k + 2 >= 1 /\ k + 2 <= n + 1
        /\ n <= Len(args)
    BY <1>1
  <2>2. QED
    BY <1>1, <2>1, PartFacts, Zenon
<1> HIDE DEF s, rest
<1>4. /\ s \in Seq(R) /\ Len(s) = n - k /\ Len(s) \in Nat
      /\ \A i \in 1 .. n - k : s[i] = args[i + k]
  BY <1>1, <1>2 DEF IsPart
<1>5. /\ rest \in Seq(R) /\ Len(rest) = n - k - 1
      /\ \A i \in 1 .. n - k - 1 : rest[i] = args[i + k + 1]
  BY <1>1, <1>3 DEF IsPart
<1>6. IsPart(R, tail, s, 2, Len(s))
  <2>1. /\ 2 \in Nat /\ Len(s) \in Nat /\ 2 >= 1 /\ 2 <= Len(s) + 1
        /\ Len(s) <= Len(s)
    BY <1>1, <1>4
  <2>2. QED
    BY <1>4, <2>1, PartFacts, Zenon
<1> HIDE DEF tail
<1>7. /\ tail \in Seq(R) /\ Len(tail) = n - k - 1
      /\ \A i \in 1 .. n - k - 1 : tail[i] = s[i + 1]
  <2>1. /\ tail \in Seq(R) /\ Len(tail) = Len(s) - 2 + 1
        /\ \A i \in 1 .. Len(s) - 2 + 1 : tail[i] = s[i + 2 - 1]
    BY <1>6 DEF IsPart
  <2>2. Len(s) - 2 + 1 = n - k - 1
    BY <1>1, <1>4
  <2>3. ASSUME NEW i \in 1 .. n - k - 1 PROVE tail[i] = s[i + 1]
    <3>1. tail[i] = s[i + 2 - 1]
      BY <2>1, <2>2
    <3>2. i + 2 - 1 = i + 1
      OBVIOUS
    <3>3. QED
      BY <3>1, <3>2
  <2>4. QED
    BY <2>1, <2>2, <2>3
<1>8. \A i \in 1 .. n - k - 1 : tail[i] = rest[i]
  BY <1>1, <1>4, <1>5, <1>7
<1>9. tail = rest
  <2>1. Len(tail) = Len(rest) /\ \A i \in 1 .. Len(tail) : tail[i] = rest[i]
    BY <1>5, <1>7, <1>8
  <2>2. QED
    BY <1>5, <1>7, <2>1
<1>10. s[1] = args[k + 1]
  BY <1>1, <1>4
<1>11. QED
  <2>1. IsStack(s, R) /\ s \in Seq(R)
    BY <1>1, <1>4 DEF IsStack
  <2>2. Len(s) = Len(args) - k
    BY <1>4
  <2>3. SubSeq(s, 2, Len(s)) = SubSeq(args, k + 2, Len(args))
    BY <1>9 DEF tail, rest
  <2>4. QED
    BY <1>10, <2>1, <2>2, <2>3, Zenon DEF Waits, R, s

LEMMA ReadItemStep ==
  ArgumentsInv /\ ReadItem => ArgumentsInv'
<1> SUFFICES ASSUME ArgumentsInv, ReadItem PROVE ArgumentsInv'
  OBVIOUS
<1> DEFINE n == Len(given)
           t == MoveStackItemToTop(stack, 0)
           taken == TakeItem(inArguments, t)
<1>1. /\ given \in Given /\ phase = "read" /\ turn \in 0 .. n /\ turn < n
      /\ allNumbers = Numbers(given, n) /\ Taken(inArguments, given, turn)
      /\ NoTables(given, turn) => stack = SubSeq(given, turn + 1, n)
      /\ reached = NotReached
  BY DEF ArgumentsInv, Reading, Asked, ReadItem
<1>2. /\ given' = given /\ phase' = phase /\ turn' = turn + 1
      /\ allNumbers' = allNumbers /\ reached' = reached
      /\ stack' = taken.stack /\ inArguments' = taken.obj
  BY DEF ReadItem
<1>3. /\ n \in Nat /\ turn \in Nat /\ turn + 1 \in 1 .. n
      /\ ScriptValue(given[turn + 1])
  BY <1>1, GivenFacts
<1>4. ASSUME NoTables(given, turn)
      PROVE  /\ IsStack(t, Range(given)) /\ Len(t) # 0
             /\ Last(t) = given[turn + 1]
             /\ PopStackItem(t, 1) = SubSeq(given, turn + 2, n)
  <2>1. Waits(stack, given, turn)
    <3>1. Waits(SubSeq(given, turn + 1, n), given, turn)
      BY <1>1, <1>3, WaitsFacts
    <3>2. QED
      BY <1>1, <1>4, <3>1
  <2>2. /\ stack \in Seq(Range(given)) /\ Len(stack) # 0
        /\ stack[1] = given[turn + 1]
        /\ SubSeq(stack, 2, Len(stack)) = SubSeq(given, turn + 2, n)
        /\ IsStack(stack, Range(given))
    BY <1>1, <1>3, <2>1 DEF Waits
  <2>3. t \in Seq(Range(given)) /\ Len(t) # 0 /\ Last(t) = stack[1]
    BY <2>2, MoveFacts
  <2>4. PopStackItem(t, 1) = SubSeq(stack, 2, Len(stack))
    BY <2>2, TakeLowest
  <2>5. QED
    BY <2>2, <2>3, <2>4 DEF IsStack
<1> HIDE DEF t
<1>5. CASE Numbers(given, n)
  <2> DEFINE new == [inArguments EXCEPT !.doubles =
                       Append(@, given[turn + 1].num)]
  <2>1. NoTables(given, turn) /\ given[turn + 1].kind = "number"
    BY <1>3, <1>5 DEF Numbers, NoTables
  <2>2. /\ taken.stack = SubSeq(given, turn + 2, n)
        /\ taken.obj = new
    BY <1>1, <1>4, <1>5, <2>1 DEF TakeItem
  <2>3. /\ IsArray(inArguments) /\ inArguments.ints = << >>
        /\ NumbersTaken(inArguments, given, turn)
    BY <1>1, <1>5 DEF Taken
  <2>4. given[turn + 1].num \in Int
    BY <1>3, <2>1 DEF ScriptValue
  <2>5. /\ IsArray(new) /\ new.ints = inArguments.ints
        /\ NumbersTaken(new, given, turn + 1)
    BY <1>3, <2>3, <2>4, NumberTaken
  <2> HIDE DEF new
  <2>6. Taken(new, given, turn + 1)
    BY <1>5, <2>3, <2>5 DEF Taken
  <2>7. turn + 1 \in 0 .. n /\ (turn + 1) + 1 = turn + 2
    BY <1>3
  <2>8. Reading'
    BY <1>1, <1>2, <2>2, <2>6, <2>7 DEF Reading
  <2>9. Testing' /\ HasRead' /\ Asked'
    BY <1>1, <1>2 DEF Testing, HasRead, Asked
  <2>10. QED
    BY <1>1, <1>2, <2>8, <2>9 DEF ArgumentsInv
<1>6. CASE ~Numbers(given, n)
  <2> DEFINE top == BuildItemFromTop(t)
             new == Push(inArguments, top.obj).arr
  <2>1. /\ IsArray(inArguments) /\ inArguments.ints = << >>
        /\ ObjectsTaken(inArguments, given, turn)
    BY <1>1, <1>6 DEF Taken
  <2>2. TakesObjects(inArguments)
    BY <2>1 DEF TakesObjects, ObjectsTaken
  <2>3. taken.stack = top.stack /\ taken.obj = new
    BY <1>1, <1>6, <2>2 DEF TakeItem, AppendTop
  <2>4. ASSUME NoTables(given, turn)
        PROVE  /\ Mirrors(top.obj, given[turn + 1])
               /\ given[turn + 1].kind # "table" =>
                    top.stack = SubSeq(given, turn + 2, n)
    <3>1. /\ IsStack(t, Range(given)) /\ Len(t) # 0
          /\ Last(t) = given[turn + 1]
          /\ PopStackItem(t, 1) = SubSeq(given, turn + 2, n)
      BY <1>4, <2>4
    <3>2. /\ Mirrors(top.obj, Last(t))
          /\ Last(t).kind # "table" => top.stack = PopStackItem(t, 1)
      BY <3>1, BuildFacts
    <3>3. QED
      BY <3>1, <3>2
  <2> HIDE DEF top
  <2>5. /\ IsArray(new) /\ new.ints = << >>
        /\ ObjectsTaken(new, given, turn + 1)
    BY <1>3, <2>1, <2>4, ObjectTaken
  <2> HIDE DEF new
  <2>6. Taken(new, given, turn + 1)
    BY <1>6, <2>5 DEF Taken
  <2>7. turn + 1 \in 0 .. n /\ (turn + 1) + 1 = turn + 2
    BY <1>3
  <2>8. ASSUME NoTables(given, turn + 1)
        PROVE  top.stack = SubSeq(given, turn + 2, n)
    <3>1. NoTables(given, turn) /\ given[turn + 1].kind # "table"
      BY <1>3, <2>8 DEF NoTables
    <3>2. QED
      BY <2>4, <3>1
  <2>9. Reading'
    BY <1>1, <1>2, <2>3, <2>6, <2>7, <2>8 DEF Reading
  <2>10. Testing' /\ HasRead' /\ Asked'
    BY <1>1, <1>2 DEF Testing, HasRead, Asked
  <2>11. QED
    BY <1>1, <1>2, <2>9, <2>10 DEF ArgumentsInv
<1>7. QED
  BY <1>5, <1>6

LEMMA ReadEndsStep ==
  ArgumentsInv /\ ReadEnds => ArgumentsInv'
<1> SUFFICES ASSUME ArgumentsInv, ReadEnds PROVE ArgumentsInv'
  OBVIOUS
<1>1. /\ given \in Given /\ Taken(inArguments, given, Len(given))
      /\ reached = NotReached
  BY DEF ArgumentsInv, Reading, Asked, ReadEnds
<1>2. /\ given' = given /\ phase' = "body" /\ inArguments' = inArguments
      /\ reached' = reached
  BY DEF ReadEnds
<1>3. QED
  BY <1>1, <1>2 DEF ArgumentsInv, Testing, Reading, HasRead, Asked

(* The callback looks at its arguments; it asks for what the script wrote. *)
LEMMA RefuseStep ==
  ArgumentsInv /\ Refuse => ArgumentsInv'
<1> SUFFICES ASSUME ArgumentsInv, Refuse PROVE ArgumentsInv'
  OBVIOUS
<1>1. /\ given \in Given /\ Taken(inArguments, given, Len(given))
      /\ reached = NotReached /\ callback \in RTDECallbacks
      /\ ~Accepts(callback, inArguments) \/ ~plugin_loaded
  BY DEF ArgumentsInv, HasRead, Asked, Refuse
<1>2. /\ given' = given /\ phase' = "done" /\ inArguments' = inArguments
      /\ reached' = reached /\ callback' = callback
      /\ plugin_loaded' = plugin_loaded
  BY DEF Refuse
<1>3. Accepts(callback, inArguments) <=> WellFormed(callback, given)
  BY <1>1, AcceptsFacts
<1>4. reached.call # callback
  BY <1>1 DEF NotReached, RTDECallbacks
<1>5. Answered
  BY <1>1, <1>3, <1>4 DEF Answered
<1>6. Answered'
  BY <1>2, <1>5 DEF Answered
<1>7. Asked' /\ HasRead'
  BY <1>1, <1>2, <1>6 DEF Asked, HasRead
<1>8. QED
  BY <1>1, <1>2, <1>7 DEF ArgumentsInv, Testing, Reading

LEMMA PerformStep ==
  ArgumentsInv /\ Perform => ArgumentsInv'
<1> SUFFICES ASSUME ArgumentsInv, Perform PROVE ArgumentsInv'
  OBVIOUS
<1>1. /\ given \in Given /\ Taken(inArguments, given, Len(given))
      /\ callback \in RTDECallbacks /\ Accepts(callback, inArguments)
  BY DEF ArgumentsInv, HasRead, Perform
<1>2. /\ given' = given /\ phase' \in {"write", "done"}
      /\ inArguments' = inArguments /\ callback' = callback
      /\ plugin_loaded' = TRUE
      /\ reached' = [call |-> callback, io |-> GetInt(inArguments, 0),
                     signal |-> GetBool(inArguments, 1)]
  BY DEF Perform
<1>3. /\ WellFormed(callback, given)
      /\ callback \in {"getIO", "setIO"} =>
           GetInt(inArguments, 0) = Truncated(given[1].num)
      /\ callback = "setIO" => GetBool(inArguments, 1) = given[2].bool
  BY <1>1, AcceptsFacts
<1>4. Answered'
  <2>1. reached'.call = callback' /\ reached'.io = GetInt(inArguments, 0)
        /\ reached'.signal = GetBool(inArguments, 1)
    BY <1>2
  <2>2. QED
    BY <1>2, <1>3, <2>1, Zenon DEF Answered
<1>5. Asked' /\ HasRead'
  BY <1>1, <1>2, <1>4 DEF Asked, HasRead
<1>6. QED
  BY <1>1, <1>2, <1>5 DEF ArgumentsInv, Testing, Reading

(* The rest leaves the arguments, and what was asked for, alone. *)
LEMMA RestSteps ==
  ASSUME ArgumentsInv,
         \/ Echo \/ Build \/ BodyEnds \/ WriteResults \/ UNCHANGED vars
  PROVE  ArgumentsInv'
<1>1. CASE UNCHANGED vars
  BY <1>1 DEF vars, ArgumentsInv, Testing, Reading, HasRead, Asked, Answered
<1>2. CASE Echo \/ Build \/ BodyEnds \/ WriteResults
  <2>1. /\ UNCHANGED <<given, callback, plugin_loaded, inArguments, reached>>
        /\ phase \in {"body", "write"} /\ phase' \in {"body", "write", "done"}
        /\ phase' = "body" => phase = "body"
        /\ phase = "body" => callback \notin RTDECallbacks \/ phase' = "body"
    BY <1>2 DEF Echo, Build, BodyEnds, WriteResults, RTDECallbacks
  <2>2. Answered => Answered'
    BY <2>1 DEF Answered
  <2>3. Asked'
    BY <2>1, <2>2 DEF ArgumentsInv, Asked
  <2>4. HasRead'
    BY <2>1 DEF ArgumentsInv, HasRead
  <2>5. QED
    BY <2>1, <2>3, <2>4 DEF ArgumentsInv, Testing, Reading
<1>3. QED
  BY <1>1, <1>2

LEMMA ArgumentsInit ==
  Init => ArgumentsInv
<1> SUFFICES ASSUME Init PROVE ArgumentsInv
  OBVIOUS
<1>1. /\ given \in Given /\ phase = "test" /\ turn = 0 /\ stack = given
      /\ allNumbers = TRUE /\ inArguments = CStackArray
      /\ reached = NotReached
  BY DEF Init
<1>2. given \in Seq(Range(given)) /\ Len(given) \in Nat
  BY <1>1, GivenFacts
<1>3. Turned(given, given, 0)
  BY <1>2 DEF Turned
<1>4. Numbers(given, 0) = TRUE
  BY DEF Numbers
<1>5. allNumbers = Numbers(given, turn)
  BY <1>1, <1>4
<1>6. turn \in 0 .. Len(given)
  BY <1>1, <1>2
<1>7. stack \in Seq(Range(given)) /\ Turned(stack, given, turn)
  BY <1>1, <1>2, <1>3
<1>8. Testing
  BY <1>1, <1>5, <1>6, <1>7, Zenon DEF Testing
<1>9. Reading /\ HasRead /\ Asked
  BY <1>1 DEF Reading, HasRead, Asked
<1>10. QED
  BY <1>1, <1>8, <1>9 DEF ArgumentsInv

LEMMA ArgumentsNext ==
  ArgumentsInv /\ [Next]_vars => ArgumentsInv'
BY TestItemStep, TestEndsStep, ReadItemStep, ReadEndsStep, RefuseStep,
   PerformStep, RestSteps DEF Next, Returned

(* A plugin function is carried out exactly when the script's call has the *)
(* arguments it is registered with and the plugin is initialised, and then *)
(* with what the script wrote: for any arguments, tables of any depth      *)
(* among them.                                                             *)
THEOREM CallsAreDispatched == Spec => []Dispatched
<1>1. ArgumentsInv => Dispatched
  BY DEF ArgumentsInv, Asked, Answered, Dispatched
<1>2. QED
  BY <1>1, ArgumentsInit, ArgumentsNext, PTL DEF Spec
=============================================================================
