----------------------- MODULE FunctionData_proofs ------------------------
(***************************************************************************)
(* Theorems about FunctionData for every value of its constants: calls with*)
(* any number of arguments and results, over a script stack or over the    *)
(* buffers of SLuaCallBack.  The strings given to CLuaFunctionData must end*)
(* at their first 0 (EndsOnce): it writes them with strlen in mind.        *)
(*                                                                         *)
(* First what FunctionContract says of a reader that takes items in order; *)
(* then the call over a stack: how CScriptFunctionData writes items, and   *)
(* that it reads them back as the contract says; then the buffers.         *)
(*                                                                         *)
(* The argument for the buffers: EndOf is the layout, where each item ends *)
(* in the buffer of its type.  The counting loop adds up the same cells the*)
(* writing loop puts there, each item at its place; the cursors of the     *)
(* reader pass from place to place.                                        *)
(***************************************************************************)
EXTENDS FunctionData, FunctionContract, Sequences_proofs

---------------------------------------------------------------------------
(* What FunctionContract says of a reader that takes the items in order. *)

(* One half of a call: what is sent, and what the reader asks for. *)
HalfCalls == [sent : Seq(Items), expected : Seq(Expectations), required : Nat]

(* What the reader holds after n items. *)
ReceivedUpto(c, n) ==
  [i \in 1 .. n |-> Received(c.sent[i], c.expected[i])]

(* A reader may have taken the first n of the items. *)
ReadUpto(converts, c, n) ==
  /\ n \in Nat /\ n <= Len(c.sent) /\ n <= Len(c.expected)
  /\ Len(c.sent) >= c.required
  /\ \A i \in 1 .. n : Passes(c, i) /\ Fits(converts, c.sent[i], c.expected[i])

(* There is one more to look at. *)
More(c, n) == n < Len(c.sent) /\ n < Len(c.expected)

(* The places looked at are those with an item and an expectation. *)
LEMMA LookedFacts ==
  ASSUME NEW c \in HalfCalls
  PROVE  /\ c.sent \in Seq(Items) /\ c.expected \in Seq(Expectations)
         /\ Len(c.sent) \in Nat /\ Len(c.expected) \in Nat
         /\ c.required \in Nat
         /\ \A i : i \in Looked(c) <=>
              i \in 1 .. Len(c.sent) /\ i \in 1 .. Len(c.expected)
<1>1. /\ c.sent \in Seq(Items) /\ c.expected \in Seq(Expectations)
      /\ c.required \in Nat
  BY DEF HalfCalls
<1>2. DOMAIN c.sent = 1 .. Len(c.sent) /\ DOMAIN c.expected = 1 .. Len(c.expected)
  BY <1>1
<1>3. Len(c.sent) \in Nat /\ Len(c.expected) \in Nat
  BY <1>1
<1>4. QED
  BY <1>1, <1>2, <1>3 DEF Looked

(* A place counts if every place up to it passes. *)
LEMMA CountedFacts ==
  ASSUME NEW c \in HalfCalls, NEW i
  PROVE  i \in Counted(c) <=>
           /\ i \in 1 .. Len(c.sent) /\ i \in 1 .. Len(c.expected)
           /\ \A j \in 1 .. i : Passes(c, j)
BY LookedFacts, Zenon DEF Counted

(* The items read so far are those that count when none is left, or when   *)
(* the next one is a nil that is not allowed.                              *)
LEMMA ReadAll ==
  ASSUME NEW converts \in BOOLEAN, NEW c \in HalfCalls, NEW n,
         ReadUpto(converts, c, n), More(c, n) => ~Passes(c, n + 1)
  PROVE  Counted(c) = 1 .. n
<1>1. /\ n \in Nat /\ n <= Len(c.sent) /\ n <= Len(c.expected)
      /\ \A i \in 1 .. n : Passes(c, i)
  BY DEF ReadUpto
<1>2. Len(c.sent) \in Nat /\ Len(c.expected) \in Nat
  BY LookedFacts
<1>3. ASSUME NEW i \in 1 .. n PROVE i \in Counted(c)
  <2>1. i \in 1 .. Len(c.sent) /\ i \in 1 .. Len(c.expected)
    BY <1>1, <1>2
  <2>2. \A j \in 1 .. i : Passes(c, j)
    BY <1>1
  <2>3. QED
    BY <2>1, <2>2, CountedFacts, Zenon
<1>4. ASSUME NEW i, i \in Counted(c), i \notin 1 .. n PROVE FALSE
  <2>1. /\ i \in 1 .. Len(c.sent) /\ i \in 1 .. Len(c.expected)
        /\ \A j \in 1 .. i : Passes(c, j)
    BY <1>4, CountedFacts, Zenon
  <2>2. n + 1 \in 1 .. i /\ More(c, n)
    BY <1>1, <1>2, <1>4, <2>1 DEF More
  <2>3. QED
    BY <2>1, <2>2
<1>5. QED
  BY <1>3, <1>4

(* A reader that ends there may deliver what it has. *)
LEMMA EndsDelivered ==
  ASSUME NEW converts \in BOOLEAN, NEW c \in HalfCalls, NEW n,
         ReadUpto(converts, c, n),
         More(c, n) => ~Passes(c, n + 1) /\ n >= c.required
  PROVE  /\ Deliverable(converts, c)
         /\ ReceivedUpto(c, n) =
              [i \in Counted(c) |-> Received(c.sent[i], c.expected[i])]
<1>1. Counted(c) = 1 .. n
  BY ReadAll
<1>2. /\ n \in Nat /\ n <= Len(c.sent) /\ n <= Len(c.expected)
      /\ Len(c.sent) >= c.required
      /\ \A i \in 1 .. n : Fits(converts, c.sent[i], c.expected[i])
  BY DEF ReadUpto
<1>3. /\ Len(c.sent) \in Nat /\ Len(c.expected) \in Nat /\ c.required \in Nat
      /\ \A i : i \in Looked(c) <=>
              i \in 1 .. Len(c.sent) /\ i \in 1 .. Len(c.expected)
  BY LookedFacts
<1>4. ASSUME 1 .. n # Looked(c), NEW i \in 1 .. c.required
      PROVE  i \in 1 .. n
  <2>1. CASE More(c, n)
    BY <1>2, <1>3, <2>1
  <2>2. CASE ~More(c, n)
    <3>1. \A j : j \in Looked(c) <=> j \in 1 .. n
      BY <1>2, <1>3, <2>2 DEF More
    <3>2. QED
      BY <1>4, <3>1
  <2>3. QED
    BY <2>1, <2>2
<1>5. Deliverable(converts, c)
  BY <1>1, <1>2, <1>4 DEF Deliverable
<1>6. QED
  BY <1>1, <1>5 DEF ReceivedUpto

(* One that refuses has a reason. *)
LEMMA EndsRefused ==
  ASSUME NEW converts \in BOOLEAN, NEW c \in HalfCalls, NEW n,
         ReadUpto(converts, c, n), More(c, n),
         IF Passes(c, n + 1)
         THEN ~Fits(converts, c.sent[n + 1], c.expected[n + 1])
         ELSE n < c.required
  PROVE  ~Deliverable(converts, c)
<1>1. /\ n \in Nat /\ n < Len(c.sent) /\ n < Len(c.expected)
      /\ \A i \in 1 .. n : Passes(c, i)
  BY DEF ReadUpto, More
<1>2. /\ Len(c.sent) \in Nat /\ Len(c.expected) \in Nat /\ c.required \in Nat
      /\ \A i : i \in Looked(c) <=>
              i \in 1 .. Len(c.sent) /\ i \in 1 .. Len(c.expected)
  BY LookedFacts
<1>3. n + 1 \in 1 .. Len(c.sent) /\ n + 1 \in 1 .. Len(c.expected)
  BY <1>1, <1>2
<1>4. CASE Passes(c, n + 1)
  <2>1. \A j \in 1 .. n + 1 : Passes(c, j)
    BY <1>1, <1>4
  <2>2. n + 1 \in Counted(c)
    BY <1>3, <2>1, CountedFacts, Zenon
  <2>3. QED
    BY <1>4, <2>2, Zenon DEF Deliverable
<1>5. CASE ~Passes(c, n + 1)
  <2>1. Counted(c) = 1 .. n
    BY <1>5, ReadAll
  <2>2. n + 1 \in Looked(c) /\ n + 1 \notin 1 .. n /\ n + 1 \in 1 .. c.required
    BY <1>1, <1>2, <1>3, <1>5
  <2>3. QED
    BY <2>1, <2>2, Zenon DEF Deliverable
<1>6. QED
  BY <1>4, <1>5

(* One item more. *)
LEMMA ReadOneMore ==
  ASSUME NEW converts \in BOOLEAN, NEW c \in HalfCalls, NEW n,
         ReadUpto(converts, c, n), More(c, n), Passes(c, n + 1),
         Fits(converts, c.sent[n + 1], c.expected[n + 1])
  PROVE  /\ ReadUpto(converts, c, n + 1)
         /\ Append(ReceivedUpto(c, n), Received(c.sent[n + 1], c.expected[n + 1]))
              = ReceivedUpto(c, n + 1)
<1>1. /\ n \in Nat /\ n < Len(c.sent) /\ n < Len(c.expected)
      /\ Len(c.sent) >= c.required
      /\ \A i \in 1 .. n :
           Passes(c, i) /\ Fits(converts, c.sent[i], c.expected[i])
  BY DEF ReadUpto, More
<1>2. Len(c.sent) \in Nat /\ Len(c.expected) \in Nat
  BY LookedFacts
<1>3. \A i \in 1 .. n + 1 : i \in 1 .. n \/ i = n + 1
  BY <1>1
<1>4. ReadUpto(converts, c, n + 1)
  BY <1>1, <1>2, <1>3 DEF ReadUpto
<1>5. QED
  BY <1>1, <1>4 DEF ReceivedUpto

---------------------------------------------------------------------------
(* Items and their values *)

(* What an item is made of; a simple item has one value. *)
LEMMA ItemFacts ==
  ASSUME NEW item \in Items
  PROVE  /\ item.type \in Types /\ item.table \in BOOLEAN
         /\ item.values \in Seq(Value)
         /\ Len(item.values) \in Nat /\ DOMAIN item.values = 1 .. Len(item.values)
         /\ \A i \in 1 .. Len(item.values) : item.values[i] \in ValuesOf(item.type)
         /\ item.table => item.type # "buffer"
         /\ ~item.table => Len(item.values) = 1
         /\ item = [type |-> item.type, table |-> item.table,
                    values |-> item.values]
<1>1. /\ item \in [type : Types, table : BOOLEAN, values : Seq(Value)]
      /\ item.values \in Seq(ValuesOf(item.type))
      /\ item.table => item.type # "buffer"
      /\ ~item.table => Len(item.values) = 1
  BY DEF Items
<1>2. item = [type |-> item.type, table |-> item.table, values |-> item.values]
  BY <1>1
<1>3. \A i \in 1 .. Len(item.values) : item.values[i] \in ValuesOf(item.type)
  BY <1>1
<1>4. QED
  BY <1>1, <1>2, <1>3

(* The kind of stack value each type is written as. *)
LEMMA KindOfFacts ==
  /\ Script!KindOf("nil") = "null"
  /\ Script!KindOf("bool") = "bool"
  /\ Script!KindOf("int") = "number"
  /\ Script!KindOf("float") = "number"
  /\ Script!KindOf("double") = "number"
  /\ Script!KindOf("string") = "string"
  /\ Script!KindOf("buffer") = "string"
<1>1. /\ Script!InfoType("nil") = 1 /\ Script!InfoType("bool") = 3
      /\ Script!InfoType("int") = 2 /\ Script!InfoType("float") = 2
      /\ Script!InfoType("double") = 2
      /\ Script!InfoType("string") = 4 /\ Script!InfoType("buffer") = 4
  BY DEF Script!InfoType
<1>2. /\ Script!TypeOfInfo[1] = "null" /\ Script!TypeOfInfo[2] = "number"
      /\ Script!TypeOfInfo[3] = "bool" /\ Script!TypeOfInfo[4] = "string"
  BY DEF Script!TypeOfInfo
<1>3. QED
  BY <1>1, <1>2, Zenon DEF Script!KindOf

(* A value is of the kind its type is written as. *)
LEMMA KindFacts ==
  ASSUME NEW type \in Types, NEW v \in ValuesOf(type)
  PROVE  /\ v.kind = Script!KindOf(type)
         /\ v.kind \in {"null", "number", "bool", "string"}
         /\ v = Nil <=> type = "nil"
<1>1. Nil.kind = "null"
  BY DEF Nil
<1>2. CASE type = "nil"
  <2>1. v = Nil
    BY <1>2 DEF ValuesOf
  <2>2. QED
    BY <1>1, <1>2, <2>1, KindOfFacts
<1>3. CASE type = "bool"
  <2>1. v.kind = "bool"
    BY <1>3 DEF ValuesOf
  <2>2. QED
    BY <1>1, <1>3, <2>1, KindOfFacts
<1>4. CASE type \in {"int", "float", "double"}
  <2>1. v.kind = "number"
    BY <1>4 DEF ValuesOf
  <2>2. QED
    BY <1>1, <1>4, <2>1, KindOfFacts
<1>5. CASE type \in {"string", "buffer"}
  <2>1. v.kind = "string"
    BY <1>5 DEF ValuesOf
  <2>2. QED
    BY <1>1, <1>5, <2>1, KindOfFacts
<1>6. QED
  BY <1>2, <1>3, <1>4, <1>5 DEF Types

(* Over the stack two types go together if they are written as one kind. *)
LEMMA GroupFacts ==
  ASSUME NEW t \in Types, NEW u \in Types
  PROVE  Script!KindOf(t) = Script!KindOf(u) <=> Group(TRUE, t) = Group(TRUE, u)
<1>1. /\ Group(TRUE, "nil") = "nil" /\ Group(TRUE, "bool") = "bool"
      /\ Group(TRUE, "int") = "number" /\ Group(TRUE, "float") = "number"
      /\ Group(TRUE, "double") = "number"
      /\ Group(TRUE, "string") = "text" /\ Group(TRUE, "buffer") = "text"
  BY DEF Group
<1>2. QED
  BY <1>1, KindOfFacts DEF Types

---------------------------------------------------------------------------
(* The script stack *)

(* What stands on the stack for an item. *)
StackValue(item) ==
  IF item.table THEN Script!Array(item.values) ELSE item.values[1]

(* A new entry at the end of the table at the top of the stack. *)
InsertsNext(s, n, pairs, v) ==
  Script!InsertDataIntoStackTable(
    Append(s, Script!Table(pairs)) \o <<Script!Number(2 * (n + 1)), v>>)
  = Append(s, Script!Table(Append(pairs, <<Script!Number(2 * (n + 1)), v>>)))

(* insertDataIntoStackTable adds the next key to the array on top. *)
LEMMA InsertFacts ==
  ASSUME NEW S, NEW s \in Seq(S), NEW n \in Nat, NEW pairs, NEW v,
         DOMAIN pairs = 1 .. n,
         \A i \in 1 .. n : pairs[i][1] = Script!Number(2 * i)
  PROVE  InsertsNext(s, n, pairs, v)
<1>1. PICK key : key = Script!Number(2 * (n + 1))
  OBVIOUS
<1>2. PICK t : t = Script!Table(pairs)
  OBVIOUS
<1>3. PICK m : m = Len(s)
  OBVIOUS
<1>4. m \in Nat
  BY <1>3
<1>5. PICK all : all = Append(s, t) \o <<key, v>>
  OBVIOUS
<1>6. PICK U : S \subseteq U /\ t \in U /\ key \in U /\ v \in U
  <2>1. S \subseteq S \cup {t, key, v}
    OBVIOUS
  <2>2. QED
    BY <2>1
<1>7. /\ Len(all) = m + 3 /\ all[m + 1] = t /\ all[m + 2] = key
      /\ all[m + 3] = v /\ SubSeq(all, 1, m) = s
  <2>1. s \in Seq(U)
    BY <1>6
  <2>2. all \in Seq(U) /\ Len(all) = m + 3
    BY <1>3, <1>4, <1>5, <1>6, <2>1
  <2>3. all[m + 1] = t /\ all[m + 2] = key /\ all[m + 3] = v
    BY <1>3, <1>4, <1>5, <1>6, <2>1
  <2>4. \A i \in 1 .. m : all[i] = s[i]
    BY <1>3, <1>4, <1>5, <1>6, <2>1
  <2>5. SubSeq(all, 1, m) = s
    BY <1>3, <1>4, <2>1, <2>2, <2>4
  <2>6. QED
    BY <2>2, <2>3, <2>5
<1>8. m + 3 - 2 = m + 1 /\ m + 3 - 1 = m + 2 /\ m + 3 - 3 = m
  BY <1>4
<1>9. t.pairs = pairs
  BY <1>2 DEF Script!Table
<1>10. {i \in DOMAIN pairs : pairs[i][1] = key} = {}
  <2>1. key.num = 2 * (n + 1)
    BY <1>1 DEF Script!Number
  <2>2. ASSUME NEW i \in 1 .. n, pairs[i][1] = key
        PROVE  FALSE
    <3>1. Script!Number(2 * i).num = 2 * i
      BY DEF Script!Number
    <3>2. key = Script!Number(2 * i)
      BY <2>2
    <3>3. QED
      BY <2>1, <3>1, <3>2
  <2>3. QED
    BY <2>2
<1>11. Script!InsertDataIntoStackTable(all) = Append(s, Script!Table(Append(pairs, <<key, v>>)))
  <2>1. all[Len(all) - 2] = t /\ all[Len(all) - 1] = key /\ all[Len(all)] = v
        /\ SubSeq(all, 1, Len(all) - 3) = s
    <3>1. Len(all) = m + 3
      BY <1>7
    <3>2. Len(all) - 2 = m + 1 /\ Len(all) - 1 = m + 2 /\ Len(all) - 3 = m
      BY <1>4, <3>1
    <3>3. QED
      BY <1>7, <3>1, <3>2, Zenon
  <2>2. <<key, v>>[1] = key
    OBVIOUS
  <2>3. QED
    BY <1>9, <1>10, <2>1, <2>2, Zenon DEF Script!InsertDataIntoStackTable
<1>12. QED
  BY <1>1, <1>2, <1>5, <1>11, Zenon DEF InsertsNext


(* _writeItem leaves one more stack value, the item: a table is built key  *)
(* by key and ends as the array of its values.                             *)
LEMMA PushItemFacts ==
  ASSUME NEW S, NEW s \in Seq(S), NEW item \in Items
  PROVE  Script!PushItem(s, item) = Append(s, StackValue(item))
<1>1. PICK n : n = Len(item.values)
  OBVIOUS
<1>2. n \in Nat /\ DOMAIN item.values = 1 .. n
  BY <1>1, ItemFacts
<1> DEFINE Solves(f) ==
             f = [i \in 0 .. n |->
                    IF i = 0 THEN Append(s, Script!Table(<< >>))
                    ELSE Script!InsertDataIntoStackTable(
                           f[i - 1] \o <<Script!Number(2 * i), item.values[i]>>)]
           Pairs(i) == [j \in 1 .. i |-> <<Script!Number(2 * j), item.values[j]>>]
           g == [i \in 0 .. n |-> Append(s, Script!Table(Pairs(i)))]
<1>3. ASSUME NEW i \in 1 .. n
      PROVE  g[i] = Script!InsertDataIntoStackTable(
                      g[i - 1] \o <<Script!Number(2 * i), item.values[i]>>)
  <2>1. PICK k \in Nat : k = i - 1
    OBVIOUS
  <2>2. /\ g[i - 1] = Append(s, Script!Table(Pairs(k)))
        /\ g[i] = Append(s, Script!Table(Pairs(k + 1)))
    BY <1>2, <2>1
  <2>3. \A j \in 1 .. k : Pairs(k)[j][1] = Script!Number(2 * j)
    OBVIOUS
  <2>4. Append(Pairs(k), <<Script!Number(2 * (k + 1)), item.values[k + 1]>>)
          = Pairs(k + 1)
    OBVIOUS
  <2>5. DOMAIN Pairs(k) = 1 .. k
    OBVIOUS
  <2> HIDE DEF g, Pairs
  <2>6. Script!InsertDataIntoStackTable(
           Append(s, Script!Table(Pairs(k)))
             \o <<Script!Number(2 * (k + 1)), item.values[k + 1]>>)
         = Append(s, Script!Table(Append(Pairs(k),
                    <<Script!Number(2 * (k + 1)), item.values[k + 1]>>)))
    <3>1. PICK pairs : pairs = Pairs(k)
      OBVIOUS
    <3>2. PICK v : v = item.values[k + 1]
      OBVIOUS
    <3>3. DOMAIN pairs = 1 .. k /\ \A j \in 1 .. k : pairs[j][1] = Script!Number(2 * j)
      BY <2>3, <2>5, <3>1, Zenon
    <3>4. InsertsNext(s, k, pairs, v)
      BY <2>1, <3>3, InsertFacts, Zenon
    <3>5. QED
      BY <3>1, <3>2, <3>4, Zenon DEF InsertsNext
  <2>7. i = k + 1
    BY <2>1
  <2>8. QED
    BY <2>2, <2>4, <2>6, <2>7, Zenon
<1>4. g[0] = Append(s, Script!Table(<< >>))
  <2>1. Pairs(0) = << >>
    OBVIOUS
  <2>2. 0 \in 0 .. n
    BY <1>2
  <2>3. QED
    BY <2>1, <2>2
<1>5. Solves(g)
  <2>1. \A i \in 0 .. n : i = 0 \/ i \in 1 .. n
    BY <1>2
  <2>2. \A i \in 0 .. n : g[i] =
                    IF i = 0 THEN Append(s, Script!Table(<< >>))
                    ELSE Script!InsertDataIntoStackTable(
                           g[i - 1] \o <<Script!Number(2 * i), item.values[i]>>)
    BY <1>3, <1>4, <2>1, Zenon
  <2>3. g = [i \in 0 .. n |-> g[i]]
    OBVIOUS
  <2> HIDE DEF g
  <2>4. QED
    BY <2>2, <2>3, Zenon
<1> DEFINE f == CHOOSE f : Solves(f)
<1>6. Solves(f)
  <2> HIDE DEF g, Solves
  <2>1. QED
    BY <1>5, Zenon
<1>7. item.table => Script!PushItem(s, item) = f[n]
  BY <1>1 DEF Script!PushItem
<1> HIDE DEF f
<1>8. f[0] = g[0] /\ \A i \in 1 .. n : f[i - 1] = g[i - 1] => f[i] = g[i]
  <2>1. \A i \in 0 .. n : f[i] =
                    IF i = 0 THEN Append(s, Script!Table(<< >>))
                    ELSE Script!InsertDataIntoStackTable(
                           f[i - 1] \o <<Script!Number(2 * i), item.values[i]>>)
    BY <1>6, Zenon
  <2>2. 0 \in 0 .. n /\ \A i \in 1 .. n : i \in 0 .. n /\ i # 0
    BY <1>2
  <2> HIDE DEF g, Solves
  <2>3. QED
    BY <1>3, <1>4, <2>1, <2>2, Zenon
<1>9. f[n] = g[n]
  <2> HIDE DEF g, Solves
  <2>1. QED
    BY <1>2, <1>8, SameUpto, Zenon
<1>10. item.table => Script!Table(Pairs(n)) = StackValue(item)
  BY <1>2 DEF StackValue, Script!Array
<1>11. CASE item.table
  <2>1. g[n] = Append(s, Script!Table(Pairs(n)))
    BY <1>2
  <2> HIDE DEF g, Pairs
  <2>2. QED
    BY <1>7, <1>9, <1>10, <1>11, <2>1, Zenon
<1>12. CASE ~item.table
  BY <1>12 DEF Script!PushItem, StackValue
<1>13. QED
  BY <1>11, <1>12

(* What simUnfoldStackTable leaves of an array above r. *)
Unfolded(U, r, values, u) ==
  /\ u \in Seq(U)
  /\ Len(u) = Len(r) + 2 * Len(values)
  /\ \A i \in 1 .. Len(values) : u[Len(r) + 2 * i] = values[i]
  /\ SubSeq(u, 1, Len(r)) = r

(* s is r with v on top. *)
TopOf(s, r, v) == Script!Front(s) = r /\ Script!Last(s) = v

(* What is appended is on top. *)
LEMMA TopFacts ==
  ASSUME NEW S, NEW r \in Seq(S), NEW v
  PROVE  TopOf(Append(r, v), r, v)
<1>1. r \in Seq(S \cup {v}) /\ v \in S \cup {v}
  OBVIOUS
<1>2. Script!Last(Append(r, v)) = v
  BY <1>1 DEF Script!Last
<1>3. Script!Front(Append(r, v)) = r
  BY <1>1 DEF Script!Front
<1>4. QED
  BY <1>2, <1>3 DEF TopOf

(* An array on the stack *)
IsArrayOf(v, n, values) ==
  /\ v.kind = "table"
  /\ DOMAIN v.pairs = 1 .. n /\ Len(v.pairs) = n
  /\ \A i \in 1 .. n :
       v.pairs[i][1] = Script!Number(2 * i) /\ v.pairs[i][2] = values[i]

(* An array table has its values under the keys 1 to n. *)
LEMMA ArrayFacts ==
  ASSUME NEW n \in Nat, NEW values, DOMAIN values = 1 .. n
  PROVE  IsArrayOf(Script!Array(values), n, values)
<1> DEFINE pairs == [i \in 1 .. n |-> <<Script!Number(2 * i), values[i]>>]
<1>1. Script!Array(values).kind = "table" /\ Script!Array(values).pairs = pairs
  BY DEF Script!Array, Script!Table
<1>2. DOMAIN pairs = 1 .. n /\ Len(pairs) = n
  OBVIOUS
<1>3. ASSUME NEW i \in 1 .. n
      PROVE  pairs[i][1] = Script!Number(2 * i) /\ pairs[i][2] = values[i]
  <2>1. pairs[i] = <<Script!Number(2 * i), values[i]>>
    OBVIOUS
  <2>2. QED
    BY <2>1
<1>4. QED
  BY <1>1, <1>2, <1>3, Zenon DEF IsArrayOf

(* The first m of u are r. *)
StartsWith(u, m, r) == SubSeq(u, 1, m) = r

(* A sequence starts with another if it agrees with it that far. *)
LEMMA PrefixFacts ==
  ASSUME NEW U, NEW u \in Seq(U), NEW r \in Seq(U), NEW m \in Nat,
         m = Len(r), m <= Len(u), \A k \in 1 .. m : u[k] = r[k]
  PROVE  StartsWith(u, m, r)
BY DEF StartsWith

(* simUnfoldStackTable replaces an array on top by its keys and values and *)
(* leaves what is below alone.                                             *)
LEMMA UnfoldFacts ==
  ASSUME NEW S, NEW r \in Seq(S), NEW T, NEW values \in Seq(T)
  PROVE  \E U : Unfolded(U, r, values,
                  Script!UnfoldStackTable(Append(r, Script!Array(values))))
<1>1. PICK n \in Nat : n = Len(values)
  OBVIOUS
<1>2. PICK m \in Nat : m = Len(r)
  OBVIOUS
<1>3. DOMAIN values = 1 .. n /\ \A i \in 1 .. n : values[i] \in T
  BY <1>1
<1>4. PICK pairs : pairs = Script!Array(values).pairs
  OBVIOUS
<1>5. Len(pairs) = n /\ \A i \in 1 .. n : /\ pairs[i][1] = Script!Number(2 * i)
                                          /\ pairs[i][2] = values[i]
  <2>1. IsArrayOf(Script!Array(values), n, values)
    BY <1>1, <1>3, ArrayFacts, Zenon
  <2>2. QED
    BY <1>4, <2>1, Zenon DEF IsArrayOf
<1> DEFINE w == [i \in 1 .. 2 * n |-> pairs[(i + 1) \div 2][IF i % 2 = 1 THEN 1 ELSE 2]]
           U == S \cup {w[i] : i \in 1 .. 2 * n}
<1>6. \A i \in 1 .. n : 2 * i \in 1 .. 2 * n /\ w[2 * i] = values[i]
  <2>1. TAKE i \in 1 .. n
  <2>2. 2 * i \in 1 .. 2 * n /\ (2 * i + 1) \div 2 = i /\ (2 * i) % 2 = 0
    OBVIOUS
  <2>3. w[2 * i] = pairs[i][2]
    BY <2>2
  <2>4. QED
    BY <1>5, <2>2, <2>3
<1>7. w \in Seq(U) /\ Len(w) = 2 * n /\ r \in Seq(U)
  <2>1. \A i \in 1 .. 2 * n : w[i] \in U
    OBVIOUS
  <2>2. DOMAIN w = 1 .. 2 * n /\ 2 * n \in Nat /\ w = [i \in 1 .. 2 * n |-> w[i]]
    OBVIOUS
  <2>3. S \subseteq U
    OBVIOUS
  <2>4. r \in Seq(U)
    <3> HIDE DEF U
    <3>1. QED
      BY <2>3
  <2> HIDE DEF w, U
  <2>5. w \in Seq(U) /\ Len(w) = 2 * n
    <3>1. PICK k \in Nat : k = 2 * n
      BY <2>2
    <3>2. w \in [1 .. k -> U]
      BY <2>1, <2>2, <3>1, Zenon
    <3>3. w \in Seq(U) /\ Len(w) = k
      BY <3>2
    <3>4. QED
      BY <3>1, <3>3
  <2>6. QED
    BY <2>4, <2>5
<1>8. Script!UnfoldStackTable(Append(r, Script!Array(values))) = r \o w
  <2>1. PICK v : v = Script!Array(values)
    OBVIOUS
  <2>2. Script!Front(Append(r, v)) = r /\ Script!Last(Append(r, v)) = v
    <3>1. TopOf(Append(r, v), r, v)
      BY TopFacts, Zenon
    <3>2. QED
      BY <3>1, Zenon DEF TopOf
  <2>3. v.pairs = pairs
    BY <1>4, <2>1, Zenon
  <2>4. QED
    BY <1>5, <2>1, <2>2, <2>3, Zenon DEF Script!UnfoldStackTable
<1> HIDE DEF w, U
<1>9. PICK u : u = r \o w
  OBVIOUS
<1>10. Concatenated(U, r, w, u)
  BY <1>7, <1>9, ConcatFacts, Zenon
<1>11. Unfolded(U, r, values, u)
  <2>1. /\ u \in Seq(U) /\ Len(u) = m + 2 * n
        /\ \A k \in 1 .. m : u[k] = r[k]
        /\ \A k \in 1 .. 2 * n : u[m + k] = w[k]
    BY <1>2, <1>7, <1>10 DEF Concatenated
  <2>2. \A i \in 1 .. n : u[m + 2 * i] = values[i]
    BY <1>6, <2>1
  <2>3. SubSeq(u, 1, m) = r
    <3>1. m <= m + 2 * n
      OBVIOUS
    <3>2. StartsWith(u, m, r)
      BY <1>2, <1>7, <2>1, <3>1, PrefixFacts, Zenon
    <3>3. QED
      BY <3>2, Zenon DEF StartsWith
  <2>4. QED
    BY <1>1, <1>2, <2>1, <2>2, <2>3, Zenon DEF Unfolded
<1>12. QED
  BY <1>8, <1>9, <1>11, Zenon

(* simGetStackTableInfo gives an array its length. *)
LEMMA TableSizeFacts ==
  ASSUME NEW n \in Nat, NEW values, NEW s, IsArrayOf(Script!Last(s), n, values)
  PROVE  Script!TableSize(s) = n
<1>1. /\ Script!Last(s).kind = "table"
      /\ DOMAIN Script!Last(s).pairs = 1 .. n /\ Len(Script!Last(s).pairs) = n
      /\ \A i \in 1 .. n : Script!Last(s).pairs[i][1] = Script!Number(2 * i)
  BY Zenon DEF IsArrayOf
<1>2. Script!IsArrayTable(Script!Last(s).pairs)
  BY <1>1, Zenon DEF Script!IsArrayTable
<1>3. QED
  BY <1>1, <1>2 DEF Script!TableSize

(* Above m places, k pairs: the top is the value of the last, and popping  *)
(* two leaves k - 1 pairs.                                                 *)
PopsPair(u, m, k) ==
  /\ Script!Last(SubSeq(u, 1, m + 2 * k)) = u[m + 2 * k]
  /\ Script!PopStackItem(SubSeq(u, 1, m + 2 * k), 2)
       = SubSeq(u, 1, m + 2 * (k - 1))

(* Reading from the top down takes the pairs one by one. *)
LEMMA PopFacts ==
  ASSUME NEW U, NEW u \in Seq(U), NEW m \in Nat, NEW k \in Nat \ {0},
         m + 2 * k <= Len(u)
  PROVE  PopsPair(u, m, k)
<1>1. PICK l \in Nat : l = m + 2 * k
  OBVIOUS
<1>2. l >= 2 /\ l <= Len(u) /\ l - 2 = m + 2 * (k - 1) /\ l - 2 \in Nat
  BY <1>1
<1>3. PICK w : w = SubSeq(u, 1, l)
  OBVIOUS
<1>4. w \in Seq(U) /\ Len(w) = l /\ \A i \in 1 .. l : w[i] = u[i]
  BY <1>1, <1>2, <1>3
<1>5. Script!Last(w) = u[l]
  BY <1>2, <1>4 DEF Script!Last
<1>6. SubSeq(w, 1, l - 2) = SubSeq(u, 1, l - 2)
  BY <1>2, <1>4
<1>7. Script!PopStackItem(w, 2) = SubSeq(u, 1, l - 2)
  BY <1>4, <1>6 DEF Script!PopStackItem
<1>8. QED
  BY <1>1, <1>2, <1>3, <1>5, <1>7, Zenon DEF PopsPair

(* A table is read into the values the getters return, and what was below  *)
(* it comes to the top.                                                    *)
ReadsTable(r, values, type, read) ==
  /\ read.item = [type |-> type, table |-> TRUE,
                  values |-> [i \in 1 .. Len(values) |->
                                Script!Got(values[i], type)]]
  /\ Script!PopStackItem(read.stack, 1) = r

(* Popping one value leaves what was below it. *)
LEMMA PopOneFacts ==
  ASSUME NEW S, NEW r \in Seq(S), NEW v
  PROVE  Script!PopStackItem(Append(r, v), 1) = r
<1>1. r \in Seq(S \cup {v}) /\ v \in S \cup {v}
  OBVIOUS
<1>2. QED
  BY <1>1 DEF Script!PopStackItem

(* The last k values of F, which has n. *)
LastOf(F, n, k) == [j \in 1 .. k |-> F[n - k + j]]

(* The reader puts each value it pops in front of those it has. *)
Prepends(F, n, k) == <<F[n - k + 1]>> \o LastOf(F, n, k - 1) = LastOf(F, n, k)

(* Popping from the top down and prepending restores the order. *)
LEMMA PrependFacts ==
  ASSUME NEW n \in Nat, NEW k \in 1 .. n, NEW F, DOMAIN F = 1 .. n
  PROVE  Prepends(F, n, k)
<1> DEFINE V == {F[j] : j \in 1 .. n}
           a == <<F[n - k + 1]>>
           b == [j \in 1 .. k - 1 |-> F[n - (k - 1) + j]]
           d == [j \in 1 .. k |-> F[n - k + j]]
<1>1. \A j \in 1 .. n : F[j] \in V
  OBVIOUS
<1>2. n - k + 1 \in 1 .. n /\ \A j \in 1 .. k - 1 : n - (k - 1) + j \in 1 .. n
      /\ n - (k - 1) + j = n - k + (j + 1)
  OBVIOUS
<1>3. \A j \in 1 .. k : n - k + j \in 1 .. n
  OBVIOUS
<1> HIDE DEF V
<1>4. b \in Seq(V) /\ Len(b) = k - 1
  BY <1>1, <1>2
<1>5. d \in Seq(V) /\ Len(d) = k
  BY <1>1, <1>3
<1>6. a \in Seq(V) /\ Len(a) = 1 /\ a[1] = F[n - k + 1]
  BY <1>1, <1>2
<1>7. \A j \in 1 .. k - 1 : b[j] = F[n - k + (j + 1)]
  BY <1>2
<1>8. \A j \in 1 .. k : d[j] = F[n - k + j]
  OBVIOUS
<1> HIDE DEF a, b, d
<1>9. PICK c : c = a \o b
  OBVIOUS
<1>10. Concatenated(V, a, b, c)
  BY <1>4, <1>6, <1>9, ConcatFacts, Zenon
<1>11. c \in Seq(V) /\ Len(c) = k /\ c[1] = a[1]
       /\ \A j \in 1 .. k - 1 : c[1 + j] = b[j]
  BY <1>4, <1>6, <1>10 DEF Concatenated
<1>12. \A j \in 1 .. k : c[j] = d[j]
  <2>1. TAKE j \in 1 .. k
  <2>2. CASE j = 1
    BY <1>6, <1>8, <1>11, <2>2
  <2>3. CASE j # 1
    <3>1. PICK i \in 1 .. k - 1 : i = j - 1
      BY <2>3
    <3>2. c[1 + i] = F[n - k + (i + 1)]
      BY <1>7, <1>11
    <3>3. QED
      BY <1>8, <3>1, <3>2
  <2>4. QED
    BY <2>2, <2>3
<1>13. c = d
  BY <1>5, <1>11, <1>12, SeqEqual
<1>14. QED
  BY <1>9, <1>13 DEF a, b, d, Prepends, LastOf


(* Reading an unfolded array gives its values in order, each converted,    *)
(* and leaves the stack below it: the recursion is followed from the last  *)
(* value to the first.                                                     *)
LEMMA ReadUnfoldedFacts ==
  ASSUME NEW S, NEW r \in Seq(S), NEW T, NEW values \in Seq(T), NEW type
  PROVE  ReadsTable(r, values, type,
           Script!ReadUnfolded(Append(r, Script!Array(values)), type))
<1>1. PICK n \in Nat : n = Len(values)
  OBVIOUS
<1>2. PICK m \in Nat : m = Len(r)
  OBVIOUS
<1>3. DOMAIN values = 1 .. n
  BY <1>1
<1>4. PICK s : s = Append(r, Script!Array(values))
  OBVIOUS
<1>5. PICK u : u = Script!UnfoldStackTable(s)
  OBVIOUS
<1>6. PICK U : Unfolded(U, r, values, u)
  BY <1>4, <1>5, UnfoldFacts, Zenon
<1>7. /\ u \in Seq(U) /\ Len(u) = m + 2 * n
      /\ \A i \in 1 .. n : u[m + 2 * i] = values[i]
      /\ SubSeq(u, 1, m) = r
  BY <1>1, <1>2, <1>6, Zenon DEF Unfolded
<1>8. Script!TableSize(s) = n
  <2>1. TopOf(s, r, Script!Array(values))
    BY <1>4, TopFacts, Zenon
  <2>2. IsArrayOf(Script!Array(values), n, values)
    BY <1>3, ArrayFacts, Zenon
  <2>3. QED
    BY <2>1, <2>2, TableSizeFacts, Zenon DEF TopOf
<1> DEFINE G == [i \in 1 .. n |-> Script!Got(values[i], type)]
           Solves(f) ==
             f = [i \in 0 .. n |->
                    IF i = 0 THEN [values |-> << >>, stack |-> u]
                    ELSE [values |-> <<Script!Got(Script!Last(f[i - 1].stack), type)>>
                                       \o f[i - 1].values,
                          stack |-> Script!PopStackItem(f[i - 1].stack, 2)]]
           g == [i \in 0 .. n |-> [values |-> LastOf(G, n, i),
                                  stack |-> SubSeq(u, 1, m + 2 * (n - i))]]
<1>9. ASSUME NEW i \in 1 .. n
      PROVE  g[i] = [values |-> <<Script!Got(Script!Last(g[i - 1].stack), type)>>
                                  \o g[i - 1].values,
                     stack |-> Script!PopStackItem(g[i - 1].stack, 2)]
  <2>0. n - (i - 1) \in 1 .. n
    BY <1>1
  <2>1. PICK k \in 1 .. n : k = n - (i - 1)
    BY <2>0
  <2>2. /\ g[i - 1].values = LastOf(G, n, i - 1)
        /\ g[i - 1].stack = SubSeq(u, 1, m + 2 * k)
        /\ g[i] = [values |-> LastOf(G, n, i),
                   stack |-> SubSeq(u, 1, m + 2 * (k - 1))]
    <3>1. k - 1 = n - i /\ i - 1 \in 0 .. n /\ i \in 0 .. n
      BY <1>1, <2>1
    <3>2. QED
      BY <2>1, <3>1
  <2>3. G[n - i + 1] = Script!Got(u[m + 2 * k], type)
    <3>1. n - i + 1 = k
      BY <1>1, <2>1
    <3>2. QED
      BY <1>7, <3>1
  <2>4. DOMAIN G = 1 .. n
    OBVIOUS
  <2> HIDE DEF g, G
  <2>5. PopsPair(u, m, k)
    <3>1. k \in Nat \ {0} /\ m + 2 * k <= Len(u)
      BY <1>1, <1>2, <1>7
    <3>2. QED
      BY <1>2, <1>7, <3>1, PopFacts, Zenon
  <2>6. Prepends(G, n, i)
    BY <2>4, PrependFacts, Zenon
  <2>7. QED
    BY <2>2, <2>3, <2>5, <2>6, Zenon DEF PopsPair, Prepends
<1>10. g[0] = [values |-> << >>, stack |-> u]
  <2>1. LastOf(G, n, 0) = << >>
    BY DEF LastOf
  <2>2. SubSeq(u, 1, m + 2 * (n - 0)) = u
    BY <1>7
  <2>3. 0 \in 0 .. n
    OBVIOUS
  <2> HIDE DEF G
  <2>4. QED
    BY <2>1, <2>2, <2>3
<1>11. Solves(g)
  <2>1. \A i \in 0 .. n : i = 0 \/ i \in 1 .. n
    OBVIOUS
  <2>2. g = [i \in 0 .. n |-> g[i]]
    OBVIOUS
  <2> HIDE DEF g
  <2>3. QED
    BY <1>9, <1>10, <2>1, <2>2, Zenon
<1> DEFINE f == CHOOSE f : Solves(f)
<1>12. Solves(f)
  <2> HIDE DEF g, Solves
  <2>1. QED
    BY <1>11, Zenon
<1>13. Script!ReadUnfolded(s, type) =
         [item |-> Script!TableItem(type, f[n].values),
          stack |-> Append(f[n].stack, Script!Table(<< >>))]
  BY <1>5, <1>8 DEF Script!ReadUnfolded
<1> HIDE DEF f
<1>14. f[0] = g[0] /\ \A i \in 1 .. n : f[i - 1] = g[i - 1] => f[i] = g[i]
  <2>1. /\ f[0] = [values |-> << >>, stack |-> u]
        /\ \A i \in 1 .. n : f[i] =
              [values |-> <<Script!Got(Script!Last(f[i - 1].stack), type)>>
                            \o f[i - 1].values,
               stack |-> Script!PopStackItem(f[i - 1].stack, 2)]
    <3>1. \A i \in 0 .. n : f[i] =
                    IF i = 0 THEN [values |-> << >>, stack |-> u]
                    ELSE [values |-> <<Script!Got(Script!Last(f[i - 1].stack), type)>>
                                       \o f[i - 1].values,
                          stack |-> Script!PopStackItem(f[i - 1].stack, 2)]
      BY <1>12, Zenon
    <3>2. 0 \in 0 .. n /\ \A i \in 1 .. n : i \in 0 .. n /\ i # 0
      OBVIOUS
    <3>3. QED
      BY <3>1, <3>2, Zenon
  <2> HIDE DEF g, Solves
  <2>2. QED
    BY <1>9, <1>10, <2>1, Zenon
<1>15. f[n] = g[n]
  <2> HIDE DEF g, Solves
  <2>1. QED
    BY <1>14, SameUpto, Zenon
<1>16. g[n].values = G /\ g[n].stack = r
  <2>1. LastOf(G, n, n) = G
    BY DEF LastOf
  <2>2. m + 2 * (n - n) = m /\ n \in 0 .. n
    OBVIOUS
  <2>3. QED
    BY <1>7, <2>1, <2>2
<1>17. Script!PopStackItem(Append(r, Script!Table(<< >>)), 1) = r
  BY PopOneFacts, Zenon
<1> HIDE DEF f, g
<1>18. QED
  <2>1. PICK read : read = Script!ReadUnfolded(s, type)
    OBVIOUS
  <2>2. PICK values1 : values1 = f[n].values
    OBVIOUS
  <2>3. PICK stack1 : stack1 = f[n].stack
    OBVIOUS
  <2>4. read = [item |-> Script!TableItem(type, values1),
                stack |-> Append(stack1, Script!Table(<< >>))]
    BY <1>13, <2>1, <2>2, <2>3, Zenon
  <2>5. /\ read.item = Script!TableItem(type, values1)
        /\ read.stack = Append(stack1, Script!Table(<< >>))
    BY <2>4
  <2>6. values1 = [i \in 1 .. Len(values) |-> Script!Got(values[i], type)]
        /\ stack1 = r
    BY <1>1, <1>15, <1>16, <2>2, <2>3, Zenon
  <2>7. ReadsTable(r, values, type, read)
    BY <1>17, <2>5, <2>6, Zenon DEF ReadsTable, Script!TableItem
  <2>8. QED
    BY <1>4, <2>1, <2>7, Zenon

(* Values mean the same to the stack and to the contract. *)
LEMMA SameNames ==
  /\ Script!Nil = Nil
  /\ \A n : Script!Truncated(n) = Truncated(n) /\ Script!Number(n) = Number(n)
  /\ \A n : Script!Rounded(n) = Rounded(n)
  /\ \A s : Script!CString(s) = CString(s) /\ Script!String(s) = String(s)
<1>1. Script!Nil = Nil
  BY DEF Script!Nil, Nil
<1>2. ASSUME NEW n
      PROVE  Script!Truncated(n) = Truncated(n) /\ Script!Number(n) = Number(n)
  BY DEF Script!Truncated, Truncated, Script!Number, Number
<1>3. ASSUME NEW s
      PROVE  Script!CString(s) = CString(s) /\ Script!String(s) = String(s)
  BY DEF Script!CString, CString, Script!String, String, Script!NUL, NUL
<1>4. ASSUME NEW n PROVE Script!Rounded(n) = Rounded(n)
  BY Zenon DEF Script!Rounded, Rounded, Script!FloatDigits, FloatDigits,
     Script!FloatExponent, FloatExponent
<1>5. QED
  BY <1>1, <1>2, <1>3, <1>4

(* The getters return what FunctionContract says is received. *)
LEMMA ReceivedFacts ==
  ASSUME NEW item \in Items, NEW e, ~IsNil(item)
  PROVE  Received(item, e) =
           [type |-> e.type, table |-> e.table,
            values |-> [i \in 1 .. Len(item.values) |->
                          Script!Got(item.values[i], e.type)]]
<1>1. DOMAIN item.values = 1 .. Len(item.values)
  BY ItemFacts
<1>2. \A v : Script!Got(v, e.type) = Converted(v, e.type)
  BY SameNames, Zenon DEF Script!Got, Converted
<1>3. QED
  BY <1>1, <1>2, Zenon DEF Received

(* Reading a table gives its values and takes it off the stack. *)
LEMMA ReadTableFacts ==
  ASSUME NEW S, NEW r \in Seq(S), NEW T, NEW values \in Seq(T), NEW type
  PROVE  ReadsTable(r, values, type,
           Script!ReadTable(Append(r, Script!Array(values)), type))
<1>1. PICK n \in Nat : n = Len(values)
  OBVIOUS
<1>2. DOMAIN values = 1 .. n
  BY <1>1
<1>3. PICK s : s = Append(r, Script!Array(values))
  OBVIOUS
<1>4. CASE type \in {"bool", "string"}
  <2>1. Script!ReadTable(s, type) = Script!ReadUnfolded(s, type)
    BY <1>4 DEF Script!ReadTable
  <2>2. QED
    BY <1>3, <2>1, ReadUnfoldedFacts, Zenon
<1>5. CASE type \notin {"bool", "string"}
  <2>1. Script!Last(s) = Script!Array(values)
    BY <1>3, TopFacts, Zenon DEF TopOf
  <2>2. IsArrayOf(Script!Last(s), n, values)
    BY <1>2, <2>1, ArrayFacts, Zenon
  <2>3. PICK read : read = Script!ReadTable(s, type)
    OBVIOUS
  <2>4. PICK pairs : pairs = Script!Last(s).pairs
    OBVIOUS
  <2>5. read.item = Script!TableItem(type, [i \in DOMAIN pairs |->
                                              Script!Got(pairs[i][2], type)])
        /\ read.stack = s
    BY <1>5, <2>3, <2>4 DEF Script!ReadTable
  <2>6. DOMAIN pairs = 1 .. n /\ \A i \in 1 .. n : pairs[i][2] = values[i]
    BY <2>2, <2>4, Zenon DEF IsArrayOf
  <2>7. [i \in DOMAIN pairs |-> Script!Got(pairs[i][2], type)]
          = [i \in 1 .. n |-> Script!Got(values[i], type)]
    BY <2>6, Zenon
  <2>8. Script!PopStackItem(s, 1) = r
    BY <1>3, PopOneFacts, Zenon
  <2>9. ReadsTable(r, values, type, read)
    BY <1>1, <2>5, <2>7, <2>8, Zenon DEF ReadsTable, Script!TableItem
  <2>10. QED
    BY <1>3, <2>3, <2>9, Zenon
<1>6. QED
  BY <1>4, <1>5

(* What _readData does with the argument on top of the stack. *)
ReadsAs(r, item, e, have, required, read) ==
  IF IsNil(item) /\ ~e.nilAllowed
  THEN read = IF have < required THEN Script!Refused ELSE Script!Enough
  ELSE IF Fits(TRUE, item, e)
  THEN /\ read = Script!Read(Received(item, e), read.stack)
       /\ Script!PopStackItem(read.stack, 1) = r
  ELSE read = Script!Refused

(* A nil is accepted where one is allowed. *)
LEMMA ReadNilFacts ==
  ASSUME NEW S, NEW r \in Seq(S), NEW item \in Items, IsNil(item),
         NEW e \in Expectations, NEW have, NEW required
  PROVE  ReadsAs(r, item, e, have, required,
           Script!ReadArgument(Append(r, StackValue(item)), e, have, required))
<1>1. item.values[1] = Nil /\ item.type = "nil" /\ item.table = FALSE
  BY ItemFacts, 1 \in 1 .. 1 DEF IsNil, ValuesOf
<1>2. PICK s : s = Append(r, StackValue(item))
  OBVIOUS
<1>3. Script!Last(s) = Script!Nil
  <2>1. StackValue(item) = Nil
    BY <1>1 DEF StackValue
  <2>2. QED
    BY <1>2, <2>1, TopFacts, SameNames, Zenon DEF TopOf
<1>4. Script!NilItem = item
  <2>1. Len(item.values) = 1 /\ item.values \in Seq(Value)
        /\ item = [type |-> "nil", table |-> FALSE, values |-> item.values]
    BY <1>1, ItemFacts
  <2>2. item.values = <<Nil>>
    BY <1>1, <2>1
  <2>3. QED
    BY <2>1, <2>2, SameNames, Zenon DEF Script!NilItem, Script!Item
<1>5. e.nilAllowed \in BOOLEAN
  BY DEF Expectations
<1>6. CASE e.nilAllowed
  <2>1. Script!ReadArgument(s, e, have, required) = Script!Read(item, s)
    BY <1>3, <1>4, <1>6 DEF Script!ReadArgument
  <2>2. Fits(TRUE, item, e) /\ Received(item, e) = item
    BY <1>6 DEF Fits, Received
  <2>3. Script!Read(item, s).stack = s
    BY DEF Script!Read
  <2>4. Script!PopStackItem(s, 1) = r
    BY <1>2, PopOneFacts, Zenon
  <2>5. QED
    BY <1>2, <1>6, <2>1, <2>2, <2>3, <2>4, Zenon DEF ReadsAs
<1>7. CASE ~e.nilAllowed
  <2>1. Script!ReadArgument(s, e, have, required) =
          IF have < required THEN Script!Refused ELSE Script!Enough
    BY <1>3, <1>7 DEF Script!ReadArgument
  <2>2. QED
    BY <1>2, <1>7, <2>1, Zenon DEF ReadsAs
<1>8. QED
  BY <1>5, <1>6, <1>7

(* A table is accepted as the contract says, by its size and the type of   *)
(* its first value.                                                        *)
LEMMA ReadTableArgumentFacts ==
  ASSUME NEW S, NEW r \in Seq(S), NEW item \in Items, item.table,
         NEW e \in Expectations, NEW have, NEW required
  PROVE  ReadsAs(r, item, e, have, required,
           Script!ReadArgument(Append(r, StackValue(item)), e, have, required))
<1>1. PICK n \in Nat : n = Len(item.values)
  BY ItemFacts
<1>2. /\ DOMAIN item.values = 1 .. n /\ item.values \in Seq(Value)
      /\ item.type \in Types /\ item.type # "buffer" /\ item.table = TRUE
      /\ \A i \in 1 .. n : item.values[i] \in ValuesOf(item.type)
  BY <1>1, ItemFacts
<1>3. /\ e.type \in Types /\ e.table \in BOOLEAN /\ e.min \in Nat
      /\ e.nilAllowed \in BOOLEAN
  BY DEF Expectations
<1>4. PICK s : s = Append(r, StackValue(item))
  OBVIOUS
<1>5. StackValue(item) = Script!Array(item.values) /\ ~IsNil(item)
  BY DEF StackValue, IsNil
<1>6. Script!Last(s) = Script!Array(item.values)
  BY <1>4, <1>5, TopFacts, Zenon DEF TopOf
<1>7. IsArrayOf(Script!Last(s), n, item.values)
  BY <1>2, <1>6, ArrayFacts, Zenon
<1>8. Script!TableSize(s) = n
  BY <1>7, TableSizeFacts, Zenon
<1>9. Script!Last(s) # Script!Nil
  <2>1. Script!Nil.kind = "null"
    BY DEF Script!Nil
  <2>2. Script!Last(s).kind = "table"
    BY <1>7, Zenon DEF IsArrayOf
  <2>3. QED
    BY <2>1, <2>2
<1>10. CASE ~e.table
  <2>1. Script!ReadArgument(s, e, have, required) = Script!Refused
    BY <1>1, <1>3, <1>8, <1>9, <1>10 DEF Script!ReadArgument
  <2>2. ~Fits(TRUE, item, e)
    BY <1>2, <1>5, <1>10 DEF Fits
  <2>3. QED
    BY <1>4, <1>5, <2>1, <2>2, Zenon DEF ReadsAs
<1>11. CASE e.table
  <2>1. Script!ReadArgument(s, e, have, required) =
          IF Script!TableFits(s, e)
          THEN Script!Read(Script!ReadTable(s, e.type).item,
                           Script!ReadTable(s, e.type).stack)
          ELSE Script!Refused
    <3>1. Script!TableSize(s) >= 0 /\ ((Script!TableSize(s) >= 0) = e.table)
      <4>1. Script!TableSize(s) >= 0
        BY <1>1, <1>8
      <4>2. e.table = TRUE
        BY <1>3, <1>11
      <4>3. QED
        BY <4>1, <4>2, Zenon
    <3>2. QED
      BY <1>9, <1>11, <3>1, Zenon DEF Script!ReadArgument
  <2>2. Script!TableFits(s, e) <=> Fits(TRUE, item, e)
    <3>1. PICK pairs : pairs = Script!Last(s).pairs
      OBVIOUS
    <3>2. DOMAIN pairs = 1 .. n /\ \A i \in 1 .. n : pairs[i][2] = item.values[i]
      BY <1>7, <3>1, Zenon DEF IsArrayOf
    <3>3. Script!AllOfType(s, Script!InfoType(e.type)) <=>
            \A i \in 1 .. n : item.values[i].kind = Script!KindOf(e.type)
      <4>1. Script!AllOfType(s, Script!InfoType(e.type)) <=>
              \A i \in DOMAIN pairs : pairs[i][2].kind = Script!KindOf(e.type)
        BY <3>1, Zenon DEF Script!AllOfType, Script!KindOf
      <4>2. QED
        BY <3>2, <4>1
    <3>4. \A i \in 1 .. n : item.values[i].kind = Script!KindOf(item.type)
      BY <1>2, KindFacts, Zenon
    <3>5. (\A i \in 1 .. n : item.values[i].kind = Script!KindOf(e.type)) <=>
            n = 0 \/ Script!KindOf(item.type) = Script!KindOf(e.type)
      BY <3>4
    <3>6. Script!KindOf(item.type) = Script!KindOf(e.type) <=>
            Group(TRUE, item.type) = Group(TRUE, e.type)
      BY <1>2, <1>3, GroupFacts, Zenon
    <3>7. n = 0 <=> item.values = << >>
      <4>1. item.values # << >> => Len(item.values) \in Nat \ {0}
        BY <1>2, EmptySeq, Zenon
      <4>2. Len(<< >>) = 0
        OBVIOUS
      <4>3. QED
        BY <1>1, <4>1, <4>2
    <3>8. ItemSize(item) = n
      BY <1>1 DEF ItemSize
    <3>9. Script!TableFits(s, e) <=>
            /\ n = 0 \/ Group(TRUE, item.type) = Group(TRUE, e.type)
            /\ n >= e.min \/ e.min = 0
            /\ e.type # "buffer"
      BY <1>8, <3>3, <3>5, <3>6, Zenon DEF Script!TableFits
    <3>10. Fits(TRUE, item, e) <=>
            /\ n = 0 \/ Group(TRUE, item.type) = Group(TRUE, e.type)
            /\ n >= e.min \/ e.min = 0
            /\ e.type # "buffer"
      BY <1>2, <1>3, <1>5, <1>11, <3>7, <3>8 DEF Fits
    <3>11. QED
      BY <3>9, <3>10
  <2>3. ReadsTable(r, item.values, e.type, Script!ReadTable(s, e.type))
    BY <1>2, <1>4, <1>5, ReadTableFacts, Zenon
  <2>4. /\ Script!ReadTable(s, e.type).item = Received(item, e)
        /\ Script!PopStackItem(Script!ReadTable(s, e.type).stack, 1) = r
    <3>1. e.table = TRUE
      BY <1>3, <1>11
    <3>2. QED
      BY <1>5, <2>3, <3>1, ReceivedFacts, Zenon DEF ReadsTable
  <2>5. PICK read : read = Script!ReadArgument(s, e, have, required)
    OBVIOUS
  <2>6. PICK t : t = Script!ReadTable(s, e.type).stack
    OBVIOUS
  <2>7. Script!Read(Received(item, e), t).stack = t
    BY DEF Script!Read
  <2>8. ReadsAs(r, item, e, have, required, read)
    BY <1>5, <2>1, <2>2, <2>4, <2>5, <2>6, <2>7, Zenon DEF ReadsAs
  <2>9. QED
    BY <1>4, <2>5, <2>8, Zenon
<1>12. QED
  BY <1>10, <1>11

(* A simple value is accepted as the contract says. *)
LEMMA ReadScalarFacts ==
  ASSUME NEW S, NEW r \in Seq(S), NEW item \in Items, ~item.table, ~IsNil(item),
         NEW e \in Expectations, NEW have, NEW required
  PROVE  ReadsAs(r, item, e, have, required,
           Script!ReadArgument(Append(r, StackValue(item)), e, have, required))
<1>1. /\ Len(item.values) = 1 /\ item.table = FALSE
      /\ item.type \in Types /\ item.type # "nil"
      /\ item.values[1] \in ValuesOf(item.type)
  BY ItemFacts, 1 \in 1 .. 1 DEF IsNil
<1>2. /\ e.type \in Types /\ e.table \in BOOLEAN /\ e.min \in Nat
      /\ e.nilAllowed \in BOOLEAN
  BY DEF Expectations
<1>3. PICK s : s = Append(r, StackValue(item))
  OBVIOUS
<1>4. PICK v : v = item.values[1]
  OBVIOUS
<1>5. Script!Last(s) = v
  <2>1. StackValue(item) = v
    BY <1>1, <1>4 DEF StackValue
  <2>2. QED
    BY <1>3, <2>1, TopFacts, Zenon DEF TopOf
<1>6. /\ v.kind = Script!KindOf(item.type)
      /\ v.kind \in {"null", "number", "bool", "string"} /\ v # Script!Nil
  BY <1>1, <1>4, KindFacts, SameNames, Zenon
<1>7. Script!TableSize(s) = -3
  BY <1>5, <1>6 DEF Script!TableSize, Script!NotTable
<1>8. ~(Script!TableSize(s) >= 0)
  BY <1>7
<1>9. CASE e.table
  <2>1. Script!ReadArgument(s, e, have, required) = Script!Refused
    <3>1. Script!Last(s) # Script!Nil
      BY <1>5, <1>6
    <3>2. QED
      BY <1>2, <1>8, <1>9, <3>1 DEF Script!ReadArgument
  <2>2. ~Fits(TRUE, item, e)
    BY <1>1, <1>9 DEF Fits
  <2>3. QED
    BY <1>3, <2>1, <2>2, Zenon DEF ReadsAs
<1>10. CASE ~e.table
  <2>1. Script!ReadArgument(s, e, have, required) =
          IF Script!ScalarFits(s, e)
          THEN Script!Read(Script!Item(e.type, Script!Got(v, e.type)), s)
          ELSE Script!Refused
    <3>1. Script!Last(s) # Script!Nil
      BY <1>5, <1>6
    <3>2. QED
      BY <1>2, <1>5, <1>8, <1>10, <3>1 DEF Script!ReadArgument
  <2>2. Script!ScalarFits(s, e) <=> Fits(TRUE, item, e)
    <3>1. Script!KindOf(item.type) = Script!KindOf(e.type) <=>
            Group(TRUE, item.type) = Group(TRUE, e.type)
      BY <1>1, <1>2, GroupFacts, Zenon
    <3>2. ItemSize(item) = Len(v.str)
      BY <1>1, <1>4 DEF ItemSize
    <3>3. Script!ScalarFits(s, e) <=>
            /\ Group(TRUE, item.type) = Group(TRUE, e.type)
            /\ e.type = "buffer" => ItemSize(item) >= e.min \/ e.min = 0
      BY <1>5, <1>6, <3>1, <3>2, Zenon DEF Script!ScalarFits
    <3>4. Fits(TRUE, item, e) <=>
            /\ Group(TRUE, item.type) = Group(TRUE, e.type)
            /\ e.type = "buffer" => ItemSize(item) >= e.min \/ e.min = 0
      <4>1. e.table = FALSE
        BY <1>2, <1>10
      <4>2. QED
        BY <1>1, <1>2, <1>10, <4>1, Zenon DEF Fits
    <3>5. QED
      BY <3>3, <3>4
  <2>3. Script!Item(e.type, Script!Got(v, e.type)) = Received(item, e)
    <3>1. PICK got1 : got1 = Script!Got(v, e.type)
      OBVIOUS
    <3>2. <<got1>> = [i \in 1 .. 1 |-> got1]
      OBVIOUS
    <3>3. [i \in 1 .. 1 |-> Script!Got(item.values[i], e.type)]
            = [i \in 1 .. 1 |-> got1]
      BY <1>4, <3>1
    <3>4. e.table = FALSE
      BY <1>2, <1>10
    <3>5. Received(item, e) =
           [type |-> e.type, table |-> FALSE, values |-> <<got1>>]
      <4>1. Received(item, e) =
              [type |-> e.type, table |-> e.table,
               values |-> [i \in 1 .. Len(item.values) |->
                             Script!Got(item.values[i], e.type)]]
        BY ReceivedFacts, Zenon
      <4>2. QED
        BY <1>1, <3>2, <3>3, <3>4, <4>1
    <3>6. QED
      BY <3>1, <3>5, Zenon DEF Script!Item
  <2>4. Script!PopStackItem(s, 1) = r
    BY <1>3, PopOneFacts, Zenon
  <2>5. Script!Read(Received(item, e), s).stack = s
    BY DEF Script!Read
  <2>6. ReadsAs(r, item, e, have, required, Script!ReadArgument(s, e, have, required))
    BY <2>1, <2>2, <2>3, <2>4, <2>5, Zenon DEF ReadsAs
  <2>7. QED
    BY <1>3, <2>6, Zenon
<1>11. QED
  BY <1>9, <1>10

(* _readData treats every item as the contract says. *)
LEMMA ReadArgumentFacts ==
  ASSUME NEW S, NEW r \in Seq(S), NEW item \in Items, NEW e \in Expectations,
         NEW have, NEW required
  PROVE  ReadsAs(r, item, e, have, required,
           Script!ReadArgument(Append(r, StackValue(item)), e, have, required))
<1>1. IsNil(item) \/ item.table \/ (~item.table /\ ~IsNil(item))
  BY ItemFacts
<1>2. QED
  BY <1>1, ReadNilFacts, ReadTableArgumentFacts, ReadScalarFacts, Zenon

(* simMoveStackItemToTop of the lowest item. *)
TurnsTo(all, first, rest) ==
  Script!MoveStackItemToTop(all, 0) = Append(rest, first)

(* simMoveStackItemToTop turns the lowest value to the top. *)
LEMMA TurnFacts ==
  ASSUME NEW S, NEW all \in Seq(S), all # << >>
  PROVE  TurnsTo(all, all[1], Tail(all))
<1>1. PICK n \in Nat \ {0} : n = Len(all)
  BY EmptySeq
<1>2. Script!RemoveAt(all, 1) = Tail(all)
  <2>1. SubSeq(all, 1, 0) = << >> /\ SubSeq(all, 2, n) = Tail(all)
    BY <1>1
  <2>2. Tail(all) \in Seq(S)
    BY <1>1
  <2>3. << >> \o Tail(all) = Tail(all)
    BY <2>2, ConcatEmptySeq, Zenon
  <2>4. QED
    BY <1>1, <2>1, <2>3 DEF Script!RemoveAt
<1>3. QED
  BY <1>2 DEF TurnsTo, Script!MoveStackItemToTop

---------------------------------------------------------------------------
(* The call over a stack *)

(* The items of c from one place on to another, as they stand on the stack.*)
OnStack(c, from, to) == [i \in 1 .. to - from |-> StackValue(c.sent[from + i])]

(* The reader has taken n items and holds what they are received as. *)
HasRead(converts, c, n, items) ==
  ReadUpto(converts, c, n) /\ items = ReceivedUpto(c, n)

(* What items look like on the stack. *)
StackValues == {StackValue(item) : item \in Items}

(* A stack of n items. *)
IsStack(s, n) == s \in Seq(StackValues) /\ Len(s) = n

(* The items from n to m are m - n stack values. *)
LEMMA OnStackFacts ==
  ASSUME NEW c \in HalfCalls, NEW m \in Nat, m <= Len(c.sent), NEW n \in 0 .. m
  PROVE  IsStack(OnStack(c, n, m), m - n)
<1>1. c.sent \in Seq(Items) /\ Len(c.sent) \in Nat
  BY LookedFacts
<1>2. m - n \in Nat
  OBVIOUS
<1>3. \A i \in 1 .. m - n : c.sent[n + i] \in Items
  BY <1>1
<1>4. OnStack(c, n, m) \in [1 .. m - n -> StackValues]
  BY <1>3, Zenon DEF OnStack, StackValues
<1>5. QED
  BY <1>2, <1>4 DEF IsStack

(* Writing the next item extends the stack by it. *)
LEMMA WriteOne ==
  ASSUME NEW c \in HalfCalls, NEW n \in Nat, n < Len(c.sent)
  PROVE  Script!PushItem(OnStack(c, 0, n), c.sent[n + 1]) = OnStack(c, 0, n + 1)
<1>1. c.sent \in Seq(Items) /\ Len(c.sent) \in Nat
  BY LookedFacts
<1>2. c.sent[n + 1] \in Items
  BY <1>1
<1>3. OnStack(c, 0, n) \in Seq(StackValues)
  <2>1. n <= Len(c.sent) /\ 0 \in 0 .. n
    BY <1>1
  <2>2. QED
    BY <2>1, OnStackFacts, Zenon DEF IsStack
<1>4. Script!PushItem(OnStack(c, 0, n), c.sent[n + 1])
        = Append(OnStack(c, 0, n), StackValue(c.sent[n + 1]))
  BY <1>2, <1>3, PushItemFacts, Zenon
<1>5. Append(OnStack(c, 0, n), StackValue(c.sent[n + 1])) = OnStack(c, 0, n + 1)
  <2>1. OnStack(c, 0, n) = [i \in 1 .. n |-> StackValue(c.sent[i])]
    BY DEF OnStack
  <2>2. OnStack(c, 0, n + 1) = [i \in 1 .. n + 1 |-> StackValue(c.sent[i])]
    BY DEF OnStack
  <2>3. QED
    BY <2>1, <2>2
<1>6. QED
  BY <1>4, <1>5

(* The lowest value, the next item to be read, is turned to the top. *)
LEMMA TurnOne ==
  ASSUME NEW c \in HalfCalls, NEW n \in Nat, n < Len(c.sent)
  PROVE  Script!MoveStackItemToTop(OnStack(c, n, Len(c.sent)), 0)
           = Append(OnStack(c, n + 1, Len(c.sent)), StackValue(c.sent[n + 1]))
<1>1. PICK m \in Nat : m = Len(c.sent)
  BY LookedFacts
<1>2. OnStack(c, n, m) \in Seq(StackValues) /\ Len(OnStack(c, n, m)) = m - n
  <2>1. m <= Len(c.sent) /\ n \in 0 .. m
    BY <1>1
  <2>2. QED
    BY <2>1, OnStackFacts, Zenon DEF IsStack
<1>3. OnStack(c, n, m) # << >>
  BY <1>1, <1>2
<1>4. OnStack(c, n, m)[1] = StackValue(c.sent[n + 1])
  BY <1>1 DEF OnStack
<1>5. Tail(OnStack(c, n, m)) = OnStack(c, n + 1, m)
  BY <1>1 DEF OnStack
<1>6. TurnsTo(OnStack(c, n, m), OnStack(c, n, m)[1], Tail(OnStack(c, n, m)))
  BY <1>2, <1>3, TurnFacts
<1>7. QED
  BY <1>1, <1>4, <1>5, <1>6, Zenon DEF TurnsTo

(* A half that may be delivered, with the items the contract owes. *)
Delivers(converts, c, items) ==
  /\ Deliverable(converts, c)
  /\ items = [i \in Counted(c) |-> Received(c.sent[i], c.expected[i])]

(* Where the reader stops and is content, the call is delivered. *)
LEMMA EndDelivers ==
  ASSUME NEW converts \in BOOLEAN, NEW c \in HalfCalls, NEW n, NEW items,
         HasRead(converts, c, n, items),
         More(c, n) => ~Passes(c, n + 1) /\ n >= c.required
  PROVE  Delivers(converts, c, items)
<1>1. ReadUpto(converts, c, n) /\ items = ReceivedUpto(c, n)
  BY DEF HasRead
<1>2. /\ Deliverable(converts, c)
      /\ ReceivedUpto(c, n) =
              [i \in Counted(c) |-> Received(c.sent[i], c.expected[i])]
  BY <1>1, EndsDelivered
<1>3. QED
  BY <1>1, <1>2 DEF Delivers

(* An item that passes and fits is received, and reading goes on. *)
LEMMA ReadsMore ==
  ASSUME NEW converts \in BOOLEAN, NEW c \in HalfCalls, NEW n, NEW items,
         HasRead(converts, c, n, items), More(c, n), Passes(c, n + 1),
         Fits(converts, c.sent[n + 1], c.expected[n + 1])
  PROVE  HasRead(converts, c, n + 1,
           Append(items, Received(c.sent[n + 1], c.expected[n + 1])))
<1>1. ReadUpto(converts, c, n) /\ items = ReceivedUpto(c, n)
  BY DEF HasRead
<1>2. /\ ReadUpto(converts, c, n + 1)
      /\ Append(ReceivedUpto(c, n), Received(c.sent[n + 1], c.expected[n + 1]))
              = ReceivedUpto(c, n + 1)
  BY <1>1, ReadOneMore
<1>3. QED
  BY <1>1, <1>2 DEF HasRead

(* What the next pass of a reader may come to. *)
ReadsOn(c, n, items, read) ==
  CASE read.outcome = "refused" -> ~Deliverable(TRUE, c)
    [] read.outcome = "enough" -> Delivers(TRUE, c, items)
    [] OTHER -> /\ read.outcome = "item"
                /\ HasRead(TRUE, c, n + 1, Append(items, read.item))
                /\ Script!PopStackItem(read.stack, 1)
                     = OnStack(c, n + 1, Len(c.sent))

(* What _readData does with the next argument on the stack: it takes it,   *)
(* or stops where the contract refuses or ends.                            *)
LEMMA ReadArgumentReads ==
  ASSUME NEW c \in HalfCalls, NEW n, NEW items,
         HasRead(TRUE, c, n, items), More(c, n)
  PROVE  ReadsOn(c, n, items,
           Script!ReadArgument(
             Script!MoveStackItemToTop(OnStack(c, n, Len(c.sent)), 0),
             c.expected[n + 1], Len(items), c.required))
<1>1. PICK m \in Nat : m = Len(c.sent)
  BY LookedFacts
<1>2. /\ n \in Nat /\ n < m /\ n < Len(c.expected) /\ n + 1 \in 0 .. m
      /\ c.sent \in Seq(Items) /\ c.expected \in Seq(Expectations)
      /\ Len(c.expected) \in Nat /\ c.required \in Nat
  <2>1. n \in Nat /\ n < m /\ n < Len(c.expected)
    BY <1>1 DEF HasRead, ReadUpto, More
  <2>2. QED
    BY <1>1, <2>1, LookedFacts
<1>3. Len(items) = n
  <2>1. items = [i \in 1 .. n |-> Received(c.sent[i], c.expected[i])]
    BY DEF HasRead, ReceivedUpto
  <2>2. QED
    BY <1>2, <2>1
<1>4. PICK item \in Items : item = c.sent[n + 1]
  BY <1>1, <1>2
<1>5. PICK e \in Expectations : e = c.expected[n + 1]
  BY <1>2
<1>6. PICK r : r = OnStack(c, n + 1, m)
  OBVIOUS
<1>7. r \in Seq(StackValues)
  <2>1. m <= Len(c.sent)
    BY <1>1
  <2>2. IsStack(OnStack(c, n + 1, m), m - (n + 1))
    BY <1>2, <2>1, OnStackFacts, Zenon
  <2>3. QED
    BY <1>6, <2>2, Zenon DEF IsStack
<1>8. PICK read : read = Script!ReadArgument(Append(r, StackValue(item)), e, n,
                                             c.required)
  OBVIOUS
<1>9. ReadsAs(r, item, e, n, c.required, read)
  BY <1>7, <1>8, ReadArgumentFacts
<1>10. Passes(c, n + 1) <=> ~(IsNil(item) /\ ~e.nilAllowed)
  BY <1>4, <1>5 DEF Passes
<1>11. /\ Script!Refused.outcome = "refused" /\ Script!Enough.outcome = "enough"
       /\ \A it, s : Script!Read(it, s).outcome = "item"
                     /\ Script!Read(it, s).item = it
  BY DEF Script!Refused, Script!Enough, Script!Read
<1>12. ReadsOn(c, n, items, read)
  <2>1. CASE IsNil(item) /\ ~e.nilAllowed /\ n < c.required
    <3>1. ~Deliverable(TRUE, c)
      BY <1>10, <2>1, EndsRefused DEF HasRead
    <3>2. read = Script!Refused
      BY <1>9, <2>1, Zenon DEF ReadsAs
    <3>3. QED
      BY <1>11, <3>1, <3>2 DEF ReadsOn
  <2>2. CASE IsNil(item) /\ ~e.nilAllowed /\ ~(n < c.required)
    <3>1. Delivers(TRUE, c, items)
      <4>1. n >= c.required
        BY <1>2, <2>2
      <4>2. QED
        BY <1>10, <2>2, <4>1, EndDelivers
    <3>2. read = Script!Enough
      BY <1>9, <2>2, Zenon DEF ReadsAs
    <3>3. QED
      BY <1>11, <3>1, <3>2 DEF ReadsOn
  <2>3. CASE ~(IsNil(item) /\ ~e.nilAllowed) /\ Fits(TRUE, item, e)
    <3>1. HasRead(TRUE, c, n + 1, Append(items, Received(item, e)))
      BY <1>4, <1>5, <1>10, <2>3, ReadsMore
    <3>2. /\ read = Script!Read(Received(item, e), read.stack)
          /\ Script!PopStackItem(read.stack, 1) = r
      BY <1>9, <2>3, Zenon DEF ReadsAs
    <3>3. read.outcome = "item" /\ read.item = Received(item, e)
      <4>1. PICK t : t = read.stack
        OBVIOUS
      <4>2. read = Script!Read(Received(item, e), t)
        BY <3>2, <4>1, Zenon
      <4>3. QED
        BY <4>2 DEF Script!Read
    <3>4. QED
      BY <1>1, <1>6, <3>1, <3>2, <3>3 DEF ReadsOn
  <2>4. CASE ~(IsNil(item) /\ ~e.nilAllowed) /\ ~Fits(TRUE, item, e)
    <3>1. ~Deliverable(TRUE, c)
      BY <1>4, <1>5, <1>10, <2>4, EndsRefused DEF HasRead
    <3>2. read = Script!Refused
      BY <1>9, <2>4, Zenon DEF ReadsAs
    <3>3. QED
      BY <1>11, <3>1, <3>2 DEF ReadsOn
  <2>5. QED
    BY <2>1, <2>2, <2>3, <2>4
<1>13. Script!MoveStackItemToTop(OnStack(c, n, Len(c.sent)), 0)
         = Append(r, StackValue(item))
  BY <1>1, <1>2, <1>4, <1>6, TurnOne
<1>14. QED
  BY <1>3, <1>5, <1>8, <1>12, <1>13, Zenon

(* Of the call, the reader's items and its answers, whatever the transport.*)
CallInv(calls) ==
  /\ call \in calls /\ half \in Halves
  /\ DOMAIN data = Halves /\ DOMAIN verdict = Halves
  /\ half = "in" => verdict["out"] = "open"

(* What holds between two steps over the stack: while writing, the stack   *)
(* is the items written so far; while reading, it is the items left, the   *)
(* lowest one next, and what was taken is what the contract receives.      *)
ScriptInv ==
  /\ phase \in {"clear", "write", "count", "read", "returned"}
  /\ phase # "returned" => verdict[half] = "open"
  /\ phase = "write" =>
       /\ turn \in Nat /\ turn <= Len(call[half].sent)
       /\ stack = OnStack(call[half], 0, turn)
  /\ phase = "count" =>
       stack = OnStack(call[half], 0, Len(call[half].sent))
  /\ phase = "read" =>
       /\ argCnt = Len(call[half].sent)
       /\ stack = OnStack(call[half], turn, Len(call[half].sent))
       /\ HasRead(TRUE, call[half], turn, data[half])

(* What a step may do to the half h. *)
Answers(converts, h) ==
  /\ verdict[h] = "open"
  /\ \/ verdict'[h] = "delivered" /\ Delivers(converts, call[h], data'[h])
     \/ verdict'[h] = "refused" /\ ~Deliverable(converts, call[h])

(* A half that is not answered by this step keeps its answer, and what was *)
(* delivered with it.                                                      *)
Quiet(h) ==
  verdict'[h] = verdict[h] /\ (verdict[h] = "delivered" => data'[h] = data[h])

(* A step answers a half as the contract does or leaves it alone; no call  *)
(* changes.                                                                *)
Keeps(converts) ==
  call' = call /\ \A h \in Halves : Answers(converts, h) \/ Quiet(h)

(* Both halves of a call are halves. *)
LEMMA CallFacts ==
  ASSUME NEW c \in FunctionCalls, NEW h \in Halves
  PROVE  c[h] \in HalfCalls
BY DEF FunctionCalls, HalfCalls

(* There are two halves. *)
LEMMA HalvesFacts ==
  ASSUME NEW h \in Halves
  PROVE  h = "in" \/ h = "out"
BY DEF Halves

(* The inductive invariant of a call over the stack. *)
ScriptGood == CallInv(StackCalls) /\ ScriptInv

(* It holds before the call. *)
LEMMA ScriptInit ==
  ASSUME Script!Init
  PROVE  ScriptGood
<1>1. /\ call \in StackCalls /\ half = "in" /\ phase = "clear"
      /\ data = [h \in Halves |-> << >>] /\ verdict = [h \in Halves |-> "open"]
  BY DEF Script!Init, Script!Halves, Halves
<1>2. QED
  BY <1>1 DEF ScriptGood, CallInv, ScriptInv, Halves

(* Clearing the stack and writing the items keep it. *)
LEMMA ScriptWrites ==
  ASSUME ScriptGood, NEW h \in Halves,
         Script!ClearStack(h) \/ Script!WriteItem(h) \/ Script!WriteEnds(h)
  PROVE  ScriptGood' /\ Keeps(TRUE)
<1> USE DEF ScriptGood
<1>1. /\ half = h /\ half' = half /\ call' = call /\ data' = data
      /\ verdict' = verdict /\ phase \in {"clear", "write"}
  BY DEF Script!ClearStack, Script!WriteItem, Script!WriteEnds
<1>2. CallInv(StackCalls)' /\ Keeps(TRUE)
  BY <1>1 DEF CallInv, Keeps, Quiet
<1>3. call[h] \in HalfCalls
  BY CallsAssumption, CallFacts DEF CallInv
<1>4. PICK c \in HalfCalls : c = call[h]
  BY <1>3
<1>5. c.sent \in Seq(Items) /\ Len(c.sent) \in Nat
  BY LookedFacts
<1>6. CASE Script!ClearStack(h)
  <2>1. stack' = << >> /\ phase' = "write" /\ turn' = 0
    BY <1>6 DEF Script!ClearStack, Script!PopStackItem
  <2>2. OnStack(c, 0, 0) = << >>
    BY DEF OnStack
  <2>3. ScriptInv'
    BY <1>1, <1>4, <1>5, <2>1, <2>2 DEF ScriptInv
  <2>4. QED
    BY <1>2, <2>3
<1>7. CASE Script!WriteItem(h)
  <2>1. /\ turn < Len(c.sent) /\ turn' = turn + 1
        /\ stack' = Script!PushItem(stack, c.sent[turn + 1])
        /\ phase = "write" /\ phase' = "write"
    BY <1>4, <1>7 DEF Script!WriteItem
  <2>2. turn \in Nat /\ stack = OnStack(c, 0, turn)
    BY <1>1, <1>4, <2>1 DEF ScriptInv
  <2>3. stack' = OnStack(c, 0, turn')
    BY <2>1, <2>2, WriteOne
  <2>4. ScriptInv'
    BY <1>1, <1>4, <1>5, <2>1, <2>2, <2>3 DEF ScriptInv
  <2>5. QED
    BY <1>2, <2>4
<1>8. CASE Script!WriteEnds(h)
  <2>1. turn = Len(c.sent) /\ phase = "write" /\ phase' = "count" /\ stack' = stack
    BY <1>4, <1>8 DEF Script!WriteEnds
  <2>2. stack = OnStack(c, 0, Len(c.sent))
    BY <1>1, <1>4, <2>1 DEF ScriptInv
  <2>3. ScriptInv'
    BY <1>1, <1>4, <2>1, <2>2 DEF ScriptInv
  <2>4. QED
    BY <1>2, <2>3
<1>9. QED
  BY <1>6, <1>7, <1>8

(* The reader returns with an answer that holds. *)
LEMMA ScriptReturns ==
  ASSUME ScriptGood, NEW h \in Halves, half = h, half' = half, call' = call,
         phase # "returned",
         NEW answer, Script!Return(h, answer),
         DOMAIN data' = Halves, \A k \in Halves : k # h => data'[k] = data[k],
         \/ answer = "delivered" /\ Delivers(TRUE, call[h], data'[h])
         \/ answer = "refused" /\ ~Deliverable(TRUE, call[h])
  PROVE  ScriptGood' /\ Keeps(TRUE)
<1>1. /\ verdict' = [verdict EXCEPT ![h] = answer] /\ phase' = "returned"
      /\ verdict[h] = "open" /\ DOMAIN verdict = Halves
  BY DEF Script!Return, ScriptGood, ScriptInv, CallInv
<1>2. verdict'[h] = answer /\ \A k \in Halves : k # h => verdict'[k] = verdict[k]
  BY <1>1
<1>3. ScriptGood'
  BY <1>1, <1>2 DEF ScriptGood, ScriptInv, CallInv, Halves
<1>4. Answers(TRUE, h)
  BY <1>1, <1>2 DEF Answers
<1>5. \A k \in Halves : k # h => Quiet(k)
  BY <1>2 DEF Quiet
<1>6. QED
  BY <1>3, <1>4, <1>5 DEF Keeps

(* Counting the items on the stack keeps it, and refuses a half with too   *)
(* few.                                                                    *)
LEMMA ScriptCounts ==
  ASSUME ScriptGood, NEW h \in Halves, Script!Count(h)
  PROVE  ScriptGood' /\ Keeps(TRUE)
<1>1. /\ half = h /\ half' = half /\ call' = call /\ phase = "count"
      /\ data' = [data EXCEPT ![h] = << >>]
  BY DEF Script!Count
<1>2. PICK c \in HalfCalls : c = call[h]
  BY CallsAssumption, CallFacts DEF ScriptGood, CallInv
<1>3. PICK m \in Nat : m = Len(c.sent)
  BY LookedFacts
<1>4. stack = OnStack(c, 0, m) /\ DOMAIN data = Halves
  BY <1>1, <1>2, <1>3 DEF ScriptGood, ScriptInv, CallInv
<1>5. Len(stack) = m
  <2>1. m <= Len(c.sent) /\ 0 \in 0 .. m
    BY <1>3
  <2>2. IsStack(OnStack(c, 0, m), m - 0)
    BY <2>1, OnStackFacts, Zenon
  <2>3. QED
    BY <1>4, <2>2 DEF IsStack
<1>6. /\ DOMAIN data' = Halves /\ data'[h] = << >>
      /\ \A k \in Halves : k # h => data'[k] = data[k]
  BY <1>1, <1>4
<1>7. CASE m < c.required
  <2>1. Script!Return(h, "refused")
    BY <1>2, <1>5, <1>7 DEF Script!Count
  <2>2. ~Deliverable(TRUE, c)
    <3>1. c.required \in Nat
      BY LookedFacts
    <3>2. ~(Len(c.sent) >= c.required)
      BY <1>3, <1>7, <3>1
    <3>3. QED
      BY <3>2, Zenon DEF Deliverable
  <2>3. QED
    BY <1>1, <1>2, <1>6, <2>1, <2>2, ScriptReturns
<1>8. CASE ~(m < c.required)
  <2>1. /\ argCnt' = m /\ turn' = 0 /\ phase' = "read"
        /\ stack' = stack /\ verdict' = verdict
    BY <1>2, <1>5, <1>8 DEF Script!Count
  <2>2. HasRead(TRUE, c, 0, << >>)
    <3>1. Len(c.expected) \in Nat /\ c.required \in Nat
      BY LookedFacts
    <3>2. ReadUpto(TRUE, c, 0)
      BY <1>3, <1>8, <3>1 DEF ReadUpto
    <3>3. ReceivedUpto(c, 0) = << >>
      BY DEF ReceivedUpto
    <3>4. QED
      BY <3>2, <3>3 DEF HasRead
  <2>3. verdict[h] = "open"
    BY <1>1 DEF ScriptGood, ScriptInv
  <2>4. CallInv(StackCalls)'
    BY <1>1, <1>6, <2>1 DEF ScriptGood, CallInv
  <2>5. ScriptInv'
    BY <1>1, <1>2, <1>3, <1>4, <1>6, <2>1, <2>2, <2>3 DEF ScriptInv
  <2>6. Keeps(TRUE)
    BY <1>1, <1>6, <2>1, <2>3 DEF Keeps, Quiet
  <2>7. QED
    BY <2>4, <2>5, <2>6 DEF ScriptGood
<1>9. QED
  BY <1>7, <1>8

(* Reading an argument keeps it, and refuses only what the contract refuses. *)
LEMMA ScriptReadsNext ==
  ASSUME ScriptGood, NEW h \in Halves, Script!ReadNext(h)
  PROVE  ScriptGood' /\ Keeps(TRUE)
<1>1. /\ half = h /\ half' = half /\ call' = call /\ phase = "read"
      /\ turn < argCnt /\ turn < Len(call[h].expected)
  BY DEF Script!ReadNext
<1>2. PICK c \in HalfCalls : c = call[h]
  BY CallsAssumption, CallFacts DEF ScriptGood, CallInv
<1>3. PICK items : items = data[h]
  OBVIOUS
<1>4. PICK n : n = turn
  OBVIOUS
<1>5. /\ argCnt = Len(c.sent) /\ stack = OnStack(c, n, Len(c.sent))
      /\ HasRead(TRUE, c, n, items) /\ DOMAIN data = Halves
      /\ verdict[h] = "open" /\ DOMAIN verdict = Halves
  BY <1>1, <1>2, <1>3, <1>4 DEF ScriptGood, ScriptInv, CallInv
<1>6. More(c, n)
  BY <1>1, <1>2, <1>4, <1>5 DEF More
<1>7. PICK read : read = Script!ReadArgument(
             Script!MoveStackItemToTop(OnStack(c, n, Len(c.sent)), 0),
             c.expected[n + 1], Len(items), c.required)
  OBVIOUS
<1>8. ReadsOn(c, n, items, read)
  BY <1>5, <1>6, <1>7, ReadArgumentReads
<1>9. (CASE read.outcome = "refused" -> Script!Return(h, "refused") /\ UNCHANGED data
         [] read.outcome = "enough" -> Script!Return(h, "delivered") /\ UNCHANGED data
         [] read.outcome = "item" ->
             /\ data' = [data EXCEPT ![h] = Append(@, read.item)]
             /\ stack' = Script!PopStackItem(read.stack, 1)
             /\ turn' = turn + 1
             /\ UNCHANGED <<phase, argCnt, verdict>>)
  BY <1>2, <1>3, <1>4, <1>5, <1>7, Zenon DEF Script!ReadNext
<1>10. CASE read.outcome = "refused"
  <2>1. Script!Return(h, "refused") /\ data' = data
    BY <1>9, <1>10
  <2>2. ~Deliverable(TRUE, c)
    BY <1>8, <1>10 DEF ReadsOn
  <2>3. QED
    BY <1>1, <1>2, <1>5, <2>1, <2>2, ScriptReturns
<1>11. CASE read.outcome = "enough"
  <2>1. Script!Return(h, "delivered") /\ data' = data
    BY <1>9, <1>11
  <2>2. Delivers(TRUE, c, items)
    BY <1>8, <1>11 DEF ReadsOn
  <2>3. QED
    BY <1>1, <1>2, <1>3, <1>5, <2>1, <2>2, ScriptReturns
<1>12. CASE read.outcome \notin {"refused", "enough"}
  <2>1. /\ read.outcome = "item"
        /\ HasRead(TRUE, c, n + 1, Append(items, read.item))
        /\ Script!PopStackItem(read.stack, 1) = OnStack(c, n + 1, Len(c.sent))
    BY <1>8, <1>12 DEF ReadsOn
  <2>2. /\ data' = [data EXCEPT ![h] = Append(@, read.item)]
        /\ stack' = OnStack(c, n + 1, Len(c.sent))
        /\ turn' = n + 1 /\ phase' = phase /\ argCnt' = argCnt
        /\ verdict' = verdict
    BY <1>4, <1>9, <2>1
  <2>3. /\ DOMAIN data' = Halves /\ data'[h] = Append(items, read.item)
        /\ \A k \in Halves : k # h => data'[k] = data[k]
    BY <1>3, <1>5, <2>2
  <2>4. CallInv(StackCalls)'
    BY <1>1, <2>2, <2>3 DEF ScriptGood, CallInv
  <2>5. ScriptInv'
    BY <1>1, <1>2, <1>5, <2>1, <2>2, <2>3 DEF ScriptInv
  <2>6. Keeps(TRUE)
    BY <1>1, <1>5, <2>2, <2>3 DEF Keeps, Quiet
  <2>7. QED
    BY <2>4, <2>5, <2>6 DEF ScriptGood
<1>13. QED
  BY <1>10, <1>11, <1>12

(* Having read all keeps it, and delivers what the contract owes. *)
LEMMA ScriptReadEnds ==
  ASSUME ScriptGood, NEW h \in Halves, Script!ReadEnds(h)
  PROVE  ScriptGood' /\ Keeps(TRUE)
<1>1. /\ half = h /\ half' = half /\ call' = call /\ phase = "read"
      /\ turn = argCnt \/ turn = Len(call[h].expected)
      /\ Script!Return(h, "delivered") /\ data' = data
  BY DEF Script!ReadEnds
<1>2. PICK c \in HalfCalls : c = call[h]
  BY CallsAssumption, CallFacts DEF ScriptGood, CallInv
<1>3. /\ argCnt = Len(c.sent) /\ HasRead(TRUE, c, turn, data[h])
      /\ DOMAIN data = Halves
  BY <1>1, <1>2 DEF ScriptGood, ScriptInv, CallInv
<1>4. ~More(c, turn)
  BY <1>1, <1>2, <1>3, LookedFacts DEF More
<1>5. Delivers(TRUE, c, data[h])
  BY <1>3, <1>4, EndDelivers
<1>6. QED
  BY <1>1, <1>2, <1>3, <1>5, ScriptReturns

(* The function called keeps it. *)
LEMMA ScriptExecutes ==
  ASSUME ScriptGood, Script!Execute
  PROVE  ScriptGood' /\ Keeps(TRUE)
<1>1. /\ half = "in" /\ half' = "out" /\ phase' = "clear" /\ call' = call
      /\ data' = data /\ verdict' = verdict
  BY DEF Script!Execute
<1>2. QED
  BY <1>1 DEF ScriptGood, CallInv, ScriptInv, Keeps, Quiet, Halves

(* Every step over the stack keeps it and does as the contract says. *)
LEMMA ScriptNext ==
  ASSUME ScriptGood, [Script!Next]_(Script!vars)
  PROVE  ScriptGood' /\ Keeps(TRUE)
<1>1. "in" \in Halves /\ "out" \in Halves
  BY DEF Halves
<1>2. ASSUME NEW h \in Halves,
             \/ Script!ClearStack(h) \/ Script!WriteItem(h) \/ Script!WriteEnds(h)
             \/ Script!Count(h) \/ Script!ReadNext(h) \/ Script!ReadEnds(h)
      PROVE  ScriptGood' /\ Keeps(TRUE)
  BY <1>2, ScriptWrites, ScriptCounts, ScriptReadsNext, ScriptReadEnds, Zenon
<1>3. CASE UNCHANGED Script!vars
  BY <1>3 DEF Script!vars, ScriptGood, CallInv, ScriptInv, Keeps, Quiet
<1>4. CASE Script!Over
  BY <1>3, <1>4 DEF Script!Over
<1>5. QED
  BY <1>1, <1>2, <1>3, <1>4, ScriptExecutes, Zenon
  DEF Script!Next, Script!WritesArguments, Script!ReadsArguments,
      Script!WritesResults, Script!ReadsResults

---------------------------------------------------------------------------
(* Strings *)

(* A C string has no 0 before its end. *)
Unbroken(str) == str \in Seq(Nat) /\ \A k \in 1 .. Len(str) : str[k] # NUL

(* The first 0 of s is at n. *)
EndsAt(s, n) == n \in 1 .. Len(s) /\ s[n] = NUL /\ \A k \in 1 .. n - 1 : s[k] # NUL

(* A string made from a char pointer ends before the first 0. *)
LEMMA CStringEnds ==
  ASSUME NEW S, NEW s \in Seq(S), NEW n, EndsAt(s, n)
  PROVE  CString(s) = SubSeq(s, 1, n - 1)
<1> DEFINE ends == {i \in DOMAIN s : s[i] = NUL}
           Least(i) == i \in ends /\ \A j \in ends : i <= j
           least == CHOOSE i \in ends : \A j \in ends : i <= j
<1>1. DOMAIN s = 1 .. Len(s) /\ Len(s) \in Nat
  OBVIOUS
<1>2. n \in ends /\ \A j \in ends : n <= j
  BY <1>1 DEF EndsAt
<1>3. \A i \in ends : i \in Nat
  BY <1>1
<1> HIDE DEF ends
<1>4. least \in ends /\ \A j \in ends : least <= j
  BY <1>2, Zenon
<1>5. least = n
  BY <1>2, <1>3, <1>4
<1>6. CString(s) = IF ends = {} THEN s ELSE SubSeq(s, 1, least - 1)
  BY Zenon DEF CString, ends
<1>7. QED
  BY <1>2, <1>5, <1>6, Zenon

(* What equals its C string has no 0 in it. *)
LEMMA UnbrokenFacts ==
  ASSUME NEW str \in Seq(Nat), CString(str) = str
  PROVE  Unbroken(str)
<1> DEFINE ends == {i \in 1 .. Len(str) : str[i] = NUL}
<1>1. CASE ends = {}
  BY <1>1 DEF Unbroken
<1>2. CASE ends # {}
  <2>1. ends \in SUBSET Nat
    OBVIOUS
  <2>2. PICK n \in ends : \A j \in ends : n <= j
    BY <1>2, <2>1, LeastNumber
  <2>3. EndsAt(str, n)
    <3>1. n \in 1 .. Len(str) /\ str[n] = NUL
      OBVIOUS
    <3>2. ASSUME NEW k \in 1 .. n - 1 PROVE str[k] # NUL
      BY <2>2
    <3>3. QED
      BY <3>1, <3>2 DEF EndsAt
  <2>4. CString(str) = SubSeq(str, 1, n - 1)
    BY <2>3, CStringEnds
  <2>5. n \in 1 .. Len(str)
    BY <2>3 DEF EndsAt
  <2>6. Len(SubSeq(str, 1, n - 1)) = n - 1
    BY <2>5
  <2>7. QED
    BY <2>4, <2>5, <2>6
<1>3. QED
  BY <1>1, <1>2

(* The lengths of an item's strings and what ends them add up. *)
Lengths(item, end, place) ==
  /\ place \in [0 .. Len(item.values) -> Nat] /\ place[0] = 0
  /\ \A i \in 1 .. Len(item.values) :
       place[i] = place[i - 1] + Len(item.values[i].str) + end

(* The length of the strings of an item, each counted with its 0, is where *)
(* the last of them ends: the recursion of StringsLength, followed.        *)
LEMMA StringsLengthFacts ==
  ASSUME NEW item \in Items, NEW end \in Nat, NEW place, Lengths(item, end, place)
  PROVE  Lua!StringsLength(item, end) = place[Len(item.values)]
<1>1. PICK n \in Nat : n = Len(item.values)
  BY ItemFacts
<1>2. /\ place \in [0 .. n -> Nat] /\ place[0] = 0
      /\ \A i \in 1 .. n : place[i] = place[i - 1] + Len(item.values[i].str) + end
  BY <1>1 DEF Lengths
<1> DEFINE Solves(f) == f = [i \in 0 .. n |->
                IF i = 0 THEN 0 ELSE f[i - 1] + Len(item.values[i].str) + end]
           f == CHOOSE f : Solves(f)
<1>3. Solves(place)
  <2>1. \A i \in 0 .. n : place[i] =
          IF i = 0 THEN 0 ELSE place[i - 1] + Len(item.values[i].str) + end
    BY <1>2
  <2>2. place = [i \in 0 .. n |-> place[i]]
    BY <1>2
  <2>3. QED
    BY <2>1, <2>2, Zenon
<1>4. Solves(f)
  BY <1>3, Zenon
<1>5. Lua!StringsLength(item, end) = f[n]
  BY <1>1, Zenon DEF Lua!StringsLength
<1>6. f[0] = 0 /\ \A i \in 1 .. n :
        f[i] = f[i - 1] + Len(item.values[i].str) + end
  <2> HIDE DEF f
  <2>1. \A i \in 0 .. n : f[i] =
          IF i = 0 THEN 0 ELSE f[i - 1] + Len(item.values[i].str) + end
    BY <1>4, Zenon
  <2>2. 0 \in 0 .. n /\ \A i \in 1 .. n : i \in 0 .. n /\ i # 0
    OBVIOUS
  <2>3. QED
    BY <2>1, <2>2, Zenon
<1> HIDE DEF f
<1>7. f[0] = place[0]
  BY <1>2, <1>6
<1>8. \A i \in 1 .. n : f[i - 1] = place[i - 1] => f[i] = place[i]
  BY <1>2, <1>6, Zenon
<1>9. f[n] = place[n]
  BY <1>7, <1>8, SameUpto
<1>10. QED
  BY <1>1, <1>5, <1>9

(* What a cell of a buffer holds. *)
Cell == Value \cup Nat

(* cells begins with the strings of the item, each with the 0 that ends it.*)
StringsLie(item, place, cells) ==
  \A i \in 1 .. Len(item.values) :
    /\ \A k \in 1 .. Len(item.values[i].str) :
         cells[place[i - 1] + k] = item.values[i].str[k]
    /\ cells[place[i - 1] + Len(item.values[i].str) + 1] = NUL

(* place[i] is where the i-th string of the item ends among its cells. *)
StringPlaces(item, place) ==
  /\ Lengths(item, 1, place)
  /\ StringsLie(item, place, Lua!Cells(item))
  /\ Lua!Cells(item) \in Seq(Nat)
  /\ Len(Lua!Cells(item)) = place[Len(item.values)]

(* The values of strings and buffers are strings. *)
LEMMA StringValues ==
  ASSUME NEW item \in Items, item.type \in {"string", "buffer"}
  PROVE  \A i \in 1 .. Len(item.values) :
           /\ item.values[i].str \in Seq(Nat) /\ Len(item.values[i].str) \in Nat
           /\ item.values[i] = String(item.values[i].str)
<1>1. \A i \in 1 .. Len(item.values) : item.values[i] \in ValuesOf(item.type)
  BY ItemFacts
<1>2. \A v \in ValuesOf(item.type) :
        v.str \in Seq(Nat) /\ Len(v.str) \in Nat /\ v = String(v.str)
  BY DEF ValuesOf, String
<1>3. QED
  BY <1>1, <1>2, Zenon

(* The cells of a string item are its strings, each with the 0 that ends   *)
(* it, one behind the other.                                               *)
LEMMA StringCells ==
  ASSUME NEW item \in Items, item.type = "string"
  PROVE  \E place : StringPlaces(item, place)
<1> DEFINE seqs == [i \in DOMAIN item.values |-> item.values[i].str \o <<NUL>>]
<1>1. PICK n \in Nat : n = Len(item.values)
  BY ItemFacts
<1>2. DOMAIN item.values = 1 .. n
  BY <1>1, ItemFacts
<1>3. \A i \in 1 .. n :
        item.values[i].str \in Seq(Nat) /\ Len(item.values[i].str) \in Nat
  BY <1>1, StringValues
<1>4. ASSUME NEW i \in 1 .. n
      PROVE  /\ seqs[i] \in Seq(Nat) /\ Len(seqs[i]) = Len(item.values[i].str) + 1
             /\ \A k \in 1 .. Len(item.values[i].str) :
                  seqs[i][k] = item.values[i].str[k]
             /\ seqs[i][Len(item.values[i].str) + 1] = NUL
  <2>1. PICK str \in Seq(Nat) : str = item.values[i].str
    BY <1>3
  <2>2. <<NUL>> \in Seq(Nat) /\ Len(<<NUL>>) = 1 /\ <<NUL>>[1] = NUL
    BY DEF NUL
  <2>3. PICK s : s = str \o <<NUL>>
    OBVIOUS
  <2>4. Concatenated(Nat, str, <<NUL>>, s)
    BY <2>2, <2>3, ConcatFacts, Zenon
  <2>5. /\ s \in Seq(Nat) /\ Len(s) = Len(str) + 1
        /\ \A k \in 1 .. Len(str) : s[k] = str[k]
        /\ s[Len(str) + 1] = NUL
    BY <2>2, <2>4 DEF Concatenated
  <2>6. seqs[i] = s
    BY <1>2, <2>1, <2>3, Zenon
  <2>7. QED
    BY <2>1, <2>5, <2>6, Zenon
<1>5. seqs \in Seq(Seq(Nat)) /\ Len(seqs) = n
  BY <1>2, <1>4
<1>6. Lua!Cells(item) = FlattenSeq(seqs)
  BY Zenon DEF Lua!Cells, Lua!FlattenSeq, FlattenSeq, Lua!NUL, NUL
<1> HIDE DEF seqs
<1>7. PICK place : Places(seqs, place)
  BY <1>5, PlacesExist
<1>8. /\ place \in [0 .. n -> Nat] /\ place[0] = 0
      /\ \A i \in 1 .. n : place[i] = place[i - 1] + Len(seqs[i])
  BY <1>5, <1>7 DEF Places
<1>9. Lengths(item, 1, place)
  <2>1. \A i \in 1 .. n : place[i - 1] \in Nat
    BY <1>8
  <2>2. ASSUME NEW i \in 1 .. n
        PROVE  place[i] = place[i - 1] + Len(item.values[i].str) + 1
    <3>1. PICK m \in Nat : m = Len(item.values[i].str)
      BY <1>3
    <3>2. Len(seqs[i]) = m + 1
      BY <1>4, <3>1, Zenon
    <3>3. place[i] = place[i - 1] + Len(seqs[i]) /\ place[i - 1] \in Nat
      BY <1>8, <2>1, Zenon
    <3>4. QED
      BY <3>1, <3>2, <3>3
  <2>3. QED
    BY <1>1, <1>8, <2>2 DEF Lengths
<1>10. /\ FlattenSeq(seqs) \in Seq(Nat) /\ Len(FlattenSeq(seqs)) = place[Len(seqs)]
       /\ \A i \in 1 .. Len(seqs) : \A k \in 1 .. Len(seqs[i]) :
            FlattenSeq(seqs)[place[i - 1] + k] = seqs[i][k]
  <2>1. Flattened(Nat, seqs, place, FlattenSeq(seqs))
    BY <1>5, <1>7, FlattenFacts, Zenon
  <2>2. QED
    BY <2>1, Zenon DEF Flattened
<1>11. PICK cells : cells = FlattenSeq(seqs)
  OBVIOUS
<1>12. ASSUME NEW i \in 1 .. n
       PROVE  /\ \A k \in 1 .. Len(item.values[i].str) :
                   cells[place[i - 1] + k] = item.values[i].str[k]
              /\ cells[place[i - 1] + Len(item.values[i].str) + 1] = NUL
  <2>1. PICK m \in Nat : m = Len(item.values[i].str)
    BY <1>3
  <2>2. /\ Len(seqs[i]) = m + 1 /\ seqs[i][m + 1] = NUL
        /\ \A k \in 1 .. m : seqs[i][k] = item.values[i].str[k]
    BY <1>4, <2>1, Zenon
  <2>3. \A k \in 1 .. m + 1 : cells[place[i - 1] + k] = seqs[i][k]
    BY <1>5, <1>10, <1>11, <2>2
  <2>4. place[i - 1] \in Nat
    BY <1>8
  <2>5. place[i - 1] + (m + 1) = place[i - 1] + m + 1
    BY <2>4
  <2>6. m + 1 \in 1 .. m + 1 /\ \A k \in 1 .. m : k \in 1 .. m + 1
    OBVIOUS
  <2>7. QED
    BY <2>1, <2>2, <2>3, <2>5, <2>6, Zenon
<1>13. StringsLie(item, place, cells)
  BY <1>1, <1>12 DEF StringsLie
<1>14. StringPlaces(item, place)
  BY <1>1, <1>5, <1>6, <1>9, <1>10, <1>11, <1>13, Zenon DEF StringPlaces
<1>15. QED
  BY <1>14

(* The counting loop and the filling loop agree. *)
CellsFit(item) ==
  /\ Lua!Cells(item) \in Seq(Cell)
  /\ Len(Lua!Cells(item)) = Lua!CellCount(item)
  /\ Lua!CellCount(item) \in Nat

(* The writing loop puts as many cells as the counting loop counted. *)
LEMMA CellsFacts ==
  ASSUME NEW item \in Items
  PROVE  CellsFit(item)
<1>1. item.type \in Types /\ item.values \in Seq(Value) /\ Len(item.values) \in Nat
  BY ItemFacts
<1>2. CASE item.type = "nil"
  <2>1. Lua!Cells(item) = << >> /\ Lua!CellCount(item) = 0
    BY <1>2 DEF Lua!Cells, Lua!CellCount
  <2>2. QED
    BY <2>1 DEF CellsFit
<1>3. CASE item.type = "string"
  <2>1. PICK place : StringPlaces(item, place)
    BY <1>3, StringCells
  <2>2. /\ Lengths(item, 1, place) /\ Lua!Cells(item) \in Seq(Nat)
        /\ Len(Lua!Cells(item)) = place[Len(item.values)]
    BY <2>1, Zenon DEF StringPlaces
  <2>3. Lua!CellCount(item) = Lua!StringsLength(item, 1)
    BY <1>3 DEF Lua!CellCount
  <2>4. Lua!StringsLength(item, 1) = place[Len(item.values)]
    BY <2>2, 1 \in Nat, StringsLengthFacts, Zenon
  <2>5. place[Len(item.values)] \in Nat
    BY <1>1, <2>2 DEF Lengths
  <2>6. Lua!Cells(item) \in Seq(Cell)
    BY <2>2 DEF Cell
  <2>7. QED
    BY <2>2, <2>3, <2>4, <2>5, <2>6, Zenon DEF CellsFit
<1>4. CASE item.type = "buffer"
  <2>1. Len(item.values) = 1
    BY <1>4, ItemFacts
  <2>2. PICK str \in Seq(Nat) : str = item.values[1].str
    BY <1>4, <2>1, StringValues, 1 \in 1 .. 1
  <2>3. Lua!Cells(item) = str /\ Lua!CellCount(item) = Lua!StringsLength(item, 0)
    BY <1>4, <2>2 DEF Lua!Cells, Lua!CellCount
  <2> DEFINE place == [i \in 0 .. 1 |-> IF i = 0 THEN 0 ELSE Len(str)]
  <2>4. Lengths(item, 0, place)
    BY <2>1, <2>2 DEF Lengths
  <2>5. place[1] = Len(str)
    OBVIOUS
  <2> HIDE DEF place
  <2>6. Lua!StringsLength(item, 0) = Len(str)
    BY <2>1, <2>4, <2>5, StringsLengthFacts
  <2>7. QED
    BY <2>3, <2>6 DEF CellsFit, Cell
<1>5. CASE item.type \notin {"nil", "string", "buffer"}
  <2>1. Lua!Cells(item) = item.values /\ Lua!CellCount(item) = Len(item.values)
    BY <1>5 DEF Lua!Cells, Lua!CellCount
  <2>2. QED
    BY <1>1, <2>1 DEF CellsFit, Cell
<1>6. QED
  BY <1>2, <1>3, <1>4, <1>5

(* The cells behind the first a. *)
From(cells, a) == SubSeq(cells, a + 1, Len(cells))

(* From a on, cells holds str and the 0 that ends it. *)
HoldsString(cells, a, str) ==
  /\ a \in Nat /\ a + Len(str) + 1 <= Len(cells)
  /\ \A k \in 1 .. Len(str) : cells[a + k] = str[k]
  /\ cells[a + Len(str) + 1] = NUL

(* A C string read at a is str, and reading goes on behind its 0. *)
ReadsString(cells, a, str) ==
  /\ CString(From(cells, a)) = str
  /\ SubSeq(From(cells, a), Len(str) + 2, Len(From(cells, a)))
       = From(cells, a + Len(str) + 1)

(* What s, the cells behind the first a, holds. *)
FromIs(cells, a, s) ==
  /\ s \in Seq({cells[i] : i \in 1 .. Len(cells)})
  /\ Len(s) = Len(cells) - a /\ \A k \in 1 .. Len(s) : s[k] = cells[a + k]

(* A pointer into a buffer sees the cells behind it. *)
LEMMA FromFacts ==
  ASSUME NEW S, NEW cells \in Seq(S), NEW a \in 0 .. Len(cells)
  PROVE  FromIs(cells, a, From(cells, a))
<1> DEFINE T == {cells[i] : i \in 1 .. Len(cells)}
<1>1. cells \in Seq(T)
  OBVIOUS
<1> HIDE DEF T
<1>2. PICK s : s = SubSeq(cells, a + 1, Len(cells))
  OBVIOUS
<1>3. s \in Seq(T) /\ Len(s) = Len(cells) - a
      /\ \A k \in 1 .. Len(s) : s[k] = cells[a + k]
  BY <1>1, <1>2
<1>4. QED
  BY <1>2, <1>3 DEF From, FromIs, T

(* A string without a 0 that lies in a buffer is read as it was. *)
LEMMA OneString ==
  ASSUME NEW S, NEW cells \in Seq(S), NEW a, NEW str, Unbroken(str),
         HoldsString(cells, a, str)
  PROVE  ReadsString(cells, a, str)
<1>1. PICK m \in Nat : m = Len(str)
  BY DEF Unbroken
<1>2. PICK n \in Nat : n = Len(cells)
  OBVIOUS
<1>3. /\ a \in Nat /\ a + m + 1 <= n
      /\ \A k \in 1 .. m : cells[a + k] = str[k] /\ str[k] # NUL
      /\ cells[a + m + 1] = NUL /\ str \in Seq(Nat)
  BY <1>1, <1>2 DEF HoldsString, Unbroken
<1>4. PICK s : s = From(cells, a)
  OBVIOUS
<1>5. FromIs(cells, a, s)
  BY <1>2, <1>3, <1>4, FromFacts, a \in 0 .. Len(cells)
<1>6. PICK T : s \in Seq(T) /\ Len(s) = n - a
               /\ \A k \in 1 .. n - a : s[k] = cells[a + k]
  BY <1>2, <1>5 DEF FromIs
<1>7. /\ m + 1 \in 1 .. Len(s) /\ s[m + 1] = NUL
      /\ \A k \in 1 .. m : s[k] = str[k]
  <2>1. m + 1 \in 1 .. n - a /\ \A k \in 1 .. m : k \in 1 .. n - a
    BY <1>3
  <2>2. a + (m + 1) = a + m + 1
    BY <1>3
  <2>3. s[m + 1] = cells[a + m + 1]
    <3>1. s[m + 1] = cells[a + (m + 1)]
      <4>1. PICK k : k = m + 1
        OBVIOUS
      <4>2. k \in 1 .. n - a
        BY <2>1, <4>1
      <4>3. s[k] = cells[a + k]
        BY <1>6, <4>2, Zenon
      <4>4. QED
        BY <4>1, <4>3
    <3>2. QED
      BY <2>2, <3>1
  <2>4. \A k \in 1 .. m : s[k] = str[k]
    BY <1>3, <1>6, <2>1, Zenon
  <2>5. m + 1 \in 1 .. Len(s)
    BY <1>6, <2>1, Zenon
  <2>6. QED
    BY <1>3, <2>3, <2>4, <2>5, Zenon
<1>8. EndsAt(s, m + 1)
  <2>1. (m + 1) - 1 = m
    OBVIOUS
  <2>2. QED
    BY <1>3, <1>7, <2>1 DEF EndsAt
<1>9. CString(s) = str
  <2>1. CString(s) = SubSeq(s, 1, (m + 1) - 1)
    BY <1>6, <1>8, CStringEnds
  <2>2. SubSeq(s, 1, (m + 1) - 1) = str
    BY <1>1, <1>3, <1>6, <1>7
  <2>3. QED
    BY <2>1, <2>2
<1>10. SubSeq(s, m + 2, Len(s)) = From(cells, a + m + 1)
  <2>1. PICK t : t = SubSeq(s, m + 2, Len(s))
    OBVIOUS
  <2>2. t \in Seq(T) /\ Len(t) = n - (a + m + 1)
        /\ \A k \in 1 .. Len(t) : t[k] = s[m + 1 + k]
    <3>1. PICK w \in Nat : w = m + 1
      OBVIOUS
    <3>2. s \in Seq(T) /\ w <= Len(s) /\ t = SubSeq(s, w + 1, Len(s))
      BY <1>6, <1>7, <2>1, <3>1
    <3>3. /\ t \in Seq(T) /\ Len(t) = Len(s) - w
          /\ \A k \in 1 .. Len(t) : t[k] = s[w + k]
      BY <3>2
    <3>4. Len(s) - w = n - (a + m + 1)
      BY <1>3, <1>6, <3>1
    <3>5. QED
      BY <3>1, <3>3, <3>4
  <2>3. PICK u : u = From(cells, a + m + 1)
    OBVIOUS
  <2>4. FromIs(cells, a + m + 1, u)
    BY <1>2, <1>3, <2>3, FromFacts, a + m + 1 \in 0 .. Len(cells)
  <2>5. PICK U : u \in Seq(U) /\ Len(u) = n - (a + m + 1)
                 /\ \A k \in 1 .. Len(u) : u[k] = cells[a + m + 1 + k]
    BY <1>2, <2>4 DEF FromIs
  <2>6. \A k \in 1 .. n - (a + m + 1) : s[m + 1 + k] = cells[a + m + 1 + k]
    BY <1>3, <1>6
  <2>7. t = u
    BY <2>2, <2>5, <2>6
  <2>8. QED
    BY <2>1, <2>3, <2>7
<1>11. QED
  BY <1>1, <1>4, <1>9, <1>10, Zenon DEF ReadsString

(* Values mean the same to the buffers and to the contract. *)
LEMMA LuaNames ==
  /\ Lua!Nil = Nil /\ Lua!NUL = NUL
  /\ \A s : Lua!CString(s) = CString(s) /\ Lua!String(s) = String(s)
<1>1. Lua!Nil = Nil /\ Lua!NUL = NUL
  BY DEF Lua!Nil, Nil, Lua!NUL, NUL
<1>2. ASSUME NEW s
      PROVE  Lua!CString(s) = CString(s) /\ Lua!String(s) = String(s)
  BY DEF Lua!CString, CString, Lua!String, String, Lua!NUL, NUL
<1>3. QED
  BY <1>1, <1>2

(* The reader of n strings gets them back. *)
LEMMA StringsAtFacts ==
  ASSUME NEW item \in Items, item.type = "string",
         \A i \in 1 .. Len(item.values) : Unbroken(item.values[i].str),
         NEW place, Lengths(item, 1, place),
         NEW S, NEW cells \in Seq(S), StringsLie(item, place, cells),
         place[Len(item.values)] <= Len(cells)
  PROVE  Lua!StringsAt(cells, Len(item.values)) = item.values
<1>1. PICK n \in Nat : n = Len(item.values)
  BY ItemFacts
<1>2. /\ \A i \in 0 .. n : place[i] \in Nat
      /\ place[0] = 0 /\ place \in [0 .. n -> Nat]
      /\ \A i \in 1 .. n : place[i] = place[i - 1] + Len(item.values[i].str) + 1
  BY <1>1 DEF Lengths
<1>3. \A i \in 1 .. n : /\ item.values[i].str \in Seq(Nat)
                        /\ Len(item.values[i].str) \in Nat
                        /\ item.values[i] = String(item.values[i].str)
  BY <1>1, StringValues
<1>4. \A i \in 0 .. n : place[i] <= place[n]
  <2>1. ASSUME NEW i \in 1 .. n PROVE place[i - 1] <= place[i]
    <3>1. i - 1 \in 0 .. n
      OBVIOUS
    <3>2. PICK a \in Nat : a = place[i - 1]
      BY <1>2, <3>1
    <3>3. PICK m \in Nat : m = Len(item.values[i].str)
      BY <1>3
    <3>4. place[i] = a + m + 1
      BY <1>2, <3>2, <3>3, Zenon
    <3>5. QED
      BY <3>2, <3>4
  <2>2. \A j \in 0 .. n : \A i \in 0 .. j : place[i] <= place[j]
    BY <1>2, <2>1, PlacesGrow
  <2>3. QED
    BY <2>2
<1> DEFINE V(i) == item.values[i]
           Part(i) == [j \in 1 .. i |-> V(j)]
           g == [i \in 0 .. n |-> [values |-> Part(i), left |-> From(cells, place[i])]]
           Skip(r) == [values |-> Append(r.values, Lua!String(Lua!CString(r.left))),
                       left |-> SubSeq(r.left, Len(Lua!CString(r.left)) + 1 + 1,
                                       Len(r.left))]
           Solves(f) == f = [i \in 0 .. n |->
                               IF i = 0 THEN [values |-> << >>, left |-> cells]
                               ELSE Skip(f[i - 1])]
           f == CHOOSE f : Solves(f)
<1>5. Lua!StringsAt(cells, n) = f[n].values
  BY Zenon DEF Lua!StringsAt, Lua!StringsSkipping
<1>6. ASSUME NEW i \in 1 .. n
      PROVE  ReadsString(cells, place[i - 1], V(i).str)
             /\ From(cells, place[i]) = From(cells, place[i - 1] + Len(V(i).str) + 1)
  <2>1. PICK str \in Seq(Nat) : str = V(i).str
    BY <1>3
  <2>2. PICK a \in Nat : a = place[i - 1]
    BY <1>2
  <2>3. place[i] = a + Len(str) + 1 /\ place[i] <= Len(cells)
    <3>1. place[i] = a + Len(str) + 1
      BY <1>2, <2>1, <2>2, Zenon
    <3>2. place[i] <= place[n] /\ place[n] <= Len(cells) /\ place[n] \in Nat
      <4>1. i \in 0 .. n /\ n \in 0 .. n
        OBVIOUS
      <4>2. place[n] <= Len(cells)
        BY <1>1, Zenon
      <4>3. QED
        BY <1>2, <1>4, <4>1, <4>2, Zenon
    <3>3. place[i] \in Nat
      BY <1>2
    <3>4. QED
      BY <3>1, <3>2, <3>3
  <2>4. (\A k \in 1 .. Len(str) : cells[a + k] = str[k])
        /\ cells[a + Len(str) + 1] = NUL
    BY <1>1, <2>1, <2>2, Zenon DEF StringsLie
  <2>5. HoldsString(cells, a, str)
    BY <2>2, <2>3, <2>4 DEF HoldsString
  <2>6. Unbroken(str)
    BY <1>1, <2>1
  <2>7. ReadsString(cells, a, str)
    BY <2>5, <2>6, OneString
  <2>8. QED
    BY <2>1, <2>2, <2>3, <2>7, Zenon
<1>7. ASSUME NEW i \in 1 .. n
      PROVE  Skip(g[i - 1]) = g[i]
  <2>1. i - 1 \in 0 .. n /\ i \in 0 .. n /\ i - 1 \in Nat
    OBVIOUS
  <2>2. PICK str \in Seq(Nat) : str = V(i).str
    BY <1>3
  <2>3. PICK left : left = From(cells, place[i - 1])
    OBVIOUS
  <2>4. g[i - 1].values = Part(i - 1) /\ g[i - 1].left = left
    BY <2>1, <2>3
  <2>5. g[i] = [values |-> Part(i), left |-> From(cells, place[i])]
    BY <2>1
  <2>6. Lua!CString(left) = str
        /\ SubSeq(left, Len(str) + 2, Len(left)) = From(cells, place[i])
    BY <1>6, <2>2, <2>3, LuaNames, Zenon DEF ReadsString
  <2>7. Len(str) + 1 + 1 = Len(str) + 2
    OBVIOUS
  <2>8. Append(Part(i - 1), V(i)) = Part(i)
    <3>1. PICK h : h = [j \in 1 .. n |-> V(j)]
      OBVIOUS
    <3>2. Part(i - 1) = [j \in 1 .. i - 1 |-> h[j]] /\ Part(i) = [j \in 1 .. i |-> h[j]]
          /\ V(i) = h[i]
      BY <3>1
    <3> HIDE DEF V, Part
    <3>3. QED
      BY <3>2
  <2>9. Lua!String(str) = V(i)
    BY <1>3, <2>2, LuaNames, Zenon
  <2> HIDE DEF g, V, Part
  <2>10. QED
    BY <2>4, <2>5, <2>6, <2>7, <2>8, <2>9, Zenon
<1>8. g[0] = [values |-> << >>, left |-> cells]
  <2>1. Part(0) = << >>
    OBVIOUS
  <2>2. From(cells, place[0]) = cells
    BY <1>2 DEF From
  <2>3. QED
    BY <2>1, <2>2
<1>9. Solves(g)
  <2>1. \A i \in 0 .. n : g[i] = IF i = 0 THEN [values |-> << >>, left |-> cells]
                                 ELSE Skip(g[i - 1])
    <3> HIDE DEF g, Skip
    <3>1. \A i \in 0 .. n : i = 0 \/ i \in 1 .. n
      OBVIOUS
    <3>2. QED
      BY <1>7, <1>8, <3>1, Zenon
  <2>2. g = [i \in 0 .. n |-> g[i]]
    OBVIOUS
  <2> HIDE DEF g, Skip
  <2>3. QED
    BY <2>1, <2>2, Zenon
<1> HIDE DEF g, Skip
<1>10. Solves(f)
  BY <1>9, Zenon
<1>11. f[0] = [values |-> << >>, left |-> cells]
       /\ \A i \in 1 .. n : f[i] = Skip(f[i - 1])
  <2> HIDE DEF f
  <2>1. \A i \in 0 .. n : f[i] = IF i = 0 THEN [values |-> << >>, left |-> cells]
                                 ELSE Skip(f[i - 1])
    BY <1>10, Zenon
  <2>2. 0 \in 0 .. n /\ \A i \in 1 .. n : i \in 0 .. n /\ i # 0
    OBVIOUS
  <2>3. QED
    BY <2>1, <2>2, Zenon
<1> HIDE DEF f
<1>12. f[n] = g[n]
  <2>1. f[0] = g[0]
    BY <1>8, <1>11
  <2>2. \A i \in 1 .. n : f[i - 1] = g[i - 1] => f[i] = g[i]
    BY <1>7, <1>11, Zenon
  <2>3. QED
    BY <2>1, <2>2, SameUpto
<1>13. g[n].values = item.values
  <2>1. g[n].values = [j \in 1 .. n |-> item.values[j]]
    BY DEF g
  <2>2. item.values \in Seq(Value)
    BY ItemFacts
  <2>3. QED
    BY <1>1, <2>1, <2>2
<1>14. QED
  BY <1>1, <1>5, <1>12, <1>13

---------------------------------------------------------------------------
(* The layout of the buffers *)

(* The cells an item takes in the buffer b. *)
Room(item, b) == IF b = Lua!BufferFor(item.type) THEN Lua!CellCount(item) ELSE 0

(* end[n] is where the first n items end in the buffer b. *)
Ends(c, b, end) ==
  /\ end \in [0 .. Len(c.sent) -> Nat] /\ end[0] = 0
  /\ \A i \in 1 .. Len(c.sent) : end[i] = end[i - 1] + Room(c.sent[i], b)

(* Where the items of c end in the buffer b. *)
EndOf(c, b) == CHOOSE end : Ends(c, b, end)

(* There is such a layout. *)
LEMMA EndFacts ==
  ASSUME NEW c \in HalfCalls, NEW b
  PROVE  Ends(c, b, EndOf(c, b))
<1>1. PICK n \in Nat : n = Len(c.sent)
  BY LookedFacts
<1>2. \A i \in 1 .. n : c.sent[i] \in Items
  BY <1>1, LookedFacts
<1>3. \A i \in 1 .. n : Room(c.sent[i], b) \in Nat
  BY <1>2, CellsFacts DEF Room, CellsFit
<1> DEFINE seqs == [i \in 1 .. n |-> [k \in 1 .. Room(c.sent[i], b) |-> 0]]
<1>4. \A i \in 1 .. n : seqs[i] \in Seq(Nat) /\ Len(seqs[i]) = Room(c.sent[i], b)
  BY <1>3
<1>5. seqs \in Seq(Seq(Nat)) /\ Len(seqs) = n
  BY <1>4
<1> HIDE DEF seqs
<1>6. PICK place : Places(seqs, place)
  BY <1>5, PlacesExist
<1>7. Ends(c, b, place)
  BY <1>1, <1>4, <1>5, <1>6 DEF Places, Ends
<1>8. QED
  BY <1>7, Zenon DEF EndOf

(* Each ends at some cell. *)
LEMMA EndIsNat ==
  ASSUME NEW c \in HalfCalls, NEW b, NEW n \in 0 .. Len(c.sent)
  PROVE  EndOf(c, b)[n] \in Nat
BY EndFacts, Zenon DEF Ends

(* The items lie one behind the other. *)
LEMMA EndsGrow ==
  ASSUME NEW c \in HalfCalls, NEW b
  PROVE  \A j \in 0 .. Len(c.sent) : \A i \in 0 .. j :
           EndOf(c, b)[i] <= EndOf(c, b)[j]
<1>1. PICK n \in Nat : n = Len(c.sent)
  BY LookedFacts
<1>2. PICK end : end = EndOf(c, b)
  OBVIOUS
<1>3. /\ end \in [0 .. n -> Nat]
      /\ \A i \in 1 .. n : end[i] = end[i - 1] + Room(c.sent[i], b)
  BY <1>1, <1>2, EndFacts DEF Ends
<1>4. \A i \in 1 .. n : c.sent[i] \in Items
  BY <1>1, LookedFacts
<1>5. ASSUME NEW i \in 1 .. n PROVE end[i - 1] <= end[i]
  <2>1. PICK a \in Nat : a = end[i - 1]
    BY <1>3
  <2>2. PICK m \in Nat : m = Room(c.sent[i], b)
    BY <1>4, CellsFacts DEF Room, CellsFit
  <2>3. end[i] = a + m
    BY <1>3, <2>1, <2>2, Zenon
  <2>4. QED
    BY <2>1, <2>3
<1>6. \A j \in 0 .. n : \A i \in 0 .. j : end[i] <= end[j]
  BY <1>3, <1>5, PlacesGrow
<1>7. QED
  BY <1>1, <1>2, <1>6

(* The cells of an item stand in a buffer behind the first a cells. *)
Holds(cells, a, item) ==
  /\ a + Lua!CellCount(item) <= Len(cells)
  /\ \A k \in 1 .. Lua!CellCount(item) : cells[a + k] = Lua!Cells(item)[k]

(* The buffer b holds the first n items of c, each at its place. *)
Laid(c, b, cells, n) ==
  /\ cells \in Seq(Cell)
  /\ Len(cells) = EndOf(c, b)[n]
  /\ \A i \in 1 .. n : b = Lua!BufferFor(c.sent[i].type) =>
       Holds(cells, EndOf(c, b)[i - 1], c.sent[i])

(* An item of another type leaves the buffer b as it is. *)
LEMMA FillOther ==
  ASSUME NEW c \in HalfCalls, NEW b, NEW n \in Nat, n < Len(c.sent), NEW cells,
         Laid(c, b, cells, n), b # Lua!BufferFor(c.sent[n + 1].type)
  PROVE  Laid(c, b, cells, n + 1)
<1>1. PICK m \in Nat : m = Len(c.sent)
  BY LookedFacts
<1>2. PICK end : end = EndOf(c, b)
  OBVIOUS
<1>3. /\ end \in [0 .. m -> Nat]
      /\ \A i \in 1 .. m : end[i] = end[i - 1] + Room(c.sent[i], b)
  BY <1>1, <1>2, EndFacts DEF Ends
<1>4. end[n + 1] = end[n]
  <2>1. n + 1 \in 1 .. m /\ (n + 1) - 1 = n /\ n \in 0 .. m
    BY <1>1
  <2>2. end[n + 1] = end[n] + Room(c.sent[n + 1], b)
    BY <1>3, <2>1, Zenon
  <2>3. Room(c.sent[n + 1], b) = 0
    BY DEF Room
  <2>4. end[n] \in Nat
    BY <1>3, <2>1
  <2>5. QED
    BY <2>2, <2>3, <2>4
<1>5. \A i \in 1 .. n + 1 : i \in 1 .. n \/ i = n + 1
  OBVIOUS
<1>6. QED
  BY <1>2, <1>4, <1>5, Zenon DEF Laid

(* An item written behind the others lies where the layout has it, and     *)
(* does not disturb them.                                                  *)
LEMMA FillOne ==
  ASSUME NEW c \in HalfCalls, NEW b, NEW n \in Nat, n < Len(c.sent), NEW cells,
         Laid(c, b, cells, n), b = Lua!BufferFor(c.sent[n + 1].type)
  PROVE  Laid(c, b, cells \o Lua!Cells(c.sent[n + 1]), n + 1)
<1>1. PICK m \in Nat : m = Len(c.sent)
  BY LookedFacts
<1>2. PICK end : end = EndOf(c, b)
  OBVIOUS
<1>3. /\ end \in [0 .. m -> Nat]
      /\ \A i \in 1 .. m : end[i] = end[i - 1] + Room(c.sent[i], b)
      /\ \A j \in 0 .. m : \A i \in 0 .. j : end[i] <= end[j]
  BY <1>1, <1>2, EndFacts, EndsGrow DEF Ends
<1>4. PICK item \in Items : item = c.sent[n + 1]
  BY <1>1, LookedFacts
<1>5. PICK more \in Seq(Cell) : more = Lua!Cells(item) /\ Len(more) = Lua!CellCount(item)
  BY CellsFacts DEF CellsFit
<1>6. /\ cells \in Seq(Cell) /\ Len(cells) = end[n]
      /\ \A i \in 1 .. n : b = Lua!BufferFor(c.sent[i].type) =>
           Holds(cells, end[i - 1], c.sent[i])
  BY <1>2 DEF Laid
<1>7. PICK all : all = cells \o more
  OBVIOUS
<1>8. /\ all \in Seq(Cell) /\ Len(all) = Len(cells) + Len(more)
      /\ \A k \in 1 .. Len(cells) : all[k] = cells[k]
      /\ \A k \in 1 .. Len(more) : all[Len(cells) + k] = more[k]
  <2>1. Concatenated(Cell, cells, more, all)
    BY <1>5, <1>6, <1>7, ConcatFacts, Zenon
  <2>2. QED
    BY <2>1, Zenon DEF Concatenated
<1>9. Len(all) = end[n + 1]
  <2>1. n + 1 \in 1 .. m /\ (n + 1) - 1 = n
    BY <1>1
  <2>2. end[n + 1] = end[n] + Room(item, b)
    BY <1>3, <1>4, <2>1, Zenon
  <2>3. Room(item, b) = Len(more)
    BY <1>4, <1>5 DEF Room
  <2>4. QED
    BY <1>6, <1>8, <2>2, <2>3
<1>10. Holds(all, end[n], item)
  BY <1>5, <1>6, <1>8 DEF Holds
<1>11. ASSUME NEW i \in 1 .. n, b = Lua!BufferFor(c.sent[i].type)
       PROVE  Holds(all, end[i - 1], c.sent[i])
  <2>1. PICK old \in Items : old = c.sent[i]
    BY <1>1, LookedFacts
  <2>2. PICK k0 \in Nat : k0 = Lua!CellCount(old)
    BY CellsFacts DEF CellsFit
  <2>3. PICK a \in Nat : a = end[i - 1]
    <3>1. i - 1 \in 0 .. m
      BY <1>1
    <3>2. QED
      BY <1>3, <3>1
  <2>4. a + k0 <= Len(cells) /\ \A k \in 1 .. k0 : cells[a + k] = Lua!Cells(old)[k]
    BY <1>6, <1>11, <2>1, <2>2, <2>3, Zenon DEF Holds
  <2>5. a + k0 <= Len(all) /\ \A k \in 1 .. k0 : all[a + k] = cells[a + k]
    BY <1>6, <1>8, <2>4
  <2>6. QED
    BY <2>1, <2>2, <2>3, <2>4, <2>5 DEF Holds
<1>12. ASSUME NEW i \in 1 .. n + 1, b = Lua!BufferFor(c.sent[i].type)
       PROVE  Holds(all, end[i - 1], c.sent[i])
  <2>1. CASE i = n + 1
    <3>1. i - 1 = n
      BY <2>1
    <3>2. QED
      BY <1>4, <1>10, <2>1, <3>1, Zenon
  <2>2. CASE i # n + 1
    BY <1>11, <1>12, <2>2
  <2>3. QED
    BY <2>1, <2>2
<1>13. QED
  BY <1>2, <1>4, <1>5, <1>7, <1>8, <1>9, <1>12, Zenon DEF Laid

(* An item of the type expected is received as it was sent. *)
LEMMA ReceivedAsSent ==
  ASSUME NEW item \in Items, EndsOnce(item), NEW e,
         e.type = item.type, e.table = item.table
  PROVE  Received(item, e) = item
<1>1. CASE IsNil(item)
  BY <1>1 DEF Received
<1>2. CASE ~IsNil(item)
  <2>1. DOMAIN item.values = 1 .. Len(item.values)
        /\ item.values \in Seq(Value)
        /\ item = [type |-> item.type, table |-> item.table, values |-> item.values]
        /\ \A i \in 1 .. Len(item.values) : item.values[i] \in ValuesOf(item.type)
    BY ItemFacts
  <2>2. ASSUME NEW i \in 1 .. Len(item.values)
        PROVE  Converted(item.values[i], e.type) = item.values[i]
    <3>1. PICK v : v = item.values[i]
      OBVIOUS
    <3>2. v \in ValuesOf(item.type)
      BY <2>1, <3>1
    <3>3. CASE e.type = "int"
      <4>1. PICK n \in Int : v = [kind |-> "number", num |-> n] /\ n % 2 = 0
        BY <3>2, <3>3 DEF ValuesOf
      <4>2. 2 * Truncated(n) = n
        BY <4>1 DEF Truncated
      <4>3. Number(2 * Truncated(v.num)) = v
        BY <4>1, <4>2 DEF Number
      <4>4. QED
        BY <3>1, <3>3, <4>3 DEF Converted
    <3>4. CASE e.type = "string"
      <4>1. CString(v.str) = v.str
        BY <2>1, <3>1, <3>4 DEF EndsOnce
      <4>2. v = String(v.str)
        BY <3>1, <3>4, StringValues
      <4>3. QED
        BY <3>1, <3>4, <4>1, <4>2 DEF Converted
    <3>5. CASE e.type = "float"
      <4>1. PICK n \in Int : v = [kind |-> "number", num |-> n] /\ Rounded(n) = n
        BY <3>2, <3>5 DEF ValuesOf
      <4>2. Number(Rounded(v.num)) = v
        BY <4>1 DEF Number
      <4>3. QED
        BY <3>1, <3>5, <4>2 DEF Converted
    <3>6. CASE e.type \notin {"int", "float", "string"}
      BY <3>6 DEF Converted
    <3>7. QED
      BY <3>3, <3>4, <3>5, <3>6
  <2>3. Received(item, e) = [type |-> e.type, table |-> e.table,
            values |-> [i \in DOMAIN item.values |-> Converted(item.values[i], e.type)]]
    BY <1>2, Zenon DEF Received
  <2>4. [i \in DOMAIN item.values |-> Converted(item.values[i], e.type)] = item.values
    BY <2>1, <2>2
  <2>5. QED
    BY <2>1, <2>3, <2>4, Zenon
<1>3. QED
  BY <1>1, <1>2

(* CLuaFunctionData accepts what fits. *)
Accepts(shape, e) ==
  ~ \/ <<shape.type, shape.table>> # <<e.type, e.table>>
    \/ Lua!TooSmall(shape, e)
    \/ shape.table /\ shape.type = "buffer"

(* The reader accepts by the shape it is told of what the contract accepts *)
(* by the item.                                                            *)
LEMMA AcceptsFacts ==
  ASSUME NEW item \in Items, ~IsNil(item), NEW e \in Expectations
  PROVE  Accepts(Lua!ShapeOf(item), e) <=> Fits(FALSE, item, e)
<1>1. PICK shape : shape = Lua!ShapeOf(item)
  OBVIOUS
<1>2. /\ item.type \in Types /\ item.table \in BOOLEAN
      /\ item.table => item.type # "buffer"
      /\ e.table \in BOOLEAN /\ e.min \in Nat
  BY ItemFacts DEF Expectations
<1>3. /\ shape.type = item.type /\ shape.table = item.table
      /\ item.table => shape.size = ItemSize(item)
      /\ item.type = "buffer" => shape.size = ItemSize(item)
  BY <1>1, <1>2 DEF Lua!ShapeOf, ItemSize
<1>4. ItemSize(item) \in Nat \/ (~item.table /\ item.type # "buffer")
  <2>1. CASE item.table
    BY <2>1, ItemFacts DEF ItemSize
  <2>2. CASE ~item.table /\ item.type = "buffer"
    <3>1. Len(item.values) = 1
      BY <2>2, ItemFacts
    <3>2. Len(item.values[1].str) \in Nat
      BY <2>2, <3>1, StringValues, 1 \in 1 .. 1
    <3>3. QED
      BY <2>2, <3>2 DEF ItemSize
  <2>3. QED
    BY <2>1, <2>2
<1>5. Fits(FALSE, item, e) <=>
        /\ item.table = e.table /\ item.type = e.type
        /\ (e.table \/ e.type = "buffer") /\ e.min # 0 => ItemSize(item) >= e.min
  <2>1. Group(FALSE, item.type) = item.type /\ Group(FALSE, e.type) = e.type
    BY DEF Group
  <2>2. QED
    BY <1>2, <2>1 DEF Fits
<1>6. Accepts(shape, e) <=>
        /\ item.table = e.table /\ item.type = e.type
        /\ ~((item.table \/ item.type = "buffer") /\ shape.size < e.min /\ e.min # 0)
  BY <1>2, <1>3 DEF Accepts, Lua!TooSmall
<1>7. (item.table \/ item.type = "buffer") =>
        (~(shape.size < e.min) <=> ItemSize(item) >= e.min)
  BY <1>2, <1>3, <1>4
<1>8. Accepts(shape, e) <=> Fits(FALSE, item, e)
  <2>1. CASE item.table = e.table /\ item.type = e.type
    <3>1. (e.table \/ e.type = "buffer") <=> (item.table \/ item.type = "buffer")
      BY <2>1
    <3>2. QED
      BY <1>5, <1>6, <1>7, <2>1, <3>1, Zenon
  <2>2. CASE ~(item.table = e.table /\ item.type = e.type)
    BY <1>5, <1>6, <2>2, Zenon
  <2>3. QED
    BY <2>1, <2>2
<1>9. QED
  BY <1>1, <1>8

(* What the reader takes from a buffer whose cells from the cursor on are  *)
(* those of the item.                                                      *)
Takes(cells, a, own) == SubSeq(From(cells, a), 1, Len(own)) = own

(* The reader takes the cells that lie at its cursor. *)
LEMMA TakenFacts ==
  ASSUME NEW S, NEW cells \in Seq(S), NEW a \in Nat, NEW T, NEW own \in Seq(T),
         a + Len(own) <= Len(cells), \A k \in 1 .. Len(own) : cells[a + k] = own[k]
  PROVE  Takes(cells, a, own)
<1>0. PICK n \in Nat : n = Len(own)
  OBVIOUS
<1>1. PICK s : s = From(cells, a)
  OBVIOUS
<1>2. FromIs(cells, a, s)
  BY <1>0, <1>1, FromFacts, a \in 0 .. Len(cells)
<1>3. PICK U : s \in Seq(U) /\ Len(s) = Len(cells) - a
               /\ \A k \in 1 .. Len(s) : s[k] = cells[a + k]
  BY <1>2 DEF FromIs
<1>4. \A k \in 1 .. n : s[k] = own[k]
  BY <1>0, <1>3
<1>5. SubSeq(s, 1, n) = own
  BY <1>0, <1>3, <1>4
<1>6. QED
  BY <1>0, <1>1, <1>5 DEF Takes

(* Strings are taken from the buffer one by one as they were written. *)
LEMMA ReadStrings ==
  ASSUME NEW item \in Items, item.type = "string", EndsOnce(item),
         NEW cells \in Seq(Cell), NEW a \in Nat, Holds(cells, a, item)
  PROVE  Lua!StringsAt(From(cells, a), Len(item.values)) = item.values
<1>1. PICK n \in Nat : n = Len(item.values)
  BY ItemFacts
<1>2. DOMAIN item.values = 1 .. n
  BY <1>1, ItemFacts
<1>3. PICK own \in Seq(Nat) : own = Lua!Cells(item)
  <2>1. PICK place : StringPlaces(item, place)
    BY StringCells
  <2>2. QED
    BY <2>1, Zenon DEF StringPlaces
<1>4. PICK place : StringPlaces(item, place)
  BY StringCells
<1>5. /\ Lengths(item, 1, place) /\ StringsLie(item, place, own)
      /\ Len(own) = place[n]
  BY <1>1, <1>3, <1>4, Zenon DEF StringPlaces
<1>6. /\ \A i \in 0 .. n : place[i] \in Nat
      /\ place[0] = 0 /\ place \in [0 .. n -> Nat]
      /\ \A i \in 1 .. n : place[i] = place[i - 1] + Len(item.values[i].str) + 1
  BY <1>1, <1>5 DEF Lengths
<1>7. Lua!CellCount(item) = Len(own)
  BY <1>3, CellsFacts DEF CellsFit
<1>8. /\ a + Len(own) <= Len(cells)
      /\ \A k \in 1 .. Len(own) : cells[a + k] = own[k]
  BY <1>3, <1>7, Zenon DEF Holds
<1>9. PICK s : s = From(cells, a)
  OBVIOUS
<1>10. FromIs(cells, a, s)
  BY <1>8, <1>9, FromFacts, a \in 0 .. Len(cells)
<1>11. PICK U : s \in Seq(U) /\ Len(s) = Len(cells) - a
                /\ \A k \in 1 .. Len(s) : s[k] = cells[a + k]
  BY <1>10 DEF FromIs
<1>12. Len(own) <= Len(s) /\ \A k \in 1 .. Len(own) : s[k] = own[k]
  BY <1>8, <1>11
<1>13. ASSUME NEW i \in 1 .. n
       PROVE  /\ \A k \in 1 .. Len(item.values[i].str) :
                   s[place[i - 1] + k] = item.values[i].str[k]
              /\ s[place[i - 1] + Len(item.values[i].str) + 1] = NUL
  <2>1. i - 1 \in 0 .. n /\ i \in 0 .. n /\ n \in 0 .. n
    OBVIOUS
  <2>2. PICK m \in Nat : m = Len(item.values[i].str)
    BY <1>1, StringValues
  <2>3. PICK b \in Nat : b = place[i - 1]
    BY <1>6, <2>1
  <2>4. place[i] = b + m + 1
    BY <1>6, <2>2, <2>3, Zenon
  <2>5. place[i] <= place[n]
    <3>1. \A j \in 1 .. n : place[j - 1] <= place[j]
      <4>1. TAKE j \in 1 .. n
      <4>2. PICK q \in Nat : q = Len(item.values[j].str)
        BY <1>1, StringValues
      <4>3. PICK r \in Nat : r = place[j - 1]
        BY <1>6, j - 1 \in 0 .. n
      <4>4. place[j] = r + q + 1
        BY <1>6, <4>2, <4>3, Zenon
      <4>5. QED
        BY <4>3, <4>4
    <3>2. \A j \in 0 .. n : \A k \in 0 .. j : place[k] <= place[j]
      BY <1>6, <3>1, PlacesGrow
    <3>3. QED
      BY <3>2
  <2>6. b + m + 1 <= Len(own)
    BY <1>5, <2>4, <2>5, Zenon
  <2>7. (\A k \in 1 .. m : own[b + k] = item.values[i].str[k])
        /\ own[b + m + 1] = NUL
    BY <1>1, <1>5, <2>2, <2>3, Zenon DEF StringsLie
  <2>8. \A k \in 1 .. m + 1 : b + k \in 1 .. Len(own)
    BY <2>6
  <2>9. (\A k \in 1 .. m : k \in 1 .. m + 1) /\ m + 1 \in 1 .. m + 1
        /\ b + (m + 1) = b + m + 1
    OBVIOUS
  <2>10. \A k \in 1 .. m + 1 : s[b + k] = own[b + k]
    BY <1>12, <2>8
  <2>11. QED
    BY <2>2, <2>3, <2>7, <2>9, <2>10, Zenon
<1>14. StringsLie(item, place, s)
  BY <1>1, <1>13 DEF StringsLie
<1>15. \A i \in 1 .. n : Unbroken(item.values[i].str)
  <2>1. TAKE i \in 1 .. n
  <2>2. item.values[i].str \in Seq(Nat)
    BY <1>1, StringValues
  <2>3. CString(item.values[i].str) = item.values[i].str
    BY <1>2 DEF EndsOnce
  <2>4. QED
    BY <2>2, <2>3, UnbrokenFacts
<1>16. place[n] <= Len(s)
  BY <1>5, <1>12
<1>17. Lua!StringsAt(s, n) = item.values
  BY <1>1, <1>5, <1>11, <1>14, <1>15, <1>16, StringsAtFacts
<1>18. QED
  BY <1>1, <1>9, <1>17

(* The cursors stand where the cells of the item begin. *)
CursorsAt(h, item) ==
  item.type # "nil" =>
    LET b == Lua!BufferFor(item.type)
    IN  /\ p[h].buf[b] \in Seq(Cell) /\ cursor[b] \in Nat
        /\ Holds(p[h].buf[b], cursor[b], item)

(* A cursor at the place of an item takes that item. *)
LEMMA ReadItemFacts ==
  ASSUME NEW h, NEW item \in Items, ~IsNil(item), EndsOnce(item), CursorsAt(h, item)
  PROVE  Lua!ReadItem(h, Lua!ShapeOf(item)) = item
<1>1. PICK n \in Nat : n = Len(item.values)
  BY ItemFacts
<1>2. /\ item.type \in Types /\ item.table \in BOOLEAN
      /\ item.values \in Seq(Value)
      /\ item.table => item.type # "buffer"
      /\ ~item.table => n = 1
      /\ item = [type |-> item.type, table |-> item.table, values |-> item.values]
      /\ \A i \in 1 .. n : item.values[i] \in ValuesOf(item.type)
  BY <1>1, ItemFacts
<1>3. PICK shape : shape = Lua!ShapeOf(item)
  OBVIOUS
<1>4. /\ shape.type = item.type /\ shape.table = item.table
      /\ item.table => shape.size = n
      /\ item.type = "buffer" => shape.size = Len(item.values[1].str)
  BY <1>1, <1>2, <1>3 DEF Lua!ShapeOf
<1>5. (IF shape.table THEN shape.size ELSE 1) = n
  BY <1>2, <1>4
<1>6. Lua!ReadValues(h, shape) = item.values
  <2>1. CASE item.type = "nil"
    <3>1. \A i \in 1 .. n : item.values[i] = Nil
      BY <1>2, <2>1 DEF ValuesOf
    <3>2. Lua!ReadValues(h, shape) = [i \in 1 .. n |-> Lua!Nil]
      BY <1>4, <1>5, <2>1, Zenon DEF Lua!ReadValues
    <3>3. QED
      BY <1>1, <1>2, <3>1, <3>2, LuaNames
  <2>2. CASE item.type # "nil"
    <3>1. PICK b : b = Lua!BufferFor(item.type)
      OBVIOUS
    <3>2. PICK cells : cells = p[h].buf[b]
      OBVIOUS
    <3>3. PICK a : a = cursor[b]
      OBVIOUS
    <3>4. cells \in Seq(Cell) /\ a \in Nat /\ Holds(cells, a, item)
      BY <2>2, <3>1, <3>2, <3>3, Zenon DEF CursorsAt
    <3>5. Lua!From(h, b) = From(cells, a)
      BY <3>2, <3>3, Zenon DEF Lua!From, From
    <3>6. CASE item.type = "string"
      <4>1. b = "char"
        BY <3>1, <3>6 DEF Lua!BufferFor
      <4>2. Lua!ReadValues(h, shape) = Lua!StringsAt(From(cells, a), n)
        BY <1>4, <1>5, <3>5, <3>6, <4>1, Zenon DEF Lua!ReadValues
      <4>3. QED
        BY <1>1, <3>4, <3>6, <4>2, ReadStrings
    <3>7. CASE item.type # "string"
      <4>1. PICK own : own = Lua!Cells(item)
        OBVIOUS
      <4>2. own \in Seq(Cell) /\ Len(own) = Lua!CellCount(item)
        BY <4>1, CellsFacts DEF CellsFit
      <4>3. /\ a + Len(own) <= Len(cells)
            /\ \A k \in 1 .. Len(own) : cells[a + k] = own[k]
        BY <3>4, <4>1, <4>2, Zenon DEF Holds
      <4>4. SubSeq(From(cells, a), 1, Len(own)) = own
        BY <3>4, <4>2, <4>3, TakenFacts, Zenon DEF Takes
      <4>5. CASE item.type = "buffer"
        <5>1. b = "charBuff" /\ own = item.values[1].str /\ n = 1
          BY <1>2, <3>1, <4>1, <4>5 DEF Lua!BufferFor, Lua!Cells
        <5>2. Lua!ReadValues(h, shape)
                = <<Lua!String(SubSeq(Lua!From(h, "charBuff"), 1, shape.size))>>
          BY <1>4, <4>5, Zenon DEF Lua!ReadValues
        <5>3. shape.size = Len(own)
          BY <1>4, <4>5, <5>1
        <5>4. Lua!ReadValues(h, shape) = <<String(own)>>
          BY <3>5, <4>4, <5>1, <5>2, <5>3, LuaNames, Zenon
        <5>5. item.values[1] = String(own)
          <6>1. 1 \in 1 .. Len(item.values)
            BY <1>1, <5>1
          <6>2. item.values[1] = String(item.values[1].str)
            BY <4>5, <6>1, StringValues, Zenon
          <6>3. QED
            BY <5>1, <6>2, Zenon
        <5>6. item.values = <<item.values[1]>>
          <6>1. PICK vs \in Seq(Value) : vs = item.values
            BY <1>2
          <6>2. Len(vs) = 1
            BY <1>1, <5>1, <6>1
          <6>3. vs = <<vs[1]>>
            BY <6>2
          <6>4. QED
            BY <6>1, <6>3
        <5>7. QED
          BY <5>4, <5>5, <5>6, Zenon
      <4>6. CASE item.type # "buffer"
        <5>1. b = item.type /\ own = item.values
          BY <2>2, <3>1, <3>7, <4>1, <4>6 DEF Lua!BufferFor, Lua!Cells
        <5>2. Lua!ReadValues(h, shape) = SubSeq(Lua!From(h, shape.type), 1, n)
          BY <1>4, <1>5, <2>2, <3>7, <4>6, Zenon DEF Lua!ReadValues
        <5>3. QED
          BY <1>1, <1>4, <3>5, <4>4, <5>1, <5>2, Zenon
      <4>7. QED
        BY <4>5, <4>6
    <3>8. QED
      BY <3>6, <3>7
  <2>3. QED
    BY <2>1, <2>2
<1>7. QED
  BY <1>2, <1>3, <1>4, <1>6, Zenon DEF Lua!ReadItem

---------------------------------------------------------------------------
(* The call over SLuaCallBack *)

(* The shapes of the first n items, which the reader is told. *)
Shapes(c, n) == [i \in 1 .. n |-> Lua!ShapeOf(c.sent[i])]

(* A block has shapes and the six buffers. *)
IsBlock(block) ==
  block = [shape |-> block.shape,
           buf |-> [b \in Lua!Buffers |-> block.buf[b]]]

(* The first n items are counted. *)
Counts(c, n, block, cells) ==
  /\ n \in Nat /\ n <= Len(c.sent) /\ IsBlock(block)
  /\ block.shape = Shapes(c, n)
  /\ \A b \in Lua!Buffers : cells[b] = EndOf(c, b)[n] /\ block.buf[b] = << >>

(* All are counted, the buffers hold the first n. *)
Fills(c, n, block, cells) ==
  /\ n \in Nat /\ n <= Len(c.sent) /\ IsBlock(block)
  /\ block.shape = Shapes(c, Len(c.sent))
  /\ \A b \in Lua!Buffers :
       cells[b] = EndOf(c, b)[Len(c.sent)] /\ Laid(c, b, block.buf[b], n)

(* All are there, the reader has taken the first n. *)
Takings(c, n, block, cells, places, items) ==
  /\ Fills(c, Len(c.sent), block, cells)
  /\ n \in 0 .. Len(c.sent) /\ \A b \in Lua!Buffers : places[b] = EndOf(c, b)[n]
  /\ Len(c.sent) >= c.required => HasRead(FALSE, c, n, items)

(* Those are the fields it has. *)
LEMMA BlockFacts ==
  ASSUME NEW block, IsBlock(block)
  PROVE  /\ DOMAIN block = {"shape", "buf"}
         /\ DOMAIN block.buf = Lua!Buffers
<1>1. PICK s : s = block.shape
  OBVIOUS
<1>2. PICK f : f = [b \in Lua!Buffers |-> block.buf[b]]
  OBVIOUS
<1>3. block = [shape |-> s, buf |-> f]
  BY <1>1, <1>2 DEF IsBlock
<1>4. DOMAIN block = {"shape", "buf"} /\ block.buf = f
  BY <1>3
<1>5. QED
  BY <1>2, <1>4

(* Counting one more item. *)
LEMMA CountOne ==
  ASSUME NEW c \in HalfCalls, NEW n, n < Len(c.sent),
         NEW block, NEW cells, Counts(c, n, block, cells),
         NEW block2, IsBlock(block2),
         block2.shape = Append(block.shape, Lua!ShapeOf(c.sent[n + 1])),
         block2.buf = block.buf,
         NEW cells2,
         \A b \in Lua!Buffers : cells2[b] =
             IF b = Lua!BufferFor(c.sent[n + 1].type)
             THEN cells[b] + Lua!CellCount(c.sent[n + 1]) ELSE cells[b]
  PROVE  Counts(c, n + 1, block2, cells2)
<1>1. PICK m \in Nat : m = Len(c.sent)
  BY LookedFacts
<1>2. /\ n \in Nat /\ n < m /\ n + 1 \in 1 .. m /\ (n + 1) - 1 = n
  BY <1>1 DEF Counts
<1>3. block2.shape = Shapes(c, n + 1)
  <2>1. block.shape = Shapes(c, n)
    BY DEF Counts
  <2>2. Append(Shapes(c, n), Lua!ShapeOf(c.sent[n + 1])) = Shapes(c, n + 1)
    BY <1>2 DEF Shapes
  <2>3. QED
    BY <2>1, <2>2
<1>4. ASSUME NEW b \in Lua!Buffers
      PROVE  cells2[b] = EndOf(c, b)[n + 1]
  <2>1. cells[b] = EndOf(c, b)[n]
    BY DEF Counts
  <2>2. EndOf(c, b)[n + 1] = EndOf(c, b)[n] + Room(c.sent[n + 1], b)
    BY <1>1, <1>2, EndFacts, Zenon DEF Ends
  <2>3. EndOf(c, b)[n] \in Nat
    BY <1>1, <1>2, EndIsNat
  <2>4. QED
    BY <2>1, <2>2, <2>3 DEF Room
<1>5. \A b \in Lua!Buffers : block2.buf[b] = << >>
  BY DEF Counts
<1>6. QED
  BY <1>1, <1>2, <1>3, <1>4, <1>5 DEF Counts

(* When all items are counted the buffers have their sizes and are empty. *)
LEMMA CountedAll ==
  ASSUME NEW c \in HalfCalls, NEW block, NEW cells,
         Counts(c, Len(c.sent), block, cells)
  PROVE  Fills(c, 0, block, cells)
<1>1. PICK m \in Nat : m = Len(c.sent)
  BY LookedFacts
<1>2. ASSUME NEW b \in Lua!Buffers PROVE Laid(c, b, block.buf[b], 0)
  <2>1. block.buf[b] = << >>
    BY DEF Counts
  <2>2. EndOf(c, b)[0] = 0
    BY EndFacts DEF Ends
  <2>3. << >> \in Seq(Cell) /\ Len(<< >>) = 0
    OBVIOUS
  <2>4. QED
    BY <2>1, <2>2, <2>3 DEF Laid
<1>3. QED
  BY <1>1, <1>2 DEF Counts, Fills

(* Filling in one more item. *)
LEMMA FillNext ==
  ASSUME NEW c \in HalfCalls, NEW n, n < Len(c.sent),
         NEW block, NEW cells, Fills(c, n, block, cells),
         NEW block2, IsBlock(block2), block2.shape = block.shape,
         \A b \in Lua!Buffers : block2.buf[b] =
            IF b = Lua!BufferFor(c.sent[n + 1].type)
            THEN block.buf[b] \o Lua!Cells(c.sent[n + 1]) ELSE block.buf[b]
  PROVE  Fills(c, n + 1, block2, cells)
<1>1. PICK m \in Nat : m = Len(c.sent)
  BY LookedFacts
<1>2. n \in Nat /\ n < m
  BY <1>1 DEF Fills
<1>3. ASSUME NEW b \in Lua!Buffers PROVE Laid(c, b, block2.buf[b], n + 1)
  <2>1. Laid(c, b, block.buf[b], n)
    BY DEF Fills
  <2>2. CASE b = Lua!BufferFor(c.sent[n + 1].type)
    <3>1. block2.buf[b] = block.buf[b] \o Lua!Cells(c.sent[n + 1])
      BY <2>2, Zenon
    <3>2. Laid(c, b, block.buf[b] \o Lua!Cells(c.sent[n + 1]), n + 1)
      BY <1>2, <2>1, <2>2, FillOne, Zenon
    <3>3. QED
      BY <3>1, <3>2, Zenon
  <2>3. CASE b # Lua!BufferFor(c.sent[n + 1].type)
    <3>1. block2.buf[b] = block.buf[b]
      BY <2>3, Zenon
    <3>2. QED
      BY <1>2, <2>1, <2>3, <3>1, FillOther, Zenon
  <2>4. QED
    BY <2>2, <2>3
<1>4. QED
  BY <1>1, <1>2, <1>3 DEF Fills

(* When all are filled in the reader may begin, its cursors at 0. *)
LEMMA FilledAll ==
  ASSUME NEW c \in HalfCalls, NEW block, NEW cells,
         Fills(c, Len(c.sent), block, cells),
         NEW places, \A b \in Lua!Buffers : places[b] = 0
  PROVE  Takings(c, 0, block, cells, places, << >>)
<1>1. /\ Len(c.sent) \in Nat /\ Len(c.expected) \in Nat /\ c.required \in Nat
  BY LookedFacts
<1>2. \A b \in Lua!Buffers : EndOf(c, b)[0] = 0
  BY EndFacts DEF Ends
<1>3. ASSUME Len(c.sent) >= c.required PROVE HasRead(FALSE, c, 0, << >>)
  <2>1. ReadUpto(FALSE, c, 0)
    BY <1>1, <1>3 DEF ReadUpto
  <2>2. ReceivedUpto(c, 0) = << >>
    BY DEF ReceivedUpto
  <2>3. QED
    BY <2>1, <2>2 DEF HasRead
<1>4. 0 \in 0 .. Len(c.sent) /\ \A b \in Lua!Buffers : places[b] = EndOf(c, b)[0]
  BY <1>1, <1>2
<1>5. QED
  BY <1>3, <1>4, Zenon DEF Takings

(* Every item but nil has a buffer. *)
LEMMA BufferFacts ==
  ASSUME NEW item \in Items
  PROVE  Lua!BufferFor(item.type) \in Lua!Buffers <=> item.type # "nil"
BY ItemFacts DEF Types, Lua!BufferFor, Lua!Buffers

(* While the reader takes the items, each cursor is where the next item of *)
(* its buffer lies.                                                        *)
LEMMA CursorFacts ==
  ASSUME NEW c \in HalfCalls, NEW n, NEW h, NEW items,
         Takings(c, n, p[h], counts, cursor, items), n < Len(c.sent)
  PROVE  CursorsAt(h, c.sent[n + 1])
<1>1. PICK m \in Nat : m = Len(c.sent)
  BY LookedFacts
<1>2. n \in Nat /\ n < m /\ n \in 0 .. m /\ n + 1 \in 1 .. m /\ (n + 1) - 1 = n
      /\ m \in 0 .. m
  BY <1>1 DEF Takings
<1>3. PICK item \in Items : item = c.sent[n + 1]
  BY <1>1, <1>2, LookedFacts
<1>4. ASSUME item.type # "nil", NEW b, b = Lua!BufferFor(item.type)
      PROVE  /\ p[h].buf[b] \in Seq(Cell) /\ cursor[b] \in Nat
             /\ Holds(p[h].buf[b], cursor[b], item)
  <2>1. b \in Lua!Buffers
    BY <1>4, BufferFacts
  <2>2. Laid(c, b, p[h].buf[b], m) /\ cursor[b] = EndOf(c, b)[n]
    BY <1>1, <2>1 DEF Takings, Fills
  <2>3. EndOf(c, b)[n] \in Nat
    BY <1>1, <1>2, EndIsNat
  <2>4. p[h].buf[b] \in Seq(Cell) /\ Holds(p[h].buf[b], EndOf(c, b)[n], item)
    BY <1>2, <1>3, <1>4, <2>2, Zenon DEF Laid
  <2>5. QED
    BY <2>2, <2>3, <2>4
<1>5. QED
  BY <1>3, <1>4 DEF CursorsAt

(* The cursor of the item's buffer passes its cells. *)
PassesItem(places, item, places2) ==
  \A b \in Lua!Buffers :
    places2[b] = IF b = Lua!BufferFor(item.type)
                 THEN places[b] + Lua!CellCount(item) ELSE places[b]

(* Taking an item moves the cursor of its buffer behind it, and no other. *)
LEMMA TakeOne ==
  ASSUME NEW c \in HalfCalls, NEW n, NEW block, NEW cells, NEW places, NEW items,
         Takings(c, n, block, cells, places, items), More(c, n),
         Len(c.sent) >= c.required, Passes(c, n + 1),
         Fits(FALSE, c.sent[n + 1], c.expected[n + 1]),
         NEW places2, PassesItem(places, c.sent[n + 1], places2)
  PROVE  Takings(c, n + 1, block, cells, places2,
                 Append(items, Received(c.sent[n + 1], c.expected[n + 1])))
<1>1. PICK m \in Nat : m = Len(c.sent)
  BY LookedFacts
<1>2. n \in Nat /\ n < m /\ n \in 0 .. m /\ n + 1 \in 1 .. m /\ (n + 1) - 1 = n
      /\ n + 1 \in 0 .. m
  BY <1>1 DEF Takings, More
<1>3. HasRead(FALSE, c, n + 1,
              Append(items, Received(c.sent[n + 1], c.expected[n + 1])))
  <2>1. HasRead(FALSE, c, n, items)
    BY DEF Takings
  <2>2. QED
    BY <2>1, ReadsMore
<1>4. ASSUME NEW b \in Lua!Buffers PROVE places2[b] = EndOf(c, b)[n + 1]
  <2>1. places[b] = EndOf(c, b)[n]
    BY DEF Takings
  <2>2. EndOf(c, b)[n + 1] = EndOf(c, b)[n] + Room(c.sent[n + 1], b)
    BY <1>1, <1>2, EndFacts, Zenon DEF Ends
  <2>3. EndOf(c, b)[n] \in Nat
    BY <1>1, <1>2, EndIsNat
  <2>4. QED
    BY <2>1, <2>2, <2>3 DEF Room, PassesItem
<1>5. QED
  BY <1>1, <1>2, <1>3, <1>4, Zenon DEF Takings

(* Where the reader and the filling loop are, they are within the room that*)
(* was counted.                                                            *)
LEMMA FillsExact ==
  ASSUME NEW c \in HalfCalls, NEW n, NEW block, NEW cells,
         Fills(c, n, block, cells), NEW b \in Lua!Buffers
  PROVE  Len(block.buf[b]) <= cells[b]
<1>1. PICK m \in Nat : m = Len(c.sent)
  BY LookedFacts
<1>2. n \in 0 .. m /\ m \in 0 .. m
  BY <1>1 DEF Fills
<1>3. Len(block.buf[b]) = EndOf(c, b)[n] /\ cells[b] = EndOf(c, b)[m]
  BY <1>1 DEF Fills, Laid
<1>4. EndOf(c, b)[n] <= EndOf(c, b)[m]
  BY <1>1, <1>2, EndsGrow
<1>5. QED
  BY <1>3, <1>4, Zenon

(* The buffers are as long as was counted, and no cursor leaves its buffer. *)
LEMMA TakingsExact ==
  ASSUME NEW c \in HalfCalls, NEW n, NEW block, NEW cells, NEW places, NEW items,
         Takings(c, n, block, cells, places, items), NEW b \in Lua!Buffers
  PROVE  Len(block.buf[b]) = cells[b] /\ places[b] <= cells[b]
<1>1. PICK m \in Nat : m = Len(c.sent)
  BY LookedFacts
<1>2. n \in 0 .. m /\ m \in 0 .. m
  BY <1>1 DEF Takings
<1>3. /\ Len(block.buf[b]) = EndOf(c, b)[m] /\ cells[b] = EndOf(c, b)[m]
      /\ places[b] = EndOf(c, b)[n]
  BY <1>1 DEF Takings, Fills, Laid
<1>4. EndOf(c, b)[n] <= EndOf(c, b)[m]
  BY <1>1, <1>2, EndsGrow
<1>5. QED
  BY <1>3, <1>4, Zenon

(* What holds between two steps over the buffers: the counts are those of  *)
(* the items counted; the buffers hold the items filled in at the places   *)
(* of the layout, and never more than was counted; the cursors are where   *)
(* the next items lie.                                                     *)
LuaInv ==
  /\ phase \in {"count", "fill", "read", "returned", "released"}
  /\ phase \notin {"returned", "released"} => verdict[half] = "open"
  /\ half = "in" => p["out"] = Lua!NoBlock
  /\ phase = "count" => Counts(call[half], turn, p[half], counts)
  /\ phase = "fill" => Fills(call[half], turn, p[half], counts)
  /\ phase = "read" =>
       Takings(call[half], turn, p[half], counts, cursor, data[half])

(* The inductive invariant of a call over the buffers. *)
LuaGood == CallInv(BufferCalls) /\ DOMAIN p = Halves /\ LuaInv

(* At first nothing is counted. *)
LEMMA NoneCounted ==
  ASSUME NEW c \in HalfCalls
  PROVE  Counts(c, 0, Lua!NoBlock, Lua!AllZero)
<1>1. IsBlock(Lua!NoBlock) /\ Lua!NoBlock.shape = << >>
      /\ \A b \in Lua!Buffers : Lua!NoBlock.buf[b] = << >> /\ Lua!AllZero[b] = 0
  BY DEF Lua!NoBlock, Lua!AllZero, IsBlock
<1>2. Shapes(c, 0) = << >>
  BY DEF Shapes
<1>3. \A b : EndOf(c, b)[0] = 0
  BY EndFacts DEF Ends
<1>4. Len(c.sent) \in Nat
  BY LookedFacts
<1>5. QED
  BY <1>1, <1>2, <1>3, <1>4 DEF Counts

(* It holds before the call. *)
LEMMA LuaInit ==
  ASSUME Lua!Init
  PROVE  LuaGood
<1>1. /\ call \in BufferCalls /\ half = "in" /\ phase = "count" /\ turn = 0
      /\ counts = Lua!AllZero /\ p = [h \in Halves |-> Lua!NoBlock]
      /\ data = [h \in Halves |-> << >>] /\ verdict = [h \in Halves |-> "open"]
  BY DEF Lua!Init, Lua!Halves, Halves
<1>2. half \in Halves /\ "out" \in Halves
  BY <1>1 DEF Halves
<1>3. call[half] \in HalfCalls
  BY <1>1, <1>2, CallsAssumption, CallFacts
<1>4. Counts(call[half], turn, p[half], counts)
  BY <1>1, <1>2, <1>3, NoneCounted
<1>5. QED
  BY <1>1, <1>2, <1>4 DEF LuaGood, CallInv, LuaInv

(* Counting an item keeps it. *)
LEMMA LuaCounts ==
  ASSUME LuaGood, NEW h \in Halves, Lua!CountItem(h)
  PROVE  LuaGood' /\ Keeps(FALSE)
<1>1. /\ half = h /\ half' = half /\ phase = "count" /\ phase' = phase
      /\ turn' = turn + 1 /\ call' = call /\ cursor' = cursor /\ data' = data
      /\ verdict' = verdict /\ turn < Len(call[h].sent)
  BY DEF Lua!CountItem
<1>2. PICK c \in HalfCalls : c = call[h]
  BY CallsAssumption, CallFacts DEF LuaGood, CallInv
<1>3. PICK item : item = c.sent[turn + 1]
  OBVIOUS
<1>4. /\ p' = [p EXCEPT ![h].shape = Append(@, Lua!ShapeOf(item))]
      /\ counts' = [b \in Lua!Buffers |->
              IF b = Lua!BufferFor(item.type) THEN counts[b] + Lua!CellCount(item)
              ELSE counts[b]]
  BY <1>2, <1>3, Zenon DEF Lua!CountItem
<1>5. PICK n : n = turn
  OBVIOUS
<1>6. PICK block : block = p[h]
  OBVIOUS
<1>7. Counts(c, n, block, counts) /\ IsBlock(block) /\ DOMAIN p = Halves
  BY <1>1, <1>2, <1>5, <1>6 DEF LuaGood, LuaInv, Counts
<1>8. PICK block2 : block2 = p'[h]
  OBVIOUS
<1>9. /\ block2 = [block EXCEPT !.shape = Append(@, Lua!ShapeOf(item))]
      /\ \A k \in Halves : k # h => p'[k] = p[k]
      /\ DOMAIN p' = Halves
  BY <1>4, <1>6, <1>7, <1>8
<1>10. /\ IsBlock(block2) /\ block2.shape = Append(block.shape, Lua!ShapeOf(item))
       /\ block2.buf = block.buf
  <2>1. PICK s : s = block.shape
    OBVIOUS
  <2>2. PICK f : f = [b \in Lua!Buffers |-> block.buf[b]]
    OBVIOUS
  <2>3. block = [shape |-> s, buf |-> f]
    BY <1>7, <2>1, <2>2 DEF IsBlock
  <2>4. block2 = [shape |-> Append(s, Lua!ShapeOf(item)), buf |-> f]
    BY <1>9, <2>3
  <2>5. block2.buf = f /\ block.buf = f /\ block2.shape = Append(s, Lua!ShapeOf(item))
    BY <2>3, <2>4
  <2>6. f = [b \in Lua!Buffers |-> f[b]]
    BY <2>2
  <2>7. IsBlock(block2)
    BY <2>4, <2>5, <2>6, Zenon DEF IsBlock
  <2>8. QED
    BY <2>1, <2>5, <2>7
<1>11. Counts(c, n + 1, block2, counts')
  <2>1. PICK cells2 : cells2 = counts'
    OBVIOUS
  <2>2. \A b \in Lua!Buffers : cells2[b] =
             IF b = Lua!BufferFor(item.type)
             THEN counts[b] + Lua!CellCount(item) ELSE counts[b]
    BY <1>4, <2>1, Zenon
  <2>3. n < Len(c.sent) /\ item = c.sent[n + 1]
    BY <1>1, <1>2, <1>3, <1>5
  <2>4. Counts(c, n + 1, block2, cells2)
    BY <1>7, <1>10, <2>2, <2>3, CountOne, Zenon
  <2>5. QED
    BY <2>1, <2>4
<1>12. LuaInv'
  <2>1. Counts(call[half], turn, p[half], counts)'
    BY <1>1, <1>2, <1>5, <1>8, <1>11
  <2>2. (half = "in" => p["out"] = Lua!NoBlock)'
    BY <1>1, <1>9 DEF LuaGood, LuaInv, Halves
  <2>3. QED
    BY <1>1, <1>9, <2>1, <2>2 DEF LuaGood, LuaInv
<1>13. CallInv(BufferCalls)' /\ Keeps(FALSE)
  BY <1>1 DEF LuaGood, CallInv, Keeps, Quiet
<1>14. QED
  BY <1>9, <1>12, <1>13 DEF LuaGood

(* Allocating the buffers keeps it. *)
LEMMA LuaCreates ==
  ASSUME LuaGood, NEW h \in Halves, Lua!CreateBuffers(h)
  PROVE  LuaGood' /\ Keeps(FALSE)
<1>1. /\ half = h /\ half' = half /\ phase = "count" /\ phase' = "fill"
      /\ turn = Len(call[h].sent) /\ turn' = 0 /\ counts' = counts /\ p' = p
      /\ call' = call /\ cursor' = cursor /\ data' = data /\ verdict' = verdict
  BY DEF Lua!CreateBuffers
<1>2. PICK c \in HalfCalls : c = call[h]
  BY CallsAssumption, CallFacts DEF LuaGood, CallInv
<1>3. Counts(c, Len(c.sent), p[h], counts)
  BY <1>1, <1>2 DEF LuaGood, LuaInv
<1>4. Fills(c, 0, p[h], counts)
  BY <1>3, CountedAll
<1>5. LuaInv'
  BY <1>1, <1>2, <1>4 DEF LuaGood, LuaInv
<1>6. CallInv(BufferCalls)' /\ Keeps(FALSE)
  BY <1>1 DEF LuaGood, CallInv, Keeps, Quiet
<1>7. QED
  BY <1>1, <1>5, <1>6 DEF LuaGood

(* Filling in an item keeps it. *)
LEMMA LuaFills ==
  ASSUME LuaGood, NEW h \in Halves, Lua!FillItem(h)
  PROVE  LuaGood' /\ Keeps(FALSE)
<1>1. /\ half = h /\ half' = half /\ phase = "fill" /\ phase' = phase
      /\ turn' = turn + 1 /\ call' = call /\ cursor' = cursor /\ data' = data
      /\ verdict' = verdict /\ counts' = counts /\ turn < Len(call[h].sent)
  BY DEF Lua!FillItem
<1>2. PICK c \in HalfCalls : c = call[h]
  BY CallsAssumption, CallFacts DEF LuaGood, CallInv
<1>3. PICK n : n = turn
  OBVIOUS
<1>4. PICK block : block = p[h]
  OBVIOUS
<1>5. Fills(c, n, block, counts) /\ IsBlock(block) /\ DOMAIN p = Halves
  BY <1>1, <1>2, <1>3, <1>4 DEF LuaGood, LuaInv, Fills
<1>6. n \in Nat /\ n < Len(c.sent) /\ Len(c.sent) \in Nat
  BY <1>1, <1>2, <1>3, <1>5, LookedFacts DEF Fills
<1>7. PICK item \in Items : item = c.sent[n + 1]
  BY <1>6, LookedFacts
<1>8. p' = IF item.type = "nil" THEN p
           ELSE [p EXCEPT ![h].buf[Lua!BufferFor(item.type)] =
                            @ \o Lua!Cells(item)]
  BY <1>2, <1>3, <1>7, Zenon DEF Lua!FillItem
<1>9. PICK block2 : block2 = p'[h]
  OBVIOUS
<1>10. /\ DOMAIN p' = Halves /\ \A k \in Halves : k # h => p'[k] = p[k]
       /\ IsBlock(block2) /\ block2.shape = block.shape
       /\ \A b \in Lua!Buffers : block2.buf[b] =
            IF b = Lua!BufferFor(item.type)
            THEN block.buf[b] \o Lua!Cells(item) ELSE block.buf[b]
  <2>1. CASE item.type = "nil"
    <3>1. p' = p /\ block2 = block
      BY <1>4, <1>8, <1>9, <2>1
    <3>2. \A b \in Lua!Buffers : b # Lua!BufferFor(item.type)
      BY <2>1, BufferFacts
    <3>3. QED
      BY <1>5, <3>1, <3>2, Zenon
  <2>2. CASE item.type # "nil"
    <3>1. PICK s : s = block.shape
      OBVIOUS
    <3>2. PICK f : f = [b \in Lua!Buffers |-> block.buf[b]]
      OBVIOUS
    <3>3. block = [shape |-> s, buf |-> f] /\ block.buf = f
      BY <1>5, <3>1, <3>2 DEF IsBlock
    <3>4. PICK d : d = Lua!BufferFor(item.type)
      OBVIOUS
    <3>5. PICK more : more = Lua!Cells(item)
      OBVIOUS
    <3>6. d \in Lua!Buffers
      BY <2>2, <3>4, BufferFacts
    <3>7. p' = [p EXCEPT ![h].buf[d] = @ \o more]
      BY <1>8, <2>2, <3>4, <3>5, Zenon
    <3>8. PICK f2 : f2 = [f EXCEPT ![d] = @ \o more]
      OBVIOUS
    <3>9. /\ DOMAIN p' = Halves /\ \A k \in Halves : k # h => p'[k] = p[k]
          /\ block2 = [block EXCEPT !.buf[d] = @ \o more]
      BY <1>4, <1>5, <1>9, <3>7
    <3>10. block2 = [shape |-> s, buf |-> f2]
      BY <3>3, <3>8, <3>9
    <3>11. block2.shape = s /\ block2.buf = f2
      BY <3>10
    <3>12. \A b \in Lua!Buffers : f2[b] = IF b = d THEN f[b] \o more ELSE f[b]
      BY <3>2, <3>6, <3>8
    <3>13. f2 = [b \in Lua!Buffers |-> f2[b]]
      BY <3>2, <3>8
    <3>14. IsBlock(block2)
      BY <3>10, <3>11, <3>13, Zenon DEF IsBlock
    <3>15. QED
      BY <3>1, <3>3, <3>4, <3>5, <3>9, <3>11, <3>12, <3>14, Zenon
  <2>3. QED
    BY <2>1, <2>2
<1>11. Fills(c, n + 1, block2, counts)
  BY <1>5, <1>6, <1>7, <1>10, FillNext, Zenon
<1>12. LuaInv'
  <2>1. Fills(call[half], turn, p[half], counts)'
    BY <1>1, <1>2, <1>3, <1>9, <1>11
  <2>2. (half = "in" => p["out"] = Lua!NoBlock)'
    BY <1>1, <1>10 DEF LuaGood, LuaInv, Halves
  <2>3. QED
    BY <1>1, <2>1, <2>2 DEF LuaGood, LuaInv
<1>13. CallInv(BufferCalls)' /\ Keeps(FALSE)
  BY <1>1 DEF LuaGood, CallInv, Keeps, Quiet
<1>14. QED
  BY <1>10, <1>12, <1>13 DEF LuaGood

(* Handing the buffers over keeps it. *)
LEMMA LuaFillEnds ==
  ASSUME LuaGood, NEW h \in Halves, Lua!FillEnds(h)
  PROVE  LuaGood' /\ Keeps(FALSE)
<1>1. /\ half = h /\ half' = half /\ phase = "fill" /\ phase' = "read"
      /\ turn = Len(call[h].sent) /\ turn' = 0 /\ counts' = counts /\ p' = p
      /\ call' = call /\ cursor' = Lua!AllZero /\ verdict' = verdict
      /\ data' = [data EXCEPT ![h] = << >>]
  BY DEF Lua!FillEnds
<1>2. PICK c \in HalfCalls : c = call[h]
  BY CallsAssumption, CallFacts DEF LuaGood, CallInv
<1>3. Fills(c, Len(c.sent), p[h], counts) /\ verdict[h] = "open"
      /\ DOMAIN data = Halves
  BY <1>1, <1>2 DEF LuaGood, LuaInv, CallInv
<1>4. Takings(c, 0, p[h], counts, Lua!AllZero, << >>)
  <2>1. \A b \in Lua!Buffers : Lua!AllZero[b] = 0
    BY DEF Lua!AllZero
  <2>2. QED
    BY <1>3, <2>1, FilledAll, Zenon
<1>5. data'[h] = << >> /\ DOMAIN data' = Halves
      /\ \A k \in Halves : k # h => data'[k] = data[k]
  BY <1>1, <1>3
<1>6. LuaInv'
  BY <1>1, <1>2, <1>4, <1>5 DEF LuaGood, LuaInv
<1>7. CallInv(BufferCalls)' /\ Keeps(FALSE)
  BY <1>1, <1>3, <1>5 DEF LuaGood, CallInv, Keeps, Quiet
<1>8. QED
  BY <1>1, <1>6, <1>7 DEF LuaGood

(* A reader that returns with an answer of the contract keeps it. *)
LEMMA LuaReturns ==
  ASSUME LuaGood, NEW h \in Halves, half = h, half' = half, call' = call,
         p' = p, phase = "read", NEW answer, Lua!Return(h, answer),
         \/ answer = "delivered" /\ Delivers(FALSE, call[h], data[h])
         \/ answer = "refused" /\ ~Deliverable(FALSE, call[h])
  PROVE  LuaGood' /\ Keeps(FALSE)
<1>1. /\ verdict' = [verdict EXCEPT ![h] = answer] /\ phase' = "returned"
      /\ data' = data /\ verdict[h] = "open" /\ DOMAIN verdict = Halves
  BY DEF Lua!Return, LuaGood, LuaInv, CallInv
<1>2. verdict'[h] = answer /\ \A k \in Halves : k # h => verdict'[k] = verdict[k]
  BY <1>1
<1>3. LuaGood'
  BY <1>1, <1>2 DEF LuaGood, LuaInv, CallInv, Halves
<1>4. Answers(FALSE, h)
  BY <1>1, <1>2 DEF Answers
<1>5. \A k \in Halves : k # h => Quiet(k)
  BY <1>1, <1>2 DEF Quiet
<1>6. QED
  BY <1>3, <1>4, <1>5 DEF Keeps

(* A half with too few items is refused, as the contract has it. *)
LEMMA LuaTooFew ==
  ASSUME LuaGood, NEW h \in Halves, Lua!TooFew(h)
  PROVE  LuaGood' /\ Keeps(FALSE)
<1>1. /\ half = h /\ half' = half /\ call' = call /\ p' = p /\ phase = "read"
      /\ Len(p[h].shape) < call[h].required /\ Lua!Return(h, "refused")
  BY DEF Lua!TooFew
<1>2. PICK c \in HalfCalls : c = call[h]
  BY CallsAssumption, CallFacts DEF LuaGood, CallInv
<1>3. /\ Len(c.sent) \in Nat /\ c.required \in Nat
  BY LookedFacts
<1>4. Len(p[h].shape) = Len(c.sent)
  <2>1. p[h].shape = Shapes(c, Len(c.sent))
    BY <1>1, <1>2 DEF LuaGood, LuaInv, Takings, Fills
  <2>2. Len(Shapes(c, Len(c.sent))) = Len(c.sent)
    BY <1>3 DEF Shapes
  <2>3. QED
    BY <2>1, <2>2
<1>5. ~(Len(c.sent) >= c.required)
  BY <1>1, <1>2, <1>3, <1>4
<1>6. ~Deliverable(FALSE, c)
  BY <1>5, Zenon DEF Deliverable
<1>7. QED
  BY <1>1, <1>2, <1>6, LuaReturns

(* The shape of an item tells its type and whether it is a table. *)
LEMMA ShapeFacts ==
  ASSUME NEW item \in Items
  PROVE  /\ Lua!ShapeOf(item).type = item.type
         /\ Lua!ShapeOf(item).table = item.table
BY DEF Lua!ShapeOf

(* Where a nil is allowed the reader makes one of its own. *)
LEMMA LuaNilItem ==
  ASSUME NEW item \in Items, IsNil(item)
  PROVE  Lua!NilItem = item
<1>1. /\ item.values \in Seq(Value) /\ Len(item.values) = 1
      /\ item.type = "nil" /\ item.table = FALSE
      /\ item = [type |-> "nil", table |-> FALSE, values |-> item.values]
      /\ item.values[1] = Nil
  <2>1. item.table = FALSE /\ item.type = "nil"
    BY ItemFacts DEF IsNil
  <2>2. item.values[1] \in ValuesOf("nil")
    BY <2>1, ItemFacts, 1 \in 1 .. 1
  <2>3. QED
    BY <2>1, <2>2, ItemFacts DEF ValuesOf
<1>2. item.values = <<Nil>>
  BY <1>1
<1>3. QED
  BY <1>1, <1>2, LuaNames, Zenon DEF Lua!NilItem, Lua!Item

(* The reader takes the item. *)
LEMMA LuaTakes ==
  ASSUME LuaGood, NEW h \in Halves, half = h, half' = half, call' = call,
         counts' = counts, p' = p, phase = "read",
         NEW c \in HalfCalls, c = call[h], NEW n, n = turn, More(c, n),
         Len(c.sent) >= c.required,
         NEW item \in Items, item = c.sent[n + 1],
         Passes(c, n + 1), Fits(FALSE, item, c.expected[n + 1]),
         Received(item, c.expected[n + 1]) = item,
         Lua!TakeItem(h, item)
  PROVE  LuaGood' /\ Keeps(FALSE)
<1>1. /\ data' = [data EXCEPT ![h] = Append(@, item)]
      /\ cursor' = [b \in Lua!Buffers |->
                  IF b = Lua!BufferFor(item.type)
                  THEN cursor[b] + Lua!CellCount(item) ELSE cursor[b]]
      /\ turn' = turn + 1 /\ phase' = phase /\ verdict' = verdict
  BY DEF Lua!TakeItem
<1>2. /\ Takings(c, n, p[h], counts, cursor, data[h]) /\ verdict[h] = "open"
      /\ DOMAIN data = Halves
  BY DEF LuaGood, LuaInv, CallInv
<1>3. data'[h] = Append(data[h], item) /\ DOMAIN data' = Halves
      /\ \A k \in Halves : k # h => data'[k] = data[k]
  BY <1>1, <1>2
<1>4. Takings(c, n + 1, p[h], counts, cursor', data'[h])
  <2>1. PICK places2 : places2 = cursor'
    OBVIOUS
  <2>2. PassesItem(cursor, c.sent[n + 1], places2)
    BY <1>1, <2>1, Zenon DEF PassesItem
  <2>3. Takings(c, n + 1, p[h], counts, places2,
                 Append(data[h], Received(c.sent[n + 1], c.expected[n + 1])))
    <3>1. Takings(c, n, p[h], counts, cursor, data[h])
      BY <1>2
    <3>2. Fits(FALSE, c.sent[n + 1], c.expected[n + 1])
      BY Zenon
    <3>3. QED
      BY <2>2, <3>1, <3>2, TakeOne, Zenon
  <2>4. QED
    BY <1>3, <2>1, <2>3, Zenon
<1>5. LuaInv'
  BY <1>1, <1>2, <1>4 DEF LuaGood, LuaInv
<1>6. CallInv(BufferCalls)' /\ Keeps(FALSE)
  BY <1>1, <1>2, <1>3 DEF LuaGood, CallInv, Keeps, Quiet
<1>7. QED
  BY <1>5, <1>6 DEF LuaGood

(* Reading an item keeps it, and refuses only what the contract refuses. *)
LEMMA LuaReadsNext ==
  ASSUME LuaGood, NEW h \in Halves, Lua!ReadNext(h)
  PROVE  LuaGood' /\ Keeps(FALSE)
<1>1. /\ half = h /\ half' = half /\ call' = call /\ counts' = counts
      /\ p' = p /\ phase = "read"
      /\ Len(p[h].shape) >= call[h].required
      /\ turn < Len(p[h].shape) /\ turn < Len(call[h].expected)
  BY DEF Lua!ReadNext
<1>2. PICK c \in HalfCalls : c = call[h]
  BY CallsAssumption, CallFacts DEF LuaGood, CallInv
<1>3. PICK m \in Nat : m = Len(c.sent)
  BY LookedFacts
<1>4. /\ c.sent \in Seq(Items) /\ c.expected \in Seq(Expectations)
      /\ Len(c.expected) \in Nat /\ c.required \in Nat
  BY LookedFacts
<1>5. PICK n : n = turn
  OBVIOUS
<1>6. PICK items : items = data[h]
  OBVIOUS
<1>7. Takings(c, n, p[h], counts, cursor, items)
  BY <1>1, <1>2, <1>5, <1>6 DEF LuaGood, LuaInv
<1>8. p[h].shape = Shapes(c, m) /\ n \in 0 .. m
  BY <1>3, <1>7 DEF Takings, Fills
<1>9. Len(p[h].shape) = m
  BY <1>3, <1>8 DEF Shapes
<1>10. /\ n \in Nat /\ n < m /\ n < Len(c.expected) /\ n + 1 \in 1 .. m
       /\ n + 1 \in 1 .. Len(c.expected) /\ m >= c.required
  BY <1>1, <1>2, <1>4, <1>5, <1>8, <1>9
<1>11. More(c, n)
  BY <1>3, <1>10 DEF More
<1>12. PICK item \in Items : item = c.sent[n + 1]
  BY <1>3, <1>4, <1>10
<1>13. PICK e \in Expectations : e = c.expected[n + 1]
  BY <1>4, <1>10
<1>14. PICK shape : shape = Lua!ShapeOf(item)
  OBVIOUS
<1>15. p[h].shape[turn + 1] = shape
  BY <1>5, <1>8, <1>10, <1>12, <1>14 DEF Shapes
<1>16. shape.type = item.type /\ shape.table = item.table
  BY <1>14, ShapeFacts
<1>17. EndsOnce(item)
  <2>1. call \in BufferCalls
    BY DEF LuaGood, CallInv
  <2>2. n + 1 \in DOMAIN call[h].sent
    BY <1>2, <1>3, <1>4, <1>10
  <2>3. QED
    BY <1>2, <1>12, <2>1, <2>2, CallsAssumption, Zenon
<1>18. Lua!Registered(c.expected)[n + 1] = <<e.type, e.table>>
  <2>1. n + 1 \in DOMAIN c.expected
    BY <1>4, <1>10
  <2>2. QED
    BY <1>13, <2>1 DEF Lua!Registered
<1>19. HasRead(FALSE, c, n, items)
  BY <1>3, <1>7, <1>10 DEF Takings
<1>20. Len(items) = n
  <2>1. items = [i \in 1 .. n |-> Received(c.sent[i], c.expected[i])]
    BY <1>19 DEF HasRead, ReceivedUpto
  <2>2. QED
    BY <1>10, <2>1
<1>21. IF IsNil(item)
       THEN IF e.nilAllowed THEN Lua!TakeItem(h, Lua!NilItem)
            ELSE IF n < c.required THEN Lua!Return(h, "refused")
            ELSE Lua!Return(h, "delivered")
       ELSE IF Accepts(shape, e) THEN Lua!TakeItem(h, Lua!ReadItem(h, shape))
            ELSE Lua!Return(h, "refused")
  <2>1. IF shape.type = "nil" /\ ~shape.table
        THEN IF e.nilAllowed THEN Lua!TakeItem(h, Lua!NilItem)
             ELSE IF Len(data[h]) < c.required THEN Lua!Return(h, "refused")
             ELSE Lua!Return(h, "delivered")
        ELSE IF \/ <<shape.type, shape.table>>
                     # Lua!Registered(c.expected)[turn + 1]
                \/ Lua!TooSmall(shape, e)
                \/ shape.table /\ shape.type = "buffer"
             THEN Lua!Return(h, "refused")
             ELSE Lua!TakeItem(h, Lua!ReadItem(h, shape))
    BY <1>2, <1>5, <1>13, <1>15, Zenon DEF Lua!ReadNext
  <2>2. IsNil(item) <=> shape.type = "nil" /\ ~shape.table
    BY <1>16, Zenon DEF IsNil
  <2>3. Accepts(shape, e) <=>
          ~ \/ <<shape.type, shape.table>> # Lua!Registered(c.expected)[turn + 1]
            \/ Lua!TooSmall(shape, e)
            \/ shape.table /\ shape.type = "buffer"
    BY <1>5, <1>18, Zenon DEF Accepts
  <2>4. QED
    BY <1>6, <1>20, <2>1, <2>2, <2>3, Zenon
<1>22. Passes(c, n + 1) <=> ~(IsNil(item) /\ ~e.nilAllowed)
  BY <1>12, <1>13 DEF Passes
<1>23. CASE IsNil(item) /\ e.nilAllowed
  <2>1. Lua!TakeItem(h, item)
    BY <1>21, <1>23, LuaNilItem, Zenon
  <2>2. Fits(FALSE, item, e) /\ Received(item, e) = item
    BY <1>23 DEF Fits, Received
  <2>3. Passes(c, n + 1)
    BY <1>22, <1>23
  <2>4. QED
    BY <1>1, <1>2, <1>3, <1>5, <1>10, <1>11, <1>12, <1>13, <2>1, <2>2, <2>3,
       LuaTakes, Zenon
<1>24. CASE IsNil(item) /\ ~e.nilAllowed /\ n < c.required
  <2>1. Lua!Return(h, "refused")
    BY <1>21, <1>24, Zenon
  <2>2. ~Deliverable(FALSE, c)
    BY <1>11, <1>19, <1>22, <1>24, EndsRefused DEF HasRead
  <2>3. QED
    BY <1>1, <1>2, <2>1, <2>2, LuaReturns
<1>25. CASE IsNil(item) /\ ~e.nilAllowed /\ ~(n < c.required)
  <2>1. Lua!Return(h, "delivered")
    BY <1>21, <1>25, Zenon
  <2>2. n >= c.required
    BY <1>4, <1>10, <1>25
  <2>3. Delivers(FALSE, c, items)
    BY <1>19, <1>22, <1>25, <2>2, EndDelivers
  <2>4. QED
    BY <1>1, <1>2, <1>6, <2>1, <2>3, LuaReturns
<1>26. CASE ~IsNil(item) /\ Fits(FALSE, item, e)
  <2>1. CursorsAt(h, item)
    BY <1>3, <1>7, <1>10, <1>12, CursorFacts, Zenon
  <2>2. Lua!ReadItem(h, shape) = item
    BY <1>14, <1>17, <1>26, <2>1, ReadItemFacts, Zenon
  <2>3. Accepts(shape, e)
    BY <1>14, <1>26, AcceptsFacts, Zenon
  <2>4. Lua!TakeItem(h, item)
    BY <1>21, <1>26, <2>2, <2>3, Zenon
  <2>5. Received(item, e) = item
    <3>1. e.type = item.type /\ e.table = item.table
      BY <1>16, <2>3 DEF Accepts
    <3>2. QED
      BY <1>17, <3>1, ReceivedAsSent
  <2>6. Passes(c, n + 1)
    BY <1>22, <1>26
  <2>7. QED
    BY <1>1, <1>2, <1>3, <1>5, <1>10, <1>11, <1>12, <1>13, <1>26, <2>4, <2>5,
       <2>6, LuaTakes, Zenon
<1>27. CASE ~IsNil(item) /\ ~Fits(FALSE, item, e)
  <2>1. ~Accepts(shape, e)
    BY <1>14, <1>27, AcceptsFacts, Zenon
  <2>2. Lua!Return(h, "refused")
    BY <1>21, <1>27, <2>1, Zenon
  <2>3. ~Deliverable(FALSE, c)
    BY <1>11, <1>12, <1>13, <1>19, <1>22, <1>27, EndsRefused DEF HasRead
  <2>4. QED
    BY <1>1, <1>2, <2>2, <2>3, LuaReturns
<1>28. QED
  BY <1>23, <1>24, <1>25, <1>26, <1>27

(* Having read all keeps it, and delivers what the contract owes. *)
LEMMA LuaReadEnds ==
  ASSUME LuaGood, NEW h \in Halves, Lua!ReadEnds(h)
  PROVE  LuaGood' /\ Keeps(FALSE)
<1>1. /\ half = h /\ half' = half /\ call' = call /\ p' = p /\ phase = "read"
      /\ Len(p[h].shape) >= call[h].required
      /\ turn = Len(p[h].shape) \/ turn = Len(call[h].expected)
      /\ Lua!Return(h, "delivered")
  BY DEF Lua!ReadEnds
<1>2. PICK c \in HalfCalls : c = call[h]
  BY CallsAssumption, CallFacts DEF LuaGood, CallInv
<1>3. PICK m \in Nat : m = Len(c.sent)
  BY LookedFacts
<1>4. Takings(c, turn, p[h], counts, cursor, data[h])
  BY <1>1, <1>2 DEF LuaGood, LuaInv
<1>5. p[h].shape = Shapes(c, m)
  BY <1>3, <1>4 DEF Takings, Fills
<1>6. Len(p[h].shape) = m
  BY <1>3, <1>5 DEF Shapes
<1>7. HasRead(FALSE, c, turn, data[h])
  BY <1>1, <1>2, <1>3, <1>4, <1>6 DEF Takings
<1>8. ~More(c, turn)
  BY <1>1, <1>2, <1>3, <1>6, LookedFacts DEF More
<1>9. Delivers(FALSE, c, data[h])
  BY <1>7, <1>8, EndDelivers
<1>10. QED
  BY <1>1, <1>2, <1>9, LuaReturns

(* The function called keeps it. *)
LEMMA LuaExecutes ==
  ASSUME LuaGood, Lua!Execute
  PROVE  LuaGood' /\ Keeps(FALSE)
<1>1. /\ half = "in" /\ half' = "out" /\ phase' = "count" /\ turn' = 0
      /\ call' = call /\ counts' = Lua!AllZero /\ p' = p
      /\ data' = data /\ verdict' = verdict
  BY DEF Lua!Execute
<1>2. "out" \in Halves
  BY DEF Halves
<1>3. call["out"] \in HalfCalls
  BY <1>2, CallsAssumption, CallFacts DEF LuaGood, CallInv
<1>4. verdict["out"] = "open" /\ p["out"] = Lua!NoBlock
  BY <1>1 DEF LuaGood, LuaInv, CallInv
<1>5. Counts(call["out"], 0, Lua!NoBlock, Lua!AllZero)
  BY <1>3, NoneCounted
<1>6. LuaInv'
  BY <1>1, <1>4, <1>5 DEF LuaInv
<1>7. CallInv(BufferCalls)' /\ Keeps(FALSE)
  BY <1>1, <1>2 DEF LuaGood, CallInv, Keeps, Quiet
<1>8. QED
  BY <1>1, <1>6, <1>7 DEF LuaGood

(* Releasing the buffers keeps it. *)
LEMMA LuaReleases ==
  ASSUME LuaGood, Lua!ReleaseBuffers
  PROVE  LuaGood' /\ Keeps(FALSE)
<1>1. /\ phase' = "released" /\ p' = [h \in Halves |-> Lua!NoBlock]
      /\ half' = half /\ call' = call /\ data' = data /\ verdict' = verdict
  BY DEF Lua!ReleaseBuffers, Lua!Halves, Halves
<1>2. LuaInv' /\ DOMAIN p' = Halves
  BY <1>1 DEF LuaInv, Halves
<1>3. CallInv(BufferCalls)' /\ Keeps(FALSE)
  BY <1>1 DEF LuaGood, CallInv, Keeps, Quiet
<1>4. QED
  BY <1>2, <1>3 DEF LuaGood

(* Every step over the buffers keeps it and does as the contract says. *)
LEMMA LuaNext ==
  ASSUME LuaGood, [Lua!Next]_(Lua!vars)
  PROVE  LuaGood' /\ Keeps(FALSE)
<1>1. "in" \in Halves /\ "out" \in Halves
  BY DEF Halves
<1>2. ASSUME NEW h \in Halves,
             \/ Lua!CountItem(h) \/ Lua!CreateBuffers(h)
             \/ Lua!FillItem(h) \/ Lua!FillEnds(h)
             \/ Lua!TooFew(h) \/ Lua!ReadNext(h) \/ Lua!ReadEnds(h)
      PROVE  LuaGood' /\ Keeps(FALSE)
  BY <1>2, LuaCounts, LuaCreates, LuaFills, LuaFillEnds, LuaTooFew, LuaReadsNext,
     LuaReadEnds, Zenon
<1>3. CASE UNCHANGED Lua!vars
  BY <1>3 DEF Lua!vars, LuaGood, CallInv, LuaInv, Keeps, Quiet
<1>4. CASE Lua!Over
  BY <1>3, <1>4 DEF Lua!Over
<1>5. QED
  BY <1>1, <1>2, <1>3, <1>4, LuaExecutes, LuaReleases, Zenon
  DEF Lua!Next, Lua!CallerCounts, Lua!CallerFills, Lua!FunctionReads,
      Lua!FunctionCounts, Lua!FunctionFills, Lua!CallerReads

---------------------------------------------------------------------------
(* The theorems *)

(* The inductive invariant, over either transport. *)
Good ==
  \/ transport = "stack" /\ ScriptGood
  \/ transport = "buffers" /\ LuaGood

(* It holds at first. *)
LEMMA GoodInit == Init => Good
BY ScriptInit, LuaInit DEF Init, Good

(* Every step keeps it, and answers as the contract of its transport does. *)
LEMMA GoodNext ==
  ASSUME Good, [Next]_vars
  PROVE  Good' /\ transport' = transport /\ Keeps(transport = "stack")
<1>1. transport' = transport
  BY DEF Next, vars
<1>2. CASE transport = "stack"
  <2>1. [Script!Next]_(Script!vars)
    <3>1. CASE Next
      BY <1>2, <3>1 DEF Next
    <3>2. CASE UNCHANGED vars
      BY <3>2 DEF vars
    <3>3. QED
      BY <3>1, <3>2
  <2>2. ScriptGood
    BY <1>2 DEF Good
  <2>3. ScriptGood' /\ Keeps(TRUE)
    BY <2>1, <2>2, ScriptNext
  <2>4. (transport = "stack") = TRUE
    BY <1>2
  <2>5. QED
    BY <1>1, <1>2, <2>3, <2>4 DEF Good
<1>3. CASE transport = "buffers"
  <2>1. [Lua!Next]_(Lua!vars)
    <3>1. CASE Next
      BY <1>3, <3>1 DEF Next
    <3>2. CASE UNCHANGED vars
      BY <3>2 DEF vars, luaVars, Script!vars, Lua!vars
    <3>3. QED
      BY <3>1, <3>2
  <2>2. LuaGood
    BY <1>3 DEF Good
  <2>3. LuaGood' /\ Keeps(FALSE)
    BY <2>1, <2>2, LuaNext
  <2>4. (transport = "stack") = FALSE
    BY <1>3
  <2>5. QED
    BY <1>1, <1>3, <2>3, <2>4 DEF Good
<1>4. QED
  BY <1>2, <1>3 DEF Good

(* Whatever the transport, the call and the items, the data in transit is  *)
(* what the writer has written and the reader has not yet taken.           *)
THEOREM Invariance == Spec => []Good
<1>1. Good /\ [Next]_vars => Good'
  BY GoodNext
<1>2. QED
  BY <1>1, GoodInit, PTL DEF Spec

(* The counting loop and the writing loop of CLuaFunctionData agree: no    *)
(* buffer is written past what was allocated, and when all is written none *)
(* has a cell to spare; the cursors of the reader stay within the buffers. *)
THEOREM BuffersAreExact == Spec => []BuffersExact
<1>1. Good => BuffersExact
  <2>1. SUFFICES ASSUME LuaGood PROVE Lua!BuffersExact
    BY DEF Good, BuffersExact
  <2>2. PICK c \in HalfCalls : c = call[half]
    BY <2>1, CallsAssumption, CallFacts DEF LuaGood, CallInv
  <2>3. ASSUME phase = "fill", NEW b \in Lua!Buffers
        PROVE  Len(p[half].buf[b]) <= counts[b]
    <3>1. Fills(c, turn, p[half], counts)
      BY <2>1, <2>2, <2>3 DEF LuaGood, LuaInv
    <3>2. QED
      BY <3>1, FillsExact, Zenon
  <2>4. ASSUME phase = "read", NEW b \in Lua!Buffers
        PROVE  Len(p[half].buf[b]) = counts[b] /\ cursor[b] <= counts[b]
    <3>1. Takings(c, turn, p[half], counts, cursor, data[half])
      BY <2>1, <2>2, <2>4 DEF LuaGood, LuaInv
    <3>2. QED
      BY <3>1, TakingsExact
  <2>5. QED
    BY <2>3, <2>4 DEF Lua!BuffersExact
<1>2. QED
  BY <1>1, Invariance, PTL

(* ArgumentHalf speaks of the same as FunctionContract. *)
LEMMA ArgumentNames ==
  ASSUME NEW converts, NEW c
  PROVE  /\ ArgumentHalf!Deliverable(converts, c) <=> Deliverable(converts, c)
         /\ ArgumentHalf!Counted(c) = Counted(c)
         /\ \A item, e : ArgumentHalf!Received(item, e) = Received(item, e)
<1>1. ASSUME NEW item PROVE ArgumentHalf!IsNil(item) <=> IsNil(item)
  BY DEF ArgumentHalf!IsNil, IsNil
<1>2. ArgumentHalf!Looked(c) = Looked(c)
  BY DEF ArgumentHalf!Looked, Looked
<1>3. ASSUME NEW i PROVE ArgumentHalf!Passes(c, i) <=> Passes(c, i)
  BY <1>1 DEF ArgumentHalf!Passes, Passes
<1>4. ArgumentHalf!Counted(c) = Counted(c)
  BY <1>2, <1>3, Zenon DEF ArgumentHalf!Counted, Counted
<1>5. ASSUME NEW type PROVE ArgumentHalf!Group(converts, type) = Group(converts, type)
  BY DEF ArgumentHalf!Group, Group
<1>6. ASSUME NEW item PROVE ArgumentHalf!ItemSize(item) = ItemSize(item)
  BY DEF ArgumentHalf!ItemSize, ItemSize
<1>7. ASSUME NEW item, NEW e
      PROVE  ArgumentHalf!Fits(converts, item, e) <=> Fits(converts, item, e)
  BY <1>1, <1>5, <1>6, Zenon DEF ArgumentHalf!Fits, Fits
<1>8. ArgumentHalf!Deliverable(converts, c) <=> Deliverable(converts, c)
  BY <1>2, <1>4, <1>7, Zenon DEF ArgumentHalf!Deliverable, Deliverable
<1>9. ASSUME NEW n
      PROVE  ArgumentHalf!Truncated(n) = Truncated(n) /\ ArgumentHalf!Number(n) = Number(n)
  BY DEF ArgumentHalf!Truncated, Truncated, ArgumentHalf!Number, Number
<1>10. ASSUME NEW s
       PROVE  ArgumentHalf!CString(s) = CString(s) /\ ArgumentHalf!String(s) = String(s)
  BY DEF ArgumentHalf!CString, CString, ArgumentHalf!String, String,
         ArgumentHalf!NUL, NUL
<1>11. ASSUME NEW n PROVE ArgumentHalf!Rounded(n) = Rounded(n)
  BY Zenon DEF ArgumentHalf!Rounded, Rounded, ArgumentHalf!FloatDigits,
     FloatDigits, ArgumentHalf!FloatExponent, FloatExponent
<1>12. ASSUME NEW v, NEW type
       PROVE  ArgumentHalf!Converted(v, type) = Converted(v, type)
  <2>1. ArgumentHalf!Number(2 * ArgumentHalf!Truncated(v.num))
          = Number(2 * Truncated(v.num))
    BY <1>9
  <2>2. ArgumentHalf!Number(ArgumentHalf!Rounded(v.num)) = Number(Rounded(v.num))
    BY <1>9, <1>11
  <2>3. ArgumentHalf!String(ArgumentHalf!CString(v.str)) = String(CString(v.str))
    BY <1>10
  <2>4. QED
    BY <2>1, <2>2, <2>3, Zenon DEF ArgumentHalf!Converted, Converted
<1>13. ASSUME NEW item, NEW e
       PROVE  ArgumentHalf!Received(item, e) = Received(item, e)
  BY <1>1, <1>12, Zenon DEF ArgumentHalf!Received, Received
<1>14. QED
  BY <1>4, <1>8, <1>13

(* The arguments of every call over either transport are delivered, each   *)
(* in its place and as expected, or refused as a whole and for a reason:   *)
(* the way in implements FunctionCall.                                     *)
THEOREM ArgumentsDoArrive == Spec => ArgumentsArrive
<1>1. Init => ArgumentHalf!Init
  BY DEF Init, Script!Init, Lua!Init, ArgumentHalf!Init, Delivered,
         Script!Halves, Lua!Halves, Halves
<1>2. ASSUME Good, [Next]_vars
      PROVE  [ArgumentHalf!Answer]_(ArgumentHalf!callVars)
  <2>1. "in" \in Halves
    BY DEF Halves
  <2>2. /\ transport' = transport /\ call' = call
        /\ Answers(transport = "stack", "in") \/ Quiet("in")
    BY <1>2, <2>1, GoodNext DEF Keeps
  <2>3. CASE Answers(transport = "stack", "in")
    <3>1. PICK converts : converts = (transport = "stack")
      OBVIOUS
    <3>2. PICK c : c = call["in"]
      OBVIOUS
    <3>3. /\ verdict["in"] = "open"
          /\ \/ verdict'["in"] = "delivered" /\ Delivers(converts, c, data'["in"])
             \/ verdict'["in"] = "refused" /\ ~Deliverable(converts, c)
      BY <2>3, <3>1, <3>2, Zenon DEF Answers
    <3>4. /\ ArgumentHalf!Deliverable(converts, c) <=> Deliverable(converts, c)
          /\ ArgumentHalf!Counted(c) = Counted(c)
          /\ \A item, e : ArgumentHalf!Received(item, e) = Received(item, e)
      BY ArgumentNames
    <3>5. CASE verdict'["in"] = "delivered" /\ Delivers(converts, c, data'["in"])
      <4>1. Deliverable(converts, c)
        BY <3>5 DEF Delivers
      <4>2. Delivered("in")' = [i \in ArgumentHalf!Counted(c) |->
                             ArgumentHalf!Received(c.sent[i], c.expected[i])]
        BY <3>4, <3>5 DEF Delivers, Delivered
      <4>3. ArgumentHalf!Answer
        BY <2>2, <3>1, <3>2, <3>3, <3>4, <3>5, <4>1, <4>2 DEF ArgumentHalf!Answer
      <4>4. QED
        BY <4>3
    <3>6. CASE verdict'["in"] = "refused" /\ ~Deliverable(converts, c)
      <4>1. Delivered("in")' = Delivered("in")
        BY <3>3, <3>6 DEF Delivered
      <4>2. ArgumentHalf!Answer
        BY <2>2, <3>1, <3>2, <3>3, <3>4, <3>6, <4>1 DEF ArgumentHalf!Answer
      <4>3. QED
        BY <4>2
    <3>7. QED
      BY <3>3, <3>5, <3>6
  <2>4. CASE Quiet("in")
    BY <2>2, <2>4 DEF Quiet, Delivered, ArgumentHalf!callVars
  <2>5. QED
    BY <2>2, <2>3, <2>4
<1>3. QED
  BY <1>1, <1>2, Invariance, PTL DEF Spec, ArgumentsArrive, ArgumentHalf!Spec

(* ResultHalf speaks of the same as FunctionContract. *)
LEMMA ResultNames ==
  ASSUME NEW converts, NEW c
  PROVE  /\ ResultHalf!Deliverable(converts, c) <=> Deliverable(converts, c)
         /\ ResultHalf!Counted(c) = Counted(c)
         /\ \A item, e : ResultHalf!Received(item, e) = Received(item, e)
<1>1. ASSUME NEW item PROVE ResultHalf!IsNil(item) <=> IsNil(item)
  BY DEF ResultHalf!IsNil, IsNil
<1>2. ResultHalf!Looked(c) = Looked(c)
  BY DEF ResultHalf!Looked, Looked
<1>3. ASSUME NEW i PROVE ResultHalf!Passes(c, i) <=> Passes(c, i)
  BY <1>1 DEF ResultHalf!Passes, Passes
<1>4. ResultHalf!Counted(c) = Counted(c)
  BY <1>2, <1>3, Zenon DEF ResultHalf!Counted, Counted
<1>5. ASSUME NEW type PROVE ResultHalf!Group(converts, type) = Group(converts, type)
  BY DEF ResultHalf!Group, Group
<1>6. ASSUME NEW item PROVE ResultHalf!ItemSize(item) = ItemSize(item)
  BY DEF ResultHalf!ItemSize, ItemSize
<1>7. ASSUME NEW item, NEW e
      PROVE  ResultHalf!Fits(converts, item, e) <=> Fits(converts, item, e)
  BY <1>1, <1>5, <1>6, Zenon DEF ResultHalf!Fits, Fits
<1>8. ResultHalf!Deliverable(converts, c) <=> Deliverable(converts, c)
  BY <1>2, <1>4, <1>7, Zenon DEF ResultHalf!Deliverable, Deliverable
<1>9. ASSUME NEW n
      PROVE  ResultHalf!Truncated(n) = Truncated(n) /\ ResultHalf!Number(n) = Number(n)
  BY DEF ResultHalf!Truncated, Truncated, ResultHalf!Number, Number
<1>10. ASSUME NEW s
       PROVE  ResultHalf!CString(s) = CString(s) /\ ResultHalf!String(s) = String(s)
  BY DEF ResultHalf!CString, CString, ResultHalf!String, String,
         ResultHalf!NUL, NUL
<1>11. ASSUME NEW n PROVE ResultHalf!Rounded(n) = Rounded(n)
  BY Zenon DEF ResultHalf!Rounded, Rounded, ResultHalf!FloatDigits,
     FloatDigits, ResultHalf!FloatExponent, FloatExponent
<1>12. ASSUME NEW v, NEW type
       PROVE  ResultHalf!Converted(v, type) = Converted(v, type)
  <2>1. ResultHalf!Number(2 * ResultHalf!Truncated(v.num))
          = Number(2 * Truncated(v.num))
    BY <1>9
  <2>2. ResultHalf!Number(ResultHalf!Rounded(v.num)) = Number(Rounded(v.num))
    BY <1>9, <1>11
  <2>3. ResultHalf!String(ResultHalf!CString(v.str)) = String(CString(v.str))
    BY <1>10
  <2>4. QED
    BY <2>1, <2>2, <2>3, Zenon DEF ResultHalf!Converted, Converted
<1>13. ASSUME NEW item, NEW e
       PROVE  ResultHalf!Received(item, e) = Received(item, e)
  BY <1>1, <1>12, Zenon DEF ResultHalf!Received, Received
<1>14. QED
  BY <1>4, <1>8, <1>13

(* And so are the results on the way out. *)
THEOREM ResultsDoArrive == Spec => ResultsArrive
<1>1. Init => ResultHalf!Init
  BY DEF Init, Script!Init, Lua!Init, ResultHalf!Init, Delivered,
         Script!Halves, Lua!Halves, Halves
<1>2. ASSUME Good, [Next]_vars
      PROVE  [ResultHalf!Answer]_(ResultHalf!callVars)
  <2>1. "out" \in Halves
    BY DEF Halves
  <2>2. /\ transport' = transport /\ call' = call
        /\ Answers(transport = "stack", "out") \/ Quiet("out")
    BY <1>2, <2>1, GoodNext DEF Keeps
  <2>3. CASE Answers(transport = "stack", "out")
    <3>1. PICK converts : converts = (transport = "stack")
      OBVIOUS
    <3>2. PICK c : c = call["out"]
      OBVIOUS
    <3>3. /\ verdict["out"] = "open"
          /\ \/ verdict'["out"] = "delivered" /\ Delivers(converts, c, data'["out"])
             \/ verdict'["out"] = "refused" /\ ~Deliverable(converts, c)
      BY <2>3, <3>1, <3>2, Zenon DEF Answers
    <3>4. /\ ResultHalf!Deliverable(converts, c) <=> Deliverable(converts, c)
          /\ ResultHalf!Counted(c) = Counted(c)
          /\ \A item, e : ResultHalf!Received(item, e) = Received(item, e)
      BY ResultNames
    <3>5. CASE verdict'["out"] = "delivered" /\ Delivers(converts, c, data'["out"])
      <4>1. Deliverable(converts, c)
        BY <3>5 DEF Delivers
      <4>2. Delivered("out")' = [i \in ResultHalf!Counted(c) |->
                             ResultHalf!Received(c.sent[i], c.expected[i])]
        BY <3>4, <3>5 DEF Delivers, Delivered
      <4>3. ResultHalf!Answer
        BY <2>2, <3>1, <3>2, <3>3, <3>4, <3>5, <4>1, <4>2 DEF ResultHalf!Answer
      <4>4. QED
        BY <4>3
    <3>6. CASE verdict'["out"] = "refused" /\ ~Deliverable(converts, c)
      <4>1. Delivered("out")' = Delivered("out")
        BY <3>3, <3>6 DEF Delivered
      <4>2. ResultHalf!Answer
        BY <2>2, <3>1, <3>2, <3>3, <3>4, <3>6, <4>1 DEF ResultHalf!Answer
      <4>3. QED
        BY <4>2
    <3>7. QED
      BY <3>3, <3>5, <3>6
  <2>4. CASE Quiet("out")
    BY <2>2, <2>4 DEF Quiet, Delivered, ResultHalf!callVars
  <2>5. QED
    BY <2>2, <2>3, <2>4
<1>3. QED
  BY <1>1, <1>2, Invariance, PTL DEF Spec, ResultsArrive, ResultHalf!Spec
===========================================================================
