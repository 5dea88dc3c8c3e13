--------------------------- MODULE MCFunctionData ---------------------------
(***************************************************************************)
(* Instance of FunctionData, for TLC: the same calls over a script stack   *)
(* and over the buffers of SLuaCallBack.  Every item is sent alone against *)
(* every expectation, chosen ones in pairs and threes; results are the     *)
(* function's own.                                                         *)
(***************************************************************************)
EXTENDS FunctionData

Text(s) == Item("string", String(s))
Whole == Item("int", Number(4))
Double == Item("double", Number(-3))
Fine == Item("double", Number(2^24 + 1))   \* no float is equal to it
Texts == TableItem("string", <<String(<<1>>), String(<< >>), String(<<2, 1>>)>>)

MCItems ==
  {NilItem, Item("bool", Bool(FALSE)), Whole, Double, Fine,
   Item("float", Number(3)),
   Text(<<1, 2>>), Item("buffer", String(<<1, NUL, 2>>)),
   TableItem("bool", <<Bool(TRUE), Bool(FALSE)>>),
   TableItem("int", << >>), Texts, NilTable(NilItem, 2),
   TableItem("double", <<Number(3), Number(2^25 - 1)>>)}

Expect(type, table, min, nilAllowed) ==
  [type |-> type, table |-> table, min |-> min, nilAllowed |-> nilAllowed]

MCExpectations ==
  {Expect(type, table, 0, nilAllowed) :
     type \in {"nil", "bool", "int", "float", "double", "string", "buffer"},
     table \in BOOLEAN, nilAllowed \in BOOLEAN}
  \cup {Expect("buffer", FALSE, n, FALSE) : n \in {3, 4}}
  \cup {Expect("string", TRUE, n, FALSE) : n \in {3, 4}}

Half(sent, expected, required) ==
  [sent |-> sent, expected |-> expected, required |-> required]

PairItems == {NilItem, Whole, Text(<<2>>), Texts}
PairExpectations ==
  {Expect("int", FALSE, 0, FALSE), Expect("string", FALSE, 0, TRUE),
   Expect("string", TRUE, 0, FALSE)}

Arguments ==
  {Half(<<i>>, <<e>>, n) : i \in MCItems, e \in MCExpectations, n \in {0, 1}}
  \cup {Half(<<i, j>>, s, n) : i \in PairItems, j \in PairItems,
          s \in {<<e, f>> : e \in PairExpectations, f \in PairExpectations}
                \cup {<<e>> : e \in PairExpectations},
          n \in 0 .. 2}
  \cup {Half(<<Texts, Whole, Text(<<1>>)>>,
             <<Expect("string", TRUE, 3, FALSE), Expect("int", FALSE, 0, TRUE),
               Expect("string", FALSE, 0, FALSE)>>, n) : n \in {0, 3, 4}}

Results ==
  {Half(<< >>, << >>, 0),
   Half(<<Texts, Text(<<2>>)>>, <<Expect("string", TRUE, 0, FALSE),
                                  Expect("string", FALSE, 0, FALSE)>>, 2),
   Half(<<Double, NilItem>>, <<Expect("double", FALSE, 0, FALSE),
                                      Expect("double", FALSE, 0, FALSE)>>, 1)}

MCCalls == {[in |-> a, out |-> r] : a \in Arguments, r \in Results}

(* A text with a 0 inside goes over the stack only. *)
MCStackCalls ==
  MCCalls
  \cup {[in |-> Half(<<Text(<<1, NUL, 2>>), Whole>>,
                     <<Expect(type, FALSE, 0, FALSE),
                       Expect("double", FALSE, 0, FALSE)>>, 2),
         out |-> r] : type \in {"string", "buffer"}, r \in Results}
=============================================================================
