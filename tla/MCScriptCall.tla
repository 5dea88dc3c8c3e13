---------------------------- MODULE MCScriptCall ----------------------------
(***************************************************************************)
(* Instance of ScriptCall for TLC: every kind of value a script can pass,  *)
(* alone, in pairs, and in chosen longer lists.                            *)
(***************************************************************************)
EXTENDS ScriptCallValues

Text == String(<<1>>)
Options == Table(<<<<String(<<1>>), Number(3)>>,
                   <<String(<<2>>), Array(<<Number(2), Number(5)>>)>>>>)
Sparse == Table(<<<<Number(6), Text>>, <<Number(0), Bool(TRUE)>>>>)
Mixed == Array(<<Number(2), Text, Array(<<Bool(FALSE), Number(4)>>)>>)
Nested == Array(<<Options, Array(<<Nil, Options>>)>>)

MCValues ==
  {Nil, Bool(TRUE), Number(3), Text, String(<<1, NUL, 2>>), Table(<< >>),
   Array(<<Number(3), Number(4)>>), Mixed, Nested, Options, Sparse,
   Circular,
   Table(<<<<Bool(TRUE), Text>>, <<Number(7), Nil>>>>),  \* keys that collide
   Table(<<<<Number(3), Text>>, <<Number(2), Nil>>>>)}

MCGiven ==
  {<< >>}
  \cup {<<v>> : v \in MCValues}
  \cup {<<v, w>> : v \in MCValues, w \in MCValues}
  \cup {<<Number(1), Number(-3), Number(4)>>,
        <<Number(1), Number(4), Text>>,
        <<Mixed, Number(1), Options, Bool(FALSE)>>}

MCScalars == {CStackNull, CStackBool(TRUE), CStackNumber(3),
              CStackString(<<1>>)}

(* An entry is copied and built as the object it is in.  (LET, since TLC's *)
(* coverage unfolds the value of a constant without end otherwise.)        *)
MCCopyEntry(obj) ==
  LET copy == Copy(obj) IN copy

MCBuildEntry(s) ==
  LET built == BuildItemFromTop(s) IN built

MCBuildEntryOnto(s, obj) ==
  LET above == BuildItemOnto(s, obj) IN above
=============================================================================
