---------------------------- MODULE FunctionCall ----------------------------
(***************************************************************************)
(* One half of a function call: the list of items one side sent either     *)
(* reaches the other side as far as it expects them, or is refused as a    *)
(* whole.                                                                  *)
(***************************************************************************)
EXTENDS FunctionContract

VARIABLES
  converts,   \* fixed: do numbers of another type fit?
  c,          \* fixed: the items sent, those expected, how many required
  got,        \* the items delivered
  verdict     \* "open", "refused" or "delivered"

callVars == <<converts, c, got, verdict>>

Init ==
  /\ got = << >>
  /\ verdict = "open"

Answer ==
  /\ verdict = "open"
  /\ IF Deliverable(converts, c)
     THEN /\ verdict' = "delivered"
          /\ got' = [i \in Counted(c) |-> Received(c.sent[i], c.expected[i])]
     ELSE verdict' = "refused" /\ got' = got
  /\ UNCHANGED <<converts, c>>

Spec == Init /\ [][Answer]_callVars
=============================================================================
