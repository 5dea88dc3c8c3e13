------------------------- MODULE ConcurrentQueues -------------------------
(***************************************************************************)
(* The two queue classes the CoppeliaSim thread and the communication      *)
(* thread share, as operators on sequences.  Every method of               *)
(* BasicConcurrentQueue (include/basic_concurrent_queue.h) and of          *)
(* VectorConcurrentQueue (include/vector_concurrent_queue.h) holds the     *)
(* object's mutex from its first to its last access of m_deque, so each    *)
(* call is one atomic step of its caller; what happens between two calls   *)
(* is not.  VectorConcurrentQueue.tla models the mutex and the condition   *)
(* variable themselves.                                                    *)
(*                                                                         *)
(* The head of the sequence is the front of the deque.                     *)
(***************************************************************************)
EXTENDS Naturals, Sequences

(* Faulty: constructed with an entry in it. *)
Preallocated == <<0>>

EmptyQueue == <<>>

IsEmpty(q) == Len(q) = 0

PushBack(q, v) == Append(q, v)

(* back() and pop_front() of the vector queue wait while the deque is      *)
(* empty; back() and pop_back() of the basic queue are undefined on an     *)
(* empty deque.  The callers below test IsEmpty accordingly.               *)
Back(q) == q[Len(q)]

PopBack(q) == SubSeq(q, 1, Len(q) - 1)

PopFront(q) == Tail(q)

PushFront(q, v) == <<v>> \o q

---------------------------------------------------------------------------
(* A call as a value: [op |-> name, arg |-> the entry pushed, the index     *)
(* asked for, or NoArg].  An answer is the operation and what it returns.  *)

NoArg == 0
NoCall == [op |-> "none", arg |-> NoArg]
Nothing == <<>>
OutOfRange == <<"std::out_of_range">>

(* back, at, pop_back and pop_front wait on m_cond while the deque is      *)
(* empty.                                                                  *)
NeedsEntry(c) == c.op \in {"back", "at", "pop_back", "pop_front"}

(* An entry asked of an empty deque: undefined behaviour. *)
Undefined(c, q) == NeedsEntry(c) /\ IsEmpty(q)

(* The deque after the call. *)
After(c, q) ==
  IF Undefined(c, q) THEN q ELSE
  CASE c.op = "push_back"  -> PushBack(q, c.arg)
    [] c.op = "push_front" -> PushFront(q, c.arg)
    [] c.op = "pop_back"   -> PopBack(q)
    [] c.op = "pop_front"  -> PopFront(q)
    [] c.op = "clear"      -> EmptyQueue
    [] OTHER               -> q

(* m_deque.at(index), which throws when there is no such entry. *)
At(q, index) == IF index < Len(q) THEN <<"at", q[index + 1]>> ELSE OutOfRange

(* What it returns. *)
Answer(c, q) ==
  IF Undefined(c, q) THEN <<"undefined">> ELSE
  CASE c.op = "empty" -> <<c.op, IsEmpty(q)>>
    [] c.op = "size"  -> <<c.op, Len(q)>>
    [] c.op = "back"  -> <<c.op, Back(q)>>
    [] c.op = "at"    -> At(q, c.arg)
    [] OTHER          -> Nothing

===========================================================================
