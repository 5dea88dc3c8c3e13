---------------------------- MODULE AtomicQueue ----------------------------
(***************************************************************************)
(* What a shared queue promises its callers: every method takes effect in  *)
(* one step between its call and its return, and one that needs an entry   *)
(* takes effect when there is one.  RTDEclient.tla and SimExtRTDE.tla call *)
(* the queues in this form; VectorConcurrentQueue.tla implements it.       *)
(***************************************************************************)
EXTENDS ConcurrentQueues

CONSTANTS
  Threads,
  Calls      \* the calls each thread may make, [Threads -> SUBSET calls]

VARIABLES
  deque,
  status,    \* "idle", "called" or "done", per thread
  call,      \* the call the thread is in
  answer     \* what that call is about to return

queueVars == <<deque, status, call, answer>>

Init ==
  /\ deque = EmptyQueue
  /\ status = [t \in Threads |-> "idle"]
  /\ call = [t \in Threads |-> NoCall]
  /\ answer = [t \in Threads |-> Nothing]

Invoke(t) ==
  /\ status[t] = "idle"
  /\ status' = [status EXCEPT ![t] = "called"]
  /\ \E c \in Calls[t] : call' = [call EXCEPT ![t] = c]
  /\ UNCHANGED <<deque, answer>>

TakeEffect(t) ==
  /\ status[t] = "called"
  /\ NeedsEntry(call[t]) => ~IsEmpty(deque)
  /\ deque' = After(call[t], deque)
  /\ answer' = [answer EXCEPT ![t] = Answer(call[t], deque)]
  /\ status' = [status EXCEPT ![t] = "done"]
  /\ UNCHANGED call

Return(t) ==
  /\ status[t] = "done"
  /\ status' = [status EXCEPT ![t] = "idle"]
  /\ call' = [call EXCEPT ![t] = NoCall]
  /\ answer' = [answer EXCEPT ![t] = Nothing]
  /\ UNCHANGED deque

Next == \E t \in Threads : Invoke(t) \/ TakeEffect(t) \/ Return(t)

Spec == Init /\ [][Next]_queueVars

===========================================================================
