----------------------- MODULE VectorConcurrentQueue -----------------------
(***************************************************************************)
(* include/vector_concurrent_queue.h: a deque behind a mutex and one       *)
(* condition variable, as any number of threads use it.  A step is one     *)
(* access of the shared state: the mutex, the deque, the set of threads    *)
(* asleep in m_cond.wait.  wait() gives the mutex up and falls asleep in   *)
(* one step, may wake without a reason, and takes the mutex again before   *)
(* it returns to the loop that tests the deque.                            *)
(*                                                                         *)
(* The deque itself is not safe for concurrent use: `empty()' and the      *)
(* access it guards are two steps, and only the mutex keeps them together. *)
(***************************************************************************)
EXTENDS Naturals, FiniteSets, ConcurrentQueues

CONSTANTS
  Threads,
  Calls,      \* the calls each thread may make, [Threads -> SUBSET calls]
  MaxCalls,   \* bound: calls per thread
  MaxWakes,   \* bound: spurious wake-ups
  Nobody      \* the owner of a free mutex

ASSUME QueueAssumption ==
  /\ IsFiniteSet(Threads)
  /\ Nobody \notin Threads
  /\ MaxCalls \in Nat
  /\ MaxWakes \in Nat

VARIABLES
  m_deque,
  m_mutex,   \* the thread that holds it, or Nobody
  m_cond,    \* the threads asleep in wait()
  pc,        \* where each thread is in the method it calls
  call,      \* that method and its argument
  answer,    \* what it is about to return
  made,      \* calls made so far
  spurious   \* spurious wake-ups so far

vars == <<m_deque, m_mutex, m_cond, pc, call, answer, made, spurious>>

Labels == {"idle", "lock", "while_empty", "wait", "access", "unlock",
           "notify", "return"}

Init ==
  /\ m_deque = EmptyQueue
  /\ m_mutex = Nobody
  /\ m_cond = {}
  /\ pc = [t \in Threads |-> "idle"]
  /\ call = [t \in Threads |-> NoCall]
  /\ answer = [t \in Threads |-> Nothing]
  /\ made = [t \in Threads |-> 0]
  /\ spurious = 0

Goto(t, label) == pc' = [pc EXCEPT ![t] = label]

Invoke(t) ==
  /\ pc[t] = "idle"
  /\ made[t] < MaxCalls
  /\ made' = [made EXCEPT ![t] = @ + 1]
  /\ \E c \in Calls[t] : call' = [call EXCEPT ![t] = c]
  /\ Goto(t, "lock")
  /\ UNCHANGED <<m_deque, m_mutex, m_cond, answer, spurious>>

(* Faulty: does not wait for the mutex. *)
LockNothing(t) ==
  /\ pc[t] = "lock"
  /\ m_mutex' = t
  /\ Goto(t, IF NeedsEntry(call[t]) THEN "while_empty" ELSE "access")
  /\ UNCHANGED <<m_deque, m_cond, call, answer, made, spurious>>

(* The constructor of the unique_lock, or the end of wait(). *)
Lock(t) ==
  /\ pc[t] = "lock"
  /\ m_mutex = Nobody
  /\ m_mutex' = t
  /\ Goto(t, IF NeedsEntry(call[t]) THEN "while_empty" ELSE "access")
  /\ UNCHANGED <<m_deque, m_cond, call, answer, made, spurious>>

(* `while (m_deque.empty())' *)
TestEmpty(t) ==
  /\ pc[t] = "while_empty"
  /\ Goto(t, IF IsEmpty(m_deque) THEN "wait" ELSE "access")
  /\ UNCHANGED <<m_deque, m_mutex, m_cond, call, answer, made, spurious>>

(* m_cond.wait(lk): the thread is asleep from when the mutex is free. *)
Wait(t) ==
  /\ pc[t] = "wait"
  /\ t \notin m_cond
  /\ m_cond' = m_cond \cup {t}
  /\ m_mutex' = Nobody
  /\ UNCHANGED <<m_deque, pc, call, answer, made, spurious>>

SpuriousWake(t) ==
  /\ t \in m_cond
  /\ spurious < MaxWakes
  /\ spurious' = spurious + 1
  /\ m_cond' = m_cond \ {t}
  /\ Goto(t, "lock")
  /\ UNCHANGED <<m_deque, m_mutex, call, answer, made>>

Access(t) ==
  /\ pc[t] = "access"
  /\ m_deque' = After(call[t], m_deque)
  /\ answer' = [answer EXCEPT ![t] = Answer(call[t], m_deque)]
  /\ Goto(t, "unlock")
  /\ UNCHANGED <<m_mutex, m_cond, call, made, spurious>>

Notifies(c) == c.op \in {"push_front", "push_back"}

(* lk.unlock(), or the destructor of the lock: at the end of the scope and *)
(* when at() throws.                                                       *)
Unlock(t) ==
  /\ pc[t] = "unlock"
  /\ m_mutex' = Nobody
  /\ Goto(t, IF Notifies(call[t]) THEN "notify" ELSE "return")
  /\ UNCHANGED <<m_deque, m_cond, call, answer, made, spurious>>

(* Faulty: a push that tells nobody. *)
NotifyNobody(t) ==
  /\ pc[t] = "notify"
  /\ Goto(t, "return")
  /\ UNCHANGED <<m_deque, m_mutex, m_cond, call, answer, made, spurious>>

(* m_cond.notify_one(), after the mutex was given up. *)
NotifyOne(t) ==
  /\ pc[t] = "notify"
  /\ \/ /\ m_cond = {}
        /\ Goto(t, "return")
        /\ UNCHANGED m_cond
     \/ \E w \in m_cond :
          /\ m_cond' = m_cond \ {w}
          /\ pc' = [pc EXCEPT ![t] = "return", ![w] = "lock"]
  /\ UNCHANGED <<m_deque, m_mutex, call, answer, made, spurious>>

Return(t) ==
  /\ pc[t] = "return"
  /\ Goto(t, "idle")
  /\ call' = [call EXCEPT ![t] = NoCall]
  /\ answer' = [answer EXCEPT ![t] = Nothing]
  /\ UNCHANGED <<m_deque, m_mutex, m_cond, made, spurious>>

(* What a thread inside a method does on its own. *)
Step(t) ==
  Lock(t) \/ TestEmpty(t) \/ Wait(t) \/ Access(t) \/ Unlock(t)
    \/ NotifyOne(t) \/ Return(t)

Next == \E t \in Threads : Invoke(t) \/ Step(t) \/ SpuriousWake(t)

Spec == Init /\ [][Next]_vars

(* Threads keep running.  Weak fairness of Lock is enough, and all the     *)
(* operating system owes: calls are bounded, so a thread that asked for    *)
(* the mutex forever would in the end find it free for good.               *)
LiveSpec == Spec /\ \A t \in Threads : WF_vars(Step(t))

---------------------------------------------------------------------------
(* Properties *)

Entries == UNION {{c.arg : c \in {d \in Calls[t] : Notifies(d)}} : t \in Threads}

TypeOK ==
  /\ m_deque \in Seq(Entries)
  /\ m_mutex \in Threads \cup {Nobody}
  /\ m_cond \subseteq Threads
  /\ pc \in [Threads -> Labels]
  /\ DOMAIN call = Threads
  /\ \A t \in Threads : call[t] \in Calls[t] \cup {NoCall}
  /\ made \in [Threads -> 0 .. MaxCalls]
  /\ spurious \in 0 .. MaxWakes

(* The class is an atomic queue: between its call and its return every     *)
(* method takes effect once, on a deque that has the entry it needs        *)
(* (vector_concurrent_queue.h, every method).                              *)
Status ==
  [t \in Threads |->
     CASE pc[t] = "idle" -> "idle"
       [] pc[t] \in {"unlock", "notify", "return"} -> "done"
       [] OTHER -> "called"]
Atomic == INSTANCE AtomicQueue WITH deque <- m_deque, status <- Status
AtomicSpec == Atomic!Spec

Looks(t) == \E c \in Calls[t] : c.op \in {"back", "at"}
Taking == {t \in Threads \ m_cond :
             /\ NeedsEntry(call[t])
             /\ pc[t] \in {"lock", "while_empty", "wait", "access"}}
Telling == {t \in Threads :
              Notifies(call[t]) /\ pc[t] \in {"unlock", "notify"}}

(* push wakes one thread, and back() leaves the entry it was woken for: a  *)
(* sleeper next to another reader that only looks may be left asleep       *)
(* beside an entry.  When no other thread looks, there are never more      *)
(* entries than threads on their way to take one or to wake somebody:      *)
(* no wake-up is lost (vector_concurrent_queue.h:82 and 73).               *)
WakeupsSuffice ==
  \A t \in m_cond :
    (\A u \in Threads \ {t} : ~Looks(u))
      => Len(m_deque) <= Cardinality(Taking) + Cardinality(Telling)

(* And so it is woken, or the entries are taken by others. *)
SleeperServed ==
  \A t \in Threads :
    (\A u \in Threads \ {t} : ~Looks(u)) =>
      ((t \in m_cond /\ ~IsEmpty(m_deque))
         ~> (t \notin m_cond \/ IsEmpty(m_deque)))

---------------------------------------------------------------------------
(* Inductive invariant: what the mutex protects.  A thread that tests or   *)
(* reads the deque holds the mutex, and so an entry it has seen is still   *)
(* there when it uses it.                                                  *)
LockInv ==
  /\ \A t \in m_cond : pc[t] = "wait"
  /\ \A t \in Threads \ m_cond :
       pc[t] \in {"while_empty", "wait", "access", "unlock"} => m_mutex = t
  /\ \A t \in Threads :
       pc[t] = "access" /\ NeedsEntry(call[t]) => ~IsEmpty(m_deque)

(* A thread falls asleep only to wait for an entry, and on an empty deque: *)
(* the mutex is its own from the test to the wait.                         *)
SleepInv ==
  /\ \A t \in Threads : pc[t] \in {"while_empty", "wait"} => NeedsEntry(call[t])
  /\ \A t \in Threads \ m_cond : pc[t] = "wait" => IsEmpty(m_deque)

===========================================================================
