-------------------- MODULE VectorConcurrentQueue_proofs --------------------
(***************************************************************************)
(* The vector queue is an atomic queue: for any number of threads, calls   *)
(* and entries, whatever the wake-ups.                                     *)
(***************************************************************************)
EXTENDS VectorConcurrentQueue, Sequences_proofs, FiniteSetTheorems


(* What push_front returns. *)
LEMMA PushFrontFacts ==
  ASSUME NEW S, NEW q \in Seq(S), NEW v \in S
  PROVE  PushFront(q, v) \in Seq(S)
BY DEF PushFront

(* A call leaves a deque of entries: those it held, and those pushed. *)
LEMMA AfterType ==
  ASSUME NEW S, NEW q \in Seq(S), NEW c, Notifies(c) => c.arg \in S
  PROVE  After(c, q) \in Seq(S)
<1>1. CASE Undefined(c, q)
  BY <1>1 DEF After
<1>2. CASE ~Undefined(c, q) /\ c.op = "push_back"
  BY <1>2, PushBackFacts DEF After, Notifies
<1>3. CASE ~Undefined(c, q) /\ c.op = "push_front"
  BY <1>3, PushFrontFacts DEF After, Notifies
<1>4. CASE ~Undefined(c, q) /\ c.op = "pop_back"
  BY <1>4, PopBackFacts DEF After, Undefined, NeedsEntry
<1>5. CASE ~Undefined(c, q) /\ c.op = "pop_front"
  BY <1>5, PopFrontFacts DEF After, Undefined, NeedsEntry
<1>6. CASE ~Undefined(c, q) /\ c.op = "clear"
  BY <1>6 DEF After, EmptyQueue
<1>7. CASE ~Undefined(c, q) /\ c.op \notin {"push_back", "push_front",
                                           "pop_back", "pop_front", "clear"}
  BY <1>7 DEF After
<1>8. QED
  BY <1>1, <1>2, <1>3, <1>4, <1>5, <1>6, <1>7

---------------------------------------------------------------------------
(* Type correctness *)

LEMMA InitType == Init => TypeOK
BY QueueAssumption
   DEF Init, TypeOK, Labels, EmptyQueue

LEMMA StepType ==
  ASSUME TypeOK, NEW t \in Threads,
         Invoke(t) \/ Step(t) \/ SpuriousWake(t)
  PROVE  TypeOK'
<1> USE DEF TypeOK, Goto, Labels
<1>1. CASE Invoke(t)
  <2>1. made[t] + 1 \in 0 .. MaxCalls
    BY <1>1, QueueAssumption DEF Invoke
  <2>2. \A u \in Threads : call'[u] \in Calls[u] \cup {NoCall}
    BY <1>1 DEF Invoke
  <2>3. QED
    BY <1>1, <2>1, <2>2 DEF Invoke
<1>2. CASE Lock(t)
  BY <1>2 DEF Lock
<1>3. CASE TestEmpty(t)
  BY <1>3 DEF TestEmpty
<1>4. CASE Wait(t)
  BY <1>4 DEF Wait
<1>5. CASE SpuriousWake(t)
  <2>1. spurious + 1 \in 0 .. MaxWakes
    BY <1>5, QueueAssumption DEF SpuriousWake
  <2>2. QED
    BY <1>5, <2>1 DEF SpuriousWake
<1>6. CASE Access(t)
  <2>1. Notifies(call[t]) => call[t].arg \in Entries
    BY DEF Entries, Notifies, NoCall
  <2>2. m_deque' \in Seq(Entries)
    BY <1>6, <2>1, AfterType DEF Access
  <2>3. QED
    BY <1>6, <2>2 DEF Access
<1>7. CASE Unlock(t)
  BY <1>7 DEF Unlock
<1>8. CASE NotifyOne(t)
  BY <1>8 DEF NotifyOne
<1>9. CASE Return(t)
  BY <1>9 DEF Return
<1>10. QED
  BY <1>1, <1>2, <1>3, <1>4, <1>5, <1>6, <1>7, <1>8, <1>9 DEF Step

(* The vector queue is type correct (vector_concurrent_queue.h). *)
THEOREM QueueTypeCorrect == Spec => []TypeOK
<1>1. TypeOK /\ [Next]_vars => TypeOK'
  BY StepType DEF Next, vars, TypeOK
<1>2. QED
  BY <1>1, InitType, PTL DEF Spec

---------------------------------------------------------------------------
(* What the mutex protects *)

LEMMA InitLock == Init => LockInv
BY DEF Init, LockInv, NoCall, NeedsEntry

LEMMA StepLock ==
  ASSUME TypeOK, LockInv, NEW t \in Threads,
         Invoke(t) \/ Step(t) \/ SpuriousWake(t)
  PROVE  LockInv'
<1> USE DEF TypeOK, LockInv, Goto, Labels
<1>1. CASE Invoke(t)
  BY <1>1 DEF Invoke
<1>2. CASE Lock(t)
  BY <1>2, QueueAssumption DEF Lock
<1>3. CASE TestEmpty(t)
  BY <1>3 DEF TestEmpty
<1>4. CASE Wait(t)
  BY <1>4 DEF Wait
<1>5. CASE SpuriousWake(t)
  BY <1>5 DEF SpuriousWake
<1>6. CASE Access(t)
  BY <1>6 DEF Access
<1>7. CASE Unlock(t)
  BY <1>7 DEF Unlock
<1>8. CASE NotifyOne(t)
  BY <1>8 DEF NotifyOne
<1>9. CASE Return(t)
  BY <1>9 DEF Return
<1>10. QED
  BY <1>1, <1>2, <1>3, <1>4, <1>5, <1>6, <1>7, <1>8, <1>9 DEF Step

QueueInv == TypeOK /\ LockInv

LEMMA StepInv == QueueInv /\ [Next]_vars => QueueInv'
<1>1. CASE UNCHANGED vars
  BY <1>1 DEF QueueInv, vars, TypeOK, LockInv
<1>2. CASE Next
  BY <1>2, StepType, StepLock DEF Next, QueueInv
<1>3. QED
  BY <1>1, <1>2

(* No thread touches the deque without the mutex, and an entry it waited   *)
(* for is there when it takes it (vector_concurrent_queue.h:85-127).       *)
THEOREM Locked == Spec => []LockInv
<1>1. Init => QueueInv
  BY InitType, InitLock DEF QueueInv
<1>2. QueueInv => LockInv
  BY DEF QueueInv
<1>3. QED
  BY <1>1, <1>2, StepInv, PTL DEF Spec

---------------------------------------------------------------------------
(* Refinement *)

(* AtomicQueue means the same operations. *)
LEMMA SameOperations ==
  /\ Atomic!EmptyQueue = EmptyQueue /\ Atomic!NoCall = NoCall
  /\ Atomic!Nothing = Nothing
  /\ \A c : Atomic!NeedsEntry(c) <=> NeedsEntry(c)
  /\ \A q : Atomic!IsEmpty(q) = IsEmpty(q)
  /\ \A c, q : Atomic!After(c, q) = After(c, q)
  /\ \A c, q : Atomic!Answer(c, q) = Answer(c, q)
<1>1. /\ Atomic!EmptyQueue = EmptyQueue /\ Atomic!NoCall = NoCall
      /\ Atomic!Nothing = Nothing /\ Atomic!OutOfRange = OutOfRange
  BY DEF Atomic!EmptyQueue, EmptyQueue, Atomic!NoCall, NoCall, Atomic!NoArg,
         NoArg, Atomic!Nothing, Nothing, Atomic!OutOfRange, OutOfRange
<1>2. \A c, q : /\ Atomic!NeedsEntry(c) <=> NeedsEntry(c)
                /\ Atomic!IsEmpty(q) = IsEmpty(q)
                /\ Atomic!Undefined(c, q) <=> Undefined(c, q)
  BY DEF Atomic!NeedsEntry, NeedsEntry, Atomic!IsEmpty, IsEmpty,
         Atomic!Undefined, Undefined
<1>3. \A q, v : /\ Atomic!PushBack(q, v) = PushBack(q, v)
                /\ Atomic!PushFront(q, v) = PushFront(q, v)
                /\ Atomic!PopBack(q) = PopBack(q)
                /\ Atomic!PopFront(q) = PopFront(q)
                /\ Atomic!Back(q) = Back(q)
                /\ Atomic!At(q, v) = At(q, v)
  BY <1>1
     DEF Atomic!At, At, Atomic!PushBack, PushBack, Atomic!PushFront, PushFront,
         Atomic!PopBack, PopBack, Atomic!PopFront, PopFront, Atomic!Back, Back
<1>4. \A c, q : Atomic!After(c, q) = After(c, q)
  BY <1>1, <1>2, <1>3, Zenon DEF Atomic!After, After
<1>5. \A c, q : Atomic!Answer(c, q) = Answer(c, q)
  BY <1>1, <1>2, <1>3, Zenon DEF Atomic!Answer, Answer
<1>6. QED
  BY <1>1, <1>2, <1>4, <1>5

LEMMA InitAtomic == Init => Atomic!Init
BY SameOperations DEF Init, Atomic!Init, Status

LEMMA StepAtomic ==
  ASSUME QueueInv, NEW t \in Threads,
         Invoke(t) \/ Step(t) \/ SpuriousWake(t)
  PROVE  [Atomic!Next]_(Atomic!queueVars)
<1> USE DEF QueueInv, TypeOK, Goto, Labels
<1> DEFINE Stutter == UNCHANGED <<m_deque, Status, call, answer>>
<1>0. Stutter => UNCHANGED Atomic!queueVars
  BY DEF Atomic!queueVars
<1>1. CASE Invoke(t)
  <2>1. Status[t] = "idle" /\ Status' = [Status EXCEPT ![t] = "called"]
    BY <1>1 DEF Invoke, Status
  <2>2. Atomic!Invoke(t)
    BY <1>1, <2>1 DEF Invoke, Atomic!Invoke
  <2>3. QED
    BY <2>2 DEF Atomic!Next
<1>2. CASE Lock(t)
  <2>1. Status' = Status
    BY <1>2 DEF Lock, Status
  <2>2. QED
    BY <1>0, <1>2, <2>1 DEF Lock
<1>3. CASE TestEmpty(t)
  <2>1. Status' = Status
    BY <1>3 DEF TestEmpty, Status
  <2>2. QED
    BY <1>0, <1>3, <2>1 DEF TestEmpty
<1>4. CASE Wait(t)
  <2>1. Status' = Status
    BY <1>4 DEF Wait, Status
  <2>2. QED
    BY <1>0, <1>4, <2>1 DEF Wait
<1>5. CASE SpuriousWake(t)
  <2>1. pc[t] = "wait"
    BY <1>5 DEF SpuriousWake, LockInv
  <2>2. Status' = Status
    BY <1>5, <2>1 DEF SpuriousWake, Status
  <2>3. QED
    BY <1>0, <1>5, <2>2 DEF SpuriousWake
<1>6. CASE Access(t)
  <2>1. Status[t] = "called" /\ Status' = [Status EXCEPT ![t] = "done"]
    BY <1>6 DEF Access, Status
  <2>2. NeedsEntry(call[t]) => ~IsEmpty(m_deque)
    BY <1>6 DEF Access, LockInv
  <2>3. Atomic!TakeEffect(t)
    BY <1>6, <2>1, <2>2, SameOperations DEF Access, Atomic!TakeEffect
  <2>4. QED
    BY <2>3 DEF Atomic!Next
<1>7. CASE Unlock(t)
  <2>1. Status' = Status
    BY <1>7 DEF Unlock, Status
  <2>2. QED
    BY <1>0, <1>7, <2>1 DEF Unlock
<1>8. CASE NotifyOne(t)
  <2>1. \A w \in m_cond : pc[w] = "wait"
    BY DEF LockInv
  <2>2. Status' = Status
    BY <1>8, <2>1 DEF NotifyOne, Status
  <2>3. QED
    BY <1>0, <1>8, <2>2 DEF NotifyOne
<1>9. CASE Return(t)
  <2>1. Status[t] = "done" /\ Status' = [Status EXCEPT ![t] = "idle"]
    BY <1>9 DEF Return, Status
  <2>2. Atomic!Return(t)
    BY <1>9, <2>1, SameOperations DEF Return, Atomic!Return
  <2>3. QED
    BY <2>2 DEF Atomic!Next
<1>10. QED
  BY <1>1, <1>2, <1>3, <1>4, <1>5, <1>6, <1>7, <1>8, <1>9 DEF Step

(* The class implements AtomicQueue: the form in which RTDEclient and      *)
(* SimExtRTDE call their queues (vector_concurrent_queue.h, all methods).  *)
THEOREM Linearizable == Spec => AtomicSpec
<1>1. Init => QueueInv /\ Atomic!Init
  BY InitType, InitLock, InitAtomic DEF QueueInv
<1>2. QueueInv /\ [Next]_vars => [Atomic!Next]_(Atomic!queueVars)
  <2>1. CASE UNCHANGED vars
    BY <2>1 DEF vars, Atomic!queueVars, Status
  <2>2. CASE Next
    BY <2>2, StepAtomic DEF Next, QueueInv
  <2>3. QED
    BY <2>1, <2>2
<1>3. QED
  BY <1>1, <1>2, StepInv, PTL DEF Spec, AtomicSpec, Atomic!Spec

---------------------------------------------------------------------------
(* No wake-up is lost *)

LEMMA InitSleep == Init => SleepInv
BY DEF Init, SleepInv

LEMMA StepSleep ==
  ASSUME QueueInv, SleepInv, NEW t \in Threads,
         Invoke(t) \/ Step(t) \/ SpuriousWake(t)
  PROVE  SleepInv'
<1> USE DEF QueueInv, TypeOK, LockInv, SleepInv, Goto, Labels
<1>1. CASE Invoke(t)
  BY <1>1 DEF Invoke
<1>2. CASE Lock(t)
  BY <1>2 DEF Lock
<1>3. CASE TestEmpty(t)
  BY <1>3 DEF TestEmpty
<1>4. CASE Wait(t)
  BY <1>4 DEF Wait
<1>5. CASE SpuriousWake(t)
  BY <1>5 DEF SpuriousWake
<1>6. CASE Access(t)
  <2>1. t \notin m_cond /\ m_mutex = t
    BY <1>6 DEF Access
  <2>2. \A u \in Threads \ m_cond : pc[u] # "wait"
    BY <1>6, <2>1 DEF Access
  <2>3. UNCHANGED <<m_cond, call>> /\ pc' = [pc EXCEPT ![t] = "unlock"]
    BY <1>6 DEF Access
  <2>4. QED
    BY <2>2, <2>3
<1>7. CASE Unlock(t)
  BY <1>7 DEF Unlock
<1>8. CASE NotifyOne(t)
  BY <1>8 DEF NotifyOne
<1>9. CASE Return(t)
  BY <1>9 DEF Return
<1>10. QED
  BY <1>1, <1>2, <1>3, <1>4, <1>5, <1>6, <1>7, <1>8, <1>9 DEF Step

(* How many threads are on their way can be counted. *)
LEMMA CountFacts ==
  /\ IsFiniteSet(Taking) /\ Cardinality(Taking) \in Nat
  /\ IsFiniteSet(Telling) /\ Cardinality(Telling) \in Nat
  /\ IsFiniteSet(Taking') /\ Cardinality(Taking') \in Nat
  /\ IsFiniteSet(Telling') /\ Cardinality(Telling') \in Nat
<1>1. /\ Taking \subseteq Threads /\ Telling \subseteq Threads
      /\ Taking' \subseteq Threads /\ Telling' \subseteq Threads
  BY DEF Taking, Telling
<1>2. QED
  BY <1>1, QueueAssumption, FS_Subset, FS_CardinalityType

(* What a call does to the number of entries. *)
LEMMA AfterLength ==
  ASSUME NEW S, NEW q \in Seq(S), NEW c, Notifies(c) => c.arg \in S,
         NeedsEntry(c) => ~IsEmpty(q)
  PROVE  /\ Len(q) \in Nat
         /\ Notifies(c) => Len(After(c, q)) = Len(q) + 1
         /\ c.op \in {"pop_back", "pop_front"} => Len(After(c, q)) = Len(q) - 1
         /\ c.op = "clear" => Len(After(c, q)) = 0
         /\ c.op \notin {"push_back", "push_front", "pop_back", "pop_front", "clear"}
              => After(c, q) = q
<1>0. ~Undefined(c, q) /\ Len(q) \in Nat
  BY DEF Undefined
<1>1. CASE c.op = "push_back"
  BY <1>0, <1>1, PushBackFacts DEF After, Notifies
<1>2. CASE c.op = "push_front"
  <2>1. After(c, q) = <<c.arg>> \o q
    BY <1>0, <1>2 DEF After, PushFront
  <2>2. <<c.arg>> \in Seq(S) /\ Len(<<c.arg>>) = 1
    BY <1>2 DEF Notifies
  <2>3. QED
    BY <1>0, <1>2, <2>1, <2>2 DEF Notifies
<1>3. CASE c.op = "pop_back"
  BY <1>0, <1>3, PopBackFacts DEF After, NeedsEntry, Notifies
<1>4. CASE c.op = "pop_front"
  BY <1>0, <1>4, PopFrontFacts DEF After, NeedsEntry, Notifies
<1>5. CASE c.op = "clear"
  BY <1>0, <1>5 DEF After, EmptyQueue, Notifies
<1>6. CASE c.op \notin {"push_back", "push_front", "pop_back", "pop_front", "clear"}
  BY <1>0, <1>6 DEF After, Notifies
<1>7. QED
  BY <1>1, <1>2, <1>3, <1>4, <1>5, <1>6

(* Steps on which nobody who was on the way turns back. *)
LEMMA WakeKept ==
  ASSUME WakeupsSuffice, m_deque \in Seq(Entries),
         m_cond' \subseteq m_cond,
         Len(m_deque') <= Len(m_deque) \/ Len(m_deque') = 0, Len(m_deque') \in Nat,
         Taking \subseteq Taking', Telling \subseteq Telling'
  PROVE  WakeupsSuffice'
<1>1. Cardinality(Taking) <= Cardinality(Taking')
      /\ Cardinality(Telling) <= Cardinality(Telling')
  BY CountFacts, FS_Subset
<1>2. Len(m_deque) \in Nat
  OBVIOUS
<1>3. QED
  BY <1>1, <1>2, CountFacts DEF WakeupsSuffice, Looks

LEMMA StepWake ==
  ASSUME QueueInv, SleepInv, WakeupsSuffice, NEW t \in Threads,
         Invoke(t) \/ Step(t) \/ SpuriousWake(t)
  PROVE  WakeupsSuffice'
<1> USE DEF Goto
<1>0. /\ m_deque \in Seq(Entries) /\ Len(m_deque) \in Nat
      /\ DOMAIN call = Threads /\ pc \in [Threads -> Labels] /\ m_cond \subseteq Threads
      /\ \A u \in m_cond : pc[u] = "wait" /\ NeedsEntry(call[u])
  BY DEF QueueInv, TypeOK, LockInv, SleepInv
<1>1. CASE Invoke(t)
  <2>1. Taking \subseteq Taking' /\ Telling \subseteq Telling'
    BY <1>0, <1>1 DEF Invoke, Taking, Telling
  <2>2. QED
    BY <1>0, <1>1, <2>1, WakeKept DEF Invoke
<1>2. CASE Lock(t)
  <2>1. Taking \subseteq Taking' /\ Telling \subseteq Telling'
    BY <1>0, <1>2 DEF Lock, Taking, Telling
  <2>2. QED
    BY <1>0, <1>2, <2>1, WakeKept DEF Lock
<1>3. CASE TestEmpty(t)
  <2>1. Taking \subseteq Taking' /\ Telling \subseteq Telling'
    BY <1>0, <1>3 DEF TestEmpty, Taking, Telling
  <2>2. QED
    BY <1>0, <1>3, <2>1, WakeKept DEF TestEmpty
<1>4. CASE Wait(t)
  <2>1. Len(m_deque') = 0
    BY <1>4 DEF Wait, SleepInv, IsEmpty
  <2>2. QED
    BY <2>1, CountFacts DEF WakeupsSuffice
<1>5. CASE SpuriousWake(t)
  <2>1. Taking \subseteq Taking' /\ Telling \subseteq Telling'
    BY <1>0, <1>5 DEF SpuriousWake, Taking, Telling
  <2>2. QED
    BY <1>0, <1>5, <2>1, WakeKept DEF SpuriousWake
<1>6. CASE Access(t)
  <2>1. /\ pc[t] = "access" /\ t \notin m_cond /\ pc' = [pc EXCEPT ![t] = "unlock"]
        /\ m_deque' = After(call[t], m_deque) /\ UNCHANGED <<m_cond, call>>
        /\ NeedsEntry(call[t]) => ~IsEmpty(m_deque)
    BY <1>0, <1>6 DEF Access, QueueInv, LockInv
  <2>2. /\ Notifies(call[t]) => call[t].arg \in Entries
        /\ call[t] \in Calls[t] \cup {NoCall}
    BY DEF QueueInv, TypeOK, Entries, Notifies, NoCall
  <2>3. CASE Notifies(call[t])
    <3>1. Len(m_deque') = Len(m_deque) + 1
      BY <1>0, <2>1, <2>2, <2>3, AfterLength
    <3>2. Telling' = Telling \cup {t} /\ t \notin Telling
      BY <1>0, <2>1, <2>3 DEF Telling
    <3>3. Taking' = Taking
      BY <1>0, <2>1, <2>3 DEF Taking, Notifies, NeedsEntry
    <3>4. Cardinality(Telling') = Cardinality(Telling) + 1
      BY <3>2, CountFacts, FS_AddElement
    <3>5. QED
      BY <1>0, <2>1, <3>1, <3>3, <3>4, CountFacts DEF WakeupsSuffice, Looks
  <2>4. CASE call[t].op \in {"pop_back", "pop_front"}
    <3>1. Len(m_deque') = Len(m_deque) - 1
      BY <1>0, <2>1, <2>2, <2>4, AfterLength
    <3>2. Telling' = Telling
      BY <1>0, <2>1, <2>4 DEF Telling, Notifies
    <3>3. Taking' = Taking \ {t} /\ t \in Taking
      BY <1>0, <2>1, <2>4 DEF Taking, NeedsEntry
    <3>4. Cardinality(Taking') = Cardinality(Taking) - 1
      BY <3>3, CountFacts, FS_RemoveElement
    <3>5. QED
      BY <1>0, <2>1, <3>1, <3>2, <3>4, CountFacts DEF WakeupsSuffice, Looks
  <2>5. CASE call[t].op \in {"back", "at"}
    <3>1. Looks(t)
      BY <2>2, <2>5 DEF Looks, NoCall
    <3>2. \A u \in m_cond' : ~(\A v \in Threads \ {u} : ~Looks(v))
      BY <2>1, <3>1
    <3>3. QED
      BY <3>2 DEF WakeupsSuffice, Looks
  <2>6. CASE /\ ~Notifies(call[t])
             /\ call[t].op \notin {"pop_back", "pop_front", "back", "at"}
    <3>1. Len(m_deque') = Len(m_deque) \/ Len(m_deque') = 0
      BY <1>0, <2>1, <2>2, <2>6, AfterLength DEF Notifies
    <3>2. Taking' = Taking /\ Telling' = Telling
      BY <1>0, <2>1, <2>6 DEF Taking, Telling, NeedsEntry
    <3>3. QED
      BY <1>0, <2>1, <3>1, <3>2, WakeKept
  <2>7. QED
    BY <2>3, <2>4, <2>5, <2>6
<1>7. CASE Unlock(t)
  <2>1. Taking \subseteq Taking' /\ Telling \subseteq Telling'
    BY <1>0, <1>7 DEF Unlock, Taking, Telling
  <2>2. QED
    BY <1>0, <1>7, <2>1, WakeKept DEF Unlock
<1>8. CASE NotifyOne(t)
  <2>1. CASE m_cond = {}
    BY <1>8, <2>1 DEF NotifyOne, WakeupsSuffice
  <2>2. CASE ~Notifies(call[t]) \/ t \in m_cond
    <3>1. t \notin m_cond
      BY <1>0, <1>8 DEF NotifyOne
    <3>2. Taking \subseteq Taking' /\ Telling \subseteq Telling'
      BY <1>0, <1>8, <2>2, <3>1 DEF NotifyOne, Taking, Telling
    <3>3. QED
      BY <1>0, <1>8, <3>2, WakeKept DEF NotifyOne
  <2>3. CASE m_cond # {} /\ Notifies(call[t])
    <3>1. PICK w \in m_cond :
            /\ m_cond' = m_cond \ {w}
            /\ pc' = [pc EXCEPT ![t] = "return", ![w] = "lock"]
      BY <1>8, <2>3 DEF NotifyOne
    <3>2. pc[t] = "notify" /\ UNCHANGED <<m_deque, call>> /\ w # t /\ w \in Threads
      BY <1>0, <1>8, <3>1 DEF NotifyOne
    <3>3. Telling' = Telling \ {t} /\ t \in Telling
      BY <1>0, <2>3, <3>1, <3>2 DEF Telling
    <3>4. Taking' = Taking \cup {w} /\ w \notin Taking
      BY <1>0, <3>1, <3>2 DEF Taking
    <3>5. /\ Cardinality(Telling') = Cardinality(Telling) - 1
          /\ Cardinality(Taking') = Cardinality(Taking) + 1
      BY <3>3, <3>4, CountFacts, FS_AddElement, FS_RemoveElement
    <3>6. QED
      BY <1>0, <3>1, <3>2, <3>5, CountFacts DEF WakeupsSuffice, Looks
  <2>4. QED
    BY <2>1, <2>2, <2>3
<1>9. CASE Return(t)
  <2>1. Taking \subseteq Taking' /\ Telling \subseteq Telling'
    BY <1>0, <1>9 DEF Return, Taking, Telling
  <2>2. QED
    BY <1>0, <1>9, <2>1, WakeKept DEF Return
<1>10. QED
  BY <1>1, <1>2, <1>3, <1>4, <1>5, <1>6, <1>7, <1>8, <1>9 DEF Step

(* For any number of threads, calls and spurious wake-ups: while a thread  *)
(* sleeps and no other one merely looks at entries, every entry has a      *)
(* thread on its way to take it or to wake somebody                        *)
(* (vector_concurrent_queue.h:73 and 82).                                  *)
THEOREM NoWakeupLost == Spec => []WakeupsSuffice
<1> DEFINE IInv == QueueInv /\ SleepInv /\ WakeupsSuffice
<1>1. Init => IInv
  <2>1. Init => WakeupsSuffice
    BY DEF Init, WakeupsSuffice
  <2>2. QED
    BY <2>1, InitType, InitLock, InitSleep DEF QueueInv
<1>2. IInv /\ [Next]_vars => IInv'
  <2>1. CASE UNCHANGED vars
    BY <2>1, StepInv
       DEF vars, SleepInv, WakeupsSuffice, Taking, Telling, Looks
  <2>2. CASE Next
    BY <2>2, StepInv, StepSleep, StepWake DEF Next
  <2>3. QED
    BY <2>1, <2>2
<1>3. QED
  BY <1>1, <1>2, PTL DEF Spec

=============================================================================
