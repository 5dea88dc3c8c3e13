------------------------- MODULE Sequences_proofs -------------------------
(***************************************************************************)
(* Lemmas about sequences that several proofs rest on: what the queue      *)
(* operations return; least numbers and induction along the numbers; and   *)
(* what a recursion along the numbers, or a flattened sequence, is.  The   *)
(* induction theorems of the library take the property as an operator; here*)
(* it is a set.                                                            *)
(***************************************************************************)
EXTENDS ConcurrentQueues, SequencesExt, FiniteSetTheorems,
        SequenceTheorems, TLAPS

---------------------------------------------------------------------------
(* The queue operations, for every queue and every entry *)

(* push_back adds one entry, which is the new back; the others stay. *)
LEMMA PushBackFacts ==
  ASSUME NEW S, NEW q \in Seq(S), NEW v \in S
  PROVE  /\ PushBack(q, v) \in Seq(S)
         /\ Len(PushBack(q, v)) = Len(q) + 1
         /\ Back(PushBack(q, v)) = v
         /\ ~IsEmpty(PushBack(q, v))
BY DEF PushBack, Back, IsEmpty

(* back() of a queue with an entry is an entry. *)
LEMMA BackFacts ==
  ASSUME NEW S, NEW q \in Seq(S), ~IsEmpty(q)
  PROVE  /\ Back(q) \in S
         /\ Len(q) >= 1
BY DEF Back, IsEmpty

(* pop_front takes one entry, and the back stays unless it was the last. *)
LEMMA PopFrontFacts ==
  ASSUME NEW S, NEW q \in Seq(S), ~IsEmpty(q)
  PROVE  /\ PopFront(q) \in Seq(S)
         /\ Len(PopFront(q)) = Len(q) - 1
         /\ ~IsEmpty(PopFront(q)) => Back(PopFront(q)) = Back(q)
<1>1. Len(q) \in Nat /\ Len(q) # 0 /\ q # <<>>
  BY DEF IsEmpty
<1>2. Tail(q) \in Seq(S) /\ Len(Tail(q)) = Len(q) - 1
  BY <1>1
<1>3. \A i \in 1 .. Len(Tail(q)) : Tail(q)[i] = q[i + 1]
  BY <1>1, <1>2
<1>4. ASSUME Len(Tail(q)) # 0
      PROVE  Tail(q)[Len(Tail(q))] = q[Len(q)]
  BY <1>1, <1>2, <1>3, <1>4
<1>5. QED
  BY <1>2, <1>4 DEF PopFront, Back, IsEmpty

(* pop_back takes one entry. *)
LEMMA PopBackFacts ==
  ASSUME NEW S, NEW q \in Seq(S), ~IsEmpty(q)
  PROVE  /\ PopBack(q) \in Seq(S)
         /\ Len(PopBack(q)) = Len(q) - 1
BY DEF PopBack, IsEmpty

---------------------------------------------------------------------------
(* Induction along the numbers *)

(* A set of numbers that is not empty has a least one. *)
LEMMA LeastNumber ==
  ASSUME NEW S \in SUBSET Nat, S # {}
  PROVE  \E m \in S : \A n \in S : m <= n
<1> DEFINE Upto(n) == 0 .. n
           Intervals == {Upto(n) : n \in S}
<1>1. Intervals \subseteq FiniteSubsetsOf(Nat) /\ Intervals # {}
  <2>1. \A n \in S : IsFiniteSet(0 .. n) /\ 0 .. n \subseteq Nat
    <3>1. TAKE n \in S
    <3>2. n \in Int /\ 0 \in Int
      OBVIOUS
    <3>3. IsFiniteSet(0 .. n)
      BY <3>2, FS_Interval
    <3>4. QED
      BY <3>2, <3>3
  <2>2. QED
    BY <2>1 DEF FiniteSubsetsOf
<1>2. PICK I \in Intervals :
        \A J \in Intervals : <<J, I>> \notin StrictSubsetOrdering(Nat)
  <2>1. IsWellFoundedOn(StrictSubsetOrdering(Nat), FiniteSubsetsOf(Nat))
    BY FS_StrictSubsetOrderingWellFounded
  <2> HIDE DEF Intervals
  <2>2. QED
    BY <1>1, <2>1, WFMin, Zenon
<1>3. PICK m \in S : I = 0 .. m
  OBVIOUS
<1>4. SUFFICES ASSUME NEW n \in S, n < m
               PROVE  FALSE
  OBVIOUS
<1>5. 0 .. n \subseteq 0 .. m /\ 0 .. n # 0 .. m /\ 0 .. m \in SUBSET Nat
  <2>1. m \in 0 .. m /\ m \notin 0 .. n
    BY <1>4
  <2>2. QED
    BY <1>4, <2>1
<1>6. <<0 .. n, 0 .. m>> \in StrictSubsetOrdering(Nat)
  <2>1. <<0 .. n, 0 .. m>>[1] = 0 .. n /\ <<0 .. n, 0 .. m>>[2] = 0 .. m
    OBVIOUS
  <2>2. QED
    BY <1>5, <2>1 DEF StrictSubsetOrdering
<1>7. QED
  BY <1>2, <1>3, <1>6

(* A set that holds 0 and, up to n, the successor of each of its members,  *)
(* holds the numbers up to n.                                              *)
LEMMA InductionUpto ==
  ASSUME NEW n \in Nat, NEW S, 0 \in S,
         \A i \in 1 .. n : i - 1 \in S => i \in S
  PROVE  \A i \in 0 .. n : i \in S
<1> DEFINE Missing == {i \in 0 .. n : i \notin S}
<1>1. SUFFICES ASSUME Missing # {} PROVE FALSE
  OBVIOUS
<1>2. PICK m \in Missing : \A k \in Missing : m <= k
  <2>1. Missing \in SUBSET Nat
    OBVIOUS
  <2> HIDE DEF Missing
  <2>2. QED
    BY <1>1, <2>1, LeastNumber
<1>3. m \in 1 .. n /\ m - 1 \notin Missing
  BY <1>2
<1>4. QED
  BY <1>3

(* Functions that begin alike and go on alike agree up to n. *)
LEMMA SameUpto ==
  ASSUME NEW n \in Nat, NEW f, NEW g, f[0] = g[0],
         \A i \in 1 .. n : f[i - 1] = g[i - 1] => f[i] = g[i]
  PROVE  f[n] = g[n]
<1> DEFINE R == {i \in 0 .. n : f[i] = g[i]}
<1>1. 0 \in R /\ \A i \in 1 .. n : i - 1 \in R => i \in R
  OBVIOUS
<1> HIDE DEF R
<1>2. \A i \in 0 .. n : i \in R
  BY <1>1, InductionUpto
<1>3. QED
  BY <1>2 DEF R

(* A recursion along the numbers has a solution. *)
Solvable(n, A, base, step) ==
  \E f \in [0 .. n -> A] :
    f[0] = base /\ \A i \in 1 .. n : f[i] = step[<<f[i - 1], i>>]

(* Any step from a set to itself can be iterated n times. *)
LEMMA Iterated ==
  ASSUME NEW n \in Nat, NEW A, NEW base \in A,
         NEW step \in [A \X (1 .. n) -> A]
  PROVE  Solvable(n, A, base, step)
<1> DEFINE IsUpto(m, f) ==
             f[0] = base /\ \A i \in 1 .. m : f[i] = step[<<f[i - 1], i>>]
           S == {m \in 0 .. n : \E f \in [0 .. m -> A] : IsUpto(m, f)}
<1>1. 0 \in S
  <2> DEFINE g == [i \in 0 .. 0 |-> base]
  <2>1. g \in [0 .. 0 -> A] /\ IsUpto(0, g)
    OBVIOUS
  <2> HIDE DEF g
  <2>2. QED
    BY <2>1
<1>2. ASSUME NEW m \in 1 .. n, m - 1 \in S PROVE m \in S
  <2>1. PICK f \in [0 .. m - 1 -> A] : IsUpto(m - 1, f)
    BY <1>2
  <2>0. f[m - 1] \in A /\ m \in 1 .. n
    BY <2>1
  <2> DEFINE g == [i \in 0 .. m |-> IF i = m THEN step[<<f[m - 1], m>>] ELSE f[i]]
  <2>2. g \in [0 .. m -> A]
    BY <2>0
  <2>3. IsUpto(m, g)
    <3>1. g[0] = base
      BY <2>1
    <3>2. ASSUME NEW i \in 1 .. m PROVE g[i] = step[<<g[i - 1], i>>]
      <4>1. CASE i = m
        <5>1. g[m] = step[<<f[m - 1], m>>] /\ g[m - 1] = f[m - 1]
          OBVIOUS
        <5>2. QED
          BY <4>1, <5>1
      <4>2. CASE i # m
        BY <2>1, <4>2
      <4>3. QED
        BY <4>1, <4>2
    <3>3. QED
      BY <3>1, <3>2
  <2> HIDE DEF g
  <2>4. QED
    BY <2>2, <2>3
<1>3. n \in S
  <2>1. \A m \in 1 .. n : m - 1 \in S => m \in S
    BY <1>2
  <2> HIDE DEF S
  <2>2. \A m \in 0 .. n : m \in S
    BY <1>1, <2>1, InductionUpto
  <2>3. QED
    BY <2>2
<1>4. QED
  BY <1>3 DEF Solvable

---------------------------------------------------------------------------
(* Where the parts of a flattened sequence lie in it. *)

(* c is a followed by b. *)
Concatenated(S, a, b, c) ==
  /\ c \in Seq(S)
  /\ Len(c) = Len(a) + Len(b)
  /\ \A k \in 1 .. Len(a) : c[k] = a[k]
  /\ \A k \in 1 .. Len(b) : c[Len(a) + k] = b[k]

(* What a concatenation holds. *)
LEMMA ConcatFacts ==
  ASSUME NEW S, NEW a \in Seq(S), NEW b \in Seq(S)
  PROVE  Concatenated(S, a, b, a \o b)
BY DEF Concatenated

(* place[i] is the length of the first i of the sequences. *)
Places(seqs, place) ==
  /\ place \in [0 .. Len(seqs) -> Nat]
  /\ place[0] = 0
  /\ \A i \in 1 .. Len(seqs) : place[i] = place[i - 1] + Len(seqs[i])

(* There are such places. *)
LEMMA PlacesExist ==
  ASSUME NEW S, NEW seqs \in Seq(Seq(S))
  PROVE  \E place : Places(seqs, place)
<1>1. PICK n \in Nat : n = Len(seqs)
  OBVIOUS
<1>2. \A i \in 1 .. n : Len(seqs[i]) \in Nat
  BY <1>1
<1> DEFINE step == [x \in Nat \X (1 .. n) |-> x[1] + Len(seqs[x[2]])]
<1>3. step \in [Nat \X (1 .. n) -> Nat] /\ 0 \in Nat
  BY <1>2
<1>4. \A a \in Nat, i \in 1 .. n : step[<<a, i>>] = a + Len(seqs[i])
  OBVIOUS
<1> HIDE DEF step
<1>5. PICK f \in [0 .. n -> Nat] :
        f[0] = 0 /\ \A i \in 1 .. n : f[i] = step[<<f[i - 1], i>>]
  <2>1. Solvable(n, Nat, 0, step)
    BY <1>1, <1>3, Iterated, Zenon
  <2>2. QED
    BY <2>1 DEF Solvable
<1>6. \A i \in 1 .. n : f[i - 1] \in Nat
  OBVIOUS
<1>7. Places(seqs, f)
  BY <1>1, <1>4, <1>5, <1>6 DEF Places
<1>8. QED
  BY <1>7

(* Places that grow from each to the next grow from each to any later. *)
LEMMA PlacesGrow ==
  ASSUME NEW n \in Nat, NEW place \in [0 .. n -> Nat],
         \A i \in 1 .. n : place[i - 1] <= place[i]
  PROVE  \A j \in 0 .. n : \A i \in 0 .. j : place[i] <= place[j]
<1> DEFINE R == {j \in 0 .. n : \A i \in 0 .. j : place[i] <= place[j]}
<1>1. 0 \in R
  OBVIOUS
<1>2. ASSUME NEW j \in 1 .. n, j - 1 \in R PROVE j \in R
  <2>1. \A i \in 0 .. j : (i = j \/ i \in 0 .. j - 1) /\ i \in 0 .. n
    OBVIOUS
  <2>2. \A i \in 0 .. n : place[i] \in Nat
    OBVIOUS
  <2>3. ASSUME NEW i \in 0 .. j PROVE place[i] <= place[j]
    BY <1>2, <2>1, <2>2
  <2>4. QED
    BY <2>3
<1>3. \A j \in 1 .. n : j - 1 \in R => j \in R
  BY <1>2
<1> HIDE DEF R
<1>4. \A j \in 0 .. n : j \in R
  BY <1>1, <1>3, InductionUpto
<1>5. QED
  BY <1>4 DEF R

(* FlattenSeq is what its recursion says. *)
LEMMA FlattenSolved ==
  ASSUME NEW S, NEW seqs \in Seq(Seq(S)), NEW n \in Nat, n = Len(seqs), n # 0
  PROVE  \E h : /\ h[1] = seqs[1] /\ FlattenSeq(seqs) = h[n]
                /\ \A i \in 2 .. n : h[i] = h[i - 1] \o seqs[i]
<1> DEFINE Solves(h) == h = [i \in 1 .. n |->
                               IF i = 1 THEN seqs[i] ELSE h[i - 1] \o seqs[i]]
           step == [x \in Seq(S) \X (1 .. n) |-> x[1] \o seqs[x[2]]]
<1>1. step \in [Seq(S) \X (1 .. n) -> Seq(S)] /\ <<>> \in Seq(S)
  <2>1. \A x \in Seq(S) \X (1 .. n) : x[1] \in Seq(S) /\ seqs[x[2]] \in Seq(S)
    OBVIOUS
  <2>2. \A x \in Seq(S) \X (1 .. n) : x[1] \o seqs[x[2]] \in Seq(S)
    BY <2>1, ConcatFacts, Zenon DEF Concatenated
  <2>3. QED
    BY <2>2, EmptySeq, Zenon
<1>2. \A a \in Seq(S), i \in 1 .. n : step[<<a, i>>] = a \o seqs[i]
  OBVIOUS
<1> HIDE DEF step
<1>3. PICK f \in [0 .. n -> Seq(S)] :
        f[0] = <<>> /\ \A i \in 1 .. n : f[i] = step[<<f[i - 1], i>>]
  <2>1. Solvable(n, Seq(S), <<>>, step)
    BY <1>1, Iterated, Zenon
  <2>2. QED
    BY <2>1 DEF Solvable
<1> DEFINE g == [i \in 1 .. n |-> f[i]]
<1>4. ASSUME NEW i \in 1 .. n
      PROVE  f[i] = IF i = 1 THEN seqs[i] ELSE f[i - 1] \o seqs[i]
  <2>0. i - 1 \in 0 .. n
    OBVIOUS
  <2>1. f[i - 1] \in Seq(S) /\ seqs[i] \in Seq(S)
    <3>1. \A j \in 0 .. n : f[j] \in Seq(S)
      BY <1>3
    <3>2. \A j \in 1 .. n : seqs[j] \in Seq(S)
      OBVIOUS
    <3>3. QED
      BY <2>0, <3>1, <3>2, Zenon
  <2>2. f[i] = f[i - 1] \o seqs[i]
    BY <1>2, <1>3, <2>1, Zenon
  <2>3. CASE i = 1
    <3>1. i - 1 = 0
      BY <2>3
    <3>2. <<>> \o seqs[i] = seqs[i]
      BY <2>1, ConcatEmptySeq, Zenon
    <3>3. QED
      BY <1>3, <2>2, <2>3, <3>1, <3>2, Zenon
  <2>4. QED
    BY <2>2, <2>3, Zenon
<1>5. \A i \in 1 .. n : i # 1 => g[i - 1] = f[i - 1]
  OBVIOUS
<1>6. Solves(g)
  BY <1>4, <1>5, Zenon
<1> HIDE DEF g
<1> DEFINE h == CHOOSE h : Solves(h)
<1>7. Solves(h)
  BY <1>6
<1>8. FlattenSeq(seqs) = h[n]
  BY DEF FlattenSeq
<1> HIDE DEF h
<1>9. h[1] = seqs[1] /\ \A i \in 2 .. n : h[i] = h[i - 1] \o seqs[i]
  <2>1. \A i \in 1 .. n : h[i] = IF i = 1 THEN seqs[i] ELSE h[i - 1] \o seqs[i]
    BY <1>7, Zenon
  <2>2. 1 \in 1 .. n /\ \A i \in 2 .. n : i \in 1 .. n /\ i # 1
    OBVIOUS
  <2>3. QED
    BY <2>1, <2>2, Zenon
<1>10. QED
  BY <1>8, <1>9

(* What is at those places. *)
Flattened(S, seqs, place, flat) ==
  /\ flat \in Seq(S)
  /\ Len(flat) = place[Len(seqs)]
  /\ \A i \in 1 .. Len(seqs) : \A k \in 1 .. Len(seqs[i]) :
       flat[place[i - 1] + k] = seqs[i][k]

(* Each part lies at its place in the flattened sequence. *)
LEMMA FlattenFacts ==
  ASSUME NEW S, NEW seqs \in Seq(Seq(S)), NEW place, Places(seqs, place)
  PROVE  Flattened(S, seqs, place, FlattenSeq(seqs))
<1> USE DEF Flattened
<1>1. PICK n \in Nat : n = Len(seqs)
  OBVIOUS
<1>2. \A i \in 1 .. n : seqs[i] \in Seq(S) /\ Len(seqs[i]) \in Nat
  BY <1>1
<1>3. /\ \A i \in 0 .. n : place[i] \in Nat
      /\ \A i \in 1 .. n : place[i] = place[i - 1] + Len(seqs[i])
      /\ place[0] = 0
  BY <1>1 DEF Places
<1>4. \A j \in 0 .. n : \A i \in 0 .. j : place[i] <= place[j]
  <2>1. \A i \in 1 .. n : place[i - 1] <= place[i]
    BY <1>2, <1>3
  <2>2. place \in [0 .. n -> Nat]
    BY <1>1 DEF Places
  <2>3. QED
    BY <2>1, <2>2, PlacesGrow
<1>5. CASE n = 0
  <2>1. FlattenSeq(seqs) = <<>>
    <3>1. seqs = <<>>
      <4>1. seqs # <<>> => Len(seqs) \in Nat \ {0}
        BY EmptySeq, Zenon
      <4>2. Len(seqs) = 0
        BY <1>1, <1>5
      <4>3. QED
        BY <4>1, <4>2
    <3>2. FlattenSeq(seqs) = seqs
      BY <1>1, <1>5 DEF FlattenSeq
    <3>3. QED
      BY <3>1, <3>2, Zenon
  <2>2. QED
    BY <1>1, <1>3, <1>5, <2>1
<1>6. CASE n # 0
  <2>1. PICK h : /\ h[1] = seqs[1] /\ FlattenSeq(seqs) = h[n]
                 /\ \A i \in 2 .. n : h[i] = h[i - 1] \o seqs[i]
    BY <1>1, <1>6, FlattenSolved, Zenon
  <2> DEFINE Laid(m) ==
               /\ h[m] \in Seq(S) /\ Len(h[m]) = place[m]
               /\ \A i \in 1 .. m : \A k \in 1 .. Len(seqs[i]) :
                    h[m][place[i - 1] + k] = seqs[i][k]
             R == {m \in 0 .. n : m # 0 => Laid(m)}
  <2>2. 0 \in R
    OBVIOUS
  <2>3. ASSUME NEW m \in 1 .. n, m - 1 \in R PROVE m \in R
    <3>1. CASE m = 1
      <4>1. h[m] \in Seq(S) /\ Len(h[m]) = place[m]
        BY <1>2, <1>3, <2>1, <3>1
      <4>2. ASSUME NEW i \in 1 .. m, NEW k \in 1 .. Len(seqs[i])
            PROVE  h[m][place[i - 1] + k] = seqs[i][k]
        <5>1. i = 1 /\ i - 1 = 0 /\ 0 + k = k
          BY <3>1
        <5>2. QED
          BY <1>3, <2>1, <3>1, <5>1, Zenon
      <4>3. QED
        BY <4>1, <4>2
    <3>2. CASE m # 1
      <4>1. PICK a : a = h[m - 1]
        OBVIOUS
      <4>2. PICK b : b = seqs[m]
        OBVIOUS
      <4>3. /\ a \in Seq(S) /\ Len(a) = place[m - 1]
            /\ \A i \in 1 .. m - 1 : \A k \in 1 .. Len(seqs[i]) :
                 a[place[i - 1] + k] = seqs[i][k]
        BY <2>3, <3>2, <4>1
      <4>4. b \in Seq(S) /\ h[m] = a \o b
        <5>1. m \in 2 .. n /\ m \in 1 .. n
          BY <3>2
        <5>2. QED
          BY <1>2, <2>1, <4>1, <4>2, <5>1, Zenon
      <4>5. PICK c : c = a \o b
        OBVIOUS
      <4>6. /\ c \in Seq(S) /\ Len(c) = Len(a) + Len(b)
            /\ \A k \in 1 .. Len(a) : c[k] = a[k]
            /\ \A k \in 1 .. Len(b) : c[Len(a) + k] = b[k]
        <5>1. Concatenated(S, a, b, c)
          BY <4>3, <4>4, <4>5, ConcatFacts, Zenon
        <5>2. QED
          BY <5>1, Zenon DEF Concatenated
      <4>7. h[m] = c
        BY <4>4, <4>5, Zenon
      <4>8. place[m] = place[m - 1] + Len(b)
        BY <1>3, <4>2
      <4>9. ASSUME NEW i \in 1 .. m, NEW k \in 1 .. Len(seqs[i])
            PROVE  c[place[i - 1] + k] = seqs[i][k]
        <5>1. CASE i = m
          BY <4>2, <4>3, <4>6, <5>1
        <5>2. CASE i # m
          <6>1. i \in 1 .. m - 1 /\ i \in 0 .. m - 1 /\ m - 1 \in 0 .. n
                /\ i \in 1 .. n /\ i - 1 \in 0 .. n
            BY <5>2
          <6>2. place[i] <= place[m - 1]
            BY <1>4, <6>1
          <6>3. place[i] = place[i - 1] + Len(seqs[i]) /\ place[i - 1] \in Nat
                /\ Len(seqs[i]) \in Nat
            BY <1>2, <1>3, <6>1
          <6>4. place[i - 1] + k \in 1 .. Len(a)
            BY <4>3, <6>2, <6>3
          <6>5. QED
            BY <4>3, <4>6, <6>1, <6>4
        <5>3. QED
          BY <5>1, <5>2
      <4>10. Laid(m)
        BY <4>3, <4>6, <4>7, <4>8, <4>9
      <4>11. QED
        BY <4>10
    <3>3. QED
      BY <3>1, <3>2
  <2>4. n \in R
    <3>1. \A m \in 1 .. n : m - 1 \in R => m \in R
      BY <2>3
    <3> HIDE DEF R
    <3>2. \A m \in 0 .. n : m \in R
      BY <2>2, <3>1, InductionUpto
    <3>3. QED
      BY <3>2
  <2>5. QED
    BY <1>1, <1>6, <2>1, <2>4
<1>7. QED
  BY <1>5, <1>6
===========================================================================
