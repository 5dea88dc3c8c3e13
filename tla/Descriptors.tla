----------------------------- MODULE Descriptors -----------------------------
(***************************************************************************)
(* The descriptors of a process, as POSIX gives them out: the lowest free  *)
(* number.  External: the operating system is not in the repository.       *)
(***************************************************************************)
EXTENDS Integers

CONSTANT Descriptors   \* bound: the numbers a process may use

ASSUME DescriptorAssumption == Descriptors \subseteq Nat

None == -1
Free == "free"

VARIABLES
  table,   \* for each descriptor whose it is, or Free
  lapses   \* what has gone wrong so far that loses a descriptor or a mapping

TableInit == table = [d \in Descriptors |-> Free] /\ lapses = {}

Unused == {d \in Descriptors : table[d] = Free}

(* socket, accept and shm_open fail when there is no number left. *)
Lowest == CHOOSE d \in Unused : \A e \in Unused : d <= e

Opened(d, owner) == [table EXCEPT ![d] = owner]

(* close: a number that is not open is an error and no more. *)
Closed(d) == IF d \in Descriptors THEN [table EXCEPT ![d] = Free] ELSE table

OwnedBy(owner) == {d \in Descriptors : table[d] = owner}
=============================================================================
