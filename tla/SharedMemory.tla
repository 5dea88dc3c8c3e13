---------------------------- MODULE SharedMemory ----------------------------
(***************************************************************************)
(* coppelia/common/shared_memory.c: two ends, a server that creates and    *)
(* destroys, and a client that opens and closes, share one object of one   *)
(* name.  Their functions may be called in any order.                      *)
(*                                                                         *)
(* An object is known by a number; the name goes with shm_unlink, the      *)
(* object lives on for those who have it open or mapped.                   *)
(***************************************************************************)
EXTENDS Descriptors

CONSTANT MaxObjects   \* bound: objects created

Ends == {"server", "client"}
Objects == 1 .. MaxObjects
NULL == 0             \* no object, no mapping
MapFailed == -1       \* MAP_FAILED

ASSUME MemoryAssumption == MaxObjects \in Nat

VARIABLES
  name,      \* the object the name stands for
  created,   \* objects created so far
  memory,    \* the object behind each end's descriptor
  handle,    \* shared_memory_info_t::handle
  buffer,    \* shared_memory_info_t::buffer
  mapped,    \* for each end the objects it has mapped
  met        \* has the client open what the server has not destroyed since?

MemoryInit ==
  /\ name = NULL /\ created = 0
  /\ memory = [e \in Ends |-> NULL]
  /\ handle = [e \in Ends |-> None]
  /\ buffer = [e \in Ends |-> NULL]
  /\ mapped = [e \in Ends |-> {}]
  /\ met = FALSE

(* is_valid_shared_memory_handle *)
IsValid(e) == handle[e] # None

(* Faulty: the number of a closed descriptor stays. *)
ResetBuffer(e) ==
  /\ handle' = handle
  /\ buffer' = [buffer EXCEPT ![e] = NULL]

(* reset_shared_memory_pointer *)
Reset(e) ==
  /\ handle' = [handle EXCEPT ![e] = None]
  /\ buffer' = [buffer EXCEPT ![e] = NULL]

(* What is forgotten when a handle or a buffer gets another value. *)
HandleLost(e) == IF IsValid(e) THEN {"reopened"} ELSE {}
MappingLost(e) == IF buffer[e] \in Objects THEN {"mapping"} ELSE {}

(* Faulty: a new object each time. *)
CreateAnew == created + 1

(* O_CREAT without O_EXCL: the object of that name, if there is one. *)
CreateOrFind == IF name # NULL THEN name ELSE created + 1

(* create_shared_memory: that ftruncate may fail changes no more than the  *)
(* result.                                                                 *)
Create ==
  /\ Unused # {}
  /\ CreateOrFind \in Objects
  /\ name' = CreateOrFind
  /\ created' = IF name' > created THEN name' ELSE created
  /\ memory' = [memory EXCEPT !["server"] = name']
  /\ handle' = [handle EXCEPT !["server"] = Lowest]
  /\ table' = Opened(Lowest, "server")
  /\ lapses' = lapses \cup HandleLost("server")
  /\ UNCHANGED <<buffer, mapped, met>>

CreateFails ==
  /\ lapses' = lapses \cup HandleLost("server")
  /\ handle' = [handle EXCEPT !["server"] = None]
  /\ memory' = [memory EXCEPT !["server"] = NULL]
  /\ UNCHANGED <<table, name, created, buffer, mapped, met>>

(* destroy_shared_memory closes the descriptor only if the name was there  *)
(* to be removed, and forgets it in any case.                              *)
Destroy ==
  /\ name' = NULL
  /\ table' = IF name # NULL THEN Closed(handle["server"]) ELSE table
  /\ lapses' = lapses \cup MappingLost("server")
                  \cup (IF name # NULL THEN {} ELSE HandleLost("server"))
  /\ Reset("server")
  /\ memory' = [memory EXCEPT !["server"] = NULL]
  /\ met' = FALSE
  /\ UNCHANGED <<created, mapped>>

(* open_shared_memory *)
Open ==
  /\ Unused # {}
  /\ name # NULL
  /\ memory' = [memory EXCEPT !["client"] = name]
  /\ handle' = [handle EXCEPT !["client"] = Lowest]
  /\ table' = Opened(Lowest, "client")
  /\ met' = TRUE
  /\ lapses' = lapses \cup HandleLost("client")
  /\ UNCHANGED <<name, created, buffer, mapped>>

OpenFails ==
  /\ lapses' = lapses \cup HandleLost("client")
  /\ handle' = [handle EXCEPT !["client"] = None]
  /\ memory' = [memory EXCEPT !["client"] = NULL]
  /\ met' = FALSE
  /\ UNCHANGED <<table, name, created, buffer, mapped>>

(* close_shared_memory *)
Close ==
  /\ table' = Closed(handle["client"])
  /\ lapses' = lapses \cup MappingLost("client")
  /\ Reset("client")
  /\ memory' = [memory EXCEPT !["client"] = NULL]
  /\ met' = FALSE
  /\ UNCHANGED <<name, created, mapped>>

(* map_shared_memory; without a descriptor, or for a reason of the         *)
(* system's own, the buffer is MAP_FAILED.                                 *)
Map(e) ==
  /\ \/ IsValid(e) /\ buffer' = [buffer EXCEPT ![e] = memory[e]]
     \/ buffer' = [buffer EXCEPT ![e] = MapFailed]
  /\ mapped' = [mapped EXCEPT ![e] = @ \cup ({buffer'[e]} \cap Objects)]
  /\ lapses' = lapses \cup MappingLost(e)
  /\ UNCHANGED <<table, name, created, memory, handle, met>>

(* unmap_shared_memory: munmap of MAP_FAILED does nothing. *)
Unmap(e) ==
  /\ buffer' = [buffer EXCEPT ![e] = NULL]
  /\ mapped' = [mapped EXCEPT ![e] = @ \ {buffer[e]}]
  /\ UNCHANGED <<table, name, created, memory, handle, met, lapses>>

(* The server's process dies and starts again: its descriptor and mapping  *)
(* go, the name stays.                                                     *)
ServerRestarts ==
  /\ table' = [d \in Descriptors |->
                 IF table[d] = "server" THEN Free ELSE table[d]]
  /\ mapped' = [mapped EXCEPT !["server"] = {}]
  /\ memory' = [memory EXCEPT !["server"] = NULL]
  /\ handle' = [handle EXCEPT !["server"] = None]
  /\ buffer' = [buffer EXCEPT !["server"] = NULL]
  /\ UNCHANGED <<name, created, met, lapses>>

MemoryHandles ==
  \/ Create \/ CreateFails \/ Destroy \/ Open \/ OpenFails \/ Close
  \/ \E e \in Ends : Map(e) \/ Unmap(e)
  \/ ServerRestarts
=============================================================================
