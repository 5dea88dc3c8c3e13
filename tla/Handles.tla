------------------------------- MODULE Handles -------------------------------
(***************************************************************************)
(* A program that uses the descriptor-holding parts of coppelia/common     *)
(* together: a client and a server connection, two ends of a shared        *)
(* memory, and descriptors of its own, all out of one table.  A number     *)
(* that one part closes is the next that another is given.                 *)
(***************************************************************************)
EXTENDS SocketHandles, SharedMemory, FiniteSets

CONSTANT MaxLapses   \* bound: kinds of lapses in a behaviour

socketVars == <<out, in>>
memoryVars == <<name, created, memory, handle, buffer, mapped, met>>
vars == <<table, lapses, socketVars, memoryVars>>

Init == TableInit /\ SocketInit /\ MemoryInit

OtherOpens ==
  /\ Unused # {}
  /\ table' = Opened(Lowest, "other")
  /\ UNCHANGED <<lapses, socketVars, memoryVars>>

OtherCloses ==
  /\ \E d \in OwnedBy("other") : table' = Closed(d)
  /\ UNCHANGED <<lapses, socketVars, memoryVars>>

Next ==
  /\ \/ (ClientHandles \/ ServerHandles) /\ UNCHANGED memoryVars
     \/ MemoryHandles /\ UNCHANGED socketVars
     \/ OtherOpens \/ OtherCloses
  /\ Cardinality(lapses') <= MaxLapses

Spec == Init /\ [][Next]_vars

---------------------------------------------------------------------------
(* Properties *)

(* The number a part keeps is that of a descriptor of its own, so that     *)
(* what it sends to, maps or closes is nobody else's -- as long as no      *)
(* connect() has failed, after which CSocketOutConnection holds, and       *)
(* closes again, a number that may be another's by then.                   *)
NumbersOwned ==
  "connect" \notin lapses =>
    /\ out.conn \in OwnedBy("out") \cup {None}
    /\ in.server \in OwnedBy("listener") \cup {None}
    /\ in.client \in OwnedBy("accepted") \cup {None}
    /\ \A e \in Ends : handle[e] \in OwnedBy(e) \cup {None}

Without(kinds) == lapses \cap kinds = {}

(* A part that has been destroyed or closed leaves no descriptor and no    *)
(* mapping behind, except in the ways listed: a bind() that failed, a      *)
(* second connect or open on top of a first, an unlinked name, and a       *)
(* mapping that was not undone first.                                      *)
NothingLeft ==
  /\ ~out.exists /\ Without({"again"}) => OwnedBy("out") = {}
  /\ ~in.exists /\ Without({"again", "bind"}) =>
       OwnedBy("listener") \cup OwnedBy("accepted") = {}
  /\ \A e \in Ends :
       /\ ~IsValid(e) /\ Without({"reopened"}) => OwnedBy(e) = {}
       /\ buffer[e] \notin Objects /\ Without({"mapping"}) => mapped[e] = {}

(* A server that dies, starts again and creates its memory finds the       *)
(* client that had it open: until the server destroys it, both have the    *)
(* same object open.                                                       *)
SameMemory ==
  met /\ IsValid("server") /\ IsValid("client") =>
    memory["server"] = memory["client"]

---------------------------------------------------------------------------
(* What is invariant besides and makes the above inductive; see            *)
(* Handles_proofs.tla.                                                     *)

Owners == {Free, "other", "out", "listener", "accepted"} \cup Ends
Numbers == Descriptors \cup {None}

(* What the variables range over. *)
HandlesType ==
  /\ table \in [Descriptors -> Owners]
  /\ out \in [exists : BOOLEAN, conn : Numbers]
  /\ in \in [exists : BOOLEAN, server : Numbers, client : Numbers, ok : BOOLEAN]
  /\ name \in Objects \cup {NULL} /\ created \in 0 .. MaxObjects
  /\ memory \in [Ends -> Objects \cup {NULL}]
  /\ handle \in [Ends -> Numbers]
  /\ buffer \in [Ends -> Objects \cup {NULL, MapFailed}]
  /\ mapped \in [Ends -> SUBSET Objects]

(* A part knows the number of every descriptor it owns, which is what it   *)
(* will close, and none when it does not exist; the server closes what it  *)
(* knows only if a connection was accepted.                                *)
ClientKnows ==
  /\ ~out.exists => out.conn = None
  /\ Without({"again"}) => OwnedBy("out") \subseteq {out.conn}

ServerKnows ==
  /\ ~in.exists => in.server = None /\ in.client = None
  /\ Without({"again", "bind"}) =>
       /\ OwnedBy("listener") \subseteq {in.server}
       /\ OwnedBy("accepted") \subseteq {in.client}
       /\ in.server # None => in.ok
       /\ in.client # None => in.server # None

EndsKnow ==
  \A e \in Ends :
    /\ Without({"reopened"}) => OwnedBy(e) \subseteq {handle[e]}
    /\ Without({"mapping"}) => mapped[e] \subseteq {buffer[e]}

(* What the client has open is what the name stands for, and so is what    *)
(* the server has open.                                                    *)
NameOpen ==
  /\ met => name # NULL /\ memory["client"] = name
  /\ IsValid("server") => memory["server"] = name

=============================================================================
