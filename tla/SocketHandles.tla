---------------------------- MODULE SocketHandles ----------------------------
(***************************************************************************)
(* How CSocketOutConnection (the client) and CSocketInConnection (the      *)
(* server) come by their descriptors and give them back.  What they send   *)
(* is in SocketConnection.tla.                                             *)
(***************************************************************************)
EXTENDS Descriptors

VARIABLES
  out,      \* the client: exists, _socketConn
  in        \* the server: exists, _socketServer, _socketClient,
            \* _socketConnectWasOk

NoClient == [exists |-> FALSE, conn |-> None]
NoServer == [exists |-> FALSE, server |-> None, client |-> None, ok |-> FALSE]

SocketInit == out = NoClient /\ in = NoServer

---------------------------------------------------------------------------
(* CSocketOutConnection *)

ConstructClient ==
  /\ ~out.exists
  /\ out' = [exists |-> TRUE, conn |-> None]
  /\ UNCHANGED <<table, in, lapses>>

(* A second connect forgets the descriptor of the first. *)
Again(conn) == IF conn = None THEN {} ELSE {"again"}

ConnectToServer ==
  /\ out.exists
  /\ Unused # {}
  /\ out' = [out EXCEPT !.conn = Lowest]
  /\ table' = Opened(Lowest, "out")
  /\ lapses' = lapses \cup Again(out.conn)
  /\ UNCHANGED in

(* A failed connect() closes the descriptor and keeps its number. *)
ConnectFails ==
  /\ out.exists
  /\ Unused # {}
  /\ out' = [out EXCEPT !.conn = Lowest]
  /\ lapses' = lapses \cup {"connect"} \cup Again(out.conn)
  /\ UNCHANGED <<table, in>>

SocketFails ==
  /\ out.exists
  /\ out' = [out EXCEPT !.conn = None]
  /\ lapses' = lapses \cup Again(out.conn)
  /\ UNCHANGED <<table, in>>

(* Faulty: forgets to close. *)
DropClient ==
  /\ out.exists
  /\ out' = NoClient
  /\ UNCHANGED <<table, in, lapses>>

DestroyClient ==
  /\ out.exists
  /\ table' = Closed(out.conn)
  /\ out' = NoClient
  /\ UNCHANGED <<in, lapses>>

---------------------------------------------------------------------------
(* CSocketInConnection *)

ConstructServer ==
  /\ ~in.exists
  /\ in' = [NoServer EXCEPT !.exists = TRUE]
  /\ UNCHANGED <<table, out, lapses>>

(* bind or listen fails: the listening socket stays open, and unless an    *)
(* earlier call succeeded the destructor will not close it.                *)
BindFails ==
  /\ in.exists
  /\ Unused # {}
  /\ table' = Opened(Lowest, "listener")
  /\ in' = [in EXCEPT !.server = Lowest]
  /\ lapses' = lapses \cup {"bind"} \cup Again(in.server)
  /\ UNCHANGED out

(* socket() fails. *)
NoListener ==
  /\ in.exists
  /\ in' = [in EXCEPT !.server = None]
  /\ lapses' = lapses \cup Again(in.server)
  /\ UNCHANGED <<table, out>>

(* accept() waits for a client. *)
ConnectToClient ==
  /\ in.exists
  /\ \E listener \in Unused : \E client \in Unused \ {listener} :
       /\ listener = Lowest
       /\ \A d \in Unused \ {listener} : client <= d
       /\ table' = [table EXCEPT ![listener] = "listener",
                                 ![client] = "accepted"]
       /\ in' = [in EXCEPT !.server = listener, !.client = client, !.ok = TRUE]
  /\ lapses' = lapses \cup Again(in.server)
  /\ UNCHANGED out

(* The result of accept() is not looked at. *)
AcceptFails ==
  /\ in.exists
  /\ Unused # {}
  /\ table' = Opened(Lowest, "listener")
  /\ in' = [in EXCEPT !.server = Lowest, !.client = None, !.ok = TRUE]
  /\ lapses' = lapses \cup {"accept"} \cup Again(in.server)
  /\ UNCHANGED out

DestroyServer ==
  /\ in.exists
  /\ table' = IF in.ok
              THEN [d \in Descriptors |-> IF d \in {in.server, in.client}
                                          THEN Free ELSE table[d]]
              ELSE table
  /\ in' = NoServer
  /\ UNCHANGED <<out, lapses>>

ClientHandles ==
  \/ ConstructClient \/ ConnectToServer \/ ConnectFails \/ SocketFails
  \/ DestroyClient

ServerHandles ==
  \/ ConstructServer \/ BindFails \/ NoListener \/ ConnectToClient
  \/ AcceptFails \/ DestroyServer
=============================================================================
