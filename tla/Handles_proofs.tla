--------------------------- MODULE Handles_proofs ---------------------------
(***************************************************************************)
(* What Handles.tla promises of descriptors, mappings and the shared name  *)
(* is proved here for any number of descriptors, objects and lapses.       *)
(***************************************************************************)
EXTENDS Handles, Sequences_proofs

USE DescriptorAssumption, MemoryAssumption

---------------------------------------------------------------------------
(* The lowest unused number is one that is unused. *)
LEMMA LowestUnused ==
  ASSUME Unused # {}
  PROVE  Lowest \in Unused
<1>1. Unused \in SUBSET Nat
  BY DEF Unused
<1>2. \E d \in Unused : \A e \in Unused : d <= e
  BY <1>1, LeastNumber
<1>3. QED
  BY <1>2 DEF Lowest

---------------------------------------------------------------------------
(* The inductive invariant, a part at a time.                              *)

Known == ClientKnows /\ ServerKnows /\ EndsKnow
HandlesInv == HandlesType /\ NumbersOwned /\ Known /\ NameOpen

LEMMA InitHandles == Init => HandlesInv
<1> USE DEF Init, TableInit, SocketInit, MemoryInit
<1>1. Init => HandlesType
  BY DEF HandlesType, Owners, Numbers, NoClient, NoServer, Free, None, NULL, Objects, Ends
<1>2. Init => NumbersOwned
  BY DEF NumbersOwned, NoClient, NoServer, Ends
<1>3. Init => Known
  BY DEF Known, ClientKnows, ServerKnows, EndsKnow, OwnedBy, NoClient, NoServer, Free, Ends
<1>4. Init => NameOpen
  BY DEF NameOpen, IsValid, Ends
<1>5. QED
  BY <1>1, <1>2, <1>3, <1>4 DEF HandlesInv

(* No step forgets what has gone wrong. *)
LEMMA LapsesStay ==
  ASSUME [Next]_vars
  PROVE  lapses \subseteq lapses'
BY DEF Next, vars, ClientHandles, ServerHandles, MemoryHandles, OtherOpens,
       OtherCloses, ConstructClient, ConnectToServer, ConnectFails, SocketFails,
       DestroyClient, ConstructServer, BindFails, NoListener, ConnectToClient,
       AcceptFails, DestroyServer, Create, CreateFails, Destroy, Open, OpenFails,
       Close, Map, Unmap, ServerRestarts

ClientRecords == [exists : BOOLEAN, conn : Numbers]
ServerRecords == [exists : BOOLEAN, server : Numbers, client : Numbers, ok : BOOLEAN]

LEMMA ClientType ==
  ASSUME HandlesType, ClientHandles \/ ServerHandles, UNCHANGED memoryVars
  PROVE  HandlesType'
<1>0. /\ table \in [Descriptors -> Owners]
      /\ out \in ClientRecords /\ in \in ServerRecords
      /\ \A d \in Unused : d \in Descriptors
      /\ Lowest \in Unused \/ Unused = {}
  BY LowestUnused DEF HandlesType, Unused, ClientRecords, ServerRecords
<1>1. CASE ClientHandles
  <2> USE DEF ClientHandles, ConstructClient, ConnectToServer, ConnectFails,
              SocketFails, DestroyClient
  <2>1. table' \in [Descriptors -> Owners] /\ in' = in
    BY <1>0, <1>1 DEF Owners, Opened, Closed, Free
  <2>2. \A r \in ClientRecords, m \in Numbers : [r EXCEPT !.conn = m] \in ClientRecords
    BY DEF ClientRecords
  <2>3. NoClient \in ClientRecords /\ None \in Numbers
    BY DEF ClientRecords, NoClient, Numbers
  <2>4. out' \in ClientRecords
    <3>1. CASE ConstructClient
      BY <3>1, <2>3 DEF ClientRecords
    <3>2. CASE ConnectToServer \/ ConnectFails
      BY <3>2, <1>0, <2>2 DEF Numbers
    <3>3. QED
      BY <1>0, <1>1, <2>2, <2>3, <3>1, <3>2
  <2>5. QED
    BY <2>1, <2>4 DEF HandlesType, ClientRecords, memoryVars
<1>2. CASE ServerHandles
  <2> USE DEF ServerHandles, ConstructServer, BindFails, NoListener, ConnectToClient,
              AcceptFails, DestroyServer
  <2>1. table' \in [Descriptors -> Owners] /\ out' = out
    BY <1>0, <1>2 DEF Owners, Opened, Free
  <2>2. \A r \in ServerRecords, m, n \in Numbers, b \in BOOLEAN :
          /\ [r EXCEPT !.server = m] \in ServerRecords
          /\ [r EXCEPT !.server = m, !.client = n, !.ok = b] \in ServerRecords
          /\ [r EXCEPT !.exists = b] \in ServerRecords
    BY DEF ServerRecords
  <2>3. NoServer \in ServerRecords /\ None \in Numbers
    BY DEF ServerRecords, NoServer, Numbers
  <2>4. in' \in ServerRecords
    <3>1. CASE ConstructServer \/ DestroyServer
      BY <3>1, <2>2, <2>3
    <3>0. \A d \in Unused : d \in Numbers
      BY <1>0 DEF Numbers
    <3>2. CASE BindFails \/ AcceptFails
      <4>1. Lowest \in Numbers
        BY <1>0, <3>0, <3>2
      <4>2. /\ [in EXCEPT !.server = Lowest] \in ServerRecords
            /\ [in EXCEPT !.server = Lowest, !.client = None, !.ok = TRUE] \in ServerRecords
        BY <1>0, <2>2, <2>3, <4>1
      <4>3. QED
        BY <3>2, <4>2
    <3>3. CASE NoListener
      BY <3>3, <1>0, <2>2, <2>3
    <3>4. CASE ConnectToClient
      <4>1. PICK listener \in Unused, client \in Unused :
              in' = [in EXCEPT !.server = listener, !.client = client, !.ok = TRUE]
        BY <3>4
      <4>2. listener \in Numbers /\ client \in Numbers
        BY <3>0
      <4>3. QED
        BY <1>0, <2>2, <4>1, <4>2
    <3>5. QED
      BY <1>2, <3>1, <3>2, <3>3, <3>4
  <2>5. QED
    BY <2>1, <2>4 DEF HandlesType, ServerRecords, memoryVars
<1>3. QED
  BY <1>1, <1>2

LEMMA MemoryType ==
  ASSUME HandlesType, MemoryHandles, UNCHANGED socketVars
  PROVE  HandlesType'
<1> USE DEF HandlesType, Owners, Numbers, Opened, Closed, Free, socketVars, Ends,
            Objects, NULL, Reset, CreateOrFind
<1>0. Lowest \in Descriptors \/ Unused = {}
  BY LowestUnused DEF Unused
<1>1. CASE Create
  BY <1>0, <1>1 DEF Create
<1>2. CASE CreateFails \/ Destroy \/ Close \/ OpenFails \/ ServerRestarts
  BY <1>2 DEF CreateFails, Destroy, Close, OpenFails, ServerRestarts
<1>3. CASE Open
  BY <1>0, <1>3 DEF Open
<1>4. ASSUME NEW e \in Ends, Map(e)
      PROVE  HandlesType'
  <2>1. buffer' \in [Ends -> Objects \cup {NULL, MapFailed}]
    BY <1>4 DEF Map
  <2>2. QED
    BY <1>4, <2>1 DEF Map
<1>5. ASSUME NEW e \in Ends, Unmap(e)
      PROVE  HandlesType'
  BY <1>5 DEF Unmap
<1>6. QED
  BY <1>1, <1>2, <1>3, <1>4, <1>5 DEF MemoryHandles

LEMMA OtherType ==
  ASSUME HandlesType, OtherOpens \/ OtherCloses
  PROVE  HandlesType'
<1>0. Lowest \in Descriptors \/ Unused = {}
  BY LowestUnused DEF Unused
<1>1. QED
  BY <1>0 DEF HandlesType, Owners, Numbers, OtherOpens, OtherCloses, Opened, Closed,
     OwnedBy, Free, socketVars, memoryVars

LEMMA StepType ==
  ASSUME HandlesType, [Next]_vars
  PROVE  HandlesType'
<1>1. CASE UNCHANGED vars
  BY <1>1 DEF vars, HandlesType, socketVars, memoryVars
<1>2. CASE Next
  BY <1>2, ClientType, MemoryType, OtherType DEF Next
<1>3. QED
  BY <1>1, <1>2

---------------------------------------------------------------------------
(* What opening, closing and doing neither do to what the others own.      *)

LEMMA OwnedOpened ==
  ASSUME HandlesType, Unused # {}, NEW owner \in Owners \ {Free},
         table' = Opened(Lowest, owner)
  PROVE  /\ Lowest \in Descriptors
         /\ OwnedBy(owner)' = OwnedBy(owner) \cup {Lowest}
         /\ \A o \in Owners \ {Free, owner} : OwnedBy(o)' = OwnedBy(o)
BY LowestUnused DEF HandlesType, Opened, OwnedBy, Unused

LEMMA OwnedClosed ==
  ASSUME HandlesType, NEW d \in Numbers, table' = Closed(d)
  PROVE  \A o \in Owners \ {Free} : OwnedBy(o)' = OwnedBy(o) \ {d}
BY DEF HandlesType, Closed, OwnedBy, Numbers

LEMMA OwnedApart ==
  ASSUME NEW d, NEW o, NEW p, d \in OwnedBy(o), d \in OwnedBy(p)
  PROVE  o = p
BY DEF OwnedBy

LEMMA OwnedSame ==
  ASSUME UNCHANGED table
  PROVE  \A o : OwnedBy(o)' = OwnedBy(o)
BY DEF OwnedBy

(* What NumbersOwned says while no connect() has failed. *)
OwnsOut == out.conn \in OwnedBy("out") \cup {None}
OwnsIn == /\ in.server \in OwnedBy("listener") \cup {None}
          /\ in.client \in OwnedBy("accepted") \cup {None}
OwnsEnds == \A e \in Ends : handle[e] \in OwnedBy(e) \cup {None}

LEMMA ClientOwns ==
  ASSUME HandlesType, OwnsOut, OwnsIn, OwnsEnds, ClientHandles, UNCHANGED memoryVars,
         "connect" \notin lapses'
  PROVE  OwnsOut' /\ OwnsIn' /\ OwnsEnds'
<1> USE DEF OwnsOut, OwnsIn, OwnsEnds, Owners, Ends, Free
<1>0. HandlesType' /\ out \in ClientRecords
  BY ClientType DEF HandlesType, ClientRecords
<1>1. CASE ConstructClient \/ SocketFails
  BY <1>0, <1>1, OwnedSame DEF ConstructClient, SocketFails, memoryVars, ClientRecords
<1>2. CASE ConnectToServer
  BY <1>0, <1>2, OwnedOpened DEF ConnectToServer, memoryVars, ClientRecords
<1>3. CASE DestroyClient
  <2>1. \A o \in Owners \ {Free} : OwnedBy(o)' = OwnedBy(o) \ {out.conn}
    BY <1>0, <1>3, OwnedClosed DEF DestroyClient, ClientRecords
  <2>2. \A o \in Owners \ {"out"} : out.conn \notin OwnedBy(o) \/ out.conn = None
    BY OwnedApart
  <2>3. QED
    BY <1>3, <2>1, <2>2 DEF DestroyClient, NoClient, memoryVars
<1>4. QED
  BY <1>1, <1>2, <1>3 DEF ClientHandles, ConnectFails

LEMMA ServerOwns ==
  ASSUME HandlesType, OwnsOut, OwnsIn, OwnsEnds, ServerHandles, UNCHANGED memoryVars
  PROVE  OwnsOut' /\ OwnsIn' /\ OwnsEnds'
<1> USE DEF OwnsOut, OwnsIn, OwnsEnds, Owners, Ends, Free
<1>0. in \in ServerRecords
  BY DEF HandlesType, ServerRecords
<1>1. CASE ConstructServer \/ NoListener
  BY <1>0, <1>1, OwnedSame DEF ConstructServer, NoListener, memoryVars, NoServer, ServerRecords
<1>2. CASE BindFails \/ AcceptFails
  BY <1>0, <1>2, OwnedOpened DEF BindFails, AcceptFails, memoryVars, ServerRecords
<1>3. CASE ConnectToClient
  <2>1. PICK listener \in Unused, client \in Unused :
          /\ listener # client
          /\ table' = [table EXCEPT ![listener] = "listener", ![client] = "accepted"]
          /\ in' = [in EXCEPT !.server = listener, !.client = client, !.ok = TRUE]
    BY <1>3 DEF ConnectToClient
  <2>2. /\ listener \in OwnedBy("listener")' /\ client \in OwnedBy("accepted")'
        /\ \A o \in Owners \ {Free} : OwnedBy(o) \subseteq OwnedBy(o)'
    BY <2>1 DEF HandlesType, OwnedBy, Unused
  <2>3. in'.server = listener /\ in'.client = client
    BY <1>0, <2>1 DEF ServerRecords
  <2>4. out' = out /\ handle' = handle
    BY <1>3 DEF ConnectToClient, memoryVars
  <2>5. QED
    BY <2>2, <2>3, <2>4
<1>4. CASE DestroyServer
  <2>1. in' = NoServer /\ out' = out /\ handle' = handle
    BY <1>4 DEF DestroyServer, memoryVars
  <2>2. \A o \in Owners \ {"listener", "accepted", Free} : OwnedBy(o)' = OwnedBy(o)
    BY <1>4 DEF DestroyServer, HandlesType, OwnedBy, None
  <2>3. QED
    BY <2>1, <2>2 DEF NoServer
<1>5. QED
  BY <1>1, <1>2, <1>3, <1>4 DEF ServerHandles

LEMMA MemoryOwns ==
  ASSUME HandlesType, OwnsOut, OwnsIn, OwnsEnds, MemoryHandles, UNCHANGED socketVars
  PROVE  OwnsOut' /\ OwnsIn' /\ OwnsEnds'
<1> USE DEF OwnsOut, OwnsIn, OwnsEnds, Owners, Ends, Free, socketVars
<1>0. handle \in [Ends -> Numbers]
  BY DEF HandlesType
<1>1. CASE CreateFails \/ OpenFails
  BY <1>0, <1>1, OwnedSame DEF CreateFails, OpenFails
<1>2. ASSUME NEW e \in Ends, Map(e) \/ Unmap(e)
      PROVE  OwnsOut' /\ OwnsIn' /\ OwnsEnds'
  BY <1>2, OwnedSame DEF Map, Unmap
<1>3. CASE Create
  BY <1>0, <1>3, OwnedOpened DEF Create
<1>4. CASE Open
  BY <1>0, <1>4, OwnedOpened DEF Open
<1>5. ASSUME NEW e \in Ends, handle' = [handle EXCEPT ![e] = None],
             table' = Closed(handle[e]) \/ table' = table
      PROVE  OwnsOut' /\ OwnsIn' /\ OwnsEnds'
  <2>1. \A o \in Owners \ {Free} : OwnedBy(o) \ {handle[e]} \subseteq OwnedBy(o)'
    BY <1>0, <1>5, OwnedClosed, OwnedSame
  <2>2. \A o \in Owners \ {e} : handle[e] \notin OwnedBy(o) \/ handle[e] = None
    BY OwnedApart
  <2>3. QED
    BY <1>0, <1>5, <2>1, <2>2
<1>6. CASE Destroy
  BY <1>5, <1>6 DEF Destroy, Reset
<1>7. CASE Close
  BY <1>5, <1>7 DEF Close, Reset
<1>8. CASE ServerRestarts
  <2>1. \A o \in Owners \ {"server", Free} : OwnedBy(o)' = OwnedBy(o)
    BY <1>8 DEF ServerRestarts, HandlesType, OwnedBy
  <2>2. handle' = [handle EXCEPT !["server"] = None]
    BY <1>8 DEF ServerRestarts
  <2>3. QED
    BY <1>0, <2>1, <2>2
<1>9. QED
  BY <1>1, <1>2, <1>3, <1>4, <1>6, <1>7, <1>8 DEF MemoryHandles

LEMMA OtherOwns ==
  ASSUME HandlesType, OwnsOut, OwnsIn, OwnsEnds, OtherOpens \/ OtherCloses
  PROVE  OwnsOut' /\ OwnsIn' /\ OwnsEnds'
<1> USE DEF OwnsOut, OwnsIn, OwnsEnds, Owners, Ends, Free, socketVars, memoryVars
<1>1. CASE OtherOpens
  BY <1>1, OwnedOpened DEF OtherOpens
<1>2. CASE OtherCloses
  <2>1. PICK d \in OwnedBy("other") : table' = Closed(d)
    BY <1>2 DEF OtherCloses
  <2>2. \A o \in Owners \ {Free} : OwnedBy(o)' = OwnedBy(o) \ {d}
    BY <2>1, OwnedClosed DEF OwnedBy, Numbers
  <2>3. \A o \in Owners \ {"other"} : d \notin OwnedBy(o)
    BY OwnedApart
  <2>4. QED
    BY <1>2, <2>2, <2>3 DEF OtherCloses
<1>3. QED
  BY <1>1, <1>2

LEMMA StepOwns ==
  ASSUME HandlesType, NumbersOwned, [Next]_vars
  PROVE  NumbersOwned'
<1>1. NumbersOwned <=> ("connect" \notin lapses => OwnsOut /\ OwnsIn /\ OwnsEnds)
  BY DEF NumbersOwned, OwnsOut, OwnsIn, OwnsEnds
<1>2. NumbersOwned' <=> ("connect" \notin lapses' => (OwnsOut /\ OwnsIn /\ OwnsEnds)')
  BY DEF NumbersOwned, OwnsOut, OwnsIn, OwnsEnds
<1>3. SUFFICES ASSUME "connect" \notin lapses'
               PROVE  (OwnsOut /\ OwnsIn /\ OwnsEnds)'
  BY <1>2
<1>4. OwnsOut /\ OwnsIn /\ OwnsEnds
  BY <1>1, <1>3, LapsesStay
<1>5. CASE UNCHANGED vars
  BY <1>4, <1>5, OwnedSame DEF vars, socketVars, memoryVars, OwnsOut, OwnsIn, OwnsEnds
<1>6. CASE Next
  BY <1>3, <1>4, <1>6, ClientOwns, ServerOwns, MemoryOwns, OtherOwns DEF Next
<1>7. QED
  BY <1>5, <1>6

---------------------------------------------------------------------------
(* What a part owns it knows.                                              *)

(* Only a part's own actions give it a descriptor. *)
LEMMA OthersGiveNone ==
  ASSUME HandlesType, Next
  PROVE  /\ ~ClientHandles => OwnedBy("out")' \subseteq OwnedBy("out")
         /\ ~ServerHandles =>
              /\ OwnedBy("listener")' \subseteq OwnedBy("listener")
              /\ OwnedBy("accepted")' \subseteq OwnedBy("accepted")
         /\ ~MemoryHandles => \A e \in Ends : OwnedBy(e)' \subseteq OwnedBy(e)
<1> USE DEF Owners, Ends, Free
<1>1. CASE ClientHandles
  <2>1. CASE ConnectToServer
    BY <1>1, <2>1, OwnedOpened DEF ConnectToServer
  <2>2. CASE table' = table \/ (out.conn \in Numbers /\ table' = Closed(out.conn))
    BY <1>1, <2>2, OwnedSame, OwnedClosed
  <2>3. QED
    BY <1>1, <2>1, <2>2 DEF ClientHandles, ConstructClient, ConnectFails, SocketFails,
       DestroyClient, HandlesType
<1>2. CASE ServerHandles
  <2>1. CASE BindFails \/ AcceptFails
    BY <1>2, <2>1, OwnedOpened DEF BindFails, AcceptFails
  <2>2. CASE ConstructServer \/ NoListener
    BY <1>2, <2>2, OwnedSame DEF ConstructServer, NoListener
  <2>3. CASE DestroyServer
    BY <2>3 DEF DestroyServer, OwnedBy, HandlesType
  <2>4. CASE ConnectToClient
    BY <1>2, <2>4 DEF ConnectToClient, OwnedBy, HandlesType, Unused
  <2>5. QED
    BY <1>2, <2>1, <2>2, <2>3, <2>4 DEF ServerHandles
<1>3. CASE MemoryHandles
  <2>1. CASE Create \/ Open
    BY <1>3, <2>1, OwnedOpened DEF Create, Open
  <2>2. CASE table' = table \/ \E d \in Numbers : table' = Closed(d)
    BY <1>3, <2>2, OwnedSame, OwnedClosed
  <2>3. CASE ServerRestarts
    BY <2>3 DEF ServerRestarts, OwnedBy, HandlesType
  <2>4. QED
    BY <1>3, <2>1, <2>2, <2>3 DEF MemoryHandles, CreateFails, Destroy, OpenFails, Close,
       Map, Unmap, HandlesType
<1>4. CASE OtherOpens
  BY <1>4, OwnedOpened DEF OtherOpens
<1>5. CASE OtherCloses
  BY <1>5, OwnedClosed DEF OtherCloses, OwnedBy, Numbers
<1>6. QED
  BY <1>1, <1>2, <1>3, <1>4, <1>5 DEF Next

LEMMA ClientStepKnows ==
  ASSUME HandlesType, ClientKnows, ClientHandles
  PROVE  ClientKnows'
<1> USE DEF ClientKnows, Without, Owners, Free
<1>0. out \in ClientRecords
  BY DEF HandlesType, ClientRecords
<1>1. CASE ConstructClient
  BY <1>0, <1>1, OwnedSame DEF ConstructClient, ClientRecords
<1>2. CASE ConnectToServer \/ ConnectFails \/ SocketFails
  <2>1. out'.exists
    BY <1>0, <1>2 DEF ConnectToServer, ConnectFails, SocketFails, ClientRecords
  <2>2. ASSUME lapses' \cap {"again"} = {}
        PROVE  out.conn = None /\ OwnedBy("out") = {}
    <3>1. lapses \cap {"again"} = {} /\ out.conn = None
      BY <1>2, <2>2 DEF ConnectToServer, ConnectFails, SocketFails, Again
    <3>2. QED
      BY <3>1 DEF OwnedBy, None
  <2>3. CASE ConnectToServer
    <3>1. OwnedBy("out")' = OwnedBy("out") \cup {Lowest} /\ out'.conn = Lowest
      BY <1>0, <2>3, OwnedOpened DEF ConnectToServer, ClientRecords
    <3>2. QED
      BY <2>1, <2>2, <3>1
  <2>4. CASE ConnectFails \/ SocketFails
    <3>1. OwnedBy("out")' = OwnedBy("out")
      BY <2>4, OwnedSame DEF ConnectFails, SocketFails
    <3>2. QED
      BY <2>1, <2>2, <3>1
  <2>5. QED
    BY <1>2, <2>3, <2>4
<1>3. CASE DestroyClient
  <2>1. OwnedBy("out")' = OwnedBy("out") \ {out.conn} /\ lapses' = lapses
    BY <1>0, <1>3, OwnedClosed DEF DestroyClient, ClientRecords
  <2>2. out' = NoClient
    BY <1>3 DEF DestroyClient
  <2>3. QED
    BY <2>1, <2>2 DEF NoClient
<1>4. QED
  BY <1>1, <1>2, <1>3 DEF ClientHandles

LEMMA ServerStepKnows ==
  ASSUME HandlesType, ServerKnows, ServerHandles
  PROVE  ServerKnows'
<1> USE DEF ServerKnows, Without, Owners, Free
<1>0. in \in ServerRecords
  BY DEF HandlesType, ServerRecords
<1>1. CASE ConstructServer
  BY <1>0, <1>1, OwnedSame DEF ConstructServer, ServerRecords, NoServer
<1>2. CASE BindFails
  <2>1. in'.exists /\ "bind" \in lapses'
    BY <1>0, <1>2 DEF BindFails, ServerRecords
  <2>2. QED
    BY <2>1
<1>3. CASE NoListener \/ ConnectToClient \/ AcceptFails
  <2>1. in'.exists
    BY <1>0, <1>3 DEF NoListener, ConnectToClient, AcceptFails, ServerRecords
  <2>2. ASSUME lapses' \cap {"again", "bind"} = {}
        PROVE  /\ in.server = None /\ in.client = None
               /\ OwnedBy("listener") = {} /\ OwnedBy("accepted") = {}
    <3>1. lapses \cap {"again", "bind"} = {} /\ in.server = None
      BY <1>3, <2>2 DEF NoListener, ConnectToClient, AcceptFails, Again
    <3>2. QED
      BY <3>1 DEF OwnedBy, None
  <2>3. CASE NoListener
    <3>1. /\ OwnedBy("listener")' = OwnedBy("listener")
          /\ OwnedBy("accepted")' = OwnedBy("accepted")
          /\ in'.server = None /\ in'.client = in.client
      BY <1>0, <2>3, OwnedSame DEF NoListener, ServerRecords
    <3>2. QED
      BY <2>1, <2>2, <3>1
  <2>4. CASE AcceptFails
    <3>1. /\ OwnedBy("listener")' = OwnedBy("listener") \cup {Lowest}
          /\ OwnedBy("accepted")' = OwnedBy("accepted")
          /\ in'.server = Lowest /\ in'.client = None /\ in'.ok
      BY <1>0, <2>4, OwnedOpened DEF AcceptFails, ServerRecords
    <3>2. QED
      BY <2>1, <2>2, <3>1
  <2>5. CASE ConnectToClient
    <3>1. PICK l \in Unused, c \in Unused :
            /\ l # c
            /\ table' = [table EXCEPT ![l] = "listener", ![c] = "accepted"]
            /\ in' = [in EXCEPT !.server = l, !.client = c, !.ok = TRUE]
      BY <2>5 DEF ConnectToClient
    <3>2. /\ OwnedBy("listener")' = OwnedBy("listener") \cup {l}
          /\ OwnedBy("accepted")' = OwnedBy("accepted") \cup {c}
      BY <3>1 DEF OwnedBy, Unused, HandlesType
    <3>3. in'.server = l /\ in'.client = c /\ in'.ok /\ l # None
      BY <1>0, <3>1 DEF ServerRecords, Unused, None
    <3>4. QED
      BY <2>1, <2>2, <3>2, <3>3
  <2>6. QED
    BY <1>3, <2>3, <2>4, <2>5
<1>4. CASE DestroyServer
  <2>1. in' = NoServer /\ lapses' = lapses
    BY <1>4 DEF DestroyServer
  <2>2. ASSUME lapses \cap {"again", "bind"} = {}
        PROVE  OwnedBy("listener")' = {} /\ OwnedBy("accepted")' = {}
    BY <1>4, <2>2 DEF DestroyServer, OwnedBy, None, HandlesType
  <2>3. QED
    BY <2>1, <2>2 DEF NoServer
<1>5. QED
  BY <1>1, <1>2, <1>3, <1>4 DEF ServerHandles
LEMMA EndsStepKnow ==
  ASSUME HandlesType, EndsKnow, MemoryHandles
  PROVE  EndsKnow'
<1> USE DEF EndsKnow, Without, Owners, Free, Ends
<1>0. /\ handle \in [Ends -> Numbers] /\ mapped \in [Ends -> SUBSET Objects]
      /\ buffer \in [Ends -> Objects \cup {NULL, MapFailed}]
  BY DEF HandlesType
<1>1. CASE CreateFails \/ OpenFails
  BY <1>0, <1>1, OwnedSame DEF CreateFails, OpenFails, HandleLost, IsValid, OwnedBy, None
<1>2. ASSUME NEW e \in Ends, Unused # {}, table' = Opened(Lowest, e),
             handle' = [handle EXCEPT ![e] = Lowest],
             lapses' = lapses \cup HandleLost(e), UNCHANGED <<buffer, mapped>>
      PROVE  EndsKnow'
  <2>1. /\ OwnedBy(e)' = OwnedBy(e) \cup {Lowest}
        /\ \A o \in Ends \ {e} : OwnedBy(o)' = OwnedBy(o)
    BY <1>2, OwnedOpened
  <2>2. ASSUME lapses' \cap {"reopened"} = {}
        PROVE  OwnedBy(e) = {}
    BY <1>2, <2>2 DEF HandleLost, IsValid, OwnedBy, None
  <2>3. lapses \subseteq lapses'
    BY <1>2
  <2>4. ASSUME NEW o \in Ends
        PROVE  /\ Without({"reopened"})' => OwnedBy(o)' \subseteq {handle'[o]}
               /\ Without({"mapping"})' => mapped'[o] \subseteq {buffer'[o]}
    BY <1>0, <1>2, <2>1, <2>2, <2>3
  <2>5. QED
    BY <2>4
<1>3. CASE Create
  BY <1>2, <1>3 DEF Create
<1>4. CASE Open
  BY <1>2, <1>4 DEF Open
<1>5. ASSUME NEW e \in Ends, Map(e)
      PROVE  EndsKnow'
  <2>1. /\ \A o : OwnedBy(o)' = OwnedBy(o)
        /\ handle' = handle /\ lapses' = lapses \cup MappingLost(e)
        /\ mapped' = [mapped EXCEPT ![e] = @ \cup ({buffer'[e]} \cap Objects)]
        /\ \E b : buffer' = [buffer EXCEPT ![e] = b]
    BY <1>5, OwnedSame DEF Map
  <2>2. ASSUME lapses' \cap {"mapping"} = {}
        PROVE  mapped[e] = {}
    BY <1>0, <2>1, <2>2 DEF MappingLost
  <2>3. QED
    BY <1>0, <2>1, <2>2
<1>6. ASSUME NEW e \in Ends, Unmap(e)
      PROVE  EndsKnow'
  BY <1>0, <1>6, OwnedSame DEF Unmap
<1>7. ASSUME NEW e \in Ends, Reset(e), mapped' = mapped,
             MappingLost(e) \subseteq lapses', lapses \subseteq lapses',
             \/ table' = Closed(handle[e])
             \/ table' = table /\ HandleLost(e) \subseteq lapses'
      PROVE  EndsKnow'
  <2>1. \A o \in Ends : OwnedBy(o)' \subseteq OwnedBy(o)
    BY <1>0, <1>7, OwnedClosed, OwnedSame
  <2>2. ASSUME lapses' \cap {"reopened"} = {}
        PROVE  OwnedBy(e)' = {}
    <3>1. OwnedBy(e) \subseteq {handle[e]}
      BY <1>7, <2>2
    <3>2. CASE table' = Closed(handle[e])
      BY <1>0, <3>1, <3>2, OwnedClosed
    <3>3. CASE table' = table /\ handle[e] = None
      BY <3>1, <3>3 DEF OwnedBy, None
    <3>4. QED
      BY <1>7, <2>2, <3>2, <3>3 DEF HandleLost, IsValid
  <2>3. ASSUME lapses' \cap {"mapping"} = {}
        PROVE  mapped[e] = {}
    BY <1>0, <1>7, <2>3 DEF MappingLost
  <2>4. QED
    BY <1>0, <1>7, <2>1, <2>2, <2>3 DEF Reset
<1>8. CASE Destroy
  BY <1>7, <1>8 DEF Destroy
<1>9. CASE Close
  BY <1>7, <1>9 DEF Close
<1>10. CASE ServerRestarts
  <2>1. /\ OwnedBy("server")' = {} /\ OwnedBy("client")' = OwnedBy("client")
        /\ lapses' = lapses /\ mapped'["server"] = {}
        /\ mapped'["client"] = mapped["client"] /\ buffer'["client"] = buffer["client"]
        /\ handle'["client"] = handle["client"]
    BY <1>0, <1>10 DEF ServerRestarts, OwnedBy, HandlesType
  <2>2. QED
    BY <2>1
<1>11. QED
  BY <1>1, <1>3, <1>4, <1>5, <1>6, <1>8, <1>9, <1>10 DEF MemoryHandles

LEMMA StepKnows ==
  ASSUME HandlesType, Known, [Next]_vars
  PROVE  Known'
<1> USE DEF Known
<1>1. CASE UNCHANGED vars
  BY <1>1, OwnedSame DEF vars, socketVars, memoryVars, ClientKnows, ServerKnows,
     EndsKnow, Without
<1>2. CASE Next
  <2>1. lapses \subseteq lapses'
    BY LapsesStay
  <2>2. ClientKnows'
    <3>1. CASE ~ClientHandles
      <4>1. out' = out
        BY <1>2, <3>1 DEF Next, ServerHandles, ConstructServer, BindFails, NoListener,
           ConnectToClient, AcceptFails, DestroyServer, OtherOpens, OtherCloses, socketVars
      <4>2. QED
        BY <1>2, <2>1, <3>1, <4>1, OthersGiveNone DEF ClientKnows, Without
    <3>2. QED
      BY <3>1, ClientStepKnows
  <2>3. ServerKnows'
    <3>1. CASE ~ServerHandles
      <4>1. in' = in
        BY <1>2, <3>1 DEF Next, ClientHandles, ConstructClient, ConnectToServer,
           ConnectFails, SocketFails, DestroyClient, OtherOpens, OtherCloses, socketVars
      <4>2. QED
        BY <1>2, <2>1, <3>1, <4>1, OthersGiveNone DEF ServerKnows, Without
    <3>2. QED
      BY <3>1, ServerStepKnows
  <2>4. EndsKnow'
    <3>1. CASE ~MemoryHandles
      <4>1. handle' = handle /\ buffer' = buffer /\ mapped' = mapped
        BY <1>2, <3>1 DEF Next, OtherOpens, OtherCloses, memoryVars
      <4>2. QED
        BY <1>2, <2>1, <3>1, <4>1, OthersGiveNone DEF EndsKnow, Without
    <3>2. QED
      BY <3>1, EndsStepKnow
  <2>5. QED
    BY <2>2, <2>3, <2>4
<1>3. QED
  BY <1>1, <1>2

LEMMA StepNameOpen ==
  ASSUME HandlesType, NameOpen, [Next]_vars
  PROVE  NameOpen'
<1> USE DEF NameOpen, IsValid, HandlesType, Ends
<1>1. CASE UNCHANGED memoryVars
  BY <1>1 DEF memoryVars
<1>2. CASE Create
  BY <1>2 DEF Create, CreateOrFind
<1>3. CASE CreateFails \/ OpenFails
  BY <1>3 DEF CreateFails, OpenFails
<1>4. CASE Destroy
  BY <1>4 DEF Destroy, Reset
<1>5. CASE Open
  BY <1>5 DEF Open
<1>6. CASE Close
  BY <1>6 DEF Close, Reset
<1>7. ASSUME NEW e \in Ends, Map(e) \/ Unmap(e)
      PROVE  NameOpen'
  BY <1>7 DEF Map, Unmap
<1>8. CASE ServerRestarts
  BY <1>8 DEF ServerRestarts
<1>9. QED
  BY <1>1, <1>2, <1>3, <1>4, <1>5, <1>6, <1>7, <1>8
     DEF Next, vars, MemoryHandles, OtherOpens, OtherCloses

---------------------------------------------------------------------------
(* Theorems *)

LEMMA Invariance == Spec => []HandlesInv
<1>1. HandlesInv /\ [Next]_vars => HandlesInv'
  BY StepType, StepOwns, StepKnows, StepNameOpen DEF HandlesInv
<1>2. QED
  BY <1>1, InitHandles, PTL DEF Spec

(* For any number of descriptors and any lapses but a failed connect(), a  *)
(* connection and an end of the memory never hold the number of somebody   *)
(* else's descriptor (socketOutConnection.cpp:46, socketInConnection.cpp:30 *)
(* and 34, shared_memory.c:35 and 59).                                     *)
THEOREM NoStrangersNumber == Spec => []NumbersOwned
BY Invariance, PTL DEF HandlesInv

(* Whatever is destroyed or closed has given back every descriptor and     *)
(* mapping, unless one of the lapses named in NothingLeft has happened.    *)
THEOREM NoneLeaked == Spec => []NothingLeft
<1>1. HandlesInv => NothingLeft
  <2> USE DEF HandlesInv, Known
  <2>1. ASSUME HandlesInv, ~out.exists, Without({"again"})
        PROVE  OwnedBy("out") = {}
    BY <2>1 DEF ClientKnows, OwnedBy, None
  <2>2. ASSUME HandlesInv, ~in.exists, Without({"again", "bind"})
        PROVE  OwnedBy("listener") \cup OwnedBy("accepted") = {}
    BY <2>2 DEF ServerKnows, OwnedBy, None
  <2>3. ASSUME HandlesInv, NEW e \in Ends, ~IsValid(e), Without({"reopened"})
        PROVE  OwnedBy(e) = {}
    BY <2>3 DEF EndsKnow, IsValid, OwnedBy, None
  <2>4. ASSUME HandlesInv, NEW e \in Ends, buffer[e] \notin Objects, Without({"mapping"})
        PROVE  mapped[e] = {}
    BY <2>4 DEF EndsKnow, HandlesType
  <2>5. QED
    BY <2>1, <2>2, <2>3, <2>4 DEF NothingLeft
<1>2. QED
  BY <1>1, Invariance, PTL

(* A client that has the memory open and a server that has created or      *)
(* found it have the same object open, through any number of the server's  *)
(* restarts (shared_memory.c:35, 46 and 59).                               *)
THEOREM OneMemory == Spec => []SameMemory
<1>1. HandlesInv => SameMemory
  BY DEF HandlesInv, NameOpen, SameMemory
<1>2. QED
  BY <1>1, Invariance, PTL

=============================================================================
