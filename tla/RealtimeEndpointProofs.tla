------------------------ MODULE RealtimeEndpointProofs ------------------------
(***************************************************************************)
(* Proofs about the WebSocket endpoint and its two parts, for any number   *)
(* of clients, requests and batches and a pool of any size: the hub's      *)
(* invariants and its refinement of BatchLog, the pool's invariants, and   *)
(* that the endpoint, which implements both, joins them.                   *)
(***************************************************************************)
EXTENDS RealtimeEndpoint, FiniteSetTheorems, TLAPS

(* A handler is over only when its connection is. *)
DoneIsClosed == \A c \in Clients : handler[c] = "done" => sock[c] = "closed"

(* A broadcast serves clients that registered once, and takes for stale    *)
(* only connections that are gone.                                         *)
BroadcastSound ==
    /\ \A c \in targets : handler[c] \in {"send", "receive", "done"}
    /\ \A c \in stale : sock[c] = "closed"

(* A live client is never removed, whoever fails beside it. *)
ListeningIsActive == Listening \subseteq active

(* What a client got: everything since it registered, but for the batch    *)
(* that is still on its way to it.                                         *)
UpToDate ==
    /\ \A c \in Clients : handler[c] \in {"auth", "accept"} => received[c] = <<>>
    /\ \A c \in Listening :
          joined[c] + Len(received[c]) = IF c \in targets THEN batch - 1 ELSE batch

HubSound ==
    /\ TypeOK
    /\ RegisteredHasHandler
    /\ DoneIsClosed
    /\ BroadcastSound
    /\ ListeningIsActive
    /\ UpToDate
-------------------------------------------------------------------------------
(* The inductive invariant. *)

LEMMA HubInit == Init => HubSound
BY DEF Init, HubSound, TypeOK, RegisteredHasHandler, DoneIsClosed, BroadcastSound,
       ListeningIsActive, UpToDate, Listening

(* A handler goes on, with nothing for the broadcast to notice. *)
LEMMA HandlerMoves ==
    ASSUME HubSound, NEW c \in Clients, NEW h \in {"accept", "send", "receive", "done"},
           Goto(c, h), UNCHANGED <<batch, targets, stale, joined, received>>,
           sock' \in [Clients -> {"open", "closed"}],
           \A d \in Clients : d # c => sock'[d] = sock[d],
           sock[c] = "closed" => sock'[c] = "closed",
           active' \subseteq active,
           \A d \in active : d # c => d \in active',
           h \in {"send", "receive"} =>
               handler[c] \in {"send", "receive"} /\ (sock'[c] = "open" => c \in active'),
           h = "accept" => handler[c] = "auth",
           h = "done" => sock'[c] = "closed" /\ c \notin active'
    PROVE  HubSound'
<1> USE DEF HubSound
<1>1. /\ handler' \in [Clients -> {"auth", "accept", "send", "receive", "done"}]
      /\ handler'[c] = h
      /\ \A d \in Clients : d # c => handler'[d] = handler[d]
  BY DEF Goto, TypeOK
<1>2. TypeOK'
  BY <1>1 DEF TypeOK
<1>3. RegisteredHasHandler'
  BY <1>1, <1>2 DEF RegisteredHasHandler, TypeOK
<1>4. DoneIsClosed'
  BY <1>1 DEF DoneIsClosed
<1>5. BroadcastSound'
  BY <1>1, <1>2 DEF BroadcastSound, TypeOK
<1>6. Listening' \subseteq Listening
  BY <1>1, <1>2 DEF Listening, TypeOK
<1>7. ListeningIsActive'
  BY <1>1, <1>6 DEF ListeningIsActive, Listening
<1>8. UpToDate'
  BY <1>1, <1>6 DEF UpToDate, TypeOK
<1>9. QED  BY <1>2, <1>3, <1>4, <1>5, <1>7, <1>8

LEMMA ConnectSound ==
    ASSUME HubSound, NEW c \in Clients, Connect(c)
    PROVE  HubSound'
<1> USE DEF HubSound
<1>1. /\ handler' \in [Clients -> {"auth", "accept", "send", "receive", "done"}]
      /\ handler'[c] = "send"
      /\ \A d \in Clients : d # c => handler'[d] = handler[d]
  BY DEF Connect, Goto, TypeOK
<1>2. /\ joined' \in [Clients -> Nat]
      /\ joined'[c] = batch
      /\ \A d \in Clients : d # c => joined'[d] = joined[d]
  BY DEF Connect, TypeOK
<1>3. /\ handler[c] = "accept" /\ active' = active \cup {c}
      /\ UNCHANGED <<sock, batch, targets, stale, received>>
  BY DEF Connect
<1>4. TypeOK'
  BY <1>1, <1>2, <1>3 DEF TypeOK
<1>5. RegisteredHasHandler'
  BY <1>1, <1>3 DEF RegisteredHasHandler, TypeOK
<1>6. DoneIsClosed' /\ BroadcastSound'
  BY <1>1, <1>3 DEF DoneIsClosed, BroadcastSound, TypeOK
<1>7. Listening' \subseteq Listening \cup {c}
  BY <1>1, <1>3 DEF Listening
<1>8. ListeningIsActive'
  BY <1>3, <1>7 DEF ListeningIsActive
<1>9. UpToDate'
  <2>1. received[c] = <<>> /\ c \notin targets
    BY <1>3 DEF UpToDate, BroadcastSound
  <2>2. joined'[c] + Len(received'[c]) = batch'
    BY <1>2, <1>3, <2>1 DEF TypeOK
  <2>3. \A d \in Listening' : d # c =>
            joined'[d] + Len(received'[d]) = IF d \in targets' THEN batch' - 1 ELSE batch'
    BY <1>2, <1>3, <1>7 DEF UpToDate, Listening
  <2>4. QED  BY <1>1, <1>3, <2>1, <2>2, <2>3 DEF UpToDate
<1>10. QED  BY <1>4, <1>5, <1>6, <1>8, <1>9

LEMMA CloseSocketSound ==
    ASSUME HubSound, NEW c \in Clients, CloseSocket(c)
    PROVE  HubSound'
<1> USE DEF HubSound
<1>1. /\ sock' \in [Clients -> {"open", "closed"}]
      /\ sock'[c] = "closed"
      /\ \A d \in Clients : d # c => sock'[d] = sock[d]
      /\ UNCHANGED <<handler, active, batch, targets, stale, joined, received>>
  BY DEF CloseSocket, TypeOK
<1>2. TypeOK'
  BY <1>1 DEF TypeOK
<1>3. RegisteredHasHandler' /\ DoneIsClosed' /\ BroadcastSound'
  BY <1>1 DEF RegisteredHasHandler, DoneIsClosed, BroadcastSound, TypeOK
<1>4. Listening' \subseteq Listening
  BY <1>1 DEF Listening
<1>5. ListeningIsActive' /\ UpToDate'
  BY <1>1, <1>4 DEF ListeningIsActive, UpToDate
<1>6. QED  BY <1>2, <1>3, <1>5

LEMMA BroadcastStarts ==
    ASSUME HubSound, Broadcast
    PROVE  HubSound'
<1> USE DEF HubSound
<1>1. /\ targets = {} /\ targets' = active /\ batch' = batch + 1
      /\ UNCHANGED <<sock, handler, active, stale, joined, received>>
  BY DEF Broadcast
<1>2. TypeOK'
  BY <1>1 DEF TypeOK
<1>3. RegisteredHasHandler' /\ DoneIsClosed' /\ BroadcastSound' /\ ListeningIsActive'
  BY <1>1 DEF RegisteredHasHandler, DoneIsClosed, BroadcastSound, ListeningIsActive, Listening
<1>4. UpToDate'
  BY <1>1 DEF UpToDate, Listening, ListeningIsActive, TypeOK
<1>5. QED  BY <1>2, <1>3, <1>4

(* What the broadcast removes is gone already. *)
LEMMA NextTargetRemoves ==
    ASSUME HubSound, NEW c \in targets, NEW failed, failed \in {{}, {c}},
           failed # {} => sock[c] = "closed", NextTarget(c, failed)
    PROVE  /\ targets' = targets \ {c}
           /\ active' \subseteq active /\ stale' \subseteq Clients
           /\ \A d \in Listening : d \in active'
           /\ \A d \in stale' : sock[d] = "closed"
<1>1. stale \cup failed \subseteq Clients /\ \A d \in stale \cup failed : sock[d] = "closed"
  BY DEF HubSound, TypeOK, BroadcastSound
<1>2. Listening \subseteq active /\ \A d \in Listening : sock[d] # "closed"
  BY DEF HubSound, ListeningIsActive, Listening
<1>3. CASE targets = {c}
  BY <1>1, <1>2, <1>3 DEF NextTarget
<1>4. CASE targets # {c}
  BY <1>1, <1>2, <1>4 DEF NextTarget
<1>5. QED  BY <1>3, <1>4

LEMMA SendSound ==
    ASSUME HubSound, NEW c \in Clients, SendBatch(c) \/ SendBatchRaises(c)
    PROVE  HubSound'
<1> USE DEF HubSound
<1>1. c \in targets /\ UNCHANGED <<sock, handler, batch, joined>>
  BY DEF SendBatch, SendBatchRaises
<1>2. /\ targets' = targets \ {c}
      /\ active' \subseteq active /\ stale' \subseteq Clients
      /\ \A d \in Listening : d \in active'
      /\ \A d \in stale' : sock[d] = "closed"
  BY <1>1, NextTargetRemoves DEF SendBatch, SendBatchRaises
<1>3. /\ received' \in [Clients -> Seq(Nat)]
      /\ \A d \in Clients : d # c \/ sock[c] # "open" => received'[d] = received[d]
      /\ sock[c] = "open" => received'[c] = Append(received[c], batch)
  <2>1. CASE SendBatch(c) /\ sock[c] = "open"
    <3>1. Append(received[c], batch) \in Seq(Nat)
      BY DEF TypeOK
    <3>2. received' = [received EXCEPT ![c] = Append(received[c], batch)]
      BY <2>1 DEF SendBatch
    <3>3. QED  BY <2>1, <3>1, <3>2 DEF TypeOK
  <2>2. CASE received' = received /\ sock[c] # "open"
    BY <2>2 DEF TypeOK
  <2>3. QED  BY <2>1, <2>2 DEF SendBatch, SendBatchRaises
<1>4. TypeOK'
  BY <1>1, <1>2, <1>3 DEF TypeOK
<1>5. RegisteredHasHandler' /\ DoneIsClosed' /\ BroadcastSound'
  BY <1>1, <1>2 DEF RegisteredHasHandler, DoneIsClosed, BroadcastSound
<1>6. Listening' = Listening /\ ListeningIsActive'
  BY <1>1, <1>2 DEF Listening, ListeningIsActive
<1>7. UpToDate'
  <2>1. \A d \in Clients : handler'[d] \in {"auth", "accept"} => received'[d] = <<>>
    BY <1>1, <1>3 DEF UpToDate, BroadcastSound
  <2>2. \A d \in Listening : d # c =>
            joined'[d] + Len(received'[d]) = IF d \in targets' THEN batch' - 1 ELSE batch'
    BY <1>1, <1>2, <1>3 DEF UpToDate, Listening
  <2>3. c \in Listening => joined'[c] + Len(received'[c]) = batch'
    <3>1. SUFFICES ASSUME c \in Listening PROVE joined'[c] + Len(received'[c]) = batch'
      OBVIOUS
    <3>2. Len(received'[c]) = Len(received[c]) + 1 /\ Len(received[c]) \in Nat
      BY <1>3, <3>1 DEF Listening, TypeOK
    <3>3. joined[c] + Len(received[c]) = batch - 1
      BY <1>1, <3>1 DEF UpToDate
    <3>4. QED  BY <1>1, <3>2, <3>3 DEF TypeOK
  <2>4. QED  BY <1>2, <1>6, <2>1, <2>2, <2>3 DEF UpToDate
<1>8. QED  BY <1>4, <1>5, <1>6, <1>7

LEMMA HubStep == HubSound /\ [Next]_vars => HubSound'
<1> SUFFICES ASSUME HubSound, [Next]_vars PROVE HubSound'
  OBVIOUS
<1>a. /\ TypeOK /\ DoneIsClosed /\ ListeningIsActive
      /\ \A c \in active : handler[c] \in {"send", "receive"}
  BY DEF HubSound, RegisteredHasHandler
<1>1. ASSUME NEW c \in Clients, Refuse(c)
      PROVE  HubSound'
  BY <1>1, <1>a, HandlerMoves DEF Refuse, TypeOK
<1>2. ASSUME NEW c \in Clients, Authenticate(c)
      PROVE  HubSound'
  BY <1>2, <1>a, HandlerMoves DEF Authenticate, TypeOK
<1>3. ASSUME NEW c \in Clients, AcceptRaises(c)
      PROVE  HubSound'
  BY <1>3, <1>a, HandlerMoves DEF AcceptRaises, TypeOK
<1>4. ASSUME NEW c \in Clients, SendPersonal(c)
      PROVE  HubSound'
  BY <1>4, <1>a, HandlerMoves DEF SendPersonal, TypeOK, ListeningIsActive, Listening
<1>5. ASSUME NEW c \in Clients, ReceivePing(c)
      PROVE  HubSound'
  BY <1>5, <1>a, HandlerMoves DEF ReceivePing, TypeOK, ListeningIsActive, Listening
<1>6. ASSUME NEW c \in Clients, Disconnect(c)
      PROVE  HubSound'
  BY <1>6, <1>a, HandlerMoves DEF Disconnect, TypeOK
<1>7. ASSUME NEW c \in Clients, ReceiveRaises(c)
      PROVE  HubSound'
  BY <1>7, <1>a, HandlerMoves DEF ReceiveRaises, TypeOK
<1>8. CASE UNCHANGED vars
  BY <1>8 DEF vars, HubSound, TypeOK, RegisteredHasHandler, DoneIsClosed, BroadcastSound,
              ListeningIsActive, UpToDate, Listening
<1>9. QED
  BY <1>1, <1>2, <1>3, <1>4, <1>5, <1>6, <1>7, <1>8, ConnectSound, CloseSocketSound,
     BroadcastStarts, SendSound DEF Next

(* The hub, its handlers and a broadcast under way agree at every moment   *)
(* of ws_manager.py and realtime.py.                                       *)
THEOREM HubInvariant == Spec => []HubSound
<1>1. QED  BY HubInit, HubStep, PTL DEF Spec

(* The state of the hub always has its types. *)
THEOREM HubTypeCorrect == Spec => []TypeOK
<1>1. HubSound => TypeOK
  BY DEF HubSound
<1>2. QED  BY <1>1, HubInvariant, PTL

(* Every socket in manager.active has a handler that is still going to     *)
(* remove it.                                                              *)
THEOREM Registered == Spec => []RegisteredHasHandler
<1>1. HubSound => RegisteredHasHandler
  BY DEF HubSound
<1>2. QED  BY <1>1, HubInvariant, PTL
-------------------------------------------------------------------------------
(* The refinement of BatchLog, whose readers are the clients that listen.  *)

LEMMA ReadersListen == Log!Readers = Listening /\ Listening \subseteq Clients
BY DEF Log!Readers, Listening

LEMMA LogInit == Init => Log!Init
BY DEF Init, Listening, Log!Init

(* The client c, and nobody else, begins or ends to listen or neither. *)
LEMMA HandlerStutters ==
    ASSUME Listening' = Listening, UNCHANGED <<batch, joined, received>>
    PROVE  UNCHANGED Log!vars
BY DEF Log!vars

(* A registered client is a new reader, with nothing to catch up on. *)
LEMMA ConnectJoins ==
    ASSUME HubSound, NEW c \in Clients, Connect(c)
    PROVE  [Log!Next]_(Log!vars)
<1>1. /\ handler[c] = "accept" /\ handler'[c] = "send"
      /\ \A d \in Clients : d # c => handler'[d] = handler[d] /\ joined'[d] = joined[d]
      /\ joined'[c] = batch /\ received[c] = <<>>
      /\ UNCHANGED <<sock, batch, received>>
  BY DEF Connect, Goto, HubSound, TypeOK, UpToDate
<1>2. CASE sock[c] = "open"
  <2>1. Listening' = Listening \cup {c} /\ c \notin Listening
    BY <1>1, <1>2 DEF Listening
  <2>2. [r \in Listening' |-> joined'[r]] =
          [r \in Listening \cup {c} |->
              IF r = c THEN batch ELSE [x \in Listening |-> joined[x]][r]]
    BY <1>1, <2>1 DEF Listening
  <2>3. [r \in Listening' |-> received'[r]] =
          [r \in Listening \cup {c} |->
              IF r = c THEN <<>> ELSE [x \in Listening |-> received[x]][r]]
    BY <1>1, <2>1
  <2>4. Log!Join(c)
    BY <1>1, <2>1, <2>2, <2>3, ReadersListen DEF Log!Join
  <2>5. QED  BY <2>4 DEF Log!Next
<1>3. CASE sock[c] # "open"
  <2>1. Listening' = Listening /\ c \notin Listening
    BY <1>1, <1>3 DEF Listening
  <2>2. [r \in Listening' |-> joined'[r]] = [r \in Listening |-> joined[r]]
    BY <1>1, <2>1 DEF Listening
  <2>3. UNCHANGED Log!vars
    BY <1>1, <2>1, <2>2 DEF Log!vars
  <2>4. QED  BY <2>3
<1>4. QED  BY <1>2, <1>3

(* A client that listened no longer does, with its handler or without. *)
LEMMA CloseLeaves ==
    ASSUME HubSound, NEW c \in Clients, CloseSocket(c) \/ ReceiveRaises(c)
    PROVE  [Log!Next]_(Log!vars)
<1>1. /\ sock'[c] = "closed"
      /\ \A d \in Clients : d # c => sock'[d] = sock[d] /\ handler'[d] = handler[d]
      /\ UNCHANGED <<batch, joined, received>>
  BY DEF CloseSocket, ReceiveRaises, Goto, HubSound, TypeOK
<1>2. Listening' = Listening \ {c}
  BY <1>1 DEF Listening
<1>3. CASE c \in Listening
  <2>1. [r \in Listening' |-> joined'[r]] =
            [r \in Listening \ {c} |-> [x \in Listening |-> joined[x]][r]]
    BY <1>1, <1>2
  <2>2. [r \in Listening' |-> received'[r]] =
            [r \in Listening \ {c} |-> [x \in Listening |-> received[x]][r]]
    BY <1>1, <1>2
  <2>3. Log!Leave(c)
    BY <1>1, <1>2, <1>3, <2>1, <2>2, ReadersListen DEF Log!Leave
  <2>4. QED  BY <2>3 DEF Log!Next
<1>4. CASE c \notin Listening
  BY <1>1, <1>2, <1>4, HandlerStutters
<1>5. QED  BY <1>3, <1>4

(* A batch is generated when every reader has all the ones before. *)
LEMMA BroadcastPublishes ==
    ASSUME HubSound, Broadcast
    PROVE  [Log!Next]_(Log!vars)
<1>1. /\ targets = {} /\ batch' = batch + 1
      /\ UNCHANGED <<sock, handler, joined, received>>
  BY DEF Broadcast
<1>2. Listening' = Listening
  BY <1>1 DEF Listening
<1>3. \A c \in Listening : ~Log!Lags(c)
  <2>1. SUFFICES ASSUME NEW c \in Listening PROVE ~Log!Lags(c)
    OBVIOUS
  <2>2. joined[c] + Len(received[c]) = batch /\ batch \in Nat
    BY <1>1 DEF HubSound, TypeOK, UpToDate
  <2>3. QED  BY <2>2 DEF Log!Lags
<1>4. Log!Publish
  BY <1>1, <1>2, <1>3, ReadersListen DEF Log!Publish
<1>5. QED  BY <1>4 DEF Log!Next

(* A send that gets through brings the one batch its client lacked. *)
LEMMA SendDelivers ==
    ASSUME HubSound, NEW c \in Clients, SendBatch(c) \/ SendBatchRaises(c)
    PROVE  [Log!Next]_(Log!vars)
<1>1. c \in targets /\ UNCHANGED <<sock, handler, batch, joined>>
  BY DEF SendBatch, SendBatchRaises
<1>2. Listening' = Listening
  BY <1>1 DEF Listening
<1>3. CASE received' = received
  BY <1>1, <1>2, <1>3, HandlerStutters
<1>4. CASE sock[c] = "open" /\ received' = [received EXCEPT ![c] = Append(received[c], batch)]
  <2>1. c \in Listening
    BY <1>1, <1>4 DEF HubSound, TypeOK, DoneIsClosed, BroadcastSound, Listening
  <2>2. /\ joined[c] + Len(received[c]) = batch - 1
        /\ joined[c] \in Nat /\ Len(received[c]) \in Nat /\ batch \in Nat
    BY <1>1, <2>1 DEF HubSound, TypeOK, UpToDate
  <2>3. Log!Lags(c)
    BY <2>1, <2>2 DEF Log!Lags
  <2> DEFINE from == [x \in Listening |-> joined[x]]
             got  == [x \in Listening |-> received[x]]
  <2>4. batch = from[c] + Len(got[c]) + 1
    BY <2>1, <2>2
  <2>5. [x \in Listening' |-> received'[x]] = [got EXCEPT ![c] = Append(received[c], batch)]
    BY <1>2, <1>4, <2>1 DEF HubSound, TypeOK, Listening
  <2>6. [x \in Listening' |-> received'[x]] =
            [got EXCEPT ![c] = Append(@, from[c] + Len(@) + 1)]
    BY <2>1, <2>4, <2>5
  <2>7. [x \in Listening' |-> joined'[x]] = from
    BY <1>1, <1>2
  <2>8. Log!Deliver(c)
    BY <1>1, <2>1, <2>3, <2>6, <2>7, ReadersListen DEF Log!Deliver
  <2>9. QED  BY <2>8 DEF Log!Next
<1>5. QED  BY <1>3, <1>4 DEF SendBatch, SendBatchRaises

LEMMA LogStep == HubSound /\ [Next]_vars => [Log!Next]_(Log!vars)
<1> SUFFICES ASSUME HubSound, [Next]_vars PROVE [Log!Next]_(Log!vars)
  OBVIOUS
<1>1. ASSUME NEW c \in Clients,
             \/ Refuse(c) \/ Authenticate(c) \/ AcceptRaises(c)
             \/ SendPersonal(c) \/ ReceivePing(c) \/ Disconnect(c)
      PROVE  Listening' = Listening /\ UNCHANGED <<batch, joined, received>>
  BY <1>1 DEF Refuse, Authenticate, AcceptRaises, SendPersonal, ReceivePing, Disconnect,
              Goto, Listening, HubSound, TypeOK
<1>2. CASE UNCHANGED vars
  BY <1>2, HandlerStutters DEF vars, Listening
<1>3. QED
  BY <1>1, <1>2, HandlerStutters, ConnectJoins, CloseLeaves, BroadcastPublishes,
     SendDelivers DEF Next

(* ws_manager.py with its handlers implements the log of batches: who      *)
(* listens gets every batch since it registered, in order and once.        *)
THEOREM Implements == Spec => ImplementsBatchLog
<1>1. QED  BY LogInit, LogStep, HubInvariant, PTL DEF Spec, ImplementsBatchLog, Log!Spec
-------------------------------------------------------------------------------
(* The pool. *)

Steps == {"idle", "connect", "work", "action_log", "action_logging", "return",
          "request_log", "request_logging", "subscribed", "writing"}

(* The steps during which a session may hold a connection. *)
Open    == {"work", "action_log", "action_logging", "return", "subscribed", "writing"}
Logging == {"action_logging", "request_logging"}

(* The pool's count is the number of the connections held. *)
Counted ==
    /\ IsFiniteSet(main) /\ IsFiniteSet(log)
    /\ checked_out = Cardinality(main) + Cardinality(log)

(* Who holds a connection can be told from where they are: a log session   *)
(* has one exactly while it writes, the other sessions only while they are *)
(* open.                                                                   *)
HeldInStep ==
    /\ \A x \in Pool!Users : x \in main => step[x] \in Open
    /\ \A r \in Requests : r \in log <=> step[r] \in Logging

PoolSound ==
    /\ Pool!TypeOK
    /\ Counted
    /\ HeldInStep
-------------------------------------------------------------------------------
(* What the operations of the pool do to its count. *)

(* Cardinality has one meaning, in the pool and here. *)
LEMMA OneCardinality == \A S : Pool!Cardinality(S) = Cardinality(S)
BY DEF Pool!Cardinality, Cardinality

LEMMA UserTypes ==
    /\ Requests \subseteq Pool!Users /\ Clients \subseteq Pool!Users /\ "flush" \in Pool!Users
    /\ \A w \in Clients : w \notin Requests
    /\ "flush" \notin Requests
BY EndpointAssumption DEF Pool!Users

LEMMA TakenForMain ==
    ASSUME PoolSound, NEW x \in Pool!Users, x \notin main, Pool!Take,
           main' = main \cup {x}, log' = log
    PROVE  Counted' /\ checked_out' \in 0 .. Capacity
<1>1. /\ IsFiniteSet(main') /\ IsFiniteSet(log')
      /\ Cardinality(main') = Cardinality(main) + 1
      /\ Cardinality(main) \in Nat /\ Cardinality(log) \in Nat
  BY FS_AddElement, FS_CardinalityType DEF PoolSound, Counted
<1>2. checked_out' = checked_out + 1 /\ checked_out < Capacity
  BY DEF Pool!Take, Pool!Free
<1>3. QED
  BY <1>1, <1>2, EndpointAssumption DEF PoolSound, Counted, Pool!TypeOK

LEMMA TakenForLog ==
    ASSUME PoolSound, NEW r \in Requests, r \notin log, Pool!Take,
           log' = log \cup {r}, main' = main
    PROVE  Counted' /\ checked_out' \in 0 .. Capacity
<1>1. /\ IsFiniteSet(main') /\ IsFiniteSet(log')
      /\ Cardinality(log') = Cardinality(log) + 1
      /\ Cardinality(main) \in Nat /\ Cardinality(log) \in Nat
  BY FS_AddElement, FS_CardinalityType DEF PoolSound, Counted
<1>2. checked_out' = checked_out + 1 /\ checked_out < Capacity
  BY DEF Pool!Take, Pool!Free
<1>3. QED
  BY <1>1, <1>2, EndpointAssumption DEF PoolSound, Counted, Pool!TypeOK

LEMMA GivenBackByMain ==
    ASSUME PoolSound, NEW x \in Pool!Users, Pool!CloseMain(x), log' = log
    PROVE  Counted' /\ checked_out' \in 0 .. Capacity
<1>1. /\ IsFiniteSet(main') /\ IsFiniteSet(log')
      /\ Cardinality(main') = IF x \in main THEN Cardinality(main) - 1
                                            ELSE Cardinality(main)
      /\ Cardinality(main') \in Nat
      /\ Cardinality(main) \in Nat /\ Cardinality(log) \in Nat
  BY FS_RemoveElement, FS_CardinalityType DEF PoolSound, Counted, Pool!CloseMain
<1>2. QED
  BY <1>1, EndpointAssumption DEF PoolSound, Counted, Pool!TypeOK, Pool!CloseMain

LEMMA GivenBackByLog ==
    ASSUME PoolSound, NEW r \in log, log' = log \ {r},
           checked_out' = checked_out - 1, main' = main
    PROVE  Counted' /\ checked_out' \in 0 .. Capacity
<1>1. /\ IsFiniteSet(main') /\ IsFiniteSet(log')
      /\ Cardinality(log') = Cardinality(log) - 1
      /\ Cardinality(log') \in Nat
      /\ Cardinality(main) \in Nat /\ Cardinality(log) \in Nat
  BY FS_RemoveElement, FS_CardinalityType DEF PoolSound, Counted
<1>2. QED
  BY <1>1, EndpointAssumption DEF PoolSound, Counted, Pool!TypeOK

LEMMA NothingTaken ==
    ASSUME PoolSound, UNCHANGED <<main, log, checked_out>>
    PROVE  Counted' /\ checked_out' \in 0 .. Capacity
BY DEF PoolSound, Counted, Pool!TypeOK

(* A step moves one user, and changes only what this user holds. *)
LEMMA OneUserMoves ==
    ASSUME PoolSound, NEW x \in Pool!Users, NEW s \in Steps, Pool!Goto(x, s),
           Counted' /\ checked_out' \in 0 .. Capacity,
           main' \subseteq Pool!Users, log' \subseteq Requests,
           \A y \in Pool!Users \ {x} : (y \in main' <=> y \in main) /\ (y \in log' <=> y \in log),
           x \in main' => s \in Open,
           x \in Requests => (x \in log' <=> s \in Logging),
           answer' \in [Requests -> {"none", "ok", "error"}]
    PROVE  PoolSound'
<1>1. /\ step' \in [Pool!Users -> Steps]
      /\ step'[x] = s
      /\ \A y \in Pool!Users \ {x} : step'[y] = step[y]
  BY DEF PoolSound, Pool!TypeOK, Pool!Goto, Steps
<1>2. Pool!TypeOK'
  BY <1>1 DEF Pool!TypeOK, Steps
<1>3. HeldInStep'
  BY <1>1, UserTypes DEF PoolSound, HeldInStep
<1>4. QED  BY <1>2, <1>3 DEF PoolSound
-------------------------------------------------------------------------------
LEMMA PoolInit == Pool!Init => PoolSound
<1> SUFFICES ASSUME Pool!Init PROVE PoolSound
  OBVIOUS
<1>1. Pool!TypeOK
  BY EndpointAssumption DEF Pool!Init, Pool!TypeOK
<1>2. Counted
  BY FS_EmptySet DEF Pool!Init, Counted
<1>3. HeldInStep
  BY UserTypes DEF Pool!Init, HeldInStep, Logging
<1>4. QED  BY <1>1, <1>2, <1>3 DEF PoolSound

LEMMA RequestKeeps ==
    ASSUME PoolSound, NEW r \in Requests,
           \/ Pool!Arrive(r) \/ Pool!Connect(r) \/ Pool!ConnectTimesOut(r) \/ Pool!WorkFails(r)
           \/ Pool!Commit(r) \/ Pool!WorkDone(r) \/ Pool!LogConnects(r) \/ Pool!LogEnds(r)
           \/ Pool!LogTimesOut(r) \/ Pool!Return(r)
    PROVE  PoolSound'
<1> USE DEF Steps, Open, Logging
<1>a. r \in Pool!Users /\ main \subseteq Pool!Users /\ log \subseteq Requests
      /\ answer \in [Requests -> {"none", "ok", "error"}]
  BY UserTypes DEF PoolSound, Pool!TypeOK
<1>b. (r \in main => step[r] \in Open) /\ (r \in log <=> step[r] \in Logging)
  BY <1>a DEF PoolSound, HeldInStep
<1>1. CASE Pool!Arrive(r)
  <2>1. Counted' /\ checked_out' \in 0 .. Capacity
    BY <1>1, NothingTaken DEF Pool!Arrive
  <2>2. QED  BY <1>1, <1>a, <1>b, <2>1, OneUserMoves DEF Pool!Arrive
<1>2. CASE Pool!Connect(r)
  <2>1. Counted' /\ checked_out' \in 0 .. Capacity
    BY <1>2, <1>a, <1>b, TakenForMain DEF Pool!Connect
  <2>2. QED  BY <1>2, <1>a, <1>b, <2>1, OneUserMoves DEF Pool!Connect
<1>3. CASE Pool!ConnectTimesOut(r)
  <2>1. Counted' /\ checked_out' \in 0 .. Capacity
    BY <1>3, NothingTaken DEF Pool!ConnectTimesOut, Pool!TimesOut
  <2>2. QED  BY <1>3, <1>a, <1>b, <2>1, OneUserMoves DEF Pool!ConnectTimesOut
<1>4. CASE Pool!WorkFails(r)
  <2>1. Counted' /\ checked_out' \in 0 .. Capacity
    BY <1>4, <1>a, GivenBackByMain DEF Pool!WorkFails
  <2>2. QED  BY <1>4, <1>a, <1>b, <2>1, OneUserMoves DEF Pool!WorkFails, Pool!CloseMain
<1>5. CASE Pool!Commit(r)
  <2>1. Counted' /\ checked_out' \in 0 .. Capacity
    BY <1>5, <1>a, GivenBackByMain DEF Pool!Commit
  <2>2. QED  BY <1>5, <1>a, <1>b, <2>1, OneUserMoves DEF Pool!Commit, Pool!CloseMain
<1>6. CASE Pool!WorkDone(r)
  <2>1. Counted' /\ checked_out' \in 0 .. Capacity
    BY <1>6, NothingTaken DEF Pool!WorkDone
  <2>2. QED  BY <1>6, <1>a, <1>b, <2>1, OneUserMoves DEF Pool!WorkDone
<1>7. CASE Pool!LogConnects(r)
  <2>1. Counted' /\ checked_out' \in 0 .. Capacity
    BY <1>7, <1>b, TakenForLog DEF Pool!LogConnects
  <2>2. QED  BY <1>7, <1>a, <1>b, <2>1, OneUserMoves DEF Pool!LogConnects
<1>8. CASE Pool!LogEnds(r)
  <2>1. Counted' /\ checked_out' \in 0 .. Capacity
    BY <1>8, <1>b, GivenBackByLog DEF Pool!LogEnds
  <2>2. QED  BY <1>8, <1>a, <1>b, <2>1, OneUserMoves DEF Pool!LogEnds
<1>9. CASE Pool!LogTimesOut(r)
  <2>1. Counted' /\ checked_out' \in 0 .. Capacity
    BY <1>9, NothingTaken DEF Pool!LogTimesOut, Pool!TimesOut
  <2>2. QED  BY <1>9, <1>a, <1>b, <2>1, OneUserMoves DEF Pool!LogTimesOut
<1>10. CASE Pool!Return(r)
  <2>1. Counted' /\ checked_out' \in 0 .. Capacity
    BY <1>10, <1>a, GivenBackByMain DEF Pool!Return
  <2>2. QED  BY <1>10, <1>a, <1>b, <2>1, OneUserMoves DEF Pool!Return, Pool!CloseMain
<1>11. QED
  BY <1>1, <1>2, <1>3, <1>4, <1>5, <1>6, <1>7, <1>8, <1>9, <1>10

LEMMA SocketKeeps ==
    ASSUME PoolSound, NEW w \in Clients,
           \/ Pool!SocketArrives(w) \/ Pool!SocketConnects(w)
           \/ Pool!SocketTimesOut(w) \/ Pool!SocketLeaves(w)
    PROVE  PoolSound'
<1> USE DEF Steps, Open, Logging
<1>a. w \in Pool!Users /\ w \notin Requests /\ main \subseteq Pool!Users /\ log \subseteq Requests
      /\ answer \in [Requests -> {"none", "ok", "error"}]
  BY UserTypes DEF PoolSound, Pool!TypeOK
<1>b. w \in main => step[w] \in Open
  BY <1>a DEF PoolSound, HeldInStep
<1>1. CASE Pool!SocketArrives(w)
  <2>1. Counted' /\ checked_out' \in 0 .. Capacity
    BY <1>1, NothingTaken DEF Pool!SocketArrives
  <2>2. QED  BY <1>1, <1>a, <1>b, <2>1, OneUserMoves DEF Pool!SocketArrives
<1>2. CASE Pool!SocketConnects(w)
  <2>1. Counted' /\ checked_out' \in 0 .. Capacity
    BY <1>2, <1>a, <1>b, TakenForMain DEF Pool!SocketConnects
  <2>2. QED  BY <1>2, <1>a, <1>b, <2>1, OneUserMoves DEF Pool!SocketConnects
<1>3. CASE Pool!SocketTimesOut(w)
  <2>1. Counted' /\ checked_out' \in 0 .. Capacity
    BY <1>3, NothingTaken DEF Pool!SocketTimesOut, Pool!TimesOut
  <2>2. QED  BY <1>3, <1>a, <1>b, <2>1, OneUserMoves DEF Pool!SocketTimesOut
<1>4. CASE Pool!SocketLeaves(w)
  <2>1. Counted' /\ checked_out' \in 0 .. Capacity
    BY <1>4, <1>a, GivenBackByMain DEF Pool!SocketLeaves
  <2>2. QED  BY <1>4, <1>a, <1>b, <2>1, OneUserMoves DEF Pool!SocketLeaves, Pool!CloseMain
<1>5. QED  BY <1>1, <1>2, <1>3, <1>4

LEMMA FlushKeeps ==
    ASSUME PoolSound, Pool!FlushStarts \/ Pool!FlushConnects \/ Pool!FlushTimesOut \/ Pool!FlushEnds
    PROVE  PoolSound'
<1> USE DEF Steps, Open, Logging
<1>a. "flush" \in Pool!Users /\ "flush" \notin Requests /\ main \subseteq Pool!Users
      /\ log \subseteq Requests /\ answer \in [Requests -> {"none", "ok", "error"}]
  BY UserTypes DEF PoolSound, Pool!TypeOK
<1>b. "flush" \in main => step["flush"] \in Open
  BY <1>a DEF PoolSound, HeldInStep
<1>1. CASE Pool!FlushStarts
  <2>1. Counted' /\ checked_out' \in 0 .. Capacity
    BY <1>1, NothingTaken DEF Pool!FlushStarts
  <2>2. QED  BY <1>1, <1>a, <1>b, <2>1, OneUserMoves DEF Pool!FlushStarts
<1>2. CASE Pool!FlushConnects
  <2>1. Counted' /\ checked_out' \in 0 .. Capacity
    BY <1>2, <1>a, <1>b, TakenForMain DEF Pool!FlushConnects
  <2>2. QED  BY <1>2, <1>a, <1>b, <2>1, OneUserMoves DEF Pool!FlushConnects
<1>3. CASE Pool!FlushTimesOut
  <2>1. Counted' /\ checked_out' \in 0 .. Capacity
    BY <1>3, NothingTaken DEF Pool!FlushTimesOut, Pool!TimesOut
  <2>2. QED  BY <1>3, <1>a, <1>b, <2>1, OneUserMoves DEF Pool!FlushTimesOut
<1>4. CASE Pool!FlushEnds
  <2>1. Counted' /\ checked_out' \in 0 .. Capacity
    BY <1>4, <1>a, GivenBackByMain DEF Pool!FlushEnds
  <2>2. QED  BY <1>4, <1>a, <1>b, <2>1, OneUserMoves DEF Pool!FlushEnds, Pool!CloseMain
<1>5. QED  BY <1>1, <1>2, <1>3, <1>4

LEMMA PoolStep == PoolSound /\ [Pool!Next]_(Pool!vars) => PoolSound'
<1> SUFFICES ASSUME PoolSound, [Pool!Next]_(Pool!vars) PROVE PoolSound'
  OBVIOUS
<1>1. CASE UNCHANGED Pool!vars
  BY <1>1 DEF Pool!vars, PoolSound, Pool!TypeOK, Counted, HeldInStep
<1>2. QED  BY <1>1, RequestKeeps, SocketKeeps, FlushKeeps
     DEF Pool!Next, Pool!RequestNext, Pool!SocketNext, Pool!FlushNext

(* Who holds the connections of the pool that db/session.py makes, at any  *)
(* moment.                                                                 *)
THEOREM PoolInvariant == Pool!Spec => []PoolSound
<1>1. QED  BY PoolInit, PoolStep, PTL DEF Pool!Spec

(* Every session and the pool's count always have their types: the count   *)
(* stays between 0 and pool_size + max_overflow.                           *)
THEOREM PoolTypeCorrect == Pool!Spec => []Pool!TypeOK
<1>1. PoolSound => Pool!TypeOK
  BY DEF PoolSound
<1>2. QED  BY <1>1, PoolInvariant, PTL

(* No path of get_db(), write_log(), get_ws_user() or flush() keeps a      *)
(* connection or gives one back twice.                                     *)
THEOREM PoolLeaksNothing == Pool!Spec => []Pool!NoConnectionLeaks
<1>1. PoolSound => Pool!NoConnectionLeaks
  BY UserTypes, OneCardinality
     DEF PoolSound, Pool!TypeOK, Counted, HeldInStep, Open, Logging, Pool!NoConnectionLeaks
<1>2. QED  BY <1>1, PoolInvariant, PTL

(* A request holds two connections at most, one of them only while it      *)
(* writes a log entry, and all users together never more than the pool     *)
(* has.                                                                    *)
THEOREM WithinCapacity ==
    Pool!Spec => [](/\ Cardinality(main) + Cardinality(log) <= Capacity
               /\ \A r \in Requests : r \in main /\ r \in log => step[r] = "action_logging")
<1>1. PoolSound => /\ Cardinality(main) + Cardinality(log) <= Capacity
                   /\ \A r \in Requests : r \in main /\ r \in log => step[r] = "action_logging"
  BY UserTypes, EndpointAssumption
     DEF PoolSound, Pool!TypeOK, Counted, HeldInStep, Open, Logging
<1>2. QED  BY <1>1, PoolInvariant, PTL
-------------------------------------------------------------------------------
(* The endpoint. *)

(* Where the dependencies of a socket are tells whether it holds a         *)
(* connection, and its handler runs on one.                                *)
Coupled ==
    \A c \in Clients :
        /\ step[c] \in {"idle", "connect", "subscribed"}
        /\ c \in main <=> step[c] = "subscribed"
        /\ handler[c] \in {"accept", "send", "receive"} => step[c] = "subscribed"

EndpointSound ==
    /\ HubSound
    /\ PoolSound
    /\ Coupled

(* Each step of the endpoint is a step of the hub, or none of its business. *)
LEMMA EndpointMovesHub == [EndpointNext]_endpointVars => [Next]_vars
<1> SUFFICES ASSUME [EndpointNext]_endpointVars PROVE [Next]_vars
  OBVIOUS
<1>1. ASSUME NEW c \in Clients,
             \/ RefuseUnread(c) \/ ReadToken(c) \/ ReadAccount(c) \/ ResolveTimesOut(c)
             \/ Admit(c) \/ RefuseRead(c) \/ SessionEnds(c)
      PROVE  [Next]_vars
  BY <1>1 DEF RefuseUnread, ReadToken, ReadAccount, ResolveTimesOut, Admit, RefuseRead,
              SessionEnds, Next
<1>2. CASE Serve
  BY <1>2 DEF Serve, Next
<1>3. CASE Elsewhere \/ UNCHANGED endpointVars
  BY <1>3 DEF Elsewhere, endpointVars
<1>4. QED  BY <1>1, <1>2, <1>3 DEF EndpointNext

(* And of the pool. *)
LEMMA EndpointMovesPool == [EndpointNext]_endpointVars => [Pool!Next]_(Pool!vars)
<1> SUFFICES ASSUME [EndpointNext]_endpointVars PROVE [Pool!Next]_(Pool!vars)
  OBVIOUS
<1>1. UNCHANGED poolVars => UNCHANGED Pool!vars
  BY DEF poolVars, Pool!vars
<1>2. ASSUME NEW c \in Clients,
             \/ RefuseUnread(c) \/ ReadToken(c) \/ ReadAccount(c) \/ ResolveTimesOut(c)
             \/ Admit(c) \/ RefuseRead(c) \/ SessionEnds(c)
      PROVE  [Pool!Next]_(Pool!vars)
  BY <1>1, <1>2 DEF RefuseUnread, ReadToken, ReadAccount, ResolveTimesOut, Admit, RefuseRead,
                    SessionEnds, Pool!Next, Pool!SocketNext
<1>3. CASE Serve \/ UNCHANGED endpointVars
  BY <1>1, <1>3 DEF Serve, endpointVars
<1>4. CASE Elsewhere
  BY <1>4 DEF Elsewhere, Pool!Next
<1>5. QED  BY <1>2, <1>3, <1>4 DEF EndpointNext

(* No request and no flush moves a socket. *)
LEMMA OthersLeaveSockets ==
    ASSUME PoolSound, NEW x \in Requests \cup {"flush"}, NEW s, Pool!Goto(x, s)
    PROVE  \A c \in Clients : step'[c] = step[c]
BY EndpointAssumption, UserTypes DEF PoolSound, Pool!TypeOK, Pool!Goto

LEMMA RequestLeavesSockets ==
    ASSUME PoolSound, NEW r \in Requests, Pool!RequestNext(r)
    PROVE  \A c \in Clients : step'[c] = step[c] /\ (c \in main' <=> c \in main)
<1>1. \A c \in Clients : c # r
  BY EndpointAssumption
<1>2. \E s : Pool!Goto(r, s)
  BY DEF Pool!RequestNext, Pool!Arrive, Pool!Connect, Pool!ConnectTimesOut, Pool!WorkFails,
         Pool!Commit, Pool!WorkDone, Pool!LogConnects, Pool!LogEnds, Pool!LogTimesOut,
         Pool!Return
<1>3. main' = main \/ main' = main \cup {r} \/ main' = main \ {r}
  BY DEF Pool!RequestNext, Pool!Arrive, Pool!Connect, Pool!ConnectTimesOut, Pool!WorkFails,
         Pool!Commit, Pool!WorkDone, Pool!LogConnects, Pool!LogEnds, Pool!LogTimesOut,
         Pool!Return, Pool!CloseMain
<1>4. QED  BY <1>1, <1>2, <1>3, OthersLeaveSockets

LEMMA FlushLeavesSockets ==
    ASSUME PoolSound, Pool!FlushNext
    PROVE  \A c \in Clients : step'[c] = step[c] /\ (c \in main' <=> c \in main)
<1>1. \A c \in Clients : c # "flush"
  BY EndpointAssumption
<1>2. \E s : Pool!Goto("flush", s)
  BY DEF Pool!FlushNext, Pool!FlushStarts, Pool!FlushConnects, Pool!FlushTimesOut, Pool!FlushEnds
<1>3. main' = main \/ main' = main \cup {"flush"} \/ main' = main \ {"flush"}
  BY DEF Pool!FlushNext, Pool!FlushStarts, Pool!FlushConnects, Pool!FlushTimesOut,
         Pool!FlushEnds, Pool!CloseMain
<1>4. QED  BY <1>1, <1>2, <1>3, OthersLeaveSockets

(* A step of the dependencies of one socket. *)
LEMMA SocketCoupled ==
    ASSUME EndpointSound, NEW c \in Clients,
           \/ RefuseUnread(c) \/ ReadToken(c) \/ ReadAccount(c) \/ ResolveTimesOut(c)
           \/ Admit(c) \/ RefuseRead(c) \/ SessionEnds(c)
    PROVE  Coupled'
<1>1. /\ handler \in [Clients -> {"auth", "accept", "send", "receive", "done"}]
      /\ step \in [Pool!Users -> Steps] /\ Clients \subseteq Pool!Users /\ Coupled
  BY UserTypes DEF EndpointSound, HubSound, TypeOK, PoolSound, Pool!TypeOK, Steps
<1>2. CASE RefuseUnread(c) \/ Admit(c) \/ RefuseRead(c)
  <2>1. step' = step /\ main' = main
    BY <1>2 DEF RefuseUnread, Admit, RefuseRead, poolVars
  <2>2. \A d \in Clients : d # c => handler'[d] = handler[d]
    BY <1>1, <1>2 DEF RefuseUnread, Admit, RefuseRead, Refuse, Authenticate, Goto
  <2>3. handler'[c] = "done" \/ step[c] = "subscribed"
    BY <1>1, <1>2 DEF RefuseUnread, Admit, RefuseRead, Refuse, Goto
  <2>4. QED  BY <1>1, <2>1, <2>2, <2>3 DEF Coupled
<1>3. CASE ReadToken(c) \/ ReadAccount(c) \/ SessionEnds(c)
  <2>1. handler' = handler /\ handler[c] \in {"auth", "done"}
    BY <1>3 DEF ReadToken, ReadAccount, SessionEnds, vars
  <2>2. \A d \in Clients : d # c => step'[d] = step[d] /\ (d \in main' <=> d \in main)
    BY <1>1, <1>3 DEF ReadToken, ReadAccount, SessionEnds, Pool!SocketArrives,
                      Pool!SocketConnects, Pool!SocketLeaves, Pool!CloseMain, Pool!Goto
  <2>3. /\ step'[c] \in {"idle", "connect", "subscribed"}
        /\ c \in main' <=> step'[c] = "subscribed"
    BY <1>1, <1>3 DEF Coupled, ReadToken, ReadAccount, SessionEnds, Pool!SocketArrives,
                      Pool!SocketConnects, Pool!SocketLeaves, Pool!CloseMain, Pool!Goto
  <2>4. QED  BY <1>1, <2>1, <2>2, <2>3 DEF Coupled
<1>4. CASE ResolveTimesOut(c)
  <2>1. /\ handler'[c] = "done" /\ step[c] = "connect" /\ step'[c] = "idle" /\ main' = main
        /\ \A d \in Clients : d # c => handler'[d] = handler[d] /\ step'[d] = step[d]
    BY <1>1, <1>4 DEF ResolveTimesOut, Pool!SocketTimesOut, Pool!Goto, Refuse, Goto
  <2>2. QED  BY <1>1, <2>1 DEF Coupled
<1>5. QED  BY <1>2, <1>3, <1>4

(* A step of the handlers: none begins to be served without a connection. *)
LEMMA ServeCoupled ==
    ASSUME EndpointSound, Serve
    PROVE  Coupled'
<1>1. step' = step /\ main' = main
  BY DEF Serve, poolVars
<1>2. \A d \in Clients : handler'[d] \in {"accept", "send", "receive"} =>
          handler[d] \in {"accept", "send", "receive"}
  <2>1. handler \in [Clients -> {"auth", "accept", "send", "receive", "done"}]
    BY DEF EndpointSound, HubSound, TypeOK
  <2>2. ASSUME NEW c \in Clients,
               \/ Connect(c) \/ AcceptRaises(c) \/ SendPersonal(c) \/ ReceivePing(c)
               \/ Disconnect(c) \/ ReceiveRaises(c)
        PROVE  /\ \A d \in Clients : d # c => handler'[d] = handler[d]
               /\ handler[c] \in {"accept", "send", "receive"}
    BY <2>1, <2>2 DEF Connect, AcceptRaises, SendPersonal, ReceivePing, Disconnect,
                      ReceiveRaises, Goto
  <2>3. ASSUME NEW c \in Clients,
               Broadcast \/ CloseSocket(c) \/ SendBatch(c) \/ SendBatchRaises(c)
        PROVE  handler' = handler
    BY <2>3 DEF Broadcast, CloseSocket, SendBatch, SendBatchRaises
  <2>4. CASE Broadcast
    BY <2>4 DEF Broadcast
  <2>5. QED  BY <2>2, <2>3, <2>4 DEF Serve
<1>3. QED  BY <1>1, <1>2 DEF EndpointSound, Coupled

LEMMA EndpointBegins == EndpointInit => EndpointSound
<1> SUFFICES ASSUME EndpointInit PROVE EndpointSound
  OBVIOUS
<1>1. Coupled
  BY UserTypes DEF EndpointInit, Init, Pool!Init, Coupled
<1>2. QED  BY <1>1, HubInit, PoolInit DEF EndpointInit, EndpointSound

LEMMA EndpointStep == EndpointSound /\ [EndpointNext]_endpointVars => EndpointSound'
<1> SUFFICES ASSUME EndpointSound, [EndpointNext]_endpointVars PROVE EndpointSound'
  OBVIOUS
<1>1. HubSound' /\ PoolSound'
  BY EndpointMovesHub, HubStep, EndpointMovesPool, PoolStep DEF EndpointSound
<1>2. CASE Elsewhere
  <2>1. handler' = handler
    BY <1>2 DEF Elsewhere, vars
  <2>2. \A c \in Clients : step'[c] = step[c] /\ (c \in main' <=> c \in main)
    BY <1>2, RequestLeavesSockets, FlushLeavesSockets DEF Elsewhere, EndpointSound
  <2>3. Coupled'
    BY <2>1, <2>2 DEF EndpointSound, Coupled
  <2>4. QED  BY <1>1, <2>3 DEF EndpointSound
<1>3. CASE UNCHANGED endpointVars
  BY <1>1, <1>3 DEF endpointVars, vars, poolVars, EndpointSound, Coupled
<1>4. CASE Serve
  BY <1>1, <1>4, ServeCoupled DEF EndpointSound
<1>5. ASSUME NEW c \in Clients,
             \/ RefuseUnread(c) \/ ReadToken(c) \/ ReadAccount(c) \/ ResolveTimesOut(c)
             \/ Admit(c) \/ RefuseRead(c) \/ SessionEnds(c)
      PROVE  EndpointSound'
  BY <1>1, <1>5, SocketCoupled DEF EndpointSound
<1>6. QED  BY <1>2, <1>3, <1>4, <1>5 DEF EndpointNext

(* The endpoint implements the hub: what is proved of the hub alone holds  *)
(* of it behind get_ws_user() and get_db().                                *)
THEOREM ImplementsHub == EndpointSpec => Spec
<1>1. QED  BY EndpointMovesHub, PTL DEF EndpointSpec, EndpointInit, Spec

(* The endpoint implements the pool: its sockets are the pool's sockets,   *)
(* which never leave at another moment than at the end of their handler.   *)
THEOREM ImplementsPool == EndpointSpec => Pool!Spec
<1>1. QED  BY EndpointMovesPool, PTL DEF EndpointSpec, EndpointInit, Pool!Spec

(* Handlers, registrations and connections agree at every moment of the    *)
(* endpoint, whatever requests and the flush do beside it.                 *)
THEOREM EndpointInvariant == EndpointSpec => []EndpointSound
<1>1. QED  BY EndpointBegins, EndpointStep, PTL DEF EndpointSpec

(* No path of get_db(), write_log(), get_ws_user() or flush() keeps a      *)
(* connection or gives one back twice, with sockets whose sessions end     *)
(* when their handlers do.                                                 *)
THEOREM NothingLeaks == EndpointSpec => []NoConnectionLeaks
<1>1. Pool!NoConnectionLeaks => NoConnectionLeaks
  BY DEF NoConnectionLeaks
<1>2. QED  BY <1>1, ImplementsPool, PoolLeaksNothing, PTL

(* Behind authentication and session the hub delivers as it does alone.    *)
COROLLARY EndpointDelivers == EndpointSpec => ImplementsBatchLog /\ []RegisteredHasHandler
<1>1. QED  BY ImplementsHub, Implements, Registered, PTL

(* A served socket holds a connection of its own from its admission to the *)
(* end of its handler, and the audience of a broadcast, the requests and   *)
(* the flush together hold no more than DB_POOL_SIZE + DB_MAX_OVERFLOW.    *)
THEOREM AudienceBounded == EndpointSpec => []AudienceWithinPool
<1>1. ASSUME EndpointSound PROVE AudienceWithinPool
  <2>1. active \cup Listening \subseteq main \cap Clients
    BY <1>1 DEF EndpointSound, HubSound, TypeOK, RegisteredHasHandler, Listening, Coupled
  <2>2. /\ IsFiniteSet(main) /\ checked_out = Cardinality(main) + Cardinality(log)
        /\ checked_out <= Capacity /\ checked_out \in Nat
        /\ Cardinality(log) \in Nat /\ Cardinality(main) \in Nat
    BY <1>1, FS_CardinalityType, EndpointAssumption
       DEF EndpointSound, PoolSound, Counted, Pool!TypeOK
  <2>3. IsFiniteSet(main \cap Clients) /\ IsFiniteSet(main \ Clients)
    BY <2>2, FS_Subset
  <2>4. Cardinality(main) = Cardinality(main \cap Clients) + Cardinality(main \ Clients)
    <3>1. Cardinality(main \ Clients) = Cardinality(main) - Cardinality(main \cap Clients)
      BY <2>2, FS_Difference
    <3>2. Cardinality(main \ Clients) \in Nat /\ Cardinality(main \cap Clients) \in Nat
      BY <2>3, FS_CardinalityType
    <3>3. QED  BY <2>2, <3>1, <3>2
  <2>5. /\ Cardinality(active \cup Listening) <= Cardinality(main \cap Clients)
        /\ IsFiniteSet(active \cup Listening)
    BY <2>1, <2>3, FS_Subset
  <2>6. /\ Cardinality(active \cup Listening) \in Nat
        /\ Cardinality(main \cap Clients) \in Nat /\ Cardinality(main \ Clients) \in Nat
    BY <2>3, <2>5, FS_CardinalityType
  <2>7. Cardinality(active \cup Listening) + Cardinality(main \ Clients) + Cardinality(log)
            <= Capacity
    BY <2>2, <2>4, <2>5, <2>6, EndpointAssumption
  <2>8. \A c \in Clients : handler[c] \in {"accept", "send", "receive"} => c \in main
    BY <1>1 DEF EndpointSound, Coupled
  <2>9. QED  BY <2>7, <2>8 DEF AudienceWithinPool
<1>2. QED  BY <1>1, EndpointInvariant, PTL
===============================================================================
