-------------------------- MODULE ConnectionManager --------------------------
(***************************************************************************)
(* The WebSocket hub, backend/app/services/ws_manager.py, with the         *)
(* endpoint handlers that register and remove sockets                      *)
(* (api/v1/realtime.py) and the generator that broadcasts through it.      *)
(*                                                                         *)
(* All of it shares one event loop.  The hub's lock is never contended, as *)
(* no body of it awaits; what interleaves are the awaits on the sockets:   *)
(* accept, the personal sends, receive, and the sends of a broadcast, one  *)
(* after the other over a snapshot of the registered sockets.              *)
(***************************************************************************)
EXTENDS Integers, Sequences

CONSTANTS
    Clients,   \* WebSocket objects, one per connection attempt
    MaxBatch   \* bound: batches broadcast in a behaviour

ASSUME MaxBatchAssumption == MaxBatch \in Nat

VARIABLES
    sock,      \* the connection as the network has it: "open" or "closed"
    handler,   \* where realtime_websocket() is suspended, per client
    active,    \* manager.active: the registered sockets
    batch,     \* number of batches generated
    targets,   \* sockets of the snapshot the broadcast has still to serve
    stale,     \* local "stale" of broadcast()
    joined,    \* history: the value of batch when the client registered
    received   \* history: the batches that reached the client, in order

vars == <<sock, handler, active, batch, targets, stale, joined, received>>

Init ==
    /\ sock = [c \in Clients |-> "open"]
    /\ handler = [c \in Clients |-> "auth"]
    /\ active = {}
    /\ batch = 0
    /\ targets = {}
    /\ stale = {}
    /\ joined = [c \in Clients |-> 0]
    /\ received = [c \in Clients |-> <<>>]

Goto(c, h) == handler' = [handler EXCEPT ![c] = h]
-------------------------------------------------------------------------------
(* realtime_websocket(c). *)

(* get_ws_user() refuses the token: it closes the socket, and the handler  *)
(* returns without registering it.                                         *)
Refuse(c) ==
    /\ handler[c] = "auth"
    /\ Goto(c, "done")
    /\ sock' = [sock EXCEPT ![c] = "closed"]
    /\ UNCHANGED <<active, batch, targets, stale, joined, received>>

(* get_ws_user() returns a user: the handler goes on to await accept(). *)
Authenticate(c) ==
    /\ handler[c] = "auth"
    /\ Goto(c, "accept")
    /\ UNCHANGED <<sock, active, batch, targets, stale, joined, received>>

(* connect(): accept() returned.  The socket is registered even if the     *)
(* peer is gone by now, and the welcome message is handed to the socket.   *)
Connect(c) ==
    /\ handler[c] = "accept"
    /\ Goto(c, "send")
    /\ active' = active \cup {c}
    /\ joined' = [joined EXCEPT ![c] = batch]
    /\ UNCHANGED <<sock, batch, targets, stale, received>>

(* accept() raises because the peer is gone; the exception leaves the      *)
(* handler before anything was registered.                                 *)
AcceptRaises(c) ==
    /\ handler[c] = "accept"
    /\ sock[c] = "closed"
    /\ Goto(c, "done")
    /\ UNCHANGED <<sock, active, batch, targets, stale, joined, received>>

(* send_personal() of the welcome or a pong returns.  It swallows the      *)
(* failure of a send but removes the socket.                               *)
SendPersonal(c) ==
    /\ handler[c] = "send"
    /\ Goto(c, "receive")
    /\ \/ active' = active
       \/ sock[c] = "closed" /\ active' = active \ {c}
    /\ UNCHANGED <<sock, batch, targets, stale, joined, received>>

(* receive_text() returns a "ping", which is answered. *)
ReceivePing(c) ==
    /\ handler[c] = "receive"
    /\ sock[c] = "open"
    /\ Goto(c, "send")
    /\ UNCHANGED <<sock, active, batch, targets, stale, joined, received>>

(* Mutant of Disconnect: the handler returns without unregistering. *)
DisconnectForgets(c) ==
    /\ handler[c] = "receive"
    /\ sock[c] = "closed"
    /\ Goto(c, "done")
    /\ UNCHANGED <<sock, active, batch, targets, stale, joined, received>>

(* receive_text() raises because the peer is gone: disconnect(). *)
Disconnect(c) ==
    /\ handler[c] = "receive"
    /\ sock[c] = "closed"
    /\ Goto(c, "done")
    /\ active' = active \ {c}
    /\ UNCHANGED <<sock, batch, targets, stale, joined, received>>

(* receive_text() raises although the peer is there, say for a frame that  *)
(* is not text: disconnect() as well, and the server closes the socket     *)
(* when the handler has returned.                                          *)
ReceiveRaises(c) ==
    /\ handler[c] = "receive"
    /\ sock[c] = "open"
    /\ Goto(c, "done")
    /\ active' = active \ {c}
    /\ sock' = [sock EXCEPT ![c] = "closed"]
    /\ UNCHANGED <<batch, targets, stale, joined, received>>
-------------------------------------------------------------------------------
(* The network: the peer leaves, or the server's keepalive gives it up. *)
CloseSocket(c) ==
    /\ sock[c] = "open"
    /\ handler[c] # "done"
    /\ sock' = [sock EXCEPT ![c] = "closed"]
    /\ UNCHANGED <<handler, active, batch, targets, stale, joined, received>>
-------------------------------------------------------------------------------
(* broadcast(), called by the generator for each batch. *)

(* The snapshot of the registered sockets; without any the call returns at *)
(* once.  The generator has one broadcast under way at most.               *)
Broadcast ==
    /\ targets = {}
    /\ batch < MaxBatch
    /\ batch' = batch + 1
    /\ targets' = active
    /\ UNCHANGED <<sock, handler, active, stale, joined, received>>

(* Mutant of NextTarget: the first failure ends the loop. *)
NextTargetStops(c, failed) ==
    /\ targets' = IF failed = {} THEN targets \ {c} ELSE {}
    /\ active' = active \ failed
    /\ UNCHANGED stale

(* Mutant of NextTarget: a dead socket is served until it answers. *)
NextTargetInsists(c, failed) ==
    /\ targets' = IF sock[c] = "open" THEN targets \ {c} ELSE targets
    /\ UNCHANGED <<active, stale>>

(* The loop goes on to the next target; after the last one it removes the  *)
(* stale sockets.                                                          *)
NextTarget(c, failed) ==
    /\ targets' = targets \ {c}
    /\ IF targets = {c}
       THEN /\ active' = active \ (stale \cup failed)
            /\ stale' = {}
       ELSE /\ active' = active
            /\ stale' = stale \cup failed

(* A send completes; a socket whose peer is gone may swallow it. *)
SendBatch(c) ==
    /\ c \in targets
    /\ received' = IF sock[c] = "open"
                   THEN [received EXCEPT ![c] = Append(@, batch)]
                   ELSE received
    /\ NextTarget(c, {})
    /\ UNCHANGED <<sock, handler, batch, joined>>

(* A send raises, and the socket is noted as stale. *)
SendBatchRaises(c) ==
    /\ c \in targets
    /\ sock[c] = "closed"
    /\ NextTarget(c, {c})
    /\ UNCHANGED <<sock, handler, batch, joined, received>>
-------------------------------------------------------------------------------
Next ==
    \/ Broadcast
    \/ \E c \in Clients :
          \/ Refuse(c) \/ Authenticate(c) \/ Connect(c) \/ AcceptRaises(c)
          \/ SendPersonal(c) \/ ReceivePing(c) \/ Disconnect(c) \/ ReceiveRaises(c)
          \/ CloseSocket(c)
          \/ SendBatch(c) \/ SendBatchRaises(c)

(* A pending await on a socket ends: the data is taken, or the keepalive   *)
(* of the server closes the socket and the send or the receive raises.     *)
(* Nobody has to connect, to ping or to leave.                             *)
Fairness ==
    \A c \in Clients :
        /\ WF_vars(Connect(c) \/ AcceptRaises(c))
        /\ WF_vars(SendPersonal(c))
        /\ WF_vars(Disconnect(c))
        /\ WF_vars(SendBatch(c) \/ SendBatchRaises(c))

Spec     == Init /\ [][Next]_vars
FairSpec == Spec /\ Fairness
-------------------------------------------------------------------------------
(* The values the variables take. *)
TypeOK ==
    /\ sock \in [Clients -> {"open", "closed"}]
    /\ handler \in [Clients -> {"auth", "accept", "send", "receive", "done"}]
    /\ active \subseteq Clients
    /\ batch \in Nat
    /\ targets \subseteq Clients
    /\ stale \subseteq Clients
    /\ joined \in [Clients -> Nat]
    /\ received \in [Clients -> Seq(Nat)]

(* A registered socket has a handler that will remove it: nothing is left  *)
(* in manager.active (and in active_connections of the status endpoint)    *)
(* for good, however failures of the welcome, of a pong and of a broadcast *)
(* interleave with the end of the handler.                                 *)
RegisteredHasHandler ==
    \A c \in active : handler[c] \in {"send", "receive"}

(* Refinement: the clients whose connection is up and whose handler has    *)
(* registered them are the readers of BatchLog.  Each gets every batch     *)
(* generated since it registered, in order and once, whoever fails, leaves *)
(* or registers during a broadcast, and the next batch waits for the last. *)
Listening == {c \in Clients : sock[c] = "open" /\ handler[c] \in {"send", "receive"}}

Log == INSTANCE BatchLog WITH
           Clients <- Clients,
           count <- batch,
           from  <- [c \in Listening |-> joined[c]],
           got   <- [c \in Listening |-> received[c]]

ImplementsBatchLog == Log!Spec

(* A connection that is gone disappears from manager.active, even while a  *)
(* broadcast is under way.                                                 *)
ClosedIsRemoved ==
    \A c \in Clients : sock[c] = "closed" ~> c \notin active

(* Each batch reaches every client of its snapshot that stays connected:   *)
(* a dead client in front of it delays it, but not for ever.               *)
BatchReachesClients ==
    \A c \in Clients : c \in targets ~> c \notin targets
===============================================================================
