--------------------------- MODULE RealtimeEndpoint ---------------------------
(***************************************************************************)
(* The WebSocket endpoint as a whole: realtime_websocket() of              *)
(* api/v1/realtime.py with the dependencies it is given, get_ws_user() of  *)
(* api/deps.py and the session of get_db() of db/session.py.               *)
(*                                                                         *)
(* It composes the hub, ConnectionManager, and the pool, ConnectionPool,   *)
(* whose sockets are the clients of the hub.  The dependencies are         *)
(* resolved before the handler runs, and the session is closed after it    *)
(* has returned: between the two the socket keeps its database connection. *)
(***************************************************************************)
EXTENDS ConnectionManager, FiniteSets

CONSTANTS
    Requests,  \* HTTP requests that may be under way at once
    Capacity   \* DB_POOL_SIZE + DB_MAX_OVERFLOW

ASSUME EndpointAssumption ==
    /\ Capacity \in Nat \ {0}
    /\ "flush" \notin Requests \cup Clients
    /\ Requests \cap Clients = {}

VARIABLES step, main, log, checked_out, answer   \* see ConnectionPool

Pool == INSTANCE ConnectionPool WITH Sockets <- Clients

poolVars     == <<step, main, log, checked_out, answer>>
endpointVars == <<vars, poolVars>>

EndpointInit == Init /\ Pool!Init
-------------------------------------------------------------------------------
(* get_ws_user(c). *)

(* Without a token, or with one that cannot be decoded, the socket is      *)
(* refused before there is any query.                                      *)
RefuseUnread(c) ==
    /\ step[c] = "idle"
    /\ Refuse(c)
    /\ UNCHANGED poolVars

(* The token can be decoded: the first query waits for a connection ...    *)
ReadToken(c) ==
    /\ handler[c] = "auth"
    /\ Pool!SocketArrives(c)
    /\ UNCHANGED vars

(* ... gets one ... *)
ReadAccount(c) ==
    /\ handler[c] = "auth"
    /\ Pool!SocketConnects(c)
    /\ UNCHANGED vars

(* ... or none in time.  TimeoutError is not an AuthenticationError: it    *)
(* leaves the endpoint, and the handshake fails.                           *)
ResolveTimesOut(c) ==
    /\ Pool!SocketTimesOut(c)
    /\ Refuse(c)

(* Mutant of Admit: the signature of the token is enough. *)
AdmitUnread(c) ==
    /\ step[c] = "idle"
    /\ Authenticate(c)
    /\ UNCHANGED poolVars

(* The account is found and active.  Nothing commits, so that the session  *)
(* keeps its connection.                                                   *)
Admit(c) ==
    /\ step[c] = "subscribed"
    /\ Authenticate(c)
    /\ UNCHANGED poolVars

(* The token is revoked, the account is missing or inactive, or the query  *)
(* raises.                                                                 *)
RefuseRead(c) ==
    /\ step[c] = "subscribed"
    /\ Refuse(c)
    /\ UNCHANGED poolVars

(* Mutant of SessionEnds: the dependencies end before the handler begins.  *)
SessionEndsEarly(c) ==
    /\ handler[c] # "auth"
    /\ Pool!SocketLeaves(c)
    /\ UNCHANGED vars

(* Mutant of SessionEnds: get_db() does not close the session. *)
SessionEndsNever(c) == FALSE

(* The handler has returned or raised: get_db() closes the session. *)
SessionEnds(c) ==
    /\ handler[c] = "done"
    /\ Pool!SocketLeaves(c)
    /\ UNCHANGED vars
-------------------------------------------------------------------------------
(* The handler, its socket and the broadcasts use no database. *)
Serve ==
    /\ \/ Broadcast
       \/ \E c \in Clients :
             \/ Connect(c) \/ AcceptRaises(c) \/ SendPersonal(c) \/ ReceivePing(c)
             \/ Disconnect(c) \/ ReceiveRaises(c) \/ CloseSocket(c)
             \/ SendBatch(c) \/ SendBatchRaises(c)
    /\ UNCHANGED poolVars

(* The requests and the flush know nothing of the hub. *)
Elsewhere ==
    /\ (\E r \in Requests : Pool!RequestNext(r)) \/ Pool!FlushNext
    /\ UNCHANGED vars

EndpointNext ==
    \/ \E c \in Clients :
          \/ RefuseUnread(c) \/ ReadToken(c) \/ ReadAccount(c) \/ ResolveTimesOut(c)
          \/ Admit(c) \/ RefuseRead(c) \/ SessionEnds(c)
    \/ Serve
    \/ Elsewhere

(* What the hub and the pool assume.  Beyond that get_ws_user() goes on    *)
(* after its query, and a session is closed after the handler.             *)
EndpointFairness ==
    /\ Fairness
    /\ Pool!Fairness
    /\ \A c \in Clients :
          /\ WF_endpointVars(Admit(c) \/ RefuseRead(c))
          /\ WF_endpointVars(SessionEnds(c))

EndpointSpec     == EndpointInit /\ [][EndpointNext]_endpointVars
EndpointFairSpec == EndpointSpec /\ EndpointFairness
-------------------------------------------------------------------------------
(* What the pool promises holds with sockets that leave it when their      *)
(* handlers end: no path of a request, a socket or the flush keeps a       *)
(* connection or gives one back twice ...                                  *)
NoConnectionLeaks == Pool!NoConnectionLeaks

(* ... and requests that wait for a connection, or for a second one to log *)
(* what they did, end with their answer.                                   *)
RequestsEnd == Pool!RequestsEnd

(* From its admission until its handler has returned a socket holds a      *)
(* connection of its own, whatever happens to the socket, to its           *)
(* registration or to the requests beside it.  So the audience of a        *)
(* broadcast, which is what active_connections of /realtime/status counts, *)
(* is limited by DB_POOL_SIZE + DB_MAX_OVERFLOW, less what requests and    *)
(* the flush hold at the moment.                                           *)
AudienceWithinPool ==
    /\ \A c \in Clients : handler[c] \in {"accept", "send", "receive"} => c \in main
    /\ Cardinality(active \cup Listening) + Cardinality(main \ Clients) + Cardinality(log)
           <= Capacity

(* A socket that is gone gives its connection back, for good: after a      *)
(* refusal, an accept() that raises or a receive_text() that does, and     *)
(* whatever becomes of its registration.                                   *)
ConnectionComesBack ==
    \A c \in Clients : sock[c] = "closed" ~> [](c \notin main)
===============================================================================
