---------------------------- MODULE ConnectionPool ----------------------------
(***************************************************************************)
(* Who holds connections of the SQLAlchemy pool, and for how long.         *)
(*                                                                         *)
(* An AsyncSession takes a connection at its first query and gives it back *)
(* at a commit or when it is closed (backend/app/db/session.py).  An HTTP  *)
(* request has the session of get_db(), and writes its log entries through *)
(* a session of their own (services/log_service.py), the first of them     *)
(* while its own session may still hold a connection.  A WebSocket has the *)
(* session of get_db() as well, for as long as it is connected: the        *)
(* dependency ends with the handler, and nothing commits in between.  The  *)
(* generator's flush() has a session of its own.                           *)
(***************************************************************************)
EXTENDS Integers, FiniteSets

CONSTANTS
    Requests,  \* HTTP requests that may be under way at once
    Sockets,   \* WebSocket connections, none of them a request
    Capacity   \* DB_POOL_SIZE + DB_MAX_OVERFLOW

Users == Requests \cup Sockets \cup {"flush"}

VARIABLES
    step,         \* where each user is
    main,         \* users whose session holds a connection
    log,          \* requests whose log session holds a connection
    checked_out,  \* the pool's own count, pool.checkedout()
    answer        \* the answer a request is going to give, once known

vars == <<step, main, log, checked_out, answer>>

Init ==
    /\ step = [x \in Users |-> "idle"]
    /\ main = {}
    /\ log = {}
    /\ checked_out = 0
    /\ answer = [r \in Requests |-> "none"]

Goto(x, s) == step' = [step EXCEPT ![x] = s]
Free       == checked_out < Capacity
Take       == Free /\ checked_out' = checked_out + 1

(* Mutant of TimesOut: the pool has no timeout. *)
NeverTimesOut == FALSE

(* pool_timeout seconds without a free connection: TimeoutError. *)
TimesOut == ~Free /\ UNCHANGED checked_out

(* Mutant of CloseMain: the connection is given back whether or not there  *)
(* is one.                                                                 *)
CloseMainTwice(x) ==
    /\ main' = main \ {x}
    /\ checked_out' = checked_out - 1

(* The session of x is closed: a connection it holds goes back. *)
CloseMain(x) ==
    /\ main' = main \ {x}
    /\ checked_out' = IF x \in main THEN checked_out - 1 ELSE checked_out
-------------------------------------------------------------------------------
(* An HTTP request. *)

(* It comes, and its first query (the check of the token, the read of the  *)
(* account) waits for a connection.                                        *)
Arrive(r) ==
    /\ step[r] = "idle"
    /\ Goto(r, "connect")
    /\ answer' = [answer EXCEPT ![r] = "none"]
    /\ UNCHANGED <<main, log, checked_out>>

Connect(r) ==
    /\ step[r] = "connect"
    /\ Take
    /\ main' = main \cup {r}
    /\ Goto(r, "work")
    /\ UNCHANGED <<log, answer>>

(* No connection: the SQLAlchemyError handler answers 500. *)
ConnectTimesOut(r) ==
    /\ step[r] = "connect"
    /\ TimesOut
    /\ answer' = [answer EXCEPT ![r] = "error"]
    /\ Goto(r, "request_log")
    /\ UNCHANGED <<main, log>>

(* Mutant of WorkFails: the session is not closed after an exception. *)
WorkFailsOpen(r) ==
    /\ step[r] = "work"
    /\ answer' = [answer EXCEPT ![r] = "error"]
    /\ Goto(r, "request_log")
    /\ UNCHANGED <<main, log, checked_out>>

(* A query or the commit raises: get_db() rolls back and the session ends. *)
WorkFails(r) ==
    /\ step[r] = "work"
    /\ CloseMain(r)
    /\ answer' = [answer EXCEPT ![r] = "error"]
    /\ Goto(r, "request_log")
    /\ UNCHANGED log

(* A commit gives the connection back; a query after it takes one again. *)
Commit(r) ==
    /\ step[r] = "work" /\ r \in main
    /\ CloseMain(r)
    /\ \/ Goto(r, "connect")     \* refresh() of what was written
       \/ Goto(r, "action_log")  \* delete: the log comes next
    /\ UNCHANGED <<log, answer>>

(* The endpoint has its result: it calls write_log() with its own session  *)
(* still open, or returns without a log entry.                             *)
WorkDone(r) ==
    /\ step[r] = "work"
    /\ Goto(r, "action_log") \/ Goto(r, "return")
    /\ UNCHANGED <<main, log, checked_out, answer>>

(* write_log(), of the endpoint or of RequestLogMiddleware, gets a         *)
(* connection ...                                                          *)
LogConnects(r) ==
    /\ step[r] \in {"action_log", "request_log"}
    /\ Take
    /\ log' = log \cup {r}
    /\ Goto(r, IF step[r] = "action_log" THEN "action_logging" ELSE "request_logging")
    /\ UNCHANGED <<main, answer>>

(* ... writes its row or fails to, and closes its session ... *)
LogEnds(r) ==
    /\ step[r] \in {"action_logging", "request_logging"}
    /\ log' = log \ {r}
    /\ checked_out' = checked_out - 1
    /\ Goto(r, IF step[r] = "action_logging" THEN "return" ELSE "idle")
    /\ UNCHANGED <<main, answer>>

(* Mutant of LogTimesOut: the exception is not caught. *)
LogTimesOutRaises(r) ==
    /\ step[r] \in {"action_log", "request_log"}
    /\ ~Free /\ CloseMain(r)
    /\ answer' = [answer EXCEPT ![r] = "error"]
    /\ Goto(r, "idle")
    /\ UNCHANGED log

(* ... or gets none in time, which it swallows. *)
LogTimesOut(r) ==
    /\ step[r] \in {"action_log", "request_log"}
    /\ TimesOut
    /\ Goto(r, IF step[r] = "action_log" THEN "return" ELSE "idle")
    /\ UNCHANGED <<main, log, answer>>

(* The endpoint returns and get_db() closes the session.  The middleware   *)
(* logs the request, unless it was a GET that went well.                   *)
Return(r) ==
    /\ step[r] = "return"
    /\ CloseMain(r)
    /\ answer' = [answer EXCEPT ![r] = "ok"]
    /\ \/ Goto(r, "request_log")
       \/ Goto(r, "idle")
    /\ UNCHANGED log
-------------------------------------------------------------------------------
(* A WebSocket: get_ws_user() reads the account, and its session stays     *)
(* open until the handler ends.                                            *)
SocketArrives(w) ==
    /\ step[w] = "idle"
    /\ Goto(w, "connect")
    /\ UNCHANGED <<main, log, checked_out, answer>>

SocketConnects(w) ==
    /\ step[w] = "connect"
    /\ Take
    /\ main' = main \cup {w}
    /\ Goto(w, "subscribed")
    /\ UNCHANGED <<log, answer>>

SocketTimesOut(w) ==
    /\ step[w] = "connect"
    /\ TimesOut
    /\ Goto(w, "idle")
    /\ UNCHANGED <<main, log, answer>>

SocketLeaves(w) ==
    /\ step[w] = "subscribed"
    /\ CloseMain(w)
    /\ Goto(w, "idle")
    /\ UNCHANGED <<log, answer>>
-------------------------------------------------------------------------------
(* flush() of the generator: there is always something in the buffer. *)
FlushStarts ==
    /\ step["flush"] = "idle"
    /\ Goto("flush", "connect")
    /\ UNCHANGED <<main, log, checked_out, answer>>

FlushConnects ==
    /\ step["flush"] = "connect"
    /\ Take
    /\ main' = main \cup {"flush"}
    /\ Goto("flush", "writing")
    /\ UNCHANGED <<log, answer>>

(* The rows are dropped. *)
FlushTimesOut ==
    /\ step["flush"] = "connect"
    /\ TimesOut
    /\ Goto("flush", "idle")
    /\ UNCHANGED <<main, log, answer>>

FlushEnds ==
    /\ step["flush"] = "writing"
    /\ CloseMain("flush")
    /\ Goto("flush", "idle")
    /\ UNCHANGED <<log, answer>>
-------------------------------------------------------------------------------
RequestNext(r) ==
    \/ Arrive(r) \/ Connect(r) \/ ConnectTimesOut(r) \/ WorkFails(r)
    \/ Commit(r) \/ WorkDone(r) \/ LogConnects(r) \/ LogEnds(r)
    \/ LogTimesOut(r) \/ Return(r)

SocketNext(w) ==
    SocketArrives(w) \/ SocketConnects(w) \/ SocketTimesOut(w) \/ SocketLeaves(w)

FlushNext == FlushStarts \/ FlushConnects \/ FlushTimesOut \/ FlushEnds

Next ==
    \/ \E r \in Requests : RequestNext(r)
    \/ \E w \in Sockets : SocketNext(w)
    \/ FlushNext

(* A wait for a connection ends with one or with the timeout; a database   *)
(* call ends; the flush loop goes round, and whoever waits for a           *)
(* connection is served before those that come later.  Nobody has to       *)
(* arrive, a browser need not leave, and a request writes and reads again  *)
(* only so often.                                                          *)
Fairness ==
    /\ \A r \in Requests :
          /\ WF_vars(Connect(r) \/ ConnectTimesOut(r))
          /\ SF_vars(WorkDone(r) \/ WorkFails(r))
          /\ WF_vars(LogConnects(r) \/ LogTimesOut(r))
          /\ WF_vars(LogEnds(r))
          /\ WF_vars(Return(r))
    /\ \A w \in Sockets : WF_vars(SocketConnects(w) \/ SocketTimesOut(w))
    /\ WF_vars(FlushStarts)
    /\ WF_vars(FlushConnects \/ FlushTimesOut)
    /\ SF_vars(FlushConnects)
    /\ WF_vars(FlushEnds)

Spec     == Init /\ [][Next]_vars
FairSpec == Spec /\ Fairness
-------------------------------------------------------------------------------
(* The values the variables take. *)
TypeOK ==
    /\ step \in [Users -> {"idle", "connect", "work", "action_log", "action_logging",
                           "return", "request_log", "request_logging",
                           "subscribed", "writing"}]
    /\ main \subseteq Users
    /\ log \subseteq Requests
    /\ checked_out \in 0 .. Capacity
    /\ answer \in [Requests -> {"none", "ok", "error"}]

(* The pool's count is what its users hold, and who is done holds nothing: *)
(* no path through a timeout, a failed query or a failed log entry keeps a *)
(* connection or gives one back twice.                                     *)
NoConnectionLeaks ==
    /\ checked_out = Cardinality(main) + Cardinality(log)
    /\ \A x \in Users : step[x] = "idle" => x \notin main \cup log
    /\ \A r \in Requests : step[r] = "request_log" => r \notin main \cup log

(* Requests that each hold a connection and wait for a second one do not   *)
(* wait for each other for ever.  And "a failed log write does not affect  *)
(* the main flow": one that got as far as logging what it did ends with    *)
(* its result, whether or not there is a connection for the log entry.     *)
RequestsEnd ==
    \A r \in Requests :
        /\ step[r] # "idle" ~> step[r] = "idle"
        /\ step[r] = "action_log" ~> step[r] = "idle" /\ answer[r] = "ok"

(* README, Q4: the buffer is written to the database periodically, every   *)
(* GENERATOR_FLUSH_INTERVAL seconds.                                       *)
FlushKeepsWriting == []<>(step["flush"] = "writing")
===============================================================================
