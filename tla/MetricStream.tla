----------------------------- MODULE MetricStream -----------------------------
(***************************************************************************)
(* MetricStream of frontend/utils/stream.py: a thread that receives the    *)
(* pushed metrics, against the scripts of views/realtime.py and            *)
(* do_logout() of utils/state.py that create, start, stop and forget it.   *)
(* The url of a stream is the access token in it.  Points and alerts are   *)
(* left out: they are bounded deques that only the thread fills.           *)
(***************************************************************************)
EXTENDS ApiClient

CONSTANT MaxStreams   \* bound: MetricStream objects a session ever creates

ASSUME StreamAssumption == MaxStreams \in Nat \ {0}

Streams == 1 .. MaxStreams

VARIABLES
    current,      \* st.session_state["stream"], or None
    created,      \* number of MetricStream objects created
    url,          \* stream.url of each
    connected,    \* stream.connected
    stop_event,   \* stream._stop_event
    thread        \* where stream._thread is; "none" before the first start()

streamVars == <<current, created, url, connected, stop_event, thread>>
vars == <<clientVars, streamVars>>

Init ==
    /\ ClientInit
    /\ current = None
    /\ created = 0
    /\ url = [s \in Streams |-> None]
    /\ connected = [s \in Streams |-> FALSE]
    /\ stop_event = [s \in Streams |-> FALSE]
    /\ thread = [s \in Streams |-> "none"]

running(s) == thread[s] \notin {"none", "ended"}
-------------------------------------------------------------------------------
(* The session's side. *)

(* start(): nothing while the old thread is alive, be it stopping. *)
StartStream(s) ==
    IF running(s)
    THEN UNCHANGED <<stop_event, thread>>
    ELSE /\ stop_event' = [stop_event EXCEPT ![s] = FALSE]
         /\ thread' = [thread EXCEPT ![s] = "loop"]

StopStream(s) ==
    /\ stop_event' = [stop_event EXCEPT ![s] = TRUE]
    /\ connected' = [connected EXCEPT ![s] = FALSE]

(* Mutant of OpenRealtime: a new stream is not kept in the session. *)
OpenRealtimeUnkept ==
    /\ is_authenticated
    /\ Start("page", "controls")
    /\ created < MaxStreams
    /\ created' = created + 1
    /\ url' = [url EXCEPT ![created'] = session.access_token]
    /\ UNCHANGED <<session, issued, rotated, unreplaced, applied, login_pair,
                   current, connected, stop_event, thread>>

(* The realtime page finds or creates the stream and renews its url. *)
OpenRealtime ==
    /\ is_authenticated
    /\ Start("page", "controls")
    /\ \/ current # None /\ UNCHANGED <<current, created>>
       \/ /\ current = None /\ created < MaxStreams
          /\ created' = created + 1
          /\ current' = created'
    /\ url' = [url EXCEPT ![current'] = session.access_token]
    /\ UNCHANGED <<session, issued, rotated, unreplaced, applied, login_pair,
                   connected, stop_event, thread>>

(* The three ways past the buttons: connect, disconnect, or on to the call *)
(* of the page, which starts the thread if none is alive.                  *)
PressConnect ==
    /\ At("controls")
    /\ StartStream(current)
    /\ script' = Idle
    /\ UNCHANGED <<session, issued, rotated, unreplaced, applied, login_pair,
                   current, created, url, connected>>

PressDisconnect ==
    /\ At("controls")
    /\ StopStream(current)
    /\ script' = Idle
    /\ UNCHANGED <<session, issued, rotated, unreplaced, applied, login_pair,
                   current, created, url, thread>>

ShowRealtime ==
    /\ At("controls")
    /\ StartStream(current)
    /\ Goto("ready")
    /\ UNCHANGED <<session, issued, rotated, unreplaced, applied, login_pair,
                   current, created, url, connected>>

(* Mutant of LogoutStops: do_logout() leaves the stream alone. *)
LogoutOnly == Logout /\ UNCHANGED streamVars

(* do_logout() stops the stream before its call. *)
LogoutStops ==
    /\ Logout
    /\ IF current = None THEN UNCHANGED <<stop_event, connected>>
       ELSE StopStream(current)
    /\ UNCHANGED <<current, created, url, thread>>

ClearStream ==
    /\ At("clear_stream")
    /\ current' = None
    /\ script' = Idle
    /\ UNCHANGED <<session, issued, rotated, unreplaced, applied, login_pair,
                   created, url, connected, stop_event, thread>>
-------------------------------------------------------------------------------
(* _run(), the thread's side. *)

MoveTo(s, place) == thread' = [thread EXCEPT ![s] = place]
Connected(s, b) == connected' = [connected EXCEPT ![s] = b]

Unmoved == UNCHANGED <<clientVars, current, created, url, stop_event>>

(* Mutant of Finish: connected is left as it is at the end of the thread. *)
FinishQuietly(s) == MoveTo(s, "ended") /\ UNCHANGED connected

(* The end of _run(). *)
Finish(s) == MoveTo(s, "ended") /\ Connected(s, FALSE)

(* The outer loop looks at the event. *)
OuterLoop(s) ==
    /\ thread[s] = "loop"
    /\ \/ stop_event[s] /\ Finish(s)
       \/ ~stop_event[s] /\ MoveTo(s, "connect") /\ UNCHANGED connected
    /\ Unmoved

(* create_connection() returns; connected is set even if stop() came in    *)
(* between.                                                                *)
ConnectOk(s) ==
    /\ thread[s] = "connect"
    /\ Connected(s, TRUE)
    /\ MoveTo(s, "check")
    /\ Unmoved

(* Mutant of InnerLoop: it runs while the socket lives. *)
InnerLoopForever(s) ==
    /\ thread[s] = "check"
    /\ MoveTo(s, "recv")
    /\ UNCHANGED connected
    /\ Unmoved

(* The inner loop looks at the event; when it is set the socket is closed  *)
(* and the outer loop looks again.                                         *)
InnerLoop(s) ==
    /\ thread[s] = "check"
    /\ MoveTo(s, IF stop_event[s] THEN "loop" ELSE "recv")
    /\ UNCHANGED connected
    /\ Unmoved

Receive(s) ==
    /\ thread[s] = "recv"
    /\ MoveTo(s, "check")
    /\ UNCHANGED connected
    /\ Unmoved

(* create_connection() or recv() raises: refused, timed out, closed. *)
SocketRaises(s) ==
    /\ thread[s] \in {"connect", "recv"}
    /\ Connected(s, FALSE)
    /\ MoveTo(s, "wait")
    /\ Unmoved

(* _stop_event.wait(3) returns. *)
WaitEnds(s) ==
    /\ thread[s] = "wait"
    /\ \/ stop_event[s] /\ Finish(s)
       \/ ~stop_event[s] /\ MoveTo(s, "loop") /\ UNCHANGED connected
    /\ Unmoved

RunThread(s) ==
    OuterLoop(s) \/ ConnectOk(s) \/ InnerLoop(s) \/ Receive(s) \/ SocketRaises(s) \/ WaitEnds(s)
-------------------------------------------------------------------------------
Next ==
    \/ ClientStep /\ UNCHANGED streamVars
    \/ OpenRealtime \/ PressConnect \/ PressDisconnect \/ ShowRealtime
    \/ LogoutStops \/ ClearStream
    \/ \E s \in Streams : RunThread(s)

(* The threads run: create_connection() and recv() have a timeout of ten   *)
(* seconds, the wait one of three.  Nothing is assumed of the user, nor of *)
(* the script.                                                             *)
Spec == Init /\ [][Next]_vars /\ \A s \in Streams : WF_vars(RunThread(s))
-------------------------------------------------------------------------------
(* The values the variables take. *)
TypeOK ==
    /\ ClientTypeOK
    /\ created \in 0 .. MaxStreams
    /\ current \in 0 .. created
    /\ url \in [Streams -> 0 .. issued]
    /\ connected \in [Streams -> BOOLEAN]
    /\ stop_event \in [Streams -> BOOLEAN]
    /\ thread \in [Streams -> {"none", "loop", "connect", "check", "recv", "wait", "ended"}]
    /\ At("controls") => current # None

(* A thread that has not been told to stop belongs to the stream of the    *)
(* session and reconnects with a token of the present login: no login is   *)
(* served on a stream of an earlier one, even if the logout between them   *)
(* was interrupted anywhere.                                               *)
StreamOfThisLogin ==
    \A s \in Streams :
        running(s) /\ ~stop_event[s] => s = current /\ url[s] >= login_pair

(* A stopped stream ends, and the page does not go on calling it connected *)
(* although the thread sets the flag that stop() has cleared; even if a    *)
(* start() meanwhile finds the thread still alive and leaves it to its end.*)
StoppedStreamEnds ==
    \A s \in Streams : stop_event[s] ~> ~running(s) /\ ~connected[s]

(* views/realtime.py says of the url it renews: "the token may have been   *)
(* rotated; reconnecting needs the latest access token".  A thread that    *)
(* reconnects while no script runs does so with the token of the session.  *)
ReconnectsWithLatest ==
    [][ \A s \in Streams :
          thread[s] = "loop" /\ thread'[s] = "connect" /\ At("idle") =>
             url[s] = session.access_token ]_vars
===============================================================================
