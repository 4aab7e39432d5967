------------------------------ MODULE ApiClient ------------------------------
(***************************************************************************)
(* The session of one browser tab: frontend/utils/state.py keeps tokens    *)
(* and user in st.session_state, and APIClient of utils/api_client.py      *)
(* repeats a call once after it has rotated the tokens.  A click ends the  *)
(* script at its next use of Streamlit, and the next run starts over: if   *)
(* it waits for an answer, at once (fastReruns), and the old one ends when *)
(* the answer comes.  The token pairs are numbered as the client learns of *)
(* them; TokenService models the server, which here may answer 401 to any  *)
(* token.                                                                  *)
(***************************************************************************)
EXTENDS Naturals

CONSTANT MaxPairs   \* bound: token pairs the client is ever given

ASSUME PairAssumption == MaxPairs \in Nat \ {0}

None  == 0
Pairs == 1 .. MaxPairs

VARIABLES
    session,      \* access_token, refresh_token and user of st.session_state
    script,       \* the running script and the APIClient it uses
    issued,       \* number of pairs the client has been given
    rotated,      \* refresh tokens the server has revoked for an exchange
    unreplaced,   \* history: those for which no pair got to the session
    applied,      \* history: times the server carried out the present call
    login_pair    \* history: the pair of the latest login

clientVars == <<session, script, issued, rotated, unreplaced, applied, login_pair>>

Idle == [op |-> "none", step |-> "idle", token |-> None, refresh_token |-> None,
         allow_refresh |-> FALSE]

ClientInit ==
    /\ session = [access_token |-> None, refresh_token |-> None, user |-> FALSE]
    /\ script = Idle
    /\ issued = 0
    /\ rotated = {}
    /\ unreplaced = {}
    /\ applied = 0
    /\ login_pair = None

is_authenticated == session.access_token # None /\ session.user

At(step) == script.step = step
Goto(step) == script' = [script EXCEPT !.step = step]

(* A script that starts, with the client get_client() builds for it. *)
Start(op, step) ==
    /\ At("idle")
    /\ script' = [op |-> op, step |-> step, token |-> session.access_token,
                  refresh_token |-> session.refresh_token, allow_refresh |-> TRUE]

(* Where a script goes on when its call is over: a page may call again,    *)
(* do_logout() goes on whatever the answer, do_login() gives up.           *)
AfterCall(op) == CASE op = "page"   -> "ready"
                   [] op = "logout" -> "clear_access"
                   [] OTHER         -> "idle"

(* The call raises APIError. *)
Fail == script' = IF AfterCall(script.op) = "idle" THEN Idle
                  ELSE [script EXCEPT !.step = AfterCall(script.op)]
-------------------------------------------------------------------------------
(* What the user does. *)

(* do_login(): a client without tokens posts the credentials. *)
Login ==
    /\ ~is_authenticated
    /\ At("idle")
    /\ script' = [Idle EXCEPT !.op = "login", !.step = "send"]
    /\ applied' = 0
    /\ UNCHANGED <<session, issued, rotated, unreplaced, login_pair>>

(* A page of its own runs: guard(), get_client(). *)
OpenPage ==
    /\ is_authenticated
    /\ Start("page", "ready")
    /\ UNCHANGED <<session, issued, rotated, unreplaced, applied, login_pair>>

(* do_logout(), up to its call; MetricStream stops the stream with it. *)
Logout ==
    /\ is_authenticated
    /\ Start("logout", "ready")
    /\ UNCHANGED <<session, issued, rotated, unreplaced, applied, login_pair>>

(* A page, or do_logout(), makes a call: _request() with allow_refresh. *)
Call ==
    /\ At("ready")
    /\ script' = [script EXCEPT !.step = "send", !.allow_refresh = TRUE]
    /\ applied' = 0
    /\ UNCHANGED <<session, issued, rotated, unreplaced, login_pair>>

EndPage ==
    /\ At("ready") /\ script.op = "page"
    /\ script' = Idle
    /\ UNCHANGED <<session, issued, rotated, unreplaced, applied, login_pair>>

(* A click while the script runs: Streamlit raises an exception, which is  *)
(* no Exception, at the next use of st or of st.session_state.  A script   *)
(* that waits for an answer gets it before it ends, and may make a refresh *)
(* of it, so that the server revokes a token whose successor is dropped.   *)
Interrupt ==
    /\ ~At("idle")
    /\ script' = Idle
    /\ \/ rotated' = rotated
       \/ /\ script.step \in {"send", "refresh"}
          /\ script.allow_refresh /\ script.refresh_token # None
          /\ rotated' = rotated \cup {script.refresh_token}
    /\ unreplaced' = IF script.step \in {"send", "refresh", "store_access", "store_refresh"}
                     THEN unreplaced \cup ({session.refresh_token} \cap rotated')
                     ELSE unreplaced
    /\ UNCHANGED <<session, issued, applied, login_pair>>
-------------------------------------------------------------------------------
(* _request() and _try_refresh(). *)

(* The login is answered with the first pair of the session. *)
LoginAnswered ==
    /\ At("send") /\ script.op = "login"
    /\ issued < MaxPairs
    /\ issued' = issued + 1
    /\ script' = [script EXCEPT !.step = "store_access", !.token = issued',
                                !.refresh_token = issued']
    /\ applied' = applied + 1
    /\ UNCHANGED <<session, rotated, unreplaced, login_pair>>

(* A call is carried out and answered. *)
Answered ==
    /\ At("send") /\ script.op # "login"
    /\ applied' = applied + 1
    /\ IF script.op = "me" THEN Goto("store_user") ELSE Goto(AfterCall(script.op))
    /\ UNCHANGED <<session, issued, rotated, unreplaced, login_pair>>

(* Mutant of Raises: a call that got no answer is sent again. *)
RaisesRetried ==
    /\ At("send")
    /\ \/ Fail
       \/ script.allow_refresh /\ script' = [script EXCEPT !.allow_refresh = FALSE]
    /\ applied' \in {applied, applied + 1}
    /\ UNCHANGED <<session, issued, rotated, unreplaced, login_pair>>

(* No answer, or an error other than 401: the server may have carried the  *)
(* call out all the same.  (A request given up by the client and carried   *)
(* out later is one carried out now: nothing here depends on its result.)  *)
Raises ==
    /\ At("send")
    /\ Fail
    /\ applied' \in {applied, applied + 1}
    /\ UNCHANGED <<session, issued, rotated, unreplaced, login_pair>>

(* 401: the token has expired or is revoked, or the account is inactive;   *)
(* the call is not carried out.                                            *)
Unauthorized ==
    /\ At("send")
    /\ IF script.allow_refresh /\ script.refresh_token # None
       THEN Goto("refresh")
       ELSE Fail
    /\ UNCHANGED <<session, issued, rotated, unreplaced, applied, login_pair>>

(* Mutant of Refreshed: the client has no on_token_refresh. *)
RefreshedUnstored ==
    /\ At("refresh") /\ script.refresh_token \notin rotated
    /\ issued < MaxPairs
    /\ issued' = issued + 1
    /\ rotated' = rotated \cup {script.refresh_token}
    /\ script' = [script EXCEPT !.step = "send", !.token = issued',
                                !.refresh_token = issued', !.allow_refresh = FALSE]
    /\ UNCHANGED <<session, unreplaced, applied, login_pair>>

(* The server rotates the refresh token, and the answer arrives: the       *)
(* client takes over the new pair and hands it to _store_tokens().         *)
Refreshed ==
    /\ At("refresh") /\ script.refresh_token \notin rotated
    /\ issued < MaxPairs
    /\ issued' = issued + 1
    /\ rotated' = rotated \cup {script.refresh_token}
    /\ script' = [script EXCEPT !.step = "store_access", !.token = issued',
                                !.refresh_token = issued', !.allow_refresh = FALSE]
    /\ UNCHANGED <<session, unreplaced, applied, login_pair>>

(* The server commits the revocation of the refresh token, but no new pair *)
(* arrives: the account turns out to be inactive or gone (401), the query  *)
(* for it raises (500), or the answer is lost.                             *)
RefreshWasted ==
    /\ At("refresh") /\ script.refresh_token \notin rotated
    /\ rotated' = rotated \cup {script.refresh_token}
    /\ unreplaced' = unreplaced \cup {script.refresh_token}
    /\ Fail
    /\ UNCHANGED <<session, issued, applied, login_pair>>

(* The refresh is refused before anything is revoked, the token being      *)
(* expired or revoked already, or never gets to the server.                *)
RefreshFails ==
    /\ At("refresh")
    /\ Fail
    /\ UNCHANGED <<session, issued, rotated, unreplaced, applied, login_pair>>

(* _store_tokens() writes its two keys one after the other. *)
StoreAccess ==
    /\ At("store_access")
    /\ session' = [session EXCEPT !.access_token = script.token]
    /\ login_pair' = IF script.op = "login" THEN script.token ELSE login_pair
    /\ Goto("store_refresh")
    /\ UNCHANGED <<issued, rotated, unreplaced, applied>>

(* The call is repeated; or do_login() goes on with me(), on a client that *)
(* has no refresh token.                                                   *)
AfterStore ==
    IF script.op = "login"
    THEN /\ script' = [script EXCEPT !.op = "me", !.step = "send",
                                     !.refresh_token = None]
         /\ applied' = 0
    ELSE Goto("send") /\ UNCHANGED applied

StoreRefresh ==
    /\ At("store_refresh")
    /\ session' = [session EXCEPT !.refresh_token = script.refresh_token]
    /\ AfterStore
    /\ UNCHANGED <<issued, rotated, unreplaced, login_pair>>

StoreUser ==
    /\ At("store_user")
    /\ session' = [session EXCEPT !.user = TRUE]
    /\ script' = Idle
    /\ UNCHANGED <<issued, rotated, unreplaced, applied, login_pair>>

(* The end of do_logout(): the keys are cleared one after the other; the   *)
(* fourth, "stream", is MetricStream's.                                    *)
Clear(key, value, step, next) ==
    /\ At(step)
    /\ session' = [session EXCEPT ![key] = value]
    /\ Goto(next)
    /\ UNCHANGED <<issued, rotated, unreplaced, applied, login_pair>>

ClearKeys ==
    \/ Clear("access_token", None, "clear_access", "clear_refresh")
    \/ Clear("refresh_token", None, "clear_refresh", "clear_user")
    \/ Clear("user", FALSE, "clear_user", "clear_stream")
-------------------------------------------------------------------------------
(* The steps that do not touch the stream. *)
ClientStep ==
    \/ Login \/ OpenPage \/ Call \/ EndPage \/ Interrupt
    \/ LoginAnswered \/ Answered \/ Raises \/ Unauthorized
    \/ Refreshed \/ RefreshWasted \/ RefreshFails
    \/ StoreAccess \/ StoreRefresh \/ StoreUser \/ ClearKeys

ClientTypeOK ==
    /\ session \in [access_token : Pairs \cup {None},
                    refresh_token : Pairs \cup {None}, user : BOOLEAN]
    /\ script \in [op : {"none", "login", "me", "page", "logout"},
                   step : {"idle", "ready", "controls", "send", "refresh",
                           "store_access", "store_refresh", "store_user",
                           "clear_access", "clear_refresh", "clear_user",
                           "clear_stream"},
                   token : Pairs \cup {None}, refresh_token : Pairs \cup {None},
                   allow_refresh : BOOLEAN]
    /\ issued \in 0 .. MaxPairs
    /\ rotated \subseteq 1 .. issued
    /\ unreplaced \subseteq rotated
    /\ applied \in Nat
    /\ login_pair \in 0 .. issued

(* A call that is sent again after a rotation is carried out once at most: *)
(* only a 401, which says that nothing was done, leads to the second       *)
(* attempt, and that one is final.  And a pair that the server answered is *)
(* not lost on the session, whatever calls and pages follow each other: a  *)
(* refresh token that the server has revoked stays there only if no pair   *)
(* came for it (the answer was lost, or the server refused or failed when  *)
(* the revocation was committed), or if a rerun struck before              *)
(* _store_tokens() had written the pair.                                   *)
RetryIsSound ==
    /\ applied <= 1
    /\ session.refresh_token \in rotated /\ script.step \notin {"store_access", "store_refresh"}
          => session.refresh_token \in unreplaced
===============================================================================
