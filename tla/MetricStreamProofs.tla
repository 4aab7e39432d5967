-------------------------- MODULE MetricStreamProofs --------------------------
(***************************************************************************)
(* Proofs about ApiClient and MetricStream, for any number of token pairs  *)
(* and of streams.                                                         *)
(***************************************************************************)
EXTENDS MetricStream, TLAPS

Storing  == {"store_access", "store_refresh"}
Clearing == {"clear_access", "clear_refresh", "clear_user", "clear_stream"}

(* The session and the script know only pairs that were given to them, and *)
(* an access token that is there is not older than the login.              *)
TokensKnown ==
    /\ session.access_token <= issued /\ session.refresh_token <= issued
    /\ script.token <= issued /\ script.refresh_token <= issued
    /\ session.access_token # None => session.access_token >= login_pair

(* What the place of the script tells. *)
ScriptSound ==
    /\ At("refresh") => script.refresh_token # None /\ script.op # "login"
    /\ script.step \in Storing =>
          /\ script.token = issued /\ script.refresh_token = issued
          /\ issued # None /\ issued \notin rotated
    /\ script.op = "login" =>
          /\ script.step \in {"send"} \cup Storing
          /\ ~script.allow_refresh
          /\ script.step # "store_refresh" => ~is_authenticated
    /\ script.step \in Clearing => script.op = "logout"
    /\ At("controls") => script.op = "page" /\ is_authenticated
    /\ script.op = "none" => At("idle")

(* A call that may still be sent has not been carried out. *)
AppliedSound ==
    /\ script.step \in {"send", "refresh"} => applied = 0
    /\ script.step \in Storing /\ script.op # "login" => applied = 0

ClientSound ==
    /\ ClientTypeOK
    /\ TokensKnown
    /\ ScriptSound
    /\ AppliedSound
    /\ RetryIsSound

(* A stream whose thread goes on. *)
Live(s) == running(s) /\ ~stop_event[s]

(* Without a login, and from the beginning of a logout, no stream is live; *)
(* the url is the token of the session when the page is about to start the *)
(* thread.                                                                 *)
StreamSound ==
    /\ StreamOfThisLogin
    /\ ~is_authenticated \/ script.op = "logout" => \A s \in Streams : ~Live(s)
    /\ At("controls") => url[current] = session.access_token

SessionSound ==
    /\ TypeOK
    /\ ClientSound
    /\ StreamSound
-------------------------------------------------------------------------------
(* The client's part. *)

SessionRow == [access_token : Pairs \cup {None}, refresh_token : Pairs \cup {None},
               user : BOOLEAN]
ScriptRow ==
    [op : {"none", "login", "me", "page", "logout"},
     step : {"idle", "ready", "controls", "send", "refresh", "store_access",
             "store_refresh", "store_user", "clear_access", "clear_refresh",
             "clear_user", "clear_stream"},
     token : Pairs \cup {None}, refresh_token : Pairs \cup {None},
     allow_refresh : BOOLEAN]

LEMMA ClientRows ==
    ASSUME ClientSound
    PROVE  /\ session \in SessionRow /\ script \in ScriptRow
           /\ issued \in 0 .. MaxPairs /\ MaxPairs \in Nat \ {0}
           /\ rotated \subseteq 1 .. issued /\ unreplaced \subseteq rotated
           /\ applied \in 0 .. 1 /\ login_pair \in 0 .. issued
BY PairAssumption
   DEF ClientSound, ClientTypeOK, SessionRow, ScriptRow, AppliedSound, RetryIsSound

LEMMA IdleRow == Idle \in ScriptRow
BY DEF Idle, ScriptRow, None

(* The script ends, or goes on to a step of no call, and the session stays *)
(* as it is.                                                               *)
LEMMA ScriptEnds ==
    ASSUME ClientSound, script' = Idle, UNCHANGED <<session, issued, login_pair>>,
           applied' \in 0 .. 1,
           rotated' \subseteq 1 .. issued, unreplaced' \subseteq rotated',
           session.refresh_token \in rotated' => session.refresh_token \in unreplaced'
    PROVE  ClientSound'
<1>1. ClientTypeOK'
  BY ClientRows, IdleRow DEF ClientSound, ClientTypeOK, ScriptRow
<1>2. TokensKnown' /\ AppliedSound'
  BY ClientRows DEF ClientSound, TokensKnown, AppliedSound, Idle, None, Storing
<1>3. ScriptSound'
  BY DEF ScriptSound, At, Idle, Storing, Clearing
<1>4. RetryIsSound'
  BY DEF RetryIsSound
<1>5. QED  BY <1>1, <1>2, <1>3, <1>4 DEF ClientSound

(* The script goes on with the same tokens, and the session stays as it    *)
(* is.                                                                     *)
LEMMA ScriptGoesOn ==
    ASSUME ClientSound, NEW r \in ScriptRow, script' = r,
           UNCHANGED <<session, issued, login_pair>>,
           r.token <= issued, r.refresh_token <= issued,
           applied' \in 0 .. 1,
           r.step \in {"send", "refresh"} => applied' = 0,
           rotated \subseteq rotated', rotated' \subseteq 1 .. issued,
           unreplaced \subseteq unreplaced', unreplaced' \subseteq rotated',
           session.refresh_token \in rotated' => session.refresh_token \in unreplaced',
           r.step \notin Storing,
           r.step = "refresh" => r.refresh_token # None /\ r.op # "login",
           r.op = "login" => r.step = "send" /\ ~r.allow_refresh /\ ~is_authenticated,
           r.step \in Clearing => r.op = "logout",
           r.step = "controls" => r.op = "page" /\ is_authenticated,
           r.op = "none" => r.step = "idle"
    PROVE  ClientSound'
<1>1. ClientTypeOK'
  BY ClientRows DEF ClientSound, ClientTypeOK, ScriptRow
<1>2. TokensKnown' /\ AppliedSound'
  BY DEF ClientSound, TokensKnown, AppliedSound
<1>3. ScriptSound'
  BY DEF ScriptSound, At, is_authenticated, Storing
<1>4. RetryIsSound'
  BY DEF RetryIsSound
<1>5. QED  BY <1>1, <1>2, <1>3, <1>4 DEF ClientSound

(* What is in the session is known to be live, unless the script stores a  *)
(* new pair.                                                               *)
LEMMA SessionRefresh ==
    ASSUME ClientSound, script.step \notin Storing, session.refresh_token \in rotated
    PROVE  session.refresh_token \in unreplaced
BY DEF ClientSound, RetryIsSound, Storing

(* A call that fails. *)
LEMMA FailSound ==
    ASSUME ClientSound, Fail, script.step \in {"send", "refresh"},
           UNCHANGED <<session, issued, login_pair>>,
           applied' \in 0 .. 1,
           rotated \subseteq rotated', rotated' \subseteq 1 .. issued,
           unreplaced \subseteq unreplaced', unreplaced' \subseteq rotated',
           session.refresh_token \in rotated' => session.refresh_token \in unreplaced'
    PROVE  ClientSound'
<1>a. script \in ScriptRow
  BY ClientRows
<1>1. CASE AfterCall(script.op) = "idle"
  <2>1. script' = Idle
    BY <1>1 DEF Fail
  <2>2. /\ Idle.token = 0 /\ Idle.refresh_token = 0 /\ Idle.step = "idle" /\ Idle.op = "none"
    BY DEF Idle, None
  <2>3. issued \in Nat
    BY ClientRows
  <2>4. QED  BY <2>1, <2>2, <2>3, IdleRow, ScriptGoesOn DEF Storing, Clearing
<1>2. CASE AfterCall(script.op) # "idle"
  <2> DEFINE r == [script EXCEPT !.step = AfterCall(script.op)]
  <2>1. script' = r
    BY <1>2 DEF Fail
  <2>2. script.op \in {"page", "logout"} /\ AfterCall(script.op) \in {"ready", "clear_access"}
        /\ (AfterCall(script.op) = "clear_access" => script.op = "logout")
    BY <1>2, <1>a DEF AfterCall, ScriptRow
  <2>3. /\ r \in ScriptRow /\ r.token = script.token /\ r.refresh_token = script.refresh_token
        /\ r.op = script.op /\ r.step = AfterCall(script.op)
    BY <1>a, <2>2 DEF ScriptRow
  <2>4. r.token <= issued /\ r.refresh_token <= issued
    BY <2>3 DEF ClientSound, TokensKnown
  <2> HIDE DEF r
  <2>5. QED  BY <2>1, <2>2, <2>3, <2>4, ScriptGoesOn DEF Storing, Clearing
<1>3. QED  BY <1>1, <1>2

LEMMA LoginSound ==
    ASSUME ClientSound, Login
    PROVE  ClientSound'
<1> DEFINE r == [Idle EXCEPT !.op = "login", !.step = "send"]
<1>1. /\ r \in ScriptRow /\ r.token = 0 /\ r.refresh_token = 0
      /\ r.op = "login" /\ r.step = "send" /\ r.allow_refresh = FALSE
  BY DEF Idle, ScriptRow, None
<1>2. /\ script' = r /\ ~is_authenticated /\ applied' = 0 /\ script.step = "idle"
      /\ UNCHANGED <<session, issued, rotated, unreplaced, login_pair>>
  BY DEF Login, At
<1>3. issued \in Nat /\ rotated \subseteq 1 .. issued /\ unreplaced \subseteq rotated
  BY ClientRows
<1>4. session.refresh_token \in rotated => session.refresh_token \in unreplaced
  BY <1>2, SessionRefresh DEF Storing
<1> HIDE DEF r
<1>5. QED  BY <1>1, <1>2, <1>3, <1>4, ScriptGoesOn DEF Storing, Clearing

(* A script that a page or do_logout() starts. *)
LEMMA StartSound ==
    ASSUME ClientSound, NEW op \in {"page", "logout"}, NEW step \in {"ready", "controls"},
           Start(op, step), is_authenticated, step = "controls" => op = "page",
           UNCHANGED <<session, issued, rotated, unreplaced, applied, login_pair>>
    PROVE  ClientSound'
<1> DEFINE r == [op |-> op, step |-> step, token |-> session.access_token,
                 refresh_token |-> session.refresh_token, allow_refresh |-> TRUE]
<1>1. /\ r \in ScriptRow /\ r.token = session.access_token
      /\ r.refresh_token = session.refresh_token /\ r.op = op /\ r.step = step
  BY ClientRows DEF SessionRow, ScriptRow
<1>2. script' = r /\ script.step = "idle"
  BY DEF Start, At
<1>3. /\ session.access_token <= issued /\ session.refresh_token <= issued
      /\ rotated \subseteq 1 .. issued /\ unreplaced \subseteq rotated /\ applied \in 0 .. 1
  BY ClientRows DEF ClientSound, TokensKnown
<1>4. session.refresh_token \in rotated => session.refresh_token \in unreplaced
  BY <1>2, SessionRefresh DEF Storing
<1> HIDE DEF r
<1>5. QED  BY <1>1, <1>2, <1>3, <1>4, ScriptGoesOn DEF Storing, Clearing

(* The script goes to another step, and nothing else changes. *)
LEMMA GotoSound ==
    ASSUME ClientSound, script.step \notin Storing \cup {"idle"}, script.op # "login",
           NEW step \in {"ready", "send", "refresh", "store_user", "clear_access"},
           Goto(step),
           UNCHANGED <<session, issued, rotated, unreplaced, login_pair>>,
           applied' \in 0 .. 1, step \in {"send", "refresh"} => applied' = 0,
           step = "refresh" => script.refresh_token # None,
           step = "clear_access" => script.op = "logout"
    PROVE  ClientSound'
<1> DEFINE r == [script EXCEPT !.step = step]
<1>1. /\ r \in ScriptRow /\ r.token = script.token
      /\ r.refresh_token = script.refresh_token /\ r.op = script.op /\ r.step = step
  BY ClientRows DEF ScriptRow
<1>2. /\ script.token <= issued /\ script.refresh_token <= issued
      /\ rotated \subseteq 1 .. issued /\ unreplaced \subseteq rotated /\ script.op # "none"
  BY ClientRows DEF ClientSound, TokensKnown, ScriptSound, At
<1>3. session.refresh_token \in rotated => session.refresh_token \in unreplaced
  BY SessionRefresh
<1>4. script' = r
  BY DEF Goto
<1> HIDE DEF r
<1>5. QED  BY <1>1, <1>2, <1>3, <1>4, ScriptGoesOn DEF Storing, Clearing

LEMMA CallSound ==
    ASSUME ClientSound, Call
    PROVE  ClientSound'
<1> DEFINE r == [script EXCEPT !.step = "send", !.allow_refresh = TRUE]
<1>1. /\ script.step = "ready" /\ script' = r /\ applied' = 0
      /\ UNCHANGED <<session, issued, rotated, unreplaced, login_pair>>
  BY DEF Call, At
<1>2. script.op \notin {"login", "none"}
  BY <1>1 DEF At, ClientSound, ScriptSound, Storing
<1>3. /\ r \in ScriptRow /\ r.token = script.token
      /\ r.refresh_token = script.refresh_token /\ r.op = script.op /\ r.step = "send"
  BY ClientRows DEF ScriptRow
<1>4. /\ script.token <= issued /\ script.refresh_token <= issued
      /\ rotated \subseteq 1 .. issued /\ unreplaced \subseteq rotated
  BY ClientRows DEF ClientSound, TokensKnown
<1>5. session.refresh_token \in rotated => session.refresh_token \in unreplaced
  BY <1>1, SessionRefresh DEF Storing
<1> HIDE DEF r
<1>6. QED  BY <1>1, <1>2, <1>3, <1>4, <1>5, ScriptGoesOn DEF Storing, Clearing

LEMMA AnsweredSound ==
    ASSUME ClientSound, Answered
    PROVE  ClientSound'
<1>1. /\ script.step = "send" /\ script.op # "login" /\ applied = 0 /\ applied' = 1
      /\ UNCHANGED <<session, issued, rotated, unreplaced, login_pair>>
  BY DEF Answered, At, ClientSound, AppliedSound
<1>2. PICK step \in {"ready", "store_user", "clear_access"} :
          Goto(step) /\ (step = "clear_access" => script.op = "logout")
  <2>1. script.op \in {"me", "page", "logout"}
    BY <1>1, ClientRows DEF ScriptRow, ClientSound, ScriptSound, At
  <2>2. QED  BY <2>1 DEF Answered, AfterCall
<1>3. QED  BY <1>1, <1>2, GotoSound DEF Storing

LEMMA RaisesSound ==
    ASSUME ClientSound, Raises
    PROVE  ClientSound'
<1>1. /\ script.step = "send" /\ applied = 0 /\ applied' \in {applied, applied + 1} /\ Fail
      /\ UNCHANGED <<session, issued, rotated, unreplaced, login_pair>>
  BY DEF Raises, At, ClientSound, AppliedSound
<1>2. session.refresh_token \in rotated => session.refresh_token \in unreplaced
  BY <1>1, SessionRefresh DEF Storing
<1>3. QED  BY <1>1, <1>2, ClientRows, FailSound

LEMMA UnauthorizedSound ==
    ASSUME ClientSound, Unauthorized
    PROVE  ClientSound'
<1>1. /\ script.step = "send" /\ applied = 0
      /\ UNCHANGED <<session, issued, rotated, unreplaced, applied, login_pair>>
  BY DEF Unauthorized, At, ClientSound, AppliedSound
<1>2. CASE script.allow_refresh /\ script.refresh_token # None
  <2>1. Goto("refresh") /\ script.op # "login"
    BY <1>2 DEF Unauthorized, ClientSound, ScriptSound
  <2>2. QED  BY <1>1, <1>2, <2>1, GotoSound DEF Storing
<1>3. CASE ~(script.allow_refresh /\ script.refresh_token # None)
  <2>1. session.refresh_token \in rotated => session.refresh_token \in unreplaced
    BY <1>1, SessionRefresh DEF Storing
  <2>2. Fail
    BY <1>3 DEF Unauthorized
  <2>3. QED  BY <1>1, <2>1, <2>2, ClientRows, FailSound
<1>4. QED  BY <1>2, <1>3

LEMMA RefreshFailsSound ==
    ASSUME ClientSound, RefreshFails
    PROVE  ClientSound'
<1>1. session.refresh_token \in rotated => session.refresh_token \in unreplaced
  BY SessionRefresh DEF RefreshFails, At, Storing
<1>2. QED  BY <1>1, ClientRows, FailSound DEF RefreshFails, At

(* The token is revoked for nothing, and noted as such. *)
LEMMA RefreshWastedSound ==
    ASSUME ClientSound, RefreshWasted
    PROVE  ClientSound'
<1>1. /\ script.step = "refresh" /\ Fail
      /\ rotated' = rotated \cup {script.refresh_token}
      /\ unreplaced' = unreplaced \cup {script.refresh_token}
      /\ UNCHANGED <<session, issued, applied, login_pair>>
  BY DEF RefreshWasted, At
<1>2. script.refresh_token \in 1 .. issued
  BY <1>1, ClientRows DEF ClientSound, TokensKnown, ScriptSound, At, ScriptRow, None, Pairs
<1>3. session.refresh_token \in rotated => session.refresh_token \in unreplaced
  BY <1>1, SessionRefresh DEF Storing
<1>4. QED  BY <1>1, <1>2, <1>3, ClientRows, FailSound

LEMMA EndsSound ==
    ASSUME ClientSound, EndPage \/ ClearStream \/ PressConnect \/ PressDisconnect
    PROVE  ClientSound'
<1>1. /\ script' = Idle
      /\ UNCHANGED <<session, issued, rotated, unreplaced, applied, login_pair>>
      /\ script.step \notin Storing
  BY DEF EndPage, ClearStream, PressConnect, PressDisconnect, At, Storing
<1>2. session.refresh_token \in rotated => session.refresh_token \in unreplaced
  BY <1>1, SessionRefresh
<1>3. QED  BY <1>1, <1>2, ClientRows, ScriptEnds

(* A rerun anywhere: what it loses is noted. *)
LEMMA InterruptSound ==
    ASSUME ClientSound, Interrupt
    PROVE  ClientSound'
<1>a. script' = Idle /\ UNCHANGED <<session, issued, applied, login_pair>>
  BY DEF Interrupt
<1>1. CASE script.step \notin {"send", "refresh"} \cup Storing
  <2>1. UNCHANGED <<rotated, unreplaced>>
    BY <1>1 DEF Interrupt, Storing
  <2>2. session.refresh_token \in rotated => session.refresh_token \in unreplaced
    BY <1>1, SessionRefresh
  <2>3. QED  BY <1>a, <2>1, <2>2, ClientRows, ScriptEnds
<1>2. CASE script.step \in {"send", "refresh"} \cup Storing
  <2>1. unreplaced' = unreplaced \cup ({session.refresh_token} \cap rotated')
    BY <1>2 DEF Interrupt, Storing
  <2>2. \/ rotated' = rotated
        \/ script.refresh_token # None /\ rotated' = rotated \cup {script.refresh_token}
    BY DEF Interrupt
  <2>3. script.refresh_token # None => script.refresh_token \in 1 .. issued
    BY ClientRows DEF ClientSound, TokensKnown, ScriptRow, None, Pairs
  <2>4. rotated \subseteq rotated' /\ rotated' \subseteq 1 .. issued
    BY <2>2, <2>3, ClientRows
  <2>5. QED  BY <1>a, <2>1, <2>4, ClientRows, ScriptEnds
<1>3. QED  BY <1>1, <1>2

(* A new pair: the greatest, so that nobody has exchanged it. *)
LEMMA NewPairSound ==
    ASSUME ClientSound, LoginAnswered \/ Refreshed
    PROVE  ClientSound'
<1>a. /\ session \in SessionRow /\ script \in ScriptRow
      /\ issued \in 0 .. MaxPairs /\ MaxPairs \in Nat \ {0}
      /\ rotated \subseteq 1 .. issued /\ unreplaced \subseteq rotated
      /\ applied \in 0 .. 1 /\ login_pair \in 0 .. issued
  BY ClientRows
<1>1. /\ issued < MaxPairs /\ issued' = issued + 1
      /\ UNCHANGED <<session, unreplaced, login_pair>>
      /\ applied = 0
  BY DEF LoginAnswered, Refreshed, At, ClientSound, AppliedSound
<1>2. /\ script' \in ScriptRow /\ script'.step = "store_access"
      /\ script'.token = issued' /\ script'.refresh_token = issued'
      /\ script'.op = script.op
      /\ script'.op = "login" => ~script'.allow_refresh
      /\ script.op # "none"
      /\ script.op = "login" => ~is_authenticated
  <2>1. PICK b \in BOOLEAN :
            /\ script' = [script EXCEPT !.step = "store_access", !.token = issued',
                                        !.refresh_token = issued', !.allow_refresh = b]
            /\ script.op = "login" => ~b
            /\ script.step \in {"send", "refresh"}
    <3>1. CASE LoginAnswered
      <4>1. /\ script.allow_refresh = FALSE /\ script.step = "send"
            /\ script' = [script EXCEPT !.step = "store_access", !.token = issued',
                                        !.refresh_token = issued']
        BY <1>a, <3>1 DEF LoginAnswered, ClientSound, ScriptSound, ScriptRow, At
      <4>2. script' = [script EXCEPT !.step = "store_access", !.token = issued',
                                     !.refresh_token = issued', !.allow_refresh = FALSE]
        BY <1>a, <4>1 DEF ScriptRow
      <4>3. QED  BY <4>1, <4>2
    <3>2. CASE Refreshed
      BY <3>2 DEF Refreshed, At
    <3>3. QED  BY <3>1, <3>2
  <2>2. issued' \in Pairs \cup {None}
    BY <1>a, <1>1 DEF Pairs
  <2>3. script.op # "none" /\ (script.op = "login" => ~is_authenticated)
    BY <2>1 DEF ClientSound, ScriptSound, At
  <2>4. QED  BY <1>a, <2>1, <2>2, <2>3 DEF ScriptRow
<1>3. /\ rotated' \subseteq 1 .. issued /\ rotated \subseteq rotated'
      /\ applied' \in 0 .. 1
      /\ script.op # "login" => applied' = 0
  BY <1>a, <1>1
     DEF LoginAnswered, Refreshed, At, ClientSound, TokensKnown, ScriptSound, ScriptRow,
         Pairs, None
<1>4. ClientTypeOK'
  BY <1>a, <1>1, <1>2, <1>3 DEF ClientTypeOK, ScriptRow, SessionRow
<1>5. TokensKnown'
  BY <1>a, <1>1, <1>2 DEF ClientSound, TokensKnown, SessionRow, Pairs, None
<1>6. ScriptSound'
  BY <1>a, <1>1, <1>2, <1>3 DEF ScriptSound, At, Storing, Clearing, is_authenticated, None
<1>7. AppliedSound'
  BY <1>2, <1>3 DEF AppliedSound, Storing
<1>8. RetryIsSound'
  BY <1>2, <1>3 DEF RetryIsSound
<1>9. QED  BY <1>4, <1>5, <1>6, <1>7, <1>8 DEF ClientSound

LEMMA StoreAccessSound ==
    ASSUME ClientSound, StoreAccess
    PROVE  ClientSound'
<1>a. /\ session \in SessionRow /\ script \in ScriptRow
      /\ issued \in 0 .. MaxPairs /\ MaxPairs \in Nat \ {0}
      /\ rotated \subseteq 1 .. issued /\ unreplaced \subseteq rotated
      /\ applied \in 0 .. 1 /\ login_pair \in 0 .. issued
  BY ClientRows
<1>1. /\ script.step = "store_access" /\ script.token = issued
      /\ script.refresh_token = issued /\ issued # None /\ issued \notin rotated
      /\ session' = [session EXCEPT !.access_token = issued]
      /\ login_pair' = IF script.op = "login" THEN issued ELSE login_pair
      /\ script' = [script EXCEPT !.step = "store_refresh"]
      /\ UNCHANGED <<issued, rotated, unreplaced, applied>>
  BY DEF StoreAccess, At, Goto, ClientSound, ScriptSound, Storing
<1>2. /\ script' \in ScriptRow /\ script'.step = "store_refresh" /\ script'.op = script.op
      /\ script'.token = issued /\ script'.refresh_token = issued
      /\ script'.allow_refresh = script.allow_refresh
  BY <1>a, <1>1 DEF ScriptRow
<1>3. /\ session' \in SessionRow /\ session'.access_token = issued
      /\ session'.refresh_token = session.refresh_token
  BY <1>a, <1>1 DEF SessionRow, Pairs, None
<1>4. ClientTypeOK'
  BY <1>a, <1>1, <1>2, <1>3 DEF ClientTypeOK, ScriptRow, SessionRow
<1>5. TokensKnown'
  BY <1>a, <1>1, <1>2, <1>3 DEF ClientSound, TokensKnown
<1>6. ScriptSound'
  BY <1>1, <1>2 DEF ClientSound, ScriptSound, At, Storing, Clearing
<1>7. AppliedSound'
  BY <1>1, <1>2 DEF ClientSound, AppliedSound, Storing
<1>8. RetryIsSound'
  BY <1>a, <1>1, <1>2 DEF RetryIsSound
<1>9. QED  BY <1>4, <1>5, <1>6, <1>7, <1>8 DEF ClientSound

(* The session has the new refresh token, which is live. *)
LEMMA StoreRefreshSound ==
    ASSUME ClientSound, StoreRefresh
    PROVE  ClientSound'
<1>a. /\ session \in SessionRow /\ script \in ScriptRow
      /\ issued \in 0 .. MaxPairs /\ MaxPairs \in Nat \ {0}
      /\ rotated \subseteq 1 .. issued /\ unreplaced \subseteq rotated
      /\ applied \in 0 .. 1 /\ login_pair \in 0 .. issued
  BY ClientRows
<1>1. /\ script.step = "store_refresh" /\ script.token = issued
      /\ script.refresh_token = issued /\ issued # None /\ issued \notin rotated
      /\ session' = [session EXCEPT !.refresh_token = issued]
      /\ UNCHANGED <<issued, rotated, unreplaced, login_pair>>
      /\ script.op # "none"
  BY DEF StoreRefresh, At, ClientSound, ScriptSound, Storing
<1>2. /\ script' \in ScriptRow /\ script'.step = "send"
      /\ script'.op \notin {"login", "none"}
      /\ script'.token = issued /\ script'.refresh_token \in {issued, None}
      /\ applied' = 0
  <2>1. CASE script.op = "login"
    <3>1. script' = [script EXCEPT !.op = "me", !.step = "send", !.refresh_token = None]
          /\ applied' = 0
      BY <2>1 DEF StoreRefresh, AfterStore
    <3>2. QED  BY <1>a, <1>1, <3>1 DEF ScriptRow
  <2>2. CASE script.op # "login"
    <3>1. script' = [script EXCEPT !.step = "send"] /\ applied' = applied /\ applied = 0
      BY <1>1, <2>2 DEF StoreRefresh, AfterStore, Goto, ClientSound, AppliedSound, Storing
    <3>2. QED  BY <1>a, <1>1, <2>2, <3>1 DEF ScriptRow
  <2>3. QED  BY <2>1, <2>2
<1>3. /\ session' \in SessionRow /\ session'.refresh_token = issued
      /\ session'.access_token = session.access_token
  BY <1>a, <1>1 DEF SessionRow, Pairs, None
<1>4. ClientTypeOK'
  BY <1>a, <1>1, <1>2, <1>3 DEF ClientTypeOK, ScriptRow, SessionRow
<1>5. TokensKnown'
  BY <1>a, <1>1, <1>2, <1>3 DEF ClientSound, TokensKnown, None
<1>6. ScriptSound'
  BY <1>2 DEF ScriptSound, At, Storing, Clearing
<1>7. AppliedSound'
  BY <1>2 DEF AppliedSound, Storing
<1>8. RetryIsSound'
  BY <1>1, <1>2, <1>3 DEF RetryIsSound
<1>9. QED  BY <1>4, <1>5, <1>6, <1>7, <1>8 DEF ClientSound

(* The session's keys change, but for a new token. *)
LEMMA SessionChanges ==
    ASSUME ClientSound, script.step \notin Storing,
           session' \in SessionRow,
           session'.access_token \in {session.access_token, None},
           session'.refresh_token \in {session.refresh_token, None},
           script' \in ScriptRow, script'.token <= issued, script'.refresh_token <= issued,
           \/ script'.op = "none" /\ script'.step = "idle"
           \/ script'.op = "logout" /\ script'.step \in Clearing,
           UNCHANGED <<issued, rotated, unreplaced, applied, login_pair>>
    PROVE  ClientSound'
<1>a. /\ issued \in 0 .. MaxPairs /\ MaxPairs \in Nat \ {0}
      /\ rotated \subseteq 1 .. issued /\ unreplaced \subseteq rotated
      /\ applied \in 0 .. 1 /\ login_pair \in 0 .. issued
  BY ClientRows
<1>1. ClientTypeOK'
  BY <1>a DEF ClientTypeOK, ScriptRow, SessionRow
<1>2. TokensKnown'
  BY <1>a DEF ClientSound, TokensKnown, None
<1>3. ScriptSound' /\ AppliedSound'
  BY DEF ScriptSound, AppliedSound, At, Storing, Clearing
<1>4. RetryIsSound'
  <2>1. session'.refresh_token \in rotated => session'.refresh_token \in unreplaced
    BY <1>a, SessionRefresh DEF None
  <2>2. QED  BY <1>a, <2>1 DEF RetryIsSound
<1>5. QED  BY <1>1, <1>2, <1>3, <1>4 DEF ClientSound

LEMMA StoreUserSound ==
    ASSUME ClientSound, StoreUser
    PROVE  ClientSound'
<1>1. /\ session' \in SessionRow
      /\ session'.access_token = session.access_token
      /\ session'.refresh_token = session.refresh_token
  BY ClientRows DEF StoreUser, SessionRow
<1>2. /\ script' = Idle /\ Idle.token = 0 /\ Idle.refresh_token = 0
      /\ Idle.op = "none" /\ Idle.step = "idle" /\ 0 <= issued
  BY ClientRows DEF StoreUser, Idle, None
<1>3. QED  BY <1>1, <1>2, IdleRow, SessionChanges DEF StoreUser, At, Storing

LEMMA ClearKeysSound ==
    ASSUME ClientSound, ClearKeys
    PROVE  ClientSound'
<1>1. PICK key \in {"access_token", "refresh_token", "user"}, value \in {None, FALSE},
           step \in Clearing, next \in Clearing :
           /\ Clear(key, value, step, next)
           /\ value = IF key = "user" THEN FALSE ELSE None
  BY DEF ClearKeys, Clearing
<1>2. /\ script.step \in Clearing
      /\ session' = [session EXCEPT ![key] = value]
      /\ script' = [script EXCEPT !.step = next]
      /\ UNCHANGED <<issued, rotated, unreplaced, applied, login_pair>>
  BY <1>1 DEF Clear, At, Goto
<1>3. script.op = "logout" /\ script.step \notin Storing
  BY <1>2 DEF ClientSound, ScriptSound, Clearing, Storing
<1>4. /\ session' \in SessionRow
      /\ session'.access_token \in {session.access_token, None}
      /\ session'.refresh_token \in {session.refresh_token, None}
  BY <1>1, <1>2, ClientRows DEF SessionRow
<1>5. /\ script' \in ScriptRow /\ script'.token = script.token
      /\ script'.refresh_token = script.refresh_token
      /\ script'.op = "logout" /\ script'.step \in Clearing
  BY <1>2, <1>3, ClientRows DEF ScriptRow, Clearing
<1>6. script.token <= issued /\ script.refresh_token <= issued
  BY DEF ClientSound, TokensKnown
<1>7. QED  BY <1>2, <1>3, <1>4, <1>5, <1>6, SessionChanges

LEMMA ClientStepSound ==
    ASSUME ClientSound, ClientStep
    PROVE  ClientSound'
<1>1. CASE OpenPage
  BY <1>1, StartSound DEF OpenPage
<1>2. QED
  BY <1>1, LoginSound, CallSound, EndsSound, InterruptSound, NewPairSound, AnsweredSound,
     RaisesSound, UnauthorizedSound, RefreshWastedSound, RefreshFailsSound, StoreAccessSound,
     StoreRefreshSound, StoreUserSound, ClearKeysSound DEF ClientStep
-------------------------------------------------------------------------------
(* The stream's part. *)

Places == {"none", "loop", "connect", "check", "recv", "wait", "ended"}

StreamTypeOK ==
    /\ created \in 0 .. MaxStreams
    /\ current \in 0 .. created
    /\ url \in [Streams -> 0 .. issued]
    /\ connected \in [Streams -> BOOLEAN]
    /\ stop_event \in [Streams -> BOOLEAN]
    /\ thread \in [Streams -> Places]
    /\ At("controls") => current # None

LEMMA SoundParts == SessionSound <=> StreamTypeOK /\ ClientSound /\ StreamSound
BY DEF SessionSound, ClientSound, TypeOK, StreamTypeOK, Places

LEMMA NextSound == ClientSound' /\ StreamTypeOK' /\ StreamSound' => SessionSound'
BY DEF SessionSound, ClientSound, TypeOK, StreamTypeOK, Places

LEMMA StreamRows ==
    ASSUME SessionSound
    PROVE  /\ created \in 0 .. MaxStreams /\ current \in 0 .. created
           /\ MaxStreams \in Nat \ {0} /\ issued \in Nat
           /\ current # None => current \in Streams
           /\ url \in [Streams -> 0 .. issued] /\ connected \in [Streams -> BOOLEAN]
           /\ stop_event \in [Streams -> BOOLEAN] /\ thread \in [Streams -> Places]
           /\ session \in SessionRow /\ script \in ScriptRow
           /\ session.access_token \in 0 .. issued
<1>1. session.access_token \in 0 .. issued /\ issued \in Nat
  BY SoundParts, ClientRows DEF ClientSound, TokensKnown, SessionRow, Pairs, None
<1>2. QED
  BY <1>1, SoundParts, ClientRows, StreamAssumption DEF StreamTypeOK, Streams, None

(* What a step of the client leaves to the streams: it does not begin the  *)
(* buttons of the page, logs nobody out but in a logout, and logs in only  *)
(* where nobody is.                                                        *)
LEMMA ClientStepKeeps ==
    ASSUME ClientSound, ClientStep
    PROVE  /\ issued' \in Nat /\ issued <= issued'
           /\ script'.step # "controls"
           /\ is_authenticated /\ script.op # "logout"
                 => is_authenticated' /\ script'.op # "logout" /\ login_pair' = login_pair
<1>a. /\ session \in SessionRow /\ script \in ScriptRow
      /\ issued \in 0 .. MaxPairs /\ MaxPairs \in Nat \ {0}
  BY ClientRows
<1>b. Idle.step = "idle" /\ Idle.op = "none"
  BY DEF Idle
<1>1. CASE Login
  <2>1. script'.step = "send" /\ issued' = issued /\ ~is_authenticated
    BY <1>1 DEF Login, Idle
  <2>2. QED  BY <1>a, <2>1
<1>2. CASE OpenPage
  BY <1>a, <1>2 DEF OpenPage, Start, is_authenticated
<1>3. CASE Call
  BY <1>a, <1>3 DEF Call, is_authenticated, ScriptRow
<1>4. CASE EndPage \/ Interrupt
  BY <1>a, <1>b, <1>4 DEF EndPage, Interrupt, is_authenticated
<1>5. CASE LoginAnswered
  <2>1. /\ issued' = issued + 1 /\ script'.step = "store_access" /\ ~is_authenticated
    BY <1>a, <1>5 DEF LoginAnswered, ClientSound, ScriptSound, At, Storing, ScriptRow
  <2>2. QED  BY <1>a, <2>1
<1>6. CASE Answered
  <2>1. script'.step \in {"store_user", "ready", "clear_access", "idle"} /\ script'.op = script.op
    BY <1>a, <1>6 DEF Answered, AfterCall, Goto, ScriptRow
  <2>2. QED  BY <1>a, <1>6, <2>1 DEF Answered, is_authenticated
<1>7. CASE Fail /\ UNCHANGED <<session, issued, login_pair>>
  <2>1. script'.step \in {"ready", "clear_access", "idle"} /\ script'.op \in {script.op, "none"}
    BY <1>a, <1>b, <1>7 DEF Fail, AfterCall, ScriptRow
  <2>2. QED  BY <1>a, <1>7, <2>1 DEF is_authenticated
<1>8. CASE Raises \/ RefreshWasted \/ RefreshFails
  BY <1>7, <1>8 DEF Raises, RefreshWasted, RefreshFails
<1>9. CASE Unauthorized
  <2>1. CASE Goto("refresh")
    BY <1>a, <1>9, <2>1 DEF Unauthorized, Goto, is_authenticated, ScriptRow
  <2>2. QED  BY <1>7, <1>9, <2>1 DEF Unauthorized
<1>10. CASE Refreshed
  BY <1>a, <1>10 DEF Refreshed, is_authenticated, ScriptRow
<1>11. CASE StoreAccess
  <2>1. /\ script.token # None /\ script.token \in Pairs
        /\ script.op = "login" => ~is_authenticated
    BY <1>a, <1>11 DEF StoreAccess, ClientSound, ScriptSound, At, Storing, ScriptRow, Pairs, None
  <2>2. /\ session'.access_token = script.token /\ session'.user = session.user
        /\ script'.step = "store_refresh" /\ script'.op = script.op /\ issued' = issued
        /\ login_pair' = IF script.op = "login" THEN script.token ELSE login_pair
    BY <1>a, <1>11 DEF StoreAccess, Goto, ScriptRow, SessionRow
  <2>3. QED  BY <1>a, <2>1, <2>2 DEF is_authenticated
<1>12. CASE StoreRefresh
  <2>1. /\ session'.access_token = session.access_token /\ session'.user = session.user
        /\ issued' = issued /\ login_pair' = login_pair
    BY <1>a, <1>12 DEF StoreRefresh, SessionRow
  <2>2. script'.step = "send" /\ script'.op \in {script.op, "me"}
    BY <1>a, <1>12 DEF StoreRefresh, AfterStore, Goto, ScriptRow
  <2>3. QED  BY <1>a, <2>1, <2>2 DEF is_authenticated
<1>13. CASE StoreUser
  <2>1. /\ session'.access_token = session.access_token /\ session'.user = TRUE
        /\ issued' = issued /\ login_pair' = login_pair /\ script' = Idle
    BY <1>a, <1>13 DEF StoreUser, SessionRow
  <2>2. QED  BY <1>a, <1>b, <2>1 DEF is_authenticated
<1>14. CASE ClearKeys
  <2>1. /\ issued' = issued /\ script.step \in Clearing
        /\ script'.step \in {"clear_refresh", "clear_user", "clear_stream"}
    BY <1>a, <1>14 DEF ClearKeys, Clear, At, Goto, Clearing, ScriptRow
  <2>2. script.op = "logout"
    BY <2>1 DEF ClientSound, ScriptSound
  <2>3. QED  BY <1>a, <2>1, <2>2
<1>15. QED
  BY <1>1, <1>2, <1>3, <1>4, <1>5, <1>6, <1>8, <1>9, <1>10, <1>11, <1>12, <1>13, <1>14
     DEF ClientStep

LEMMA ClientStepStreams ==
    ASSUME SessionSound, ClientStep, UNCHANGED streamVars
    PROVE  SessionSound'
<1>a. ClientSound /\ ClientSound'
  BY SoundParts, ClientStepSound
<1>b. UNCHANGED <<current, created, url, connected, stop_event, thread>>
  BY DEF streamVars
<1>1. /\ issued' \in Nat /\ issued <= issued' /\ script'.step # "controls"
      /\ is_authenticated /\ script.op # "logout"
            => is_authenticated' /\ script'.op # "logout" /\ login_pair' = login_pair
  BY <1>a, ClientStepKeeps
<1>2. StreamTypeOK'
  <2>1. url \in [Streams -> 0 .. issued']
    BY <1>1, StreamRows
  <2>2. QED  BY <1>b, <1>1, <2>1, StreamRows DEF StreamTypeOK, At
<1>3. StreamSound'
  <2>1. CASE is_authenticated /\ script.op # "logout"
    BY <1>b, <1>1, <2>1, SoundParts DEF StreamSound, StreamOfThisLogin, running, Live, At
  <2>2. CASE ~is_authenticated \/ script.op = "logout"
    BY <1>b, <1>1, <2>2, SoundParts DEF StreamSound, StreamOfThisLogin, running, Live, At
  <2>3. QED  BY <2>1, <2>2
<1>4. QED  BY <1>a, <1>2, <1>3, NextSound

(* The url the page gives to its stream is of the present login.  A live   *)
(* stream is the session's, so that none is left behind by a new one.      *)
LEMMA OpenRealtimeSound ==
    ASSUME SessionSound, OpenRealtime
    PROVE  SessionSound'
<1>1. ClientSound'
  BY SoundParts, StartSound DEF OpenRealtime
<1>2. /\ is_authenticated /\ script'.step = "controls" /\ script'.op = "page"
      /\ url' = [url EXCEPT ![current'] = session.access_token]
      /\ UNCHANGED <<session, issued, login_pair, connected, stop_event, thread>>
  BY DEF OpenRealtime, Start
<1>3. /\ created' \in 0 .. MaxStreams /\ current' \in 1 .. created'
      /\ current # None => current' = current
  BY StreamRows DEF OpenRealtime, None
<1>4. current' \in Streams
  BY <1>3, StreamRows DEF Streams
<1>5. StreamTypeOK'
  BY <1>2, <1>3, <1>4, StreamRows DEF StreamTypeOK, None
<1>6. session.access_token >= login_pair
  BY <1>2, SoundParts DEF ClientSound, TokensKnown, is_authenticated
<1>7. url'[current'] = session.access_token
  BY <1>2, <1>4, StreamRows
<1>8. ASSUME NEW s \in Streams, Live(s)
      PROVE  s = current' /\ url'[s] >= login_pair
  <2>1. s = current
    BY <1>8, SoundParts DEF StreamSound, StreamOfThisLogin, Live
  <2>2. s = current'
    BY <1>3, <2>1 DEF Streams, None
  <2>3. QED  BY <1>6, <1>7, <2>2
<1>9. StreamSound'
  BY <1>2, <1>7, <1>8, SoundParts
     DEF StreamSound, StreamOfThisLogin, running, Live, is_authenticated
<1>10. QED  BY <1>1, <1>5, <1>9, NextSound

(* What the page does to the thread: it starts the one of the session. *)
LEMMA StartStreamSound ==
    ASSUME SessionSound, At("controls"), StartStream(current), ClientSound',
           script'.step # "controls", script'.op # "logout",
           UNCHANGED <<session, issued, login_pair, current, created, url, connected>>
    PROVE  SessionSound'
<1>1. current \in Streams
  BY StreamRows, SoundParts DEF StreamTypeOK
<1>2. /\ stop_event' \in [Streams -> BOOLEAN] /\ thread' \in [Streams -> Places]
      /\ \A s \in Streams \ {current} :
            stop_event'[s] = stop_event[s] /\ thread'[s] = thread[s]
      /\ running(current) => stop_event' = stop_event /\ thread' = thread
  BY <1>1, StreamRows DEF StartStream, Places
<1>3. StreamTypeOK'
  BY <1>2, StreamRows DEF StreamTypeOK, At
<1>4. is_authenticated /\ url[current] = session.access_token
      /\ session.access_token >= login_pair
  BY SoundParts DEF StreamSound, ClientSound, ScriptSound, TokensKnown, is_authenticated
<1>5. ASSUME NEW s \in Streams \ {current}
      PROVE  ~Live(s)
  BY SoundParts DEF StreamSound, StreamOfThisLogin, Live
<1>6. StreamOfThisLogin'
  BY <1>2, <1>4, <1>5 DEF StreamOfThisLogin, running, Live
<1>7. StreamSound'
  BY <1>4, <1>6 DEF StreamSound, is_authenticated, At
<1>8. QED  BY <1>3, <1>7, NextSound

LEMMA ConnectSound ==
    ASSUME SessionSound, PressConnect \/ ShowRealtime
    PROVE  SessionSound'
<1>1. CASE PressConnect
  <2>1. ClientSound'
    BY <1>1, SoundParts, EndsSound
  <2>2. script'.step = "idle" /\ script'.op = "none"
    BY <1>1 DEF PressConnect, Idle
  <2>3. QED  BY <1>1, <2>1, <2>2, StartStreamSound DEF PressConnect
<1>2. CASE ShowRealtime
  <2>1. script.step = "controls" /\ script.op = "page" /\ ClientSound
    BY <1>2, SoundParts DEF ShowRealtime, At, ClientSound, ScriptSound
  <2>2. ClientSound'
    BY <1>2, <2>1, ClientRows, GotoSound DEF ShowRealtime, Storing
  <2>3. script'.step = "ready" /\ script'.op = "page"
    BY <1>2, <2>1, StreamRows DEF ShowRealtime, Goto, ScriptRow
  <2>4. QED  BY <1>2, <2>2, <2>3, StartStreamSound DEF ShowRealtime
<1>3. QED  BY <1>1, <1>2

(* No stream but the session's is live, and that one is stopped. *)
LEMMA NoneLiveSound ==
    ASSUME SessionSound, ClientSound', script'.step # "controls",
           UNCHANGED <<issued, created, url, thread>>, current' \in {current, None},
           stop_event' \in [Streams -> BOOLEAN], connected' \in [Streams -> BOOLEAN],
           \A s \in Streams : Live(s) => stop_event'[s],
           \A s \in Streams : stop_event[s] => stop_event'[s]
    PROVE  SessionSound'
<1>1. StreamTypeOK'
  BY StreamRows DEF StreamTypeOK, At, None
<1>2. \A s \in Streams : ~(running(s) /\ ~stop_event'[s])
  BY DEF Live
<1>3. StreamSound'
  BY <1>2 DEF StreamSound, StreamOfThisLogin, running, Live, At
<1>4. QED  BY <1>1, <1>3, NextSound

LEMMA StopSound ==
    ASSUME SessionSound, PressDisconnect \/ LogoutStops \/ ClearStream
    PROVE  SessionSound'
<1>1. CASE PressDisconnect \/ LogoutStops
  <2>1. ClientSound'
    BY <1>1, SoundParts, EndsSound, StartSound DEF LogoutStops, Logout
  <2>2. script'.step # "controls" /\ UNCHANGED <<issued, created, url, thread, current>>
    BY <1>1 DEF PressDisconnect, LogoutStops, Logout, Start, Idle
  <2>3. \/ StopStream(current) /\ current \in Streams
        \/ UNCHANGED <<stop_event, connected>> /\ current = None
    BY <1>1, StreamRows, SoundParts DEF PressDisconnect, LogoutStops, StreamTypeOK
  <2>4. /\ stop_event' \in [Streams -> BOOLEAN] /\ connected' \in [Streams -> BOOLEAN]
        /\ \A s \in Streams : stop_event[s] => stop_event'[s]
        /\ current \in Streams => stop_event'[current]
    <3>1. CASE StopStream(current) /\ current \in Streams
      BY <3>1, StreamRows DEF StopStream
    <3>2. CASE UNCHANGED <<stop_event, connected>> /\ current = None
      BY <3>2, StreamRows DEF Streams, None
    <3>3. QED  BY <2>3, <3>1, <3>2
  <2>5. \A s \in Streams : Live(s) => s = current
    BY SoundParts DEF StreamSound, StreamOfThisLogin, Live
  <2>6. QED  BY <2>1, <2>2, <2>4, <2>5, NoneLiveSound
<1>2. CASE ClearStream
  <2>1. ClientSound'
    BY <1>2, SoundParts, EndsSound
  <2>2. script.op = "logout"
    BY <1>2, SoundParts DEF ClearStream, At, ClientSound, ScriptSound, Clearing
  <2>3. \A s \in Streams : ~Live(s)
    BY <2>2, SoundParts DEF StreamSound
  <2>4. QED  BY <1>2, <2>1, <2>3, StreamRows, NoneLiveSound DEF ClearStream, Idle
<1>3. QED  BY <1>1, <1>2

(* A thread starts nothing: a stream that is not live does not become so. *)
LEMMA RunThreadSound ==
    ASSUME SessionSound, NEW s \in Streams, RunThread(s)
    PROVE  SessionSound'
<1>1. /\ UNCHANGED <<clientVars, current, created, url, stop_event>>
      /\ running(s)
      /\ \E place \in Places : thread' = [thread EXCEPT ![s] = place]
      /\ \/ UNCHANGED connected
         \/ \E b \in BOOLEAN : connected' = [connected EXCEPT ![s] = b]
  BY DEF RunThread, OuterLoop, ConnectOk, InnerLoop, Receive, SocketRaises, WaitEnds, Unmoved,
         Finish, MoveTo, Connected, running, Places
<1>2. UNCHANGED <<session, script, issued, rotated, unreplaced, applied, login_pair>>
  BY <1>1 DEF clientVars
<1>3. ClientSound'
  BY <1>2, SoundParts
     DEF ClientSound, ClientTypeOK, TokensKnown, ScriptSound, AppliedSound, RetryIsSound, At,
         is_authenticated
<1>4. connected' \in [Streams -> BOOLEAN] /\ thread' \in [Streams -> Places]
  BY <1>1, StreamRows
<1>5. StreamTypeOK'
  BY <1>1, <1>2, <1>4, StreamRows, SoundParts DEF StreamTypeOK, At
<1>6. \A t \in Streams : running(t)' => running(t)
  BY <1>1, StreamRows DEF running
<1>7. StreamSound'
  BY <1>1, <1>2, <1>6, SoundParts
     DEF StreamSound, StreamOfThisLogin, Live, is_authenticated, At
<1>8. QED  BY <1>3, <1>5, <1>7, NextSound
-------------------------------------------------------------------------------
LEMMA SessionInit == Init => SessionSound
<1> SUFFICES ASSUME Init PROVE SessionSound
  OBVIOUS
<1>1. ClientSound
  BY PairAssumption
     DEF Init, ClientInit, Idle, ClientSound, ClientTypeOK, TokensKnown, ScriptSound, At,
         AppliedSound, RetryIsSound, Storing, Clearing, None, Pairs
<1>2. StreamTypeOK
  BY StreamAssumption DEF Init, ClientInit, Idle, StreamTypeOK, At, Places, None
<1>3. StreamSound
  BY DEF Init, ClientInit, Idle, StreamSound, StreamOfThisLogin, Live, running, At
<1>4. QED  BY <1>1, <1>2, <1>3, SoundParts

LEMMA SessionStep == SessionSound /\ [Next]_vars => SessionSound'
<1> SUFFICES ASSUME SessionSound, [Next]_vars PROVE SessionSound'
  OBVIOUS
<1>1. CASE Next
  BY <1>1, ClientStepStreams, OpenRealtimeSound, ConnectSound, StopSound, RunThreadSound DEF Next
<1>2. CASE UNCHANGED vars
  BY <1>2
     DEF SessionSound, TypeOK, ClientSound, ClientTypeOK, TokensKnown, ScriptSound, AppliedSound,
         RetryIsSound, StreamSound, StreamOfThisLogin, Live, running, At, is_authenticated,
         vars, clientVars, streamVars
<1>3. QED  BY <1>1, <1>2

(* What the session, the script and the streams agree on at all times. *)
THEOREM SessionInvariant == Spec => []SessionSound
BY SessionInit, SessionStep, PTL DEF Spec

(* The variables of APIClient, of the session and of MetricStream take     *)
(* their values, and the buttons are shown for a stream that exists.       *)
THEOREM TypeCorrect == Spec => []TypeOK
<1>1. SessionSound => TypeOK
  BY DEF SessionSound
<1>2. QED  BY <1>1, SessionInvariant, PTL

(* The second attempt of _request() does not carry a call out twice; and a *)
(* revoked refresh token stays in the session only if the server answered  *)
(* no pair for it that came through, or a rerun struck first.              *)
THEOREM RetriesSound == Spec => []RetryIsSound
<1>1. SessionSound => RetryIsSound
  BY DEF SessionSound, ClientSound
<1>2. QED  BY <1>1, SessionInvariant, PTL

(* A thread that has not been told to stop is the session's own, and its   *)
(* url is of the present login, wherever an earlier logout broke off.      *)
THEOREM StreamsOfThisLogin == Spec => []StreamOfThisLogin
<1>1. SessionSound => StreamOfThisLogin
  BY DEF SessionSound, StreamSound
<1>2. QED  BY <1>1, SessionInvariant, PTL
===============================================================================
