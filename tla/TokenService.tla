----------------------------- MODULE TokenService -----------------------------
(***************************************************************************)
(* The tokens of one account: login, rotation, logout and the check of an  *)
(* access token (backend/app/api/v1/auth.py, api/deps.py and               *)
(* services/token_service.py), for requests that run concurrently.         *)
(*                                                                         *)
(* A request suspends at its database calls.  MariaDB runs its transaction *)
(* at REPEATABLE READ: every SELECT before a commit sees the state the     *)
(* first one saw, and the unique index on revoked_tokens.jti decides       *)
(* between two concurrent inserts.                                         *)
(***************************************************************************)
EXTENDS Integers, FiniteSets

CONSTANTS
    Requests,   \* requests that may be under way at once
    MaxPairs,   \* bound: token pairs issued in a behaviour
    MaxExpired  \* bound: tokens that expire in a behaviour

ASSUME BoundAssumption == MaxPairs \in Nat \ {0} /\ MaxExpired \in Nat

Kinds  == {"access", "refresh"}
Tokens == Kinds \X (1 .. MaxPairs)

VARIABLES
    is_active,  \* the account exists and is active, as committed
    issued,     \* the pairs 1 .. issued of an access and a refresh token exist
    expired,    \* tokens whose exp has passed
    revoked,    \* jti column of revoked_tokens, as committed
    req,        \* the requests under way
    exchanges   \* history: requests that exchanged each pair's refresh token,
                \* apart for those that recorded the exchange and those that
                \* found the token expired by then

vars == <<is_active, issued, expired, revoked, req, exchanges>>

(* A request: its endpoint, its token, the next step, whether the snapshot *)
(* of a refresh has an active account, and whether its token had expired   *)
(* when it was to be revoked; and, as history, the step at which another   *)
(* request had revoked or revoked the token, and whether the account has   *)
(* been active since the request came.                                     *)
Idle == [op |-> "none", token |-> <<"access", 1>>, step |-> "idle", saw |-> FALSE,
         late |-> FALSE, revokedAt |-> "never", wasActive |-> FALSE]

Init ==
    /\ is_active = TRUE
    /\ issued = 0
    /\ expired = {}
    /\ revoked = {}
    /\ req = [q \in Requests |-> Idle]
    /\ exchanges = [p \in 1 .. MaxPairs |-> [recorded |-> 0, unrecorded |-> 0]]

Step(q) == req[q].step
End(q)  == req' = [req EXCEPT ![q] = Idle]

Start(q, op, token, step) ==
    /\ Step(q) = "idle"
    /\ req' = [req EXCEPT ![q] =
                 [op |-> op, token |-> token, step |-> step, saw |-> FALSE,
                  late |-> FALSE,
                  revokedAt |-> IF op # "login" /\ token \in revoked THEN step ELSE "never",
                  wasActive |-> is_active]]
    /\ UNCHANGED <<is_active, issued, expired, revoked, exchanges>>

(* The steps at which a revocation still counts: the token is about to be  *)
(* checked, or to be revoked by the request itself.                        *)
Watched == {"check_refresh", "check_access", "revoke"}

(* The token of q is revoked while others that carry it are under way. *)
Overtaken(r, token) ==
    IF r.token = token /\ r.step \in Watched
    THEN [r EXCEPT !.revokedAt = r.step] ELSE r

(* The insert of q's token commits, and q goes on as row. *)
Record(q, row) ==
    /\ revoked' = revoked \cup {req[q].token}
    /\ req' = [p \in Requests |-> IF p = q THEN row ELSE Overtaken(req[p], req[q].token)]

(* _issue_token(): a new pair. *)
Issue ==
    /\ issued < MaxPairs
    /\ issued' = issued + 1
-------------------------------------------------------------------------------
(* login(). *)

Login(q) == Start(q, "login", <<"access", 1>>, "authenticate")

(* The password was right; the account is read once, and then the log is   *)
(* written before the tokens are issued.                                   *)
Authenticate(q) ==
    /\ Step(q) = "authenticate"
    /\ IF is_active
       THEN req' = [req EXCEPT ![q].step = "issue"]
       ELSE End(q)
    /\ UNCHANGED <<is_active, issued, expired, revoked, exchanges>>

LoginIssues(q) ==
    /\ Step(q) = "issue"
    /\ Issue
    /\ End(q)
    /\ UNCHANGED <<is_active, expired, revoked, exchanges>>
-------------------------------------------------------------------------------
(* refresh_token(). *)

Decodes(token, kind) ==
    token[1] = kind /\ token[2] <= issued /\ token \notin expired

Refresh(q, token) ==
    /\ Decodes(token, "refresh")
    /\ Start(q, "refresh", token, "check_refresh")

(* Mutant of CheckRefresh: a revoked token is not noticed. *)
CheckRefreshBlind(q) ==
    /\ Step(q) = "check_refresh"
    /\ req' = [req EXCEPT ![q].step = "revoke", ![q].saw = is_active]
    /\ UNCHANGED <<is_active, issued, expired, revoked, exchanges>>

(* Mutant of CheckRefresh: the comparison with the clock is the wrong way   *)
(* round, so that live tokens are not recorded.                            *)
CheckRefreshBackwards(q) ==
    /\ Step(q) = "check_refresh"
    /\ IF req[q].token \in revoked
       THEN End(q)
       ELSE req' = [req EXCEPT ![q].step = "load_user", ![q].saw = is_active,
                               ![q].late = req[q].token \notin expired]
    /\ UNCHANGED <<is_active, issued, expired, revoked, exchanges>>

(* is_revoked(), and the head of revoke(): a token that has expired since  *)
(* it was decoded is not recorded, and the request goes straight on.       *)
CheckRefresh(q) ==
    /\ Step(q) = "check_refresh"
    /\ IF req[q].token \in revoked
       THEN End(q)
       ELSE IF req[q].token \in expired
       THEN req' = [req EXCEPT ![q].step = "load_user", ![q].late = TRUE,
                               ![q].saw = is_active]
       ELSE req' = [req EXCEPT ![q].step = "revoke", ![q].saw = is_active]
    /\ UNCHANGED <<is_active, issued, expired, revoked, exchanges>>

(* Mutant of Revoke: the jti column is not unique. *)
RevokeDuplicates(q) ==
    /\ Step(q) = "revoke"
    /\ Record(q, IF req[q].op = "refresh" THEN [req[q] EXCEPT !.step = "load_user"] ELSE Idle)
    /\ UNCHANGED <<is_active, issued, expired, exchanges>>

(* Mutant of Revoke: another claim of the token is stored as its jti. *)
RevokeByType(q) ==
    /\ Step(q) = "revoke"
    /\ revoked' = revoked \cup {<<"type", req[q].token[2]>>}
    /\ End(q)
    /\ UNCHANGED <<is_active, issued, expired, exchanges>>

(* revoke() of a refresh or a logout.  Its second is_revoked() reads the   *)
(* snapshot of the first, so it is the unique index that notices a         *)
(* concurrent insert: the commit raises and the request ends with 500.     *)
Revoke(q) ==
    /\ Step(q) = "revoke"
    /\ IF req[q].token \in revoked
       THEN End(q) /\ UNCHANGED revoked
       ELSE Record(q, IF req[q].op = "refresh"
                      THEN [req[q] EXCEPT !.step = "load_user"]
                      ELSE Idle)
    /\ UNCHANGED <<is_active, issued, expired, exchanges>>

(* Mutant of LoadUser: the pair is issued whatever becomes of the account. *)
LoadUserUnchecked(q) ==
    /\ Step(q) = "load_user"
    /\ Issue
    /\ End(q)
    /\ UNCHANGED <<is_active, expired, revoked, exchanges>>

(* The account is read: by a new transaction after the commit of revoke(), *)
(* in the old one if nothing was committed.  Then a new pair is issued, or *)
(* 401 is answered although the old token is revoked.                      *)
LoadUser(q) ==
    /\ Step(q) = "load_user"
    /\ LET r    == req[q]
           sees == IF r.late THEN r.saw ELSE is_active
       IN  IF sees
           THEN /\ Issue
                /\ exchanges' =
                     IF r.late
                     THEN [exchanges EXCEPT ![r.token[2]].unrecorded = @ + 1]
                     ELSE [exchanges EXCEPT ![r.token[2]].recorded = @ + 1]
           ELSE UNCHANGED <<issued, exchanges>>
    /\ End(q)
    /\ UNCHANGED <<is_active, expired, revoked>>
-------------------------------------------------------------------------------
(* _resolve_user() for a request that uses an access token, and logout().  *)

Use(q, op, token) ==
    /\ op \in {"call", "logout"}
    /\ Decodes(token, "access")
    /\ Start(q, op, token, "check_access")

(* Mutant of CheckAccess: is_active is not looked at. *)
CheckAccessOnly(q) ==
    /\ Step(q) = "check_access"
    /\ IF req[q].token \in revoked
       THEN End(q)
       ELSE req' = [req EXCEPT ![q].step = "granted"]
    /\ UNCHANGED <<is_active, issued, expired, revoked, exchanges>>

(* Both SELECTs of _resolve_user() see one snapshot. *)
CheckAccess(q) ==
    /\ Step(q) = "check_access"
    /\ IF req[q].token \in revoked \/ ~is_active
       THEN End(q)
       ELSE req' = [req EXCEPT ![q].step = "granted"]
    /\ UNCHANGED <<is_active, issued, expired, revoked, exchanges>>

(* The handler of an ordinary call runs and answers. *)
Answer(q) ==
    /\ Step(q) = "granted" /\ req[q].op = "call"
    /\ End(q)
    /\ UNCHANGED <<is_active, issued, expired, revoked, exchanges>>

(* logout() decodes the token again, which raises if it expired meanwhile. *)
LogoutDecodes(q) ==
    /\ Step(q) = "granted" /\ req[q].op = "logout"
    /\ IF req[q].token \in expired
       THEN End(q)
       ELSE req' = [req EXCEPT ![q].step = "revoke"]
    /\ UNCHANGED <<is_active, issued, expired, revoked, exchanges>>
-------------------------------------------------------------------------------
(* A request dies: its process crashes, or a database call raises.  A      *)
(* commit that was under way may have been applied.                        *)
Abort(q) ==
    /\ Step(q) # "idle"
    /\ \/ End(q) /\ UNCHANGED revoked
       \/ Step(q) = "revoke" /\ req[q].token \notin revoked /\ Record(q, Idle)
    /\ UNCHANGED <<is_active, issued, expired, exchanges>>

Expire(token) ==
    /\ token[2] <= issued
    /\ token \notin expired
    /\ Cardinality(expired) < MaxExpired
    /\ expired' = expired \cup {token}
    /\ UNCHANGED <<is_active, issued, revoked, req, exchanges>>

(* An administrator's PATCH /users/{id}/role commits. *)
SetActive(b) ==
    /\ is_active # b
    /\ is_active' = b
    /\ req' = [q \in Requests |-> IF Step(q) = "idle" THEN req[q]
                 ELSE [req[q] EXCEPT !.wasActive = @ \/ b]]
    /\ UNCHANGED <<issued, expired, revoked, exchanges>>
-------------------------------------------------------------------------------
Next ==
    \/ \E q \in Requests :
          \/ Login(q) \/ Authenticate(q) \/ LoginIssues(q)
          \/ CheckRefresh(q) \/ Revoke(q) \/ LoadUser(q)
          \/ CheckAccess(q) \/ Answer(q) \/ LogoutDecodes(q) \/ Abort(q)
          \/ \E token \in Tokens :
                \/ Refresh(q, token)
                \/ \E op \in {"call", "logout"} : Use(q, op, token)
    \/ \E token \in Tokens : Expire(token)
    \/ \E b \in BOOLEAN : SetActive(b)

Spec == Init /\ [][Next]_vars
-------------------------------------------------------------------------------
(* The values the variables take. *)
TypeOK ==
    /\ is_active \in BOOLEAN
    /\ issued \in 0 .. MaxPairs
    /\ expired \subseteq Tokens
    /\ revoked \subseteq Tokens
    /\ req \in [Requests ->
         [op : {"none", "login", "refresh", "call", "logout"}, token : Tokens,
          step : {"idle", "authenticate", "issue", "check_refresh", "revoke",
                  "load_user", "check_access", "granted"},
          saw : BOOLEAN, late : BOOLEAN, revokedAt : Watched \cup {"never"},
          wasActive : BOOLEAN]]
    /\ exchanges \in [1 .. MaxPairs -> [recorded : Nat, unrecorded : Nat]]

(* A refresh token is exchanged for a recorded new pair once at most,      *)
(* however many requests present it at the same time, and it is in the     *)
(* revocation table when it has been.  The one way around that table is    *)
(* the end of the token's life: an exchange that revoke() did not record   *)
(* is one of an expired token.                                             *)
RotatedOnce ==
    \A p \in 1 .. MaxPairs :
        /\ exchanges[p].recorded <= 1
        /\ exchanges[p].recorded = 1 => <<"refresh", p>> \in revoked
        /\ exchanges[p].unrecorded > 0 => <<"refresh", p>> \in expired

(* A revocation takes effect on the requests that are under way: one whose *)
(* token is revoked before it came, or by another request before it has    *)
(* been checked or before a refresh or a logout has recorded its own       *)
(* revocation, gets no further than that step.  In particular a refresh    *)
(* that passed is_revoked() and was then overtaken issues nothing, even if *)
(* the one that overtook it died before it issued anything itself.         *)
RevokedIsRefused ==
    \A q \in Requests :
        req[q].revokedAt # "never" => Step(q) = req[q].revokedAt

(* The step gives the request what it came for: a pair, or the way through *)
(* to its handler.                                                         *)
Gains(q) ==
    \/ issued' # issued /\ req'[q] # req[q]
    \/ Step(q) = "check_access" /\ req'[q].step = "granted"

(* A deactivation cuts off the account: a pair is issued, and a call let   *)
(* through, only to a request that was under way while the account was     *)
(* still active, so that the pairs a login under way may yet be given are  *)
(* of no use.  And a refresh that recorded its revocation is given its     *)
(* pair only if the account is active at that moment, after the commit.    *)
InactiveGetsNothing ==
    [][ \A q \in Requests : Gains(q) =>
          /\ req[q].wasActive
          /\ req[q].op = "refresh" /\ ~req[q].late => is_active ]_vars
===============================================================================
