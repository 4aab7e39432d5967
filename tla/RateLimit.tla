------------------------------ MODULE RateLimit ------------------------------
(***************************************************************************)
(* RateLimitMiddleware of backend/app/core/security_middleware.py: the     *)
(* buckets of one client address, one per scope.  A general request is     *)
(* counted before it is passed on, in the same step of the event loop; a   *)
(* login is counted after it has failed, under the time at which it came.  *)
(***************************************************************************)
EXTENDS Integers, Sequences, FiniteSets

CONSTANTS
    general_limit, login_limit,  \* requests, and failed logins, per window
    window_seconds,              \* length of the window
    Logins,                      \* login requests that may be under way at once
    MaxTime,                     \* bound: the last instant of a behaviour
    MaxCounted                   \* bound: requests counted per scope

ASSUME LimitAssumption ==
    /\ general_limit \in Nat \ {0}
    /\ login_limit \in Nat \ {0}
    /\ window_seconds \in Nat \ {0}
    /\ IsFiniteSet(Logins)
    /\ MaxTime \in Nat
    /\ MaxCounted \in Nat

Scopes == {"general", "login"}
Limit(scope) == IF scope = "login" THEN login_limit ELSE general_limit

VARIABLES
    clock,      \* time.monotonic()
    requests,   \* self.requests of the client: a deque of times per scope
    stamp,      \* local "now" of each login that is being processed, or None
    counted,    \* history: the times ever appended to each deque
    refusal     \* history: the scope and the time of the last 429

vars == <<clock, requests, stamp, counted, refusal>>

None == -1

Init ==
    /\ clock = 0
    /\ requests = [s \in Scopes |-> <<>>]
    /\ stamp = [l \in Logins |-> None]
    /\ counted = [s \in Scopes |-> <<>>]
    /\ refusal = [scope |-> "none", at |-> 0]

Expired(t) == t <= clock - window_seconds

(* Mutant of Purged: nothing ever leaves the deque. *)
Unpurged(bucket) == bucket

(* The while loop: expired times leave the deque from its left end, up to  *)
(* the first one that is not expired.                                      *)
Purged(bucket) ==
    LET live  == {i \in 1 .. Len(bucket) : ~Expired(bucket[i])}
        first == IF live = {} THEN Len(bucket) + 1
                 ELSE CHOOSE i \in live : \A j \in live : i <= j
    IN  SubSeq(bucket, first, Len(bucket))

(* Mutant of Full: one off. *)
Overfull(scope) == Len(Purged(requests[scope])) > Limit(scope)

Full(scope) == Len(Purged(requests[scope])) >= Limit(scope)

(* 429: only the purge is left behind. *)
Refuse(scope) ==
    /\ Full(scope)
    /\ requests' = [requests EXCEPT ![scope] = Purged(@)]
    /\ refusal' = [scope |-> scope, at |-> clock]
    /\ UNCHANGED <<clock, stamp, counted>>

(* A general request is counted and passed on. *)
PassGeneral ==
    /\ ~Full("general")
    /\ Len(counted["general"]) < MaxCounted
    /\ requests' = [requests EXCEPT !["general"] = Append(Purged(@), clock)]
    /\ counted' = [counted EXCEPT !["general"] = Append(@, clock)]
    /\ UNCHANGED <<clock, stamp, refusal>>

(* A login is passed on: dispatch() awaits the endpoint. *)
PassLogin(l) ==
    /\ stamp[l] = None
    /\ ~Full("login")
    /\ requests' = [requests EXCEPT !["login"] = Purged(@)]
    /\ stamp' = [stamp EXCEPT ![l] = clock]
    /\ UNCHANGED <<clock, counted, refusal>>

(* Mutant of LoginFails: the time is cleared before it is appended. *)
LoginFailsCleared(l) ==
    /\ stamp[l] # None
    /\ Len(counted["login"]) < MaxCounted
    /\ stamp' = [stamp EXCEPT ![l] = None]
    /\ requests' = [requests EXCEPT !["login"] = Append(@, stamp'[l])]
    /\ UNCHANGED <<clock, counted, refusal>>

(* The endpoint answers with an error: the login is counted now, under the *)
(* time it arrived.                                                        *)
LoginFails(l) ==
    /\ stamp[l] # None
    /\ Len(counted["login"]) < MaxCounted
    /\ requests' = [requests EXCEPT !["login"] = Append(@, stamp[l])]
    /\ counted' = [counted EXCEPT !["login"] = Append(@, stamp[l])]
    /\ stamp' = [stamp EXCEPT ![l] = None]
    /\ UNCHANGED <<clock, refusal>>

(* The login succeeds, or raises past the middleware: it leaves no trace. *)
LoginSucceeds(l) ==
    /\ stamp[l] # None
    /\ stamp' = [stamp EXCEPT ![l] = None]
    /\ UNCHANGED <<clock, requests, counted, refusal>>

Tick ==
    /\ clock < MaxTime
    /\ clock' = clock + 1
    /\ UNCHANGED <<requests, stamp, counted, refusal>>

Next ==
    \/ \E s \in Scopes : Refuse(s)
    \/ PassGeneral
    \/ \E l \in Logins : PassLogin(l) \/ LoginFails(l) \/ LoginSucceeds(l)
    \/ Tick

Spec == Init /\ [][Next]_vars
-------------------------------------------------------------------------------
(* The requests of a scope that were counted in the current window. *)
Recent(scope) ==
    {i \in 1 .. Len(counted[scope]) : ~Expired(counted[scope][i])}

(* The values the variables take. *)
TypeOK ==
    /\ clock \in Nat
    /\ requests \in [Scopes -> Seq(Nat)]
    /\ stamp \in [Logins -> Nat \cup {None}]
    /\ counted \in [Scopes -> Seq(Nat)]
    /\ refusal \in [scope : Scopes \cup {"none"}, at : Nat]

(* No window of window_seconds lets more than general_limit requests       *)
(* through, although entries leave the deque only when a request arrives.  *)
GeneralWithinLimit == Cardinality(Recent("general")) <= general_limit

(* Logins that are under way together were all admitted on the same deque, *)
(* so a window can hold one failure less than the limit plus as many as    *)
(* there are logins at once; and no more than that.                        *)
LoginOvershootBounded ==
    Cardinality(Recent("login")) < login_limit + Cardinality(Logins)

(* A general request is refused only when the window really holds          *)
(* general_limit counted requests.  A login may also be refused because of *)
(* expired failures that a later one keeps in the deque, but never when    *)
(* the window holds no failure at all: who waits out Retry-After gets in.  *)
RefusalJustified ==
    refusal.at = clock =>
        /\ refusal.scope = "general" => Cardinality(Recent("general")) = general_limit
        /\ refusal.scope = "login" => Recent("login") # {}
===============================================================================
