------------------------------ MODULE BatchLog ------------------------------
(***************************************************************************)
(* What the hub promises to those who listen, with no word of sockets,     *)
(* tasks or snapshots: the batches are a log, and a reader gets them in    *)
(* order from the one after its joining on, each once, until it leaves.    *)
(* A batch is published only when no reader lags behind, so that the log   *)
(* never has to be kept.                                                   *)
(*                                                                         *)
(* ConnectionManager implements this specification.                        *)
(***************************************************************************)
EXTENDS Naturals, Sequences

CONSTANT Clients

VARIABLES
    count,  \* the number of batches published
    from,   \* count when a reader joined, for each reader there is
    got     \* what each reader has got

vars == <<count, from, got>>

Readers == DOMAIN from

Init ==
    /\ count = 0
    /\ from = [c \in {} |-> 0]
    /\ got = [c \in {} |-> <<>>]

Lags(c) == from[c] + Len(got[c]) < count

Publish ==
    /\ \A c \in Readers : ~Lags(c)
    /\ count' = count + 1
    /\ UNCHANGED <<from, got>>

Join(c) ==
    /\ c \notin Readers
    /\ from' = [r \in Readers \cup {c} |-> IF r = c THEN count ELSE from[r]]
    /\ got' = [r \in Readers \cup {c} |-> IF r = c THEN <<>> ELSE got[r]]
    /\ UNCHANGED count

Deliver(c) ==
    /\ c \in Readers /\ Lags(c)
    /\ got' = [got EXCEPT ![c] = Append(@, from[c] + Len(@) + 1)]
    /\ UNCHANGED <<count, from>>

Leave(c) ==
    /\ c \in Readers
    /\ from' = [r \in Readers \ {c} |-> from[r]]
    /\ got' = [r \in Readers \ {c} |-> got[r]]
    /\ UNCHANGED count

Next ==
    \/ Publish
    \/ \E c \in Clients : Join(c) \/ Deliver(c) \/ Leave(c)

Spec == Init /\ [][Next]_vars
===============================================================================
