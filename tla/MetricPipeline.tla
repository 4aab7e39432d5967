---------------------------- MODULE MetricPipeline ----------------------------
(***************************************************************************)
(* What the metric pipeline promises about a generated data point, with no *)
(* word of tasks, buffers or sessions: a point that was born is held in    *)
(* memory until it is settled, once, as a stored row or as a lost one, and *)
(* a settled point never changes again.  In particular no point is ever    *)
(* inserted twice and none disappears unaccounted for.                     *)
(*                                                                         *)
(* RealtimeGenerator implements this specification.                        *)
(***************************************************************************)
EXTENDS Integers

VARIABLES
    born,    \* number of points generated so far; the points are 1 .. born
    stored,  \* points that are rows of the metric table
    lost     \* points that will never be rows

vars == <<born, stored, lost>>

Points == 1 .. born
Held   == Points \ (stored \cup lost)

Init ==
    /\ born = 0
    /\ stored = {}
    /\ lost = {}

(* A batch of points is generated; they start out held. *)
Generate ==
    /\ born' \in Nat
    /\ born' >= born
    /\ UNCHANGED <<stored, lost>>

(* Some held points are settled, each in one way. *)
Settle ==
    /\ stored \subseteq stored'
    /\ lost \subseteq lost'
    /\ (stored' \ stored) \cup (lost' \ lost) \subseteq Held
    /\ stored' \cap lost' = {}
    /\ UNCHANGED born

Next == Generate \/ Settle

Spec == Init /\ [][Next]_vars
===============================================================================
