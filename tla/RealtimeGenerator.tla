-------------------------- MODULE RealtimeGenerator --------------------------
(***************************************************************************)
(* The background data generator of the backend,                           *)
(* backend/app/services/generator.py, with the admin endpoint that flushes *)
(* its buffer and the lifespan of the server that starts and stops it.     *)
(*                                                                         *)
(* Everything runs on one asyncio event loop, so the code between two      *)
(* suspension points is one action.  The generator's own lock is never     *)
(* contended: no body of "async with self._lock" awaits.  What interleaves *)
(* are the awaits: the broadcast, the commit of a session, the sleeps.     *)
(*                                                                         *)
(* A data point is a natural number; only its whereabouts matter here.     *)
(***************************************************************************)
EXTENDS Integers, FiniteSets

CONSTANTS
    GENERATOR_ENABLED,     \* settings.GENERATOR_ENABLED
    SampleSize,            \* points per batch: min(GENERATOR_BATCH_SIZE, |SENSORS|)
    GENERATOR_FLUSH_SIZE,  \* settings.GENERATOR_FLUSH_SIZE
    AdminRequests,         \* concurrent POST /realtime/flush requests
    MaxPoints              \* bound: points generated in a behaviour

ASSUME EnabledAssumption == GENERATOR_ENABLED \in BOOLEAN
ASSUME SizeAssumption ==
    /\ SampleSize \in Nat \ {0}
    /\ GENERATOR_FLUSH_SIZE \in Nat \ {0}
    /\ MaxPoints \in Nat
ASSUME TaskAssumption ==
    AdminRequests \cap {"generate", "flush_loop", "stop"} = {}

(* Every task that may run flush(): the two background tasks, the shutdown *)
(* of the lifespan and the handlers of the admin endpoint.                 *)
Tasks == {"generate", "flush_loop", "stop"} \cup AdminRequests

VARIABLES
    phase,            \* the server process: "down", "up", "draining"
    running,          \* self._running
    pc,               \* where each task is suspended
    should_flush,     \* local of _generate_loop
    buffer,           \* self._buffer
    pending,          \* local "pending" of each task's flush()
    total_generated,  \* self.total_generated
    total_persisted,  \* self.total_persisted
    base,             \* points generated by earlier processes
    stored,           \* rows of the metric table
    lost              \* points that were dropped

memory == <<running, should_flush, buffer, pending, total_generated,
            total_persisted, base>>
vars   == <<phase, pc, memory, stored, lost>>

born     == base + total_generated
Life     == (base + 1) .. born                   \* points of this process
InFlight == UNION {pending[t] : t \in Tasks}

SuspensionPoints == {"none", "start", "broadcast", "sleep", "commit", "done",
                     "idle", "asked", "join_generate", "join_flush_loop"}
NoTasks == [t \in Tasks |-> IF t \in AdminRequests THEN "idle" ELSE "none"]

Init ==
    /\ phase = "down"
    /\ running = FALSE
    /\ pc = NoTasks
    /\ should_flush = FALSE
    /\ buffer = {}
    /\ pending = [t \in Tasks |-> {}]
    /\ total_generated = 0
    /\ total_persisted = 0
    /\ base = 0
    /\ stored = {}
    /\ lost = {}

-------------------------------------------------------------------------------
(* The life of the process. *)

(* lifespan() reaches generator.start(), which creates the two tasks. *)
Boot ==
    /\ phase = "down"
    /\ phase' = "up"
    /\ running' = GENERATOR_ENABLED
    /\ pc' = IF GENERATOR_ENABLED
             THEN [pc EXCEPT !["generate"] = "start", !["flush_loop"] = "start"]
             ELSE pc
    /\ UNCHANGED <<should_flush, buffer, pending, total_generated,
                   total_persisted, base, stored, lost>>

(* The process ends: the next one has a new RealtimeGenerator object. *)
EndProcess ==
    /\ phase' = "down"
    /\ running' = FALSE
    /\ pc' = NoTasks
    /\ should_flush' = FALSE
    /\ buffer' = {}
    /\ pending' = [t \in Tasks |-> {}]
    /\ total_generated' = 0
    /\ total_persisted' = 0
    /\ base' = born

(* A commit that was under way when the process died may have reached the  *)
(* database or not.                                                        *)
Crash ==
    /\ phase # "down"
    /\ \E T \in SUBSET {t \in Tasks : pc[t] = "commit"} :
          LET saved == UNION {pending[t] : t \in T} IN
          /\ stored' = stored \cup saved
          /\ lost' = lost \cup ((buffer \cup InFlight) \ saved)
    /\ EndProcess

(* The server is told to stop: it takes no new request and lets the        *)
(* running ones finish before it resumes lifespan().                       *)
Sigterm ==
    /\ phase = "up"
    /\ phase' = "draining"
    /\ UNCHANGED <<pc, memory, stored, lost>>

(* lifespan() is left after stop(): whatever memory still held is gone. *)
Exit ==
    /\ pc["stop"] = "done"
    /\ lost' = lost \cup buffer \cup InFlight
    /\ stored' = stored
    /\ EndProcess
-------------------------------------------------------------------------------
(* flush(). *)

(* Mutant of AfterFlush: _flush_loop() is no loop. *)
AfterOnlyFlush(t) ==
    IF t \in AdminRequests THEN "idle"
    ELSE IF t \in {"stop", "flush_loop"} THEN "done"
    ELSE "sleep"

(* The statement the coroutine of t goes on to when flush() returns. *)
AfterFlush(t) ==
    IF t \in AdminRequests THEN "idle"
    ELSE IF t = "stop" \/ (t = "flush_loop" /\ ~running) THEN "done"
    ELSE "sleep"

(* Mutant of BeginFlush: the rows are taken but the buffer is not reset. *)
BeginFlushKeepsBuffer(t) ==
    /\ pc' = [pc EXCEPT ![t] = IF buffer = {} THEN AfterFlush(t) ELSE "commit"]
    /\ pending' = [pending EXCEPT ![t] = buffer]
    /\ UNCHANGED buffer

(* The locked part: return at once if there is nothing to write, else take *)
(* the whole buffer and go on to the commit.                               *)
BeginFlush(t) ==
    IF buffer = {}
    THEN /\ pc' = [pc EXCEPT ![t] = AfterFlush(t)]
         /\ UNCHANGED <<buffer, pending>>
    ELSE /\ pc' = [pc EXCEPT ![t] = "commit"]
         /\ pending' = [pending EXCEPT ![t] = buffer]
         /\ buffer' = {}

(* Mutant of Cancelled: stop() waits for the tasks without cancelling them. *)
CancelledNever(t) == FALSE

(* stop() has called t.cancel() and waits for t to end. *)
Cancelled(t) ==
    \/ t = "generate"   /\ pc["stop"] = "join_generate"
    \/ t = "flush_loop" /\ pc["stop"] = "join_flush_loop"

EndFlush(t) ==
    /\ pc[t] = "commit"
    /\ ~Cancelled(t)
    /\ pc' = [pc EXCEPT ![t] = AfterFlush(t)]
    /\ pending' = [pending EXCEPT ![t] = {}]
    /\ UNCHANGED <<phase, running, should_flush, buffer, total_generated, base>>

CommitOk(t) ==
    /\ EndFlush(t)
    /\ stored' = stored \cup pending[t]
    /\ total_persisted' = total_persisted + Cardinality(pending[t])
    /\ lost' = lost

(* Mutant of CommitRaises: the counter is updated although the commit failed. *)
CommitRaisesCounted(t) ==
    /\ EndFlush(t)
    /\ lost' = lost \cup pending[t]
    /\ stored' = stored
    /\ total_persisted' = total_persisted + Cardinality(pending[t])

(* "except Exception": the rows are dropped and not counted.  The database *)
(* may have applied the commit although the reply never arrived.           *)
CommitRaises(t) ==
    /\ EndFlush(t)
    /\ \/ lost' = lost \cup pending[t] /\ stored' = stored
       \/ stored' = stored \cup pending[t] /\ lost' = lost
    /\ UNCHANGED total_persisted
-------------------------------------------------------------------------------
(* _generate_loop(). *)

(* Mutant of CountBatch: total_generated is not updated. *)
CountNothing == UNCHANGED total_generated
CountBatch == total_generated' = total_generated + SampleSize

(* Mutant of IsFull: one off. *)
IsOverfull(points) == Cardinality(points) > GENERATOR_FLUSH_SIZE
IsFull(points) == Cardinality(points) >= GENERATOR_FLUSH_SIZE

(* From the top of the loop to the await of broadcast(). *)
GenerateBatch ==
    /\ pc["generate"] \in {"start", "sleep"}
    /\ ~Cancelled("generate")
    /\ running
    /\ born + SampleSize <= MaxPoints
    /\ LET batch == (born + 1) .. (born + SampleSize) IN
       /\ buffer' = buffer \cup batch
       /\ should_flush' = IsFull(buffer \cup batch)
    /\ CountBatch
    /\ pc' = [pc EXCEPT !["generate"] = "broadcast"]
    /\ UNCHANGED <<phase, running, pending, total_persisted, base, stored, lost>>

(* broadcast() returns.  The decision to flush is the one taken before it. *)
BroadcastReturns ==
    /\ pc["generate"] = "broadcast"
    /\ ~Cancelled("generate")
    /\ IF should_flush
       THEN BeginFlush("generate")
       ELSE /\ pc' = [pc EXCEPT !["generate"] = "sleep"]
            /\ UNCHANGED <<buffer, pending>>
    /\ UNCHANGED <<phase, running, should_flush, total_generated,
                   total_persisted, base, stored, lost>>
-------------------------------------------------------------------------------
(* _flush_loop() and the admin endpoint. *)

FlushLoopStarts ==
    /\ pc["flush_loop"] = "start"
    /\ ~Cancelled("flush_loop")
    /\ pc' = [pc EXCEPT !["flush_loop"] = IF running THEN "sleep" ELSE "done"]
    /\ UNCHANGED <<phase, memory, stored, lost>>

FlushLoopWakes ==
    /\ pc["flush_loop"] = "sleep"
    /\ ~Cancelled("flush_loop")
    /\ BeginFlush("flush_loop")
    /\ UNCHANGED <<phase, running, should_flush, total_generated,
                   total_persisted, base, stored, lost>>

(* POST /realtime/flush is accepted; it authenticates before it flushes. *)
AdminAsks(a) ==
    /\ phase = "up"
    /\ pc[a] = "idle"
    /\ pc' = [pc EXCEPT ![a] = "asked"]
    /\ UNCHANGED <<phase, memory, stored, lost>>

AdminFlushes(a) ==
    /\ pc[a] = "asked"
    /\ BeginFlush(a)
    /\ UNCHANGED <<phase, running, should_flush, total_generated,
                   total_persisted, base, stored, lost>>
-------------------------------------------------------------------------------
(* stop(). *)

(* Mutant of Ended: stop() does not wait for the tasks it cancels. *)
EndedOrNot(t) == TRUE
Ended(t) == pc[t] \in {"none", "done"}

(* _running = False and the cancellation of the generator task. *)
StopBegins ==
    /\ phase = "draining"
    /\ pc["stop"] = "none"
    /\ \A a \in AdminRequests : pc[a] = "idle"
    /\ running' = FALSE
    /\ pc' = [pc EXCEPT !["stop"] = "join_generate"]
    /\ UNCHANGED <<phase, should_flush, buffer, pending, total_generated,
                   total_persisted, base, stored, lost>>

(* CancelledError is no Exception: neither loop nor flush() catches it.    *)
(* A cancelled commit may or may not have been applied by the database.    *)
CancelTask(t) ==
    /\ Cancelled(t)
    /\ ~Ended(t)
    /\ pc' = [pc EXCEPT ![t] = "done"]
    /\ pending' = [pending EXCEPT ![t] = {}]
    /\ \/ lost' = lost \cup pending[t] /\ stored' = stored
       \/ stored' = stored \cup pending[t] /\ lost' = lost
    /\ UNCHANGED <<phase, running, should_flush, buffer, total_generated,
                   total_persisted, base>>

(* The generator task has ended; the flush task is cancelled next, unless  *)
(* it has ended by itself in the meantime.                                 *)
StopJoinsGenerate ==
    /\ pc["stop"] = "join_generate"
    /\ Ended("generate")
    /\ pc' = [pc EXCEPT !["stop"] = "join_flush_loop"]
    /\ UNCHANGED <<phase, memory, stored, lost>>

(* Both tasks have ended: the final flush(). *)
StopFlushes ==
    /\ pc["stop"] = "join_flush_loop"
    /\ Ended("flush_loop")
    /\ BeginFlush("stop")
    /\ UNCHANGED <<phase, running, should_flush, total_generated,
                   total_persisted, base, stored, lost>>
-------------------------------------------------------------------------------
Next ==
    \/ Boot \/ Crash \/ Sigterm \/ Exit
    \/ GenerateBatch \/ BroadcastReturns
    \/ FlushLoopStarts \/ FlushLoopWakes
    \/ \E a \in AdminRequests : AdminAsks(a) \/ AdminFlushes(a)
    \/ \E t \in Tasks : CommitOk(t) \/ CommitRaises(t) \/ CancelTask(t)
    \/ StopBegins \/ StopJoinsGenerate \/ StopFlushes

Spec == Init /\ [][Next]_vars

(* A commit ends, one way or another: the driver answers or raises.  The   *)
(* event loop wakes a task whose sleep is over or whose cancellation was   *)
(* requested.  Nothing is assumed of the broadcast: it may wait for a slow *)
(* client for ever.                                                        *)
Fairness ==
    /\ \A t \in Tasks : WF_vars(CommitOk(t) \/ CommitRaises(t))
    /\ \A t \in Tasks : WF_vars(CancelTask(t))
    /\ \A a \in AdminRequests : WF_vars(AdminFlushes(a))
    /\ WF_vars(FlushLoopStarts)
    /\ WF_vars(FlushLoopWakes)
    /\ WF_vars(StopBegins)
    /\ WF_vars(StopJoinsGenerate)
    /\ WF_vars(StopFlushes)
    /\ WF_vars(Exit)

FairSpec == Spec /\ Fairness
-------------------------------------------------------------------------------
(* The values each variable takes: the program counters a task has, and    *)
(* sets of points that were generated.                                     *)
TypeOK ==
    /\ phase \in {"down", "up", "draining"}
    /\ running \in BOOLEAN
    /\ pc \in [Tasks -> SuspensionPoints]
    /\ should_flush \in BOOLEAN
    /\ total_generated \in Nat
    /\ total_persisted \in Nat
    /\ base \in Nat
    /\ buffer \subseteq 1 .. born
    /\ pending \in [Tasks -> SUBSET (1 .. born)]
    /\ stored \subseteq 1 .. born
    /\ lost \subseteq 1 .. born

(* Every point is in exactly one place: the buffer, the rows one flush()   *)
(* is committing, the table, or lost.  So concurrent flushes never insert  *)
(* a row twice, and a swap of the buffer never drops a point that arrived  *)
(* while another flush was waiting for its commit.                         *)
EachPointInOnePlace ==
    /\ 1 .. born = buffer \cup InFlight \cup stored \cup lost
    /\ buffer \cap (InFlight \cup stored \cup lost) = {}
    /\ InFlight \cap (stored \cup lost) = {}
    /\ stored \cap lost = {}
    /\ \A t, u \in Tasks : t # u => pending[t] \cap pending[u] = {}

(* GET /realtime/status never claims a row that is not in the table, and   *)
(* its numbers add up: what it reports as persisted and as buffered was    *)
(* generated by this process.                                              *)
StatusIsHonest ==
    /\ total_persisted <= Cardinality(stored \cap Life)
    /\ total_persisted + Cardinality(buffer \cup InFlight) <= total_generated

(* The buffer reaches GENERATOR_FLUSH_SIZE only while the generator is in  *)
(* the broadcast after which it will flush, or while stop() is about to;   *)
(* so it stays below the threshold plus one batch, whatever the database   *)
(* and the clients do.                                                     *)
BufferBounded ==
    /\ Cardinality(buffer) < GENERATOR_FLUSH_SIZE + SampleSize
    /\ Cardinality(buffer) >= GENERATOR_FLUSH_SIZE =>
          \/ running /\ pc["generate"] = "broadcast" /\ should_flush
          \/ ~running /\ pc["stop"] \in {"join_generate", "join_flush_loop"}

(* When stop() has returned, and lifespan() goes on to dispose the engine, *)
(* no point is left in memory and no task is inside a session.             *)
StoppedIsDrained ==
    pc["stop"] = "done" =>
        /\ buffer = {}
        /\ InFlight = {}
        /\ \A t \in Tasks : pc[t] # "commit"

(* Refinement: the generator implements the promise of MetricPipeline. *)
Pipeline == INSTANCE MetricPipeline WITH
                born <- born, stored <- stored, lost <- lost
ImplementsPipeline == Pipeline!Spec

(* A generated point leaves the memory of the process, as a row or as a    *)
(* lost one, even if a WebSocket client never takes its message.           *)
HeldPointSettles ==
    \A p \in 1 .. MaxPoints :
        p \in buffer \cup InFlight ~> p \in stored \cup lost

(* A server that is told to stop does stop: the shutdown waits for no      *)
(* client and for no task that does not end.                               *)
ShutdownEnds == phase = "draining" ~> phase = "down"
===============================================================================
