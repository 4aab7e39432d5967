----------------------- MODULE RealtimeGeneratorProofs -----------------------
(***************************************************************************)
(* Proofs about RealtimeGenerator, for every batch size, threshold, set of *)
(* admin requests and number of points.                                    *)
(***************************************************************************)
EXTENDS RealtimeGenerator, FiniteSetTheorems, TLAPS

(* Which program counters a task really has, and how they relate to the    *)
(* life of the process and to the shutdown.                                *)
ControlOK ==
    /\ pc["generate"] \in {"none", "start", "broadcast", "sleep", "commit", "done"}
    /\ pc["flush_loop"] \in {"none", "start", "sleep", "commit", "done"}
    /\ pc["stop"] \in {"none", "join_generate", "join_flush_loop", "commit", "done"}
    /\ \A a \in AdminRequests : pc[a] \in {"idle", "asked", "commit"}
    /\ \A t \in Tasks : pending[t] # {} => pc[t] = "commit"
    /\ phase = "down" =>
          /\ pc = NoTasks
          /\ buffer = {}
          /\ total_generated = 0
          /\ total_persisted = 0
    /\ pc["stop"] # "none" =>
          /\ phase = "draining"
          /\ ~running
          /\ \A a \in AdminRequests : pc[a] = "idle"
    /\ pc["stop"] \in {"join_flush_loop", "commit", "done"} => Ended("generate")
    /\ pc["stop"] \in {"commit", "done"} =>
          /\ Ended("flush_loop")
          /\ buffer = {}

(* What is held was generated by the present process. *)
HeldIsOfThisLife == buffer \cup InFlight \subseteq Life

PersistedIsStored == total_persisted <= Cardinality(stored \cap Life)

IInv ==
    /\ TypeOK
    /\ ControlOK
    /\ EachPointInOnePlace
    /\ HeldIsOfThisLife
    /\ PersistedIsStored
    /\ BufferBounded
-------------------------------------------------------------------------------
LEMMA TasksDistinct ==
    /\ {"generate", "flush_loop", "stop"} \subseteq Tasks
    /\ AdminRequests \subseteq Tasks
    /\ \A a \in AdminRequests : a \notin {"generate", "flush_loop", "stop"}
BY TaskAssumption DEF Tasks

(* A union over the tasks, point by point. *)
LEMMA InUnion ==
    ASSUME NEW T, NEW f
    PROVE  \A p : p \in UNION {f[t] : t \in T} <=> \E t \in T : p \in f[t]
OBVIOUS

LEMMA InFlightPoints ==
    /\ \A p : p \in InFlight <=> \E t \in Tasks : p \in pending[t]
    /\ \A p : p \in InFlight' <=> \E t \in Tasks : p \in pending'[t]
BY DEF InFlight

(* What taking the buffer does to the points in flight. *)
LEMMA TakeBuffer ==
    ASSUME TypeOK, NEW t \in Tasks, pending[t] = {},
           pending' = [pending EXCEPT ![t] = buffer]
    PROVE  /\ InFlight' = InFlight \cup buffer
           /\ pending'[t] = buffer
           /\ \A u \in Tasks \ {t} : pending'[u] = pending[u]
<1>1. /\ pending'[t] = buffer
      /\ \A u \in Tasks \ {t} : pending'[u] = pending[u]
  BY DEF TypeOK
<1>2. QED  BY <1>1, InFlightPoints

(* What the end of a flush does to them. *)
LEMMA DropPending ==
    ASSUME TypeOK, EachPointInOnePlace, NEW t \in Tasks,
           pending' = [pending EXCEPT ![t] = {}]
    PROVE  /\ InFlight' = InFlight \ pending[t]
           /\ pending[t] \subseteq InFlight
           /\ pending'[t] = {}
           /\ \A u \in Tasks \ {t} : pending'[u] = pending[u]
<1>1. /\ pending'[t] = {}
      /\ \A u \in Tasks \ {t} : pending'[u] = pending[u]
  BY DEF TypeOK
<1>2. \A u \in Tasks : u # t => pending[t] \cap pending[u] = {}
  BY DEF EachPointInOnePlace
<1>3. pending[t] \subseteq InFlight
  BY InFlightPoints
<1>4. QED  BY <1>1, <1>2, <1>3, InFlightPoints

LEMMA NothingInFlight ==
    ASSUME pending' = [t \in Tasks |-> {}]
    PROVE  InFlight' = {}
<1>1. \A t \in Tasks : pending'[t] = {}
  OBVIOUS
<1>2. QED  BY <1>1, InFlightPoints

LEMMA SameInFlight ==
    ASSUME pending' = pending
    PROVE  InFlight' = InFlight
BY DEF InFlight
-------------------------------------------------------------------------------
(* Type correctness. *)

LEMMA NoTasksType == NoTasks \in [Tasks -> SuspensionPoints]
BY DEF NoTasks, SuspensionPoints

LEMMA TypeInit == Init => TypeOK
<1> SUFFICES ASSUME Init PROVE TypeOK
  OBVIOUS
<1>1. pending \in [Tasks -> SUBSET (1 .. born)]
  BY DEF Init
<1>2. QED  BY <1>1, NoTasksType DEF Init, TypeOK

LEMMA BeginFlushType ==
    ASSUME TypeOK, NEW t \in Tasks, BeginFlush(t)
    PROVE  /\ pc' \in [Tasks -> SuspensionPoints]
           /\ buffer' \subseteq 1 .. born
           /\ pending' \in [Tasks -> SUBSET (1 .. born)]
<1>1. AfterFlush(t) \in SuspensionPoints /\ "commit" \in SuspensionPoints
  BY DEF AfterFlush, SuspensionPoints
<1>2. QED  BY <1>1 DEF TypeOK, BeginFlush

LEMMA EndFlushType ==
    ASSUME TypeOK, NEW t \in Tasks, EndFlush(t),
           stored' \subseteq stored \cup pending[t],
           lost' \subseteq lost \cup pending[t],
           total_persisted' \in Nat
    PROVE  TypeOK'
<1>1. AfterFlush(t) \in SuspensionPoints /\ "commit" \in SuspensionPoints
  BY DEF AfterFlush, SuspensionPoints
<1>2. pending[t] \subseteq 1 .. born
  BY DEF TypeOK
<1>3. born' = born
  BY DEF EndFlush, born
<1>4. pending' \in [Tasks -> SUBSET (1 .. born)]
  BY DEF TypeOK, EndFlush
<1>5. pc' \in [Tasks -> SuspensionPoints]
  BY <1>1 DEF TypeOK, EndFlush
<1>6. QED  BY <1>2, <1>3, <1>4, <1>5 DEF TypeOK, EndFlush

LEMMA EndProcessType ==
    ASSUME TypeOK, EndProcess, stored' \subseteq 1 .. born, lost' \subseteq 1 .. born
    PROVE  TypeOK'
<1>1. born' = born /\ born \in Nat
  BY DEF EndProcess, born, TypeOK
<1>2. pending' \in [Tasks -> SUBSET (1 .. born)]
  BY DEF EndProcess
<1>3. QED  BY <1>1, <1>2, NoTasksType DEF TypeOK, EndProcess

LEMMA TypeStep == TypeOK /\ [Next]_vars => TypeOK'
<1> SUFFICES ASSUME TypeOK, [Next]_vars PROVE TypeOK'
  OBVIOUS
<1> USE SizeAssumption, EnabledAssumption, TasksDistinct DEF SuspensionPoints
<1>a. \A t \in Tasks : pending[t] \subseteq 1 .. born /\ IsFiniteSet(1 .. born)
  BY FS_Interval DEF TypeOK, born
<1>1. CASE Boot
  BY <1>1 DEF TypeOK, Boot, born
<1>2. CASE Crash
  <2>1. InFlight \subseteq 1 .. born
    BY <1>a, InFlightPoints
  <2>2. PICK T \in SUBSET {t \in Tasks : pc[t] = "commit"} :
          LET saved == UNION {pending[t] : t \in T} IN
          /\ stored' = stored \cup saved
          /\ lost' = lost \cup ((buffer \cup InFlight) \ saved)
    BY <1>2 DEF Crash
  <2>3. UNION {pending[t] : t \in T} \subseteq 1 .. born
    BY <1>a
  <2>4. born' = born
    BY <1>2 DEF Crash, EndProcess, born, TypeOK
  <2>5. stored' \subseteq 1 .. born /\ lost' \subseteq 1 .. born
    BY <2>1, <2>2, <2>3 DEF TypeOK
  <2>6. QED  BY <1>2, <2>4, <2>5, EndProcessType DEF TypeOK, Crash, born
<1>3. CASE Sigterm
  BY <1>3 DEF TypeOK, Sigterm, memory, born
<1>4. CASE Exit
  <2>1. InFlight \subseteq 1 .. born
    BY <1>a, InFlightPoints
  <2>2. born' = born
    BY <1>4 DEF Exit, EndProcess, born, TypeOK
  <2>3. QED  BY <1>4, <2>1, <2>2, EndProcessType DEF TypeOK, Exit
<1>5. CASE GenerateBatch
  <2>1. born' = born + SampleSize
    BY <1>5 DEF GenerateBatch, CountBatch, born, TypeOK
  <2>2. born \in Nat /\ 1 .. born \subseteq 1 .. born'
    BY <2>1 DEF TypeOK, born
  <2>3. buffer' \subseteq 1 .. born'
    BY <1>5, <2>1, <2>2 DEF GenerateBatch, TypeOK
  <2>4. pc' \in [Tasks -> SuspensionPoints]
    BY <1>5 DEF GenerateBatch, TypeOK
  <2>5. pending' \in [Tasks -> SUBSET (1 .. born')]
    BY <1>5, <2>2 DEF GenerateBatch, TypeOK
  <2>6. QED  BY <1>5, <2>2, <2>3, <2>4, <2>5 DEF GenerateBatch, CountBatch, IsFull, TypeOK
<1>6. CASE BroadcastReturns
  <2>1. born' = born
    BY <1>6 DEF BroadcastReturns, born
  <2>2. CASE should_flush
    BY <1>6, <2>1, <2>2, BeginFlushType DEF BroadcastReturns, TypeOK
  <2>3. CASE ~should_flush
    BY <1>6, <2>1, <2>3 DEF BroadcastReturns, TypeOK
  <2>4. QED  BY <2>2, <2>3
<1>7. CASE FlushLoopStarts
  BY <1>7 DEF TypeOK, FlushLoopStarts, memory, born
<1>8. CASE FlushLoopWakes
  BY <1>8, BeginFlushType DEF TypeOK, FlushLoopWakes, born
<1>9. ASSUME NEW a \in AdminRequests, AdminAsks(a)
      PROVE  TypeOK'
  BY <1>9 DEF TypeOK, AdminAsks, memory, born
<1>10. ASSUME NEW a \in AdminRequests, AdminFlushes(a)
       PROVE  TypeOK'
  BY <1>10, BeginFlushType DEF TypeOK, AdminFlushes, born
<1>11. ASSUME NEW t \in Tasks, CommitOk(t)
       PROVE  TypeOK'
  <2>1. Cardinality(pending[t]) \in Nat
    BY <1>a, FS_Subset, FS_CardinalityType
  <2>2. QED  BY <1>11, <2>1, EndFlushType DEF CommitOk, TypeOK
<1>12. ASSUME NEW t \in Tasks, CommitRaises(t)
       PROVE  TypeOK'
  BY <1>12, EndFlushType DEF CommitRaises, TypeOK
<1>13. ASSUME NEW t \in Tasks, CancelTask(t)
       PROVE  TypeOK'
  <2>1. born' = born
    BY <1>13 DEF CancelTask, born
  <2>2. pending' \in [Tasks -> SUBSET (1 .. born)]
    BY <1>13 DEF TypeOK, CancelTask
  <2>3. QED  BY <1>13, <1>a, <2>1, <2>2 DEF CancelTask, TypeOK
<1>14. CASE StopBegins
  BY <1>14 DEF TypeOK, StopBegins, born
<1>15. CASE StopJoinsGenerate
  BY <1>15 DEF TypeOK, StopJoinsGenerate, memory, born
<1>16. CASE StopFlushes
  BY <1>16, BeginFlushType DEF TypeOK, StopFlushes, born
<1>17. CASE UNCHANGED vars
  BY <1>17 DEF TypeOK, vars, memory, born
<1>18. QED
  BY <1>1, <1>2, <1>3, <1>4, <1>5, <1>6, <1>7, <1>8, <1>9, <1>10, <1>11,
     <1>12, <1>13, <1>14, <1>15, <1>16, <1>17 DEF Next

(* Every variable keeps its type. *)
THEOREM TypeCorrect == Spec => []TypeOK
BY TypeInit, TypeStep, PTL DEF Spec
-------------------------------------------------------------------------------
(* Control. *)

LEMMA AfterFlushOf ==
    /\ AfterFlush("generate") = "sleep"
    /\ AfterFlush("flush_loop") \in {"sleep", "done"}
    /\ ~running => AfterFlush("flush_loop") = "done"
    /\ AfterFlush("stop") = "done"
    /\ \A a \in AdminRequests : AfterFlush(a) = "idle"
BY TaskAssumption DEF AfterFlush

LEMMA ControlInit == Init => ControlOK
BY TasksDistinct DEF Init, ControlOK, NoTasks, Ended

LEMMA ControlEnd ==
    ASSUME EndProcess
    PROVE  ControlOK'
BY TasksDistinct DEF ControlOK, EndProcess, NoTasks, Ended

LEMMA ControlEndFlush ==
    ASSUME TypeOK, ControlOK, NEW t \in Tasks, EndFlush(t)
    PROVE  ControlOK'
<1>1. \A u \in Tasks : /\ pc'[u] = IF u = t THEN AfterFlush(t) ELSE pc[u]
                       /\ pending'[u] = IF u = t THEN {} ELSE pending[u]
  BY DEF EndFlush, TypeOK
<1>2. phase # "down"
  BY TasksDistinct DEF EndFlush, ControlOK, NoTasks
<1>3. t \in {"generate", "flush_loop", "stop"} \/ t \in AdminRequests
  BY DEF Tasks
<1>4. /\ phase' = phase
      /\ running' = running
      /\ buffer' = buffer
      /\ pc[t] = "commit"
  BY DEF EndFlush
<1>5. \A u \in Tasks : pending'[u] # {} => pc'[u] = "commit"
  BY <1>1 DEF ControlOK
<1>6. CASE t = "generate"
  BY <1>1, <1>2, <1>4, <1>5, <1>6, AfterFlushOf, TasksDistinct DEF ControlOK, Ended
<1>7. CASE t = "flush_loop"
  BY <1>1, <1>2, <1>4, <1>5, <1>7, AfterFlushOf, TasksDistinct DEF ControlOK, Ended
<1>8. CASE t = "stop"
  BY <1>1, <1>2, <1>4, <1>5, <1>8, AfterFlushOf, TasksDistinct DEF ControlOK, Ended
<1>9. CASE t \in AdminRequests
  BY <1>1, <1>2, <1>4, <1>5, <1>9, AfterFlushOf, TasksDistinct DEF ControlOK, Ended
<1>10. QED  BY <1>3, <1>6, <1>7, <1>8, <1>9

(* The outcome of the locked part of flush(): the task goes on to the      *)
(* commit or past the flush, and the buffer is empty.                      *)
LEMMA BeginFlushEffect ==
    ASSUME TypeOK, ControlOK, NEW t \in Tasks, BeginFlush(t), pc[t] # "commit"
    PROVE  /\ pc'[t] \in {"commit", AfterFlush(t)}
           /\ \A u \in Tasks : u # t => pc'[u] = pc[u]
           /\ buffer' = {}
           /\ \A u \in Tasks : pending'[u] # {} => pc'[u] = "commit"
           /\ InFlight' = InFlight \cup buffer
           /\ \A u \in Tasks : pending'[u] = IF u = t THEN buffer ELSE pending[u]
<1>1. pending[t] = {}
  BY DEF ControlOK
<1>2. CASE buffer = {}
  <2>1. InFlight' = InFlight
    BY <1>2, SameInFlight DEF BeginFlush
  <2>2. QED  BY <1>1, <1>2, <2>1 DEF BeginFlush, TypeOK, ControlOK
<1>3. CASE buffer # {}
  <2>1. InFlight' = InFlight \cup buffer
    BY <1>1, <1>3, TakeBuffer DEF BeginFlush
  <2>2. QED  BY <1>1, <1>3, <2>1 DEF BeginFlush, TypeOK, ControlOK
<1>4. QED  BY <1>2, <1>3

LEMMA ControlStep ==
    ASSUME TypeOK, ControlOK, [Next]_vars
    PROVE  ControlOK'
<1> USE TasksDistinct
<1>1. CASE Boot
  BY <1>1 DEF Boot, ControlOK, NoTasks, Ended, TypeOK
<1>2. CASE Crash
  BY <1>2, ControlEnd DEF Crash
<1>3. CASE Sigterm
  BY <1>3 DEF Sigterm, ControlOK, memory, Ended
<1>4. CASE Exit
  BY <1>4, ControlEnd DEF Exit
<1>5. CASE GenerateBatch
  <2>1. phase # "down"
    BY <1>5 DEF GenerateBatch, ControlOK, NoTasks
  <2>2. pc["stop"] = "none"
    BY <1>5 DEF GenerateBatch, ControlOK
  <2>3. QED  BY <1>5, <2>1, <2>2 DEF GenerateBatch, ControlOK, Ended, TypeOK
<1>6. CASE BroadcastReturns
  <2>1. phase # "down" /\ pc["stop"] = "none"
    BY <1>6 DEF BroadcastReturns, ControlOK, NoTasks, Ended, Cancelled
  <2>2. CASE should_flush
    BY <1>6, <2>1, <2>2, BeginFlushEffect, AfterFlushOf DEF BroadcastReturns, ControlOK, Ended
  <2>3. CASE ~should_flush
    BY <1>6, <2>1, <2>3 DEF BroadcastReturns, ControlOK, Ended, TypeOK
  <2>4. QED  BY <2>2, <2>3
<1>7. CASE FlushLoopStarts
  BY <1>7 DEF FlushLoopStarts, ControlOK, Ended, TypeOK, memory, NoTasks
<1>8. CASE FlushLoopWakes
  <2>1. phase # "down" /\ pc["stop"] \in {"none", "join_generate", "join_flush_loop"}
    BY <1>8 DEF FlushLoopWakes, ControlOK, NoTasks, Ended
  <2>2. QED
    BY <1>8, <2>1, BeginFlushEffect, AfterFlushOf DEF FlushLoopWakes, ControlOK, Ended
<1>9. ASSUME NEW a \in AdminRequests, AdminAsks(a)
      PROVE  ControlOK'
  BY <1>9 DEF AdminAsks, ControlOK, Ended, TypeOK, memory
<1>10. ASSUME NEW a \in AdminRequests, AdminFlushes(a)
       PROVE  ControlOK'
  <2>1. phase # "down" /\ pc["stop"] = "none"
    BY <1>10 DEF AdminFlushes, ControlOK, NoTasks
  <2>2. QED
    BY <1>10, <2>1, BeginFlushEffect, AfterFlushOf DEF AdminFlushes, ControlOK, Ended
<1>11. ASSUME NEW t \in Tasks, CommitOk(t) \/ CommitRaises(t)
       PROVE  ControlOK'
  BY <1>11, ControlEndFlush DEF CommitOk, CommitRaises
<1>12. ASSUME NEW t \in Tasks, CancelTask(t)
       PROVE  ControlOK'
  <2>1. phase = "draining" /\ ~running
    BY <1>12 DEF CancelTask, Cancelled, ControlOK
  <2>2. \A u \in Tasks : /\ pc'[u] = IF u = t THEN "done" ELSE pc[u]
                         /\ pending'[u] = IF u = t THEN {} ELSE pending[u]
    BY <1>12 DEF CancelTask, TypeOK
  <2>3. CASE t = "generate"
    BY <1>12, <2>1, <2>2, <2>3 DEF CancelTask, Cancelled, ControlOK, Ended
  <2>4. CASE t = "flush_loop"
    BY <1>12, <2>1, <2>2, <2>4 DEF CancelTask, Cancelled, ControlOK, Ended
  <2>5. QED  BY <1>12, <2>3, <2>4 DEF CancelTask, Cancelled
<1>13. CASE StopBegins
  BY <1>13 DEF StopBegins, ControlOK, Ended, TypeOK
<1>14. CASE StopJoinsGenerate
  BY <1>14 DEF StopJoinsGenerate, ControlOK, Ended, TypeOK, memory
<1>15. CASE StopFlushes
  <2>1. phase = "draining"
    BY <1>15 DEF StopFlushes, ControlOK
  <2>2. QED
    BY <1>15, <2>1, BeginFlushEffect, AfterFlushOf DEF StopFlushes, ControlOK, Ended
<1>16. CASE UNCHANGED vars
  BY <1>16 DEF vars, memory, ControlOK, Ended
<1>17. QED
  BY <1>1, <1>2, <1>3, <1>4, <1>5, <1>6, <1>7, <1>8, <1>9, <1>10, <1>11,
     <1>12, <1>13, <1>14, <1>15, <1>16 DEF Next
-------------------------------------------------------------------------------
(* Where the points are. *)

Places == EachPointInOnePlace /\ HeldIsOfThisLife

LEMMA PlacesInit == Init => Places
<1> SUFFICES ASSUME Init PROVE Places
  OBVIOUS
<1>1. InFlight = {}
  BY InFlightPoints DEF Init
<1>2. 1 .. born = {}
  BY DEF Init, born
<1>3. QED  BY <1>1, <1>2 DEF Places, EachPointInOnePlace, HeldIsOfThisLife, Init

(* The rows a flush was committing are settled when it ends. *)
LEMMA PlacesSettle ==
    ASSUME TypeOK, Places, NEW t \in Tasks,
           pending' = [pending EXCEPT ![t] = {}],
           buffer' = buffer, base' = base, total_generated' = total_generated,
           \/ lost' = lost \cup pending[t] /\ stored' = stored
           \/ stored' = stored \cup pending[t] /\ lost' = lost
    PROVE  Places'
<1>1. /\ InFlight' = InFlight \ pending[t]
      /\ pending[t] \subseteq InFlight
      /\ \A u \in Tasks : pending'[u] = IF u = t THEN {} ELSE pending[u]
  BY DropPending DEF Places
<1>2. born' = born /\ Life' = Life
  BY DEF born, Life
<1>3. EachPointInOnePlace'
  BY <1>1, <1>2 DEF Places, EachPointInOnePlace
<1>4. HeldIsOfThisLife'
  BY <1>1, <1>2 DEF Places, HeldIsOfThisLife
<1>5. QED  BY <1>3, <1>4 DEF Places

(* Taking the buffer moves its points into flight. *)
LEMMA PlacesTake ==
    ASSUME TypeOK, ControlOK, Places, NEW t \in Tasks, BeginFlush(t), pc[t] # "commit",
           UNCHANGED <<base, total_generated, stored, lost>>
    PROVE  Places'
<1>1. /\ buffer' = {}
      /\ InFlight' = InFlight \cup buffer
      /\ \A u \in Tasks : pending'[u] = IF u = t THEN buffer ELSE pending[u]
  BY BeginFlushEffect
<1>2. born' = born /\ Life' = Life
  BY DEF born, Life
<1>3. \A u \in Tasks : buffer \cap pending[u] = {}
  BY InFlightPoints DEF Places, EachPointInOnePlace
<1>4. EachPointInOnePlace'
  BY <1>1, <1>2, <1>3 DEF Places, EachPointInOnePlace
<1>5. HeldIsOfThisLife'
  BY <1>1, <1>2 DEF Places, HeldIsOfThisLife
<1>6. QED  BY <1>4, <1>5 DEF Places

(* Nothing moves. *)
LEMMA PlacesSame ==
    ASSUME Places, UNCHANGED <<buffer, pending, base, total_generated, stored, lost>>
    PROVE  Places'
<1>1. InFlight' = InFlight /\ born' = born /\ Life' = Life
  BY SameInFlight DEF born, Life
<1>2. QED  BY <1>1 DEF Places, EachPointInOnePlace, HeldIsOfThisLife

(* The process ends: whatever it held is settled. *)
LEMMA PlacesEnd ==
    ASSUME TypeOK, Places, EndProcess,
           stored' \cup lost' = stored \cup lost \cup buffer \cup InFlight,
           stored' \cap lost' = {}
    PROVE  Places'
<1>1. /\ InFlight' = {}
      /\ buffer' = {}
      /\ \A t \in Tasks : pending'[t] = {}
  BY NothingInFlight DEF EndProcess
<1>2. born' = born
  BY DEF EndProcess, born, TypeOK
<1>3. EachPointInOnePlace'
  BY <1>1, <1>2 DEF Places, EachPointInOnePlace
<1>4. QED  BY <1>1, <1>3 DEF Places, HeldIsOfThisLife

LEMMA PlacesStep ==
    ASSUME TypeOK, ControlOK, Places, [Next]_vars
    PROVE  Places'
<1> USE TasksDistinct
<1>1. CASE Boot
  BY <1>1, PlacesSame DEF Boot
<1>2. CASE Crash
  <2>1. PICK T \in SUBSET {t \in Tasks : pc[t] = "commit"} :
          LET saved == UNION {pending[t] : t \in T} IN
          /\ stored' = stored \cup saved
          /\ lost' = lost \cup ((buffer \cup InFlight) \ saved)
    BY <1>2 DEF Crash
  <2>2. UNION {pending[t] : t \in T} \subseteq InFlight
    BY InFlightPoints
  <2>3. QED  BY <1>2, <2>1, <2>2, PlacesEnd DEF Crash, Places, EachPointInOnePlace
<1>3. CASE Sigterm
  BY <1>3, PlacesSame DEF Sigterm, memory
<1>4. CASE Exit
  BY <1>4, PlacesEnd DEF Exit, Places, EachPointInOnePlace
<1>5. CASE GenerateBatch
  <2> DEFINE batch == (born + 1) .. (born + SampleSize)
  <2>1. /\ buffer' = buffer \cup batch
        /\ born' = born + SampleSize
        /\ Life' = Life \cup batch
        /\ InFlight' = InFlight
        /\ UNCHANGED <<pending, stored, lost>>
    BY <1>5, SameInFlight, SizeAssumption DEF GenerateBatch, CountBatch, born, Life, TypeOK
  <2>2. /\ 1 .. born' = (1 .. born) \cup batch
        /\ (1 .. born) \cap batch = {}
    BY <2>1, SizeAssumption DEF TypeOK, born
  <2>3. InFlight \subseteq 1 .. born
    BY InFlightPoints DEF TypeOK
  <2>4. EachPointInOnePlace'
    BY <2>1, <2>2, <2>3 DEF Places, EachPointInOnePlace, TypeOK
  <2>5. HeldIsOfThisLife'
    BY <2>1 DEF Places, HeldIsOfThisLife
  <2>6. QED  BY <2>4, <2>5 DEF Places
<1>6. CASE BroadcastReturns
  <2>1. CASE should_flush
    BY <1>6, <2>1, PlacesTake DEF BroadcastReturns
  <2>2. CASE ~should_flush
    BY <1>6, <2>2, PlacesSame DEF BroadcastReturns
  <2>3. QED  BY <2>1, <2>2
<1>7. CASE FlushLoopStarts
  BY <1>7, PlacesSame DEF FlushLoopStarts, memory
<1>8. CASE FlushLoopWakes
  BY <1>8, PlacesTake DEF FlushLoopWakes
<1>9. ASSUME NEW a \in AdminRequests, AdminAsks(a)
      PROVE  Places'
  BY <1>9, PlacesSame DEF AdminAsks, memory
<1>10. ASSUME NEW a \in AdminRequests, AdminFlushes(a)
       PROVE  Places'
  BY <1>10, PlacesTake DEF AdminFlushes
<1>11. ASSUME NEW t \in Tasks, CommitOk(t) \/ CommitRaises(t)
       PROVE  Places'
  BY <1>11, PlacesSettle DEF CommitOk, CommitRaises, EndFlush
<1>12. ASSUME NEW t \in Tasks, CancelTask(t)
       PROVE  Places'
  BY <1>12, PlacesSettle DEF CancelTask
<1>13. CASE StopBegins
  BY <1>13, PlacesSame DEF StopBegins
<1>14. CASE StopJoinsGenerate
  BY <1>14, PlacesSame DEF StopJoinsGenerate, memory
<1>15. CASE StopFlushes
  BY <1>15, PlacesTake DEF StopFlushes
<1>16. CASE UNCHANGED vars
  BY <1>16, PlacesSame DEF vars, memory
<1>17. QED
  BY <1>1, <1>2, <1>3, <1>4, <1>5, <1>6, <1>7, <1>8, <1>9, <1>10, <1>11,
     <1>12, <1>13, <1>14, <1>15, <1>16 DEF Next
-------------------------------------------------------------------------------
(* The counters. *)

LEMMA FinitePoints ==
    ASSUME TypeOK
    PROVE  /\ IsFiniteSet(1 .. born) /\ born \in Nat
           /\ IsFiniteSet(Life) /\ Cardinality(Life) = total_generated
           /\ IsFiniteSet(stored) /\ IsFiniteSet(buffer) /\ IsFiniteSet(InFlight)
           /\ \A t \in Tasks : IsFiniteSet(pending[t])
<1>1. IsFiniteSet(1 .. born) /\ born \in Nat
  BY FS_Interval DEF TypeOK, born
<1>2. IsFiniteSet(Life) /\ Cardinality(Life) = total_generated
  <2>1. base + 1 \in Int /\ born \in Int
    BY DEF TypeOK, born
  <2>2. IsFiniteSet(Life) /\ Cardinality(Life) =
           IF base + 1 > born THEN 0 ELSE born - (base + 1) + 1
    BY <2>1, FS_Interval DEF Life
  <2>3. (IF base + 1 > born THEN 0 ELSE born - (base + 1) + 1) = total_generated
    BY DEF TypeOK, born
  <2>4. QED  BY <2>2, <2>3
<1>3. InFlight \subseteq 1 .. born
  BY InFlightPoints DEF TypeOK
<1>4. \A t \in Tasks : pending[t] \subseteq 1 .. born
  BY DEF TypeOK
<1>5. QED  BY <1>1, <1>2, <1>3, <1>4, FS_Subset DEF TypeOK

(* No row is reported that is not in the table of this process's points. *)
LEMMA PersistedStep ==
    ASSUME TypeOK, Places, PersistedIsStored, [Next]_vars, TypeOK'
    PROVE  PersistedIsStored'
<1>a. IsFiniteSet(1 .. born')
  <2>1. base' \in Nat /\ total_generated' \in Nat
    BY DEF TypeOK
  <2>2. born' \in Int
    BY <2>1 DEF born
  <2>3. QED  BY <2>2, FS_Interval
<1>1. /\ IsFiniteSet(stored \cap Life)
      /\ Cardinality(stored \cap Life) \in Nat
  BY FinitePoints, FS_Subset, FS_CardinalityType
<1>2. CASE /\ stored \subseteq stored' /\ Life \subseteq Life'
           /\ total_persisted' = total_persisted
  <2>1. stored \cap Life \subseteq stored' \cap Life'
    BY <1>2
  <2>2. IsFiniteSet(stored') /\ IsFiniteSet(stored' \cap Life')
    BY <1>a, FS_Subset DEF TypeOK
  <2>3. Cardinality(stored \cap Life) <= Cardinality(stored' \cap Life')
        /\ Cardinality(stored' \cap Life') \in Nat
    BY <2>1, <2>2, FS_Subset, FS_CardinalityType
  <2>4. QED  BY <1>1, <1>2, <2>3 DEF PersistedIsStored, TypeOK
<1>3. CASE total_persisted' = 0
  <2>1. IsFiniteSet(stored' \cap Life')
    BY <1>a, FS_Subset DEF TypeOK
  <2>2. QED  BY <1>3, <2>1, FS_CardinalityType DEF PersistedIsStored
<1>4. ASSUME NEW t \in Tasks, CommitOk(t)
      PROVE  PersistedIsStored'
  <2>1. /\ stored' = stored \cup pending[t]
        /\ total_persisted' = total_persisted + Cardinality(pending[t])
        /\ Life' = Life
    BY <1>4 DEF CommitOk, EndFlush, Life, born
  <2>2. pending[t] \subseteq InFlight
    BY InFlightPoints
  <2>3. pending[t] \subseteq Life /\ pending[t] \cap stored = {}
    BY <2>2 DEF Places, EachPointInOnePlace, HeldIsOfThisLife
  <2>4. IsFiniteSet(pending[t]) /\ Cardinality(pending[t]) \in Nat
    BY FinitePoints, FS_CardinalityType
  <2>5. /\ stored' \cap Life' = (stored \cap Life) \cup pending[t]
        /\ (stored \cap Life) \cap pending[t] = {}
    BY <2>1, <2>3
  <2>6. Cardinality((stored \cap Life) \cap pending[t]) = 0
    BY <2>5, FS_EmptySet
  <2>7. Cardinality(stored' \cap Life') =
           Cardinality(stored \cap Life) + Cardinality(pending[t]) - 0
    BY <1>1, <2>4, <2>5, <2>6, FS_Union
  <2>8. QED  BY <1>1, <2>1, <2>4, <2>7 DEF PersistedIsStored, TypeOK
<1>5. CASE Crash \/ Exit
  BY <1>3, <1>5 DEF Crash, Exit, EndProcess
<1>6. CASE GenerateBatch
  <2>1. Life \subseteq Life'
    BY <1>6, SizeAssumption DEF GenerateBatch, CountBatch, Life, born, TypeOK
  <2>2. QED  BY <1>2, <1>6, <2>1 DEF GenerateBatch
<1>7. ASSUME NEW t \in Tasks, CommitRaises(t) \/ CancelTask(t)
      PROVE  PersistedIsStored'
  BY <1>2, <1>7 DEF CommitRaises, CancelTask, EndFlush, Life, born
<1>8. CASE UNCHANGED <<base, total_generated, total_persisted, stored>>
  BY <1>2, <1>8 DEF Life, born
<1>9. CASE \/ Boot \/ Sigterm \/ BroadcastReturns \/ FlushLoopStarts \/ FlushLoopWakes
           \/ \E a \in AdminRequests : AdminAsks(a) \/ AdminFlushes(a)
           \/ StopBegins \/ StopJoinsGenerate \/ StopFlushes
           \/ UNCHANGED vars
  BY <1>8, <1>9 DEF Boot, Sigterm, BroadcastReturns, FlushLoopStarts, FlushLoopWakes,
     AdminAsks, AdminFlushes, StopBegins, StopJoinsGenerate, StopFlushes, vars, memory
<1>10. QED  BY <1>4, <1>5, <1>6, <1>7, <1>9 DEF Next

LEMMA HonestFromInvariant ==
    ASSUME TypeOK, Places, PersistedIsStored
    PROVE  StatusIsHonest
<1> DEFINE Rows == stored \cap Life
           Held == buffer \cup InFlight
<1>1. /\ IsFiniteSet(Rows) /\ IsFiniteSet(Held)
      /\ IsFiniteSet(Life) /\ Cardinality(Life) = total_generated
  BY FinitePoints, FS_Subset, FS_Union
<1>2. Rows \cap Held = {} /\ Rows \cup Held \subseteq Life
  BY DEF Places, EachPointInOnePlace, HeldIsOfThisLife
<1>3. /\ Cardinality(Rows) \in Nat /\ Cardinality(Held) \in Nat
      /\ Cardinality(Rows \cap Held) = 0
  BY <1>1, <1>2, FS_CardinalityType, FS_EmptySet
<1>4. Cardinality(Rows \cup Held) = Cardinality(Rows) + Cardinality(Held) - 0
  BY <1>1, <1>3, FS_Union
<1>5. Cardinality(Rows \cup Held) <= total_generated
  BY <1>1, <1>2, FS_Subset
<1>6. QED
  BY <1>3, <1>4, <1>5 DEF PersistedIsStored, StatusIsHonest, TypeOK
-------------------------------------------------------------------------------
(* The bound of the buffer. *)

(* An empty or unchanged buffer keeps the bound, as long as the generator  *)
(* stays in its broadcast and a shutdown stays a shutdown.                 *)
LEMMA BoundEmpty ==
    ASSUME buffer' = {}
    PROVE  BufferBounded'
<1>1. Cardinality(buffer') = 0
  BY FS_EmptySet
<1>2. QED  BY <1>1, SizeAssumption DEF BufferBounded

LEMMA BoundSame ==
    ASSUME BufferBounded, UNCHANGED <<buffer, running, should_flush>>,
           pc'["generate"] = pc["generate"],
           pc["stop"] \in {"join_generate", "join_flush_loop"} =>
              pc'["stop"] \in {"join_generate", "join_flush_loop"}
    PROVE  BufferBounded'
BY DEF BufferBounded

LEMMA BoundStep ==
    ASSUME TypeOK, ControlOK, BufferBounded, [Next]_vars
    PROVE  BufferBounded'
<1> USE TasksDistinct
<1>1. CASE Boot
  BY <1>1, BoundEmpty DEF Boot, ControlOK
<1>2. CASE Crash \/ Exit
  BY <1>2, BoundEmpty DEF Crash, Exit, EndProcess
<1>3. CASE GenerateBatch
  <2> DEFINE batch == (born + 1) .. (born + SampleSize)
  <2>1. Cardinality(buffer) < GENERATOR_FLUSH_SIZE
    BY <1>3, SizeAssumption, FinitePoints, FS_CardinalityType
    DEF BufferBounded, GenerateBatch
  <2>2. IsFiniteSet(batch) /\ Cardinality(batch) = SampleSize
    <3>1. born + 1 \in Int /\ born + SampleSize \in Int
      BY SizeAssumption DEF TypeOK, born
    <3>2. IsFiniteSet(batch) /\ Cardinality(batch) =
             IF born + 1 > born + SampleSize THEN 0
             ELSE (born + SampleSize) - (born + 1) + 1
      BY <3>1, FS_Interval
    <3>3. (IF born + 1 > born + SampleSize THEN 0
           ELSE (born + SampleSize) - (born + 1) + 1) = SampleSize
      BY SizeAssumption DEF TypeOK, born
    <3>4. QED  BY <3>2, <3>3
  <2>3. buffer \cap batch = {}
    BY SizeAssumption DEF TypeOK, born
  <2>4. /\ Cardinality(buffer) \in Nat
        /\ Cardinality(buffer \cup batch) = Cardinality(buffer) + Cardinality(batch)
    <3> HIDE DEF batch
    <3>1. IsFiniteSet(buffer) /\ Cardinality(buffer) \in Nat
      BY FinitePoints, FS_CardinalityType
    <3>2. Cardinality(buffer \cap batch) = 0
      BY <2>3, FS_EmptySet
    <3>3. Cardinality(buffer \cup batch) =
             Cardinality(buffer) + Cardinality(batch) - Cardinality(buffer \cap batch)
      BY <2>2, <3>1, FS_Union
    <3>4. QED  BY <2>2, <3>1, <3>2, <3>3, SizeAssumption
  <2>5. Cardinality(buffer') < GENERATOR_FLUSH_SIZE + SampleSize
    BY <1>3, <2>1, <2>2, <2>4, SizeAssumption DEF GenerateBatch
  <2>6. /\ running' /\ pc'["generate"] = "broadcast"
        /\ should_flush' = (Cardinality(buffer') >= GENERATOR_FLUSH_SIZE)
    BY <1>3 DEF GenerateBatch, IsFull, TypeOK
  <2>7. QED  BY <2>5, <2>6 DEF BufferBounded
<1>4. CASE BroadcastReturns
  <2>1. CASE should_flush
    BY <1>4, <2>1, BeginFlushEffect, BoundEmpty DEF BroadcastReturns
  <2>2. CASE ~should_flush
    <3>1. pc["stop"] \notin {"join_generate", "join_flush_loop"}
      BY <1>4 DEF BroadcastReturns, Cancelled, ControlOK, Ended
    <3>2. ~(Cardinality(buffer) >= GENERATOR_FLUSH_SIZE)
      BY <1>4, <2>2, <3>1 DEF BufferBounded
    <3>3. QED  BY <1>4, <2>2, <3>2 DEF BroadcastReturns, BufferBounded
  <2>3. QED  BY <2>1, <2>2
<1>5. CASE FlushLoopWakes
  BY <1>5, BeginFlushEffect, BoundEmpty DEF FlushLoopWakes
<1>6. ASSUME NEW a \in AdminRequests, AdminFlushes(a)
      PROVE  BufferBounded'
  BY <1>6, BeginFlushEffect, BoundEmpty DEF AdminFlushes
<1>7. CASE StopFlushes
  BY <1>7, BeginFlushEffect, BoundEmpty DEF StopFlushes, ControlOK
<1>8. CASE StopBegins
  BY <1>8 DEF StopBegins, BufferBounded, TypeOK
<1>9. ASSUME NEW t \in Tasks, CommitOk(t) \/ CommitRaises(t)
      PROVE  BufferBounded'
  <2>1. CASE t = "generate"
    <3>1. Cardinality(buffer) < GENERATOR_FLUSH_SIZE
      BY <1>9, <2>1, SizeAssumption, FinitePoints, FS_CardinalityType
      DEF CommitOk, CommitRaises, EndFlush, BufferBounded, Cancelled, ControlOK, Ended
    <3>2. QED
      BY <1>9, <3>1, SizeAssumption, FinitePoints, FS_CardinalityType
      DEF CommitOk, CommitRaises, EndFlush, BufferBounded
  <2>2. CASE t # "generate"
    BY <1>9, <2>2, BoundSame DEF CommitOk, CommitRaises, EndFlush, TypeOK
  <2>3. QED  BY <2>1, <2>2
<1>10. ASSUME NEW t \in Tasks, CancelTask(t)
       PROVE  BufferBounded'
  BY <1>10 DEF CancelTask, Cancelled, BufferBounded, TypeOK, ControlOK
<1>11. CASE FlushLoopStarts
  BY <1>11, BoundSame DEF FlushLoopStarts, memory, TypeOK
<1>12. ASSUME NEW a \in AdminRequests, AdminAsks(a)
       PROVE  BufferBounded'
  BY <1>12, BoundSame DEF AdminAsks, memory, TypeOK
<1>13. CASE StopJoinsGenerate
  BY <1>13, BoundSame DEF StopJoinsGenerate, memory, TypeOK
<1>14. CASE Sigterm \/ UNCHANGED vars
  BY <1>14, BoundSame DEF Sigterm, vars, memory
<1>15. QED
  BY <1>1, <1>2, <1>3, <1>4, <1>5, <1>6, <1>7, <1>8, <1>9, <1>10, <1>11,
     <1>12, <1>13, <1>14 DEF Next
-------------------------------------------------------------------------------
(* The theorems. *)

LEMMA InductiveInvariant == Spec => []IInv
<1>1. Init => IInv
  <2> SUFFICES ASSUME Init PROVE IInv
    OBVIOUS
  <2>1. TypeOK /\ ControlOK /\ Places
    BY TypeInit, ControlInit, PlacesInit
  <2>2. BufferBounded
    BY FS_EmptySet, SizeAssumption DEF Init, BufferBounded
  <2>3. PersistedIsStored
    BY FS_EmptySet DEF Init, PersistedIsStored
  <2>4. QED  BY <2>1, <2>2, <2>3 DEF IInv, Places
<1>2. IInv /\ [Next]_vars => IInv'
  BY TypeStep, ControlStep, PlacesStep, PersistedStep, BoundStep DEF IInv, Places
<1>3. QED  BY <1>1, <1>2, PTL DEF Spec

(* Each generated point is in one place only: no row is inserted twice and *)
(* no point disappears, whatever flushes, commits, cancellations, crashes  *)
(* and restarts interleave.                                                *)
THEOREM PointsConserved == Spec => []EachPointInOnePlace
BY InductiveInvariant, PTL DEF IInv

(* The counters of GET /realtime/status never exceed what is in the table  *)
(* and what was generated.                                                 *)
THEOREM StatusHonest == Spec => []StatusIsHonest
<1>1. IInv => StatusIsHonest
  BY HonestFromInvariant DEF IInv, Places
<1>2. QED  BY <1>1, InductiveInvariant, PTL

(* The buffer stays below the flush threshold plus one batch. *)
THEOREM BufferStaysBounded == Spec => []BufferBounded
BY InductiveInvariant, PTL DEF IInv

(* When stop() has returned nothing is left in memory and no session is    *)
(* open.                                                                   *)
THEOREM StopDrains == Spec => []StoppedIsDrained
<1>1. IInv => StoppedIsDrained
  <2> SUFFICES ASSUME IInv, pc["stop"] = "done"
               PROVE  buffer = {} /\ InFlight = {} /\ \A t \in Tasks : pc[t] # "commit"
    BY DEF StoppedIsDrained
  <2>1. \A t \in Tasks : pc[t] # "commit"
    BY TasksDistinct DEF IInv, ControlOK, Ended, Tasks
  <2>2. InFlight = {}
    BY <2>1, InFlightPoints DEF IInv, ControlOK
  <2>3. QED  BY <2>1, <2>2 DEF IInv, ControlOK
<1>2. QED  BY <1>1, InductiveInvariant, PTL

(* What is settled stays settled, and only a batch adds points. *)
LEMMA SettledGrows ==
    ASSUME TypeOK, [Next]_vars
    PROVE  /\ stored \subseteq stored' /\ lost \subseteq lost'
           /\ born' = born \/ GenerateBatch
<1>1. CASE Crash \/ Exit
  BY <1>1 DEF Crash, Exit, EndProcess, born, TypeOK
<1>2. CASE \E t \in Tasks : CommitOk(t) \/ CommitRaises(t) \/ CancelTask(t)
  BY <1>2 DEF CommitOk, CommitRaises, CancelTask, EndFlush, born
<1>3. CASE GenerateBatch
  BY <1>3 DEF GenerateBatch
<1>4. CASE \/ Boot \/ Sigterm \/ BroadcastReturns \/ FlushLoopStarts \/ FlushLoopWakes
           \/ \E a \in AdminRequests : AdminAsks(a) \/ AdminFlushes(a)
           \/ StopBegins \/ StopJoinsGenerate \/ StopFlushes
           \/ UNCHANGED vars
  BY <1>4 DEF Boot, Sigterm, BroadcastReturns, FlushLoopStarts, FlushLoopWakes,
     AdminAsks, AdminFlushes, StopBegins, StopJoinsGenerate, StopFlushes, vars, memory, born
<1>5. QED  BY <1>1, <1>2, <1>3, <1>4 DEF Next

(* The generator implements the promise of MetricPipeline: every step is a *)
(* Generate, a Settle or a stutter of the abstract pipeline.               *)
THEOREM Refinement == Spec => ImplementsPipeline
<1>1. Init => Pipeline!Init
  BY DEF Init, Pipeline!Init, born
<1>2. IInv /\ IInv' /\ [Next]_vars => [Pipeline!Next]_(Pipeline!vars)
  <2> SUFFICES ASSUME IInv, IInv', [Next]_vars
               PROVE  Pipeline!Next
    BY DEF IInv
  <2>1. stored \subseteq stored' /\ lost \subseteq lost'
    BY SettledGrows DEF IInv
  <2>2. CASE GenerateBatch
    <3>1. born' = born + SampleSize /\ born \in Nat
      BY <2>2, SizeAssumption DEF GenerateBatch, CountBatch, born, IInv, TypeOK
    <3>2. QED
      BY <2>2, <3>1, SizeAssumption
      DEF GenerateBatch, Pipeline!Next, Pipeline!Generate
  <2>3. CASE born' = born
    <3>1. /\ stored' \subseteq 1 .. born /\ lost' \subseteq 1 .. born
          /\ stored' \cap lost' = {}
      BY <2>3 DEF IInv, TypeOK, EachPointInOnePlace
    <3>2. (stored' \ stored) \cup (lost' \ lost) \subseteq Pipeline!Held
      BY <2>1, <3>1 DEF Pipeline!Held, Pipeline!Points
    <3>3. QED
      BY <2>1, <2>3, <3>1, <3>2 DEF Pipeline!Next, Pipeline!Settle
  <2>4. QED  BY <2>2, <2>3, SettledGrows DEF IInv
<1>3. QED
  BY <1>1, <1>2, InductiveInvariant, PTL DEF Spec, ImplementsPipeline, Pipeline!Spec
===============================================================================
