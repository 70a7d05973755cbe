------------------------ MODULE OrchestrationProofs ------------------------
(***************************************************************************)
(* What holds of WorkerPool for any tasks, priorities, slots, sizes and    *)
(* thresholds, with and without timeouts; of the GraphExecutor whose nodes *)
(* are its tasks, for any graph, usage and budget; of Workflow for any     *)
(* definitions, strategies and retries; and of DynamicGraph for any finite *)
(* set of nodes.                                                           *)
(***************************************************************************)
EXTENDS MCOrchestration, FiniteSetTheorems, SequenceTheorems, TLAPS

(* A task that leaves the queue was in it.                                 *)
LEMMA TasksLeave ==
  ASSUME NEW k, NEW q, NEW T \in Leave(k, q)
  PROVE  T \subseteq q
BY DEF Leave

(* The turn of the loop of w: in the promises it goes on with, exactly the *)
(* tasks of the other slots are running.                                   *)
LEMMA LoopStep ==
  ASSUME PoolInv, NEW w \in Workers, worker[w] # "absent", w \notin parked,
         NEW tasks \in [Tasks -> TaskStates], NEW going \in SUBSET Tasks,
         Loop(w, tasks, going), UNCHANGED draining,
         \A t \in Tasks : tasks[t] = "running" <=> \E v \in Workers \ {w} : current[v] = t,
         drain = "resolved" => tasks = task
  PROVE  PoolInv'
<1> USE DEF PoolInv, PoolTypeOK
<1> DEFINE q == {t \in Tasks : tasks[t] = "queued"}
<1>1. NoTask \notin Tasks
  BY PoolAssumption
<1>2. CASE /\ worker[w] = "dead"
           /\ task' = tasks /\ executing' = going
           /\ current' = [current EXCEPT ![w] = NoTask]
           /\ UNCHANGED <<worker, parked, rested, drain>>
  <2>1. PoolTypeOK'
    BY <1>2 DEF InState
  <2>2. OneSlotPerTask'
    BY <1>1, <1>2 DEF OneSlotPerTask
  <2>3. DrainedMeansSettled' /\ DrainKills'
    BY <1>2 DEF DrainedMeansSettled, DrainKills, Pool, InState
  <2> QED
    BY <2>1, <2>2, <2>3
<1>3. ASSUME worker[w] # "dead", NEW t \in q,
             task' = [tasks EXCEPT ![t] = "running"],
             executing' = going \cup {t},
             current' = [current EXCEPT ![w] = t],
             worker' = [worker EXCEPT ![w] = "busy"],
             UNCHANGED <<parked, rested, drain>>
      PROVE  PoolInv'
  <2>1. PoolTypeOK'
    BY <1>3 DEF InState, TaskStates, WorkerStates
  <2>2. \A v \in Workers \ {w} : current[v] # t
    BY <1>3
  <2>3. OneSlotPerTask'
    <3>1. \A s \in Tasks : task'[s] = "running" <=> \E v \in Workers : current'[v] = s
      BY <1>3, <2>2
    <3>2. \A u, v \in Workers : current'[u] = current'[v] /\ current'[u] # NoTask => u = v
      BY <1>3, <2>2 DEF OneSlotPerTask
    <3>3. \A v \in Workers : /\ worker'[v] = "busy" => current'[v] # NoTask
                             /\ worker'[v] \in {"idle", "absent"} => current'[v] = NoTask
      BY <1>1, <1>3 DEF OneSlotPerTask
    <3> QED
      BY <3>1, <3>2, <3>3 DEF OneSlotPerTask
  <2>4. drain \notin {"resolved", "rejected"}
    BY <1>3 DEF DrainKills, Pool, InState
  <2>5. DrainedMeansSettled' /\ DrainKills'
    BY <1>3, <2>4 DEF DrainedMeansSettled, DrainKills, InState
  <2> QED
    BY <2>1, <2>3, <2>5
<1>4. ASSUME worker[w] # "dead", q = {},
             task' = tasks, executing' = going,
             current' = [current EXCEPT ![w] = NoTask]
      PROVE  /\ task' \in [Tasks -> TaskStates] /\ executing' \subseteq Tasks
             /\ current' \in [Workers -> Tasks \cup {NoTask}]
             /\ \A s \in Tasks : task'[s] = "running" <=> \E v \in Workers : current'[v] = s
             /\ \A u, v \in Workers : current'[u] = current'[v] /\ current'[u] # NoTask => u = v
             /\ drain \notin {"resolved", "rejected"} /\ InState("dead") = {}
  <2>1. drain \notin {"resolved", "rejected"} /\ InState("dead") = {}
    BY <1>4 DEF DrainKills, Pool, InState
  <2> QED
    BY <1>1, <1>4, <2>1 DEF OneSlotPerTask
<1>5. CASE /\ worker[w] # "dead" /\ q = {}
           /\ task' = tasks /\ executing' = going
           /\ current' = [current EXCEPT ![w] = NoTask]
           /\ draining /\ OtherBusy(w) = {}
           /\ Cleanup /\ drain' = "resolved"
  <2>1. PoolTypeOK'
    BY <1>4, <1>5 DEF Cleanup, InState, WorkerStates
  <2>2. \A v \in Workers : current'[v] = NoTask
    <3>1. \A v \in Workers \ {w} : worker[v] \in {"idle", "absent"}
      BY <1>4, <1>5 DEF OtherBusy, InState, WorkerStates
    <3> QED
      BY <1>5, <3>1 DEF OneSlotPerTask
  <2>3. OneSlotPerTask'
    BY <1>1, <1>4, <1>5, <2>2 DEF OneSlotPerTask, Cleanup
  <2>4. DrainedMeansSettled'
    BY <1>1, <1>4, <1>5, <2>2 DEF DrainedMeansSettled
  <2>5. DrainKills'
    BY <1>5 DEF DrainKills, Cleanup, Pool, InState
  <2> QED
    BY <2>1, <2>3, <2>4, <2>5
<1>6. CASE /\ worker[w] # "dead" /\ q = {}
           /\ task' = tasks /\ executing' = going
           /\ current' = [current EXCEPT ![w] = NoTask]
           /\ worker' = [worker EXCEPT ![w] = "idle"]
           /\ parked' = parked \cup {w}
           /\ rested' = rested \ {w}
           /\ UNCHANGED drain
  <2>1. PoolTypeOK'
    BY <1>4, <1>6 DEF InState, WorkerStates
  <2>2. OneSlotPerTask'
    BY <1>1, <1>4, <1>6 DEF OneSlotPerTask
  <2>3. DrainedMeansSettled' /\ DrainKills'
    BY <1>4, <1>6 DEF DrainedMeansSettled, DrainKills, InState
  <2> QED
    BY <2>1, <2>2, <2>3
<1> QED
  BY <1>2, <1>3, <1>5, <1>6 DEF Loop

(* The executor of a slot settles, or is given up.                         *)
LEMMA SettleStep ==
  ASSUME PoolInv, NEW w \in Workers, current[w] # NoTask, NEW outcome \in {"ok", "failed"},
         NEW going \in SUBSET Tasks,
         Loop(w, [task EXCEPT ![current[w]] = outcome], going), UNCHANGED draining
  PROVE  PoolInv'
<1> USE DEF PoolInv, PoolTypeOK
<1> DEFINE tasks == [task EXCEPT ![current[w]] = outcome]
<1>1. current[w] \in Tasks /\ task[current[w]] = "running"
  BY DEF OneSlotPerTask
<1>2. tasks \in [Tasks -> TaskStates]
  BY DEF TaskStates
<1>3. worker[w] # "absent" /\ w \notin parked
  BY DEF OneSlotPerTask, InState
<1>4. \A t \in Tasks : tasks[t] = "running" <=> \E v \in Workers \ {w} : current[v] = t
  <2>1. \A t \in Tasks : t # current[w] =>
          (tasks[t] = "running" <=> \E v \in Workers \ {w} : current[v] = t)
    BY <1>1 DEF OneSlotPerTask
  <2>2. \A v \in Workers \ {w} : current[v] # current[w]
    BY DEF OneSlotPerTask
  <2>3. tasks[current[w]] # "running"
    BY <1>1
  <2> QED
    BY <2>1, <2>2, <2>3
<1>5. drain # "resolved"
  BY <1>1 DEF DrainedMeansSettled
<1> HIDE DEF tasks
<1>6. Loop(w, tasks, going)
  BY DEF tasks
<1> QED
  BY <1>2, <1>3, <1>4, <1>5, <1>6, LoopStep

(* A worker that is woken goes through the turn of its loop.               *)
LEMMA WokenStep ==
  ASSUME PoolInv, NEW w \in Workers, WokenTurn(w)
  PROVE  PoolInv'
<1>1. worker[w] = "idle" /\ w \notin parked /\ current[w] = NoTask
  BY DEF WokenTurn, Woken, InState, PoolInv, OneSlotPerTask
<1>2. \A t \in Tasks : task[t] = "running" <=> \E v \in Workers \ {w} : current[v] = t
  BY <1>1, PoolAssumption DEF PoolInv, OneSlotPerTask
<1>3. task \in [Tasks -> TaskStates] /\ executing \subseteq Tasks
  BY DEF PoolInv, PoolTypeOK
<1> QED
  BY <1>1, <1>2, <1>3, LoopStep DEF WokenTurn

(* cleanup() while no slot works on a task, or when a drain gives up.       *)
LEMMA DrainStep ==
  ASSUME PoolInv, Drain
  PROVE  PoolInv'
<1> USE DEF PoolInv, PoolTypeOK, Drain
<1>1. drain = "none" /\ InState("dead") = {}
  BY DEF DrainKills
<1>2. CASE InState("busy") = {} /\ Queue = {} /\ Cleanup /\ drain' = "resolved"
  <2>1. \A w \in Workers : current[w] = NoTask
    BY <1>1, <1>2 DEF OneSlotPerTask, InState, WorkerStates
  <2>2. PoolTypeOK'
    BY <1>2 DEF Cleanup, InState, WorkerStates
  <2>3. OneSlotPerTask'
    BY <1>2, <2>1 DEF OneSlotPerTask, Cleanup
  <2>4. DrainedMeansSettled'
    BY <1>2, <2>1, PoolAssumption DEF DrainedMeansSettled, OneSlotPerTask, Queue
  <2>5. DrainKills'
    BY <1>2 DEF DrainKills, Cleanup, Pool, InState
  <2> QED
    BY <2>2, <2>3, <2>4, <2>5
<1>3. CASE drain' = "waiting" /\ parked' = {} /\ rested' = {} /\ UNCHANGED worker
  <2>1. PoolTypeOK'
    BY <1>3 DEF InState
  <2>2. OneSlotPerTask'
    BY <1>3 DEF OneSlotPerTask
  <2>3. DrainedMeansSettled' /\ DrainKills'
    BY <1>1, <1>3 DEF DrainedMeansSettled, DrainKills, InState
  <2> QED
    BY <2>1, <2>2, <2>3
<1> QED
  BY <1>2, <1>3

(* The drain gives up: what still runs is killed (drain()).                *)
LEMMA DrainTimeoutStep ==
  ASSUME PoolInv, DrainTimeout
  PROVE  PoolInv'
<1> USE DEF PoolInv, PoolTypeOK, DrainTimeout, Cleanup
<1>1. PoolTypeOK'
  BY DEF InState, WorkerStates
<1>2. OneSlotPerTask'
  BY DEF OneSlotPerTask, Pool
<1>3. DrainedMeansSettled' /\ DrainKills'
  BY DEF DrainedMeansSettled, DrainKills, Pool, InState
<1> QED
  BY <1>1, <1>2, <1>3

(* autoscale() adds no more slots than tasks wait: each gets one of its own. *)
LEMMA GrowStep ==
  ASSUME PoolInv, Grow
  PROVE  PoolInv'
<1> USE DEF PoolInv, PoolTypeOK
<1>1. PICK new \in SUBSET InState("absent"), T \in Leave(ToAdd, Queue) :
       /\ Cardinality(new) = ToAdd
       /\ \E pick \in [new -> T] :
            /\ \A t \in T : \E w \in new : pick[w] = t
            /\ current' = [w \in Workers |-> IF w \in new THEN pick[w] ELSE current[w]]
       /\ worker' = [w \in Workers |-> IF w \in new THEN "busy" ELSE worker[w]]
       /\ task' = [t \in Tasks |-> IF t \in T THEN "running" ELSE task[t]]
       /\ executing' = executing \cup T
  BY DEF Grow
<1>2. PICK pick \in [new -> T] :
        /\ \A t \in T : \E w \in new : pick[w] = t
        /\ current' = [w \in Workers |-> IF w \in new THEN pick[w] ELSE current[w]]
  BY <1>1
<1>3. T \subseteq Queue /\ Queue \subseteq Tasks /\ IsFiniteSet(Queue) /\ IsFiniteSet(T)
  <2>1. Queue \subseteq Tasks /\ T \subseteq Queue
    BY TasksLeave DEF Queue
  <2> QED
    BY <2>1, PoolAssumption, FS_Subset
<1>4. new \subseteq Workers /\ IsFiniteSet(new) /\ IsFiniteSet(Pool)
  <2>1. new \subseteq Workers /\ Pool \subseteq Workers
    BY DEF InState, Pool
  <2> QED
    BY <2>1, PoolAssumption, FS_Subset
<1>5. Cardinality(T) = Cardinality(new)
  <2>1. Cardinality(T) = Smaller(ToAdd, Cardinality(Queue))
    BY DEF Leave
  <2>2. Cardinality(Queue) \in Nat /\ Cardinality(Pool) \in Nat
    BY <1>3, <1>4, FS_CardinalityType
  <2>3. Cardinality(Queue) > GrowThreshold /\ GrowThreshold \in Nat /\ MaxSize \in Nat
    BY PoolAssumption DEF Grow
  <2>4. ToAdd <= Cardinality(Queue) /\ ToAdd \in Int
    <3>1. (Cardinality(Queue) + 1) \div 2 <= Cardinality(Queue)
      BY ONLY <2>2, <2>3
    <3> QED
      BY ONLY <2>2, <2>3, <3>1 DEF ToAdd, Smaller
  <2> QED
    BY ONLY <1>1, <2>1, <2>2, <2>4 DEF Smaller
<1>6. \A v, w \in new : pick[v] = pick[w] => v = w
  <2>1. pick \in Surjection(new, T)
    BY <1>2 DEF Surjection
  <2>2. pick \in Injection(new, T)
    BY <1>3, <1>4, <1>5, <2>1, FS_SurjSameCardinalityImpliesInj
  <2> QED
    BY <2>2 DEF Injection, IsInjective
<1>7. \A w \in new : worker[w] = "absent" /\ current[w] = NoTask
  BY DEF InState, OneSlotPerTask
<1>8. \A w \in Workers : current[w] \notin T
  BY <1>3, PoolAssumption DEF OneSlotPerTask, Queue
<1>9. /\ UNCHANGED <<parked, rested, draining, drain>> /\ drain \in {"none", "waiting"}
  BY DEF Grow
<1>10. PoolTypeOK'
  BY <1>1, <1>2, <1>3, <1>7, <1>9 DEF InState, TaskStates, WorkerStates
<1>11. OneSlotPerTask'
  <2>1. \A t \in Tasks : task'[t] = "running" <=> \E w \in Workers : current'[w] = t
    <3>1. \A t \in T : \E w \in Workers : current'[w] = t
      BY <1>2, <1>4
    <3>2. \A t \in Tasks \ T : (\E w \in Workers : current'[w] = t)
                             <=> (\E w \in Workers : current[w] = t)
      BY <1>2, <1>7, PoolAssumption
    <3> QED
      BY <1>1, <3>1, <3>2 DEF OneSlotPerTask
  <2>2. \A v, w \in Workers : current'[v] = current'[w] /\ current'[v] # NoTask => v = w
    <3>1. \A v \in new : current'[v] = pick[v] /\ pick[v] \in T
      BY <1>2, <1>4
    <3>2. \A v \in Workers \ new : current'[v] = current[v]
      BY <1>2
    <3> QED
      BY <1>6, <1>8, <3>1, <3>2 DEF OneSlotPerTask
  <2>3. \A w \in Workers : /\ worker'[w] = "busy" => current'[w] # NoTask
                           /\ worker'[w] \in {"idle", "absent"} => current'[w] = NoTask
    BY <1>1, <1>2, <1>3, PoolAssumption DEF OneSlotPerTask
  <2> QED
    BY <2>1, <2>2, <2>3 DEF OneSlotPerTask
<1>12. DrainedMeansSettled' /\ DrainKills'
  BY <1>1, <1>9 DEF DrainedMeansSettled, DrainKills, InState
<1> QED
  BY <1>10, <1>11, <1>12

(* submit() and its wakers.                                                *)
LEMMA SubmitStep ==
  ASSUME PoolInv, NEW S, Submit(S)
  PROVE  PoolInv'
<1> USE DEF Submit, PoolInv, PoolTypeOK
<1>1. PICK woken \in SUBSET parked : parked' = parked \ woken /\ rested' = rested \ woken
  OBVIOUS
<1>2. PoolTypeOK'
  BY <1>1 DEF InState, TaskStates
<1>3. OneSlotPerTask'
  BY DEF OneSlotPerTask
<1>4. DrainedMeansSettled' /\ DrainKills'
  BY DEF DrainedMeansSettled, DrainKills, InState
<1> QED
  BY <1>2, <1>3, <1>4

(* Every step of the pool keeps PoolInv, and so does a stutter.            *)
LEMMA PoolStepKeeps ==
  ASSUME PoolInv, [PoolNext]_poolVars
  PROVE  PoolInv'
<1>1. ASSUME NEW w \in Workers, WokenTurn(w) PROVE PoolInv'
  BY <1>1, WokenStep
<1>2. ASSUME NEW w \in Workers, Settle(w, "ok") \/ Settle(w, "failed") PROVE PoolInv'
  <2>1. executing \ {current[w]} \in SUBSET Tasks
    BY DEF PoolInv, PoolTypeOK
  <2> QED
    BY <1>2, <2>1, SettleStep DEF Settle
<1>3. ASSUME NEW w \in Workers, TaskTimeout(w) PROVE PoolInv'
  <2>1. executing \in SUBSET Tasks
    BY DEF PoolInv, PoolTypeOK
  <2> QED
    BY <1>3, <2>1, SettleStep DEF TaskTimeout
<1>4. ASSUME NEW w \in Workers, Rest(w) PROVE PoolInv'
  BY <1>4 DEF Rest, PoolInv, PoolTypeOK, InState, OneSlotPerTask, DrainedMeansSettled,
              DrainKills, Pool
<1>5. ASSUME NEW t \in Tasks, LateSettle(t) PROVE PoolInv'
  BY <1>5 DEF LateSettle, PoolInv, PoolTypeOK, InState, OneSlotPerTask, DrainedMeansSettled,
              DrainKills, Pool
<1>6. CASE DrainTimeout
  BY <1>6, DrainTimeoutStep
<1>7. CASE Grow
  BY <1>7, GrowStep
<1>8. CASE Shrink
  <2> USE <1>8 DEF Shrink, PoolInv, PoolTypeOK
  <2>1. PICK gone \in SUBSET rested :
          /\ worker' = [w \in Workers |-> IF w \in gone THEN "absent" ELSE worker[w]]
          /\ parked' = parked \ gone
          /\ rested' = rested \ gone
    OBVIOUS
  <2>2. \A w \in gone : worker[w] = "idle"
    BY DEF InState
  <2>3. PoolTypeOK'
    BY <2>1, <2>2 DEF InState, WorkerStates
  <2>4. OneSlotPerTask'
    BY <2>1, <2>2 DEF OneSlotPerTask
  <2>5. DrainedMeansSettled' /\ DrainKills'
    BY <2>1 DEF DrainedMeansSettled, DrainKills, InState
  <2> QED
    BY <2>3, <2>4, <2>5
<1>9. CASE Drain
  BY <1>9, DrainStep
<1>10. ASSUME NEW t \in Tasks, Submit({t}) PROVE PoolInv'
  BY <1>10, SubmitStep
<1>11. CASE UNCHANGED poolVars
  BY <1>11 DEF poolVars, PoolInv, PoolTypeOK, InState, OneSlotPerTask, DrainedMeansSettled,
               DrainKills, Pool
<1> QED
  BY <1>1, <1>2, <1>3, <1>4, <1>5, <1>6, <1>7, <1>8, <1>9, <1>10, <1>11 DEF PoolNext, PoolStep

(* The constructor has started the first loops, and no task is there.      *)
LEMMA PoolInitHolds ==
  ASSUME PoolInit
  PROVE  PoolInv
<1> USE DEF PoolInit
<1>1. PoolTypeOK
  BY DEF PoolTypeOK, TaskStates, WorkerStates, InState
<1>2. OneSlotPerTask
  BY PoolAssumption DEF OneSlotPerTask
<1>3. DrainedMeansSettled /\ DrainKills
  BY DEF DrainedMeansSettled, DrainKills, InState
<1> QED
  BY <1>1, <1>2, <1>3 DEF PoolInv

(* For any tasks and slots: a running task belongs to exactly one slot, and *)
(* a drain that resolves leaves no promise open.                            *)
THEOREM Invariance == PoolSpec => []PoolInv
<1>1. PoolInit => PoolInv
  BY PoolInitHolds
<1>2. PoolInv /\ [PoolNext]_poolVars => PoolInv'
  BY PoolStepKeeps
<1> QED
  BY <1>1, <1>2, PTL DEF PoolSpec

(* A running task is the current one of exactly one slot.                   *)
THEOREM EveryTaskHasOneSlot == PoolSpec => []OneSlotPerTask
<1>1. PoolInv => OneSlotPerTask
  BY DEF PoolInv
<1> QED
  BY <1>1, Invariance, PTL

(* drain() resolves with no promise open.                                   *)
THEOREM DrainIsComplete == PoolSpec => []DrainedMeansSettled
<1>1. PoolInv => DrainedMeansSettled
  BY DEF PoolInv
<1> QED
  BY <1>1, Invariance, PTL

-----------------------------------------------------------------------------
(* No worker sleeps in front of the queue.                                  *)

(* What is counted is finite.                                              *)
LEMMA FiniteParts ==
  /\ IsFiniteSet(Queue) /\ Cardinality(Queue) \in Nat
  /\ IsFiniteSet(Woken) /\ Cardinality(Woken) \in Nat
  /\ IsFiniteSet(Pool) /\ Cardinality(Pool) \in Nat
<1>1. Queue \subseteq Tasks /\ Woken \subseteq Workers /\ Pool \subseteq Workers
  BY DEF Queue, Woken, InState, Pool
<1>2. IsFiniteSet(Queue) /\ IsFiniteSet(Woken) /\ IsFiniteSet(Pool)
  BY <1>1, PoolAssumption, FS_Subset
<1> QED
  BY <1>2, FS_CardinalityType

(* Fewer tasks wait and no fewer workers were woken.                        *)
LEMMA StillAwake ==
  ASSUME NoIdleBehindQueue, Queue' \subseteq Queue, Woken \subseteq Woken',
         Woken' \subseteq Workers, parked' # {} => parked # {}
  PROVE  NoIdleBehindQueue'
<1>1. Cardinality(Queue') <= Cardinality(Queue) /\ IsFiniteSet(Queue')
  BY FiniteParts, FS_Subset
<1>2. IsFiniteSet(Woken')
  BY PoolAssumption, FS_Subset
<1>3. Cardinality(Woken) <= Cardinality(Woken')
  BY <1>2, FS_Subset
<1>4. Cardinality(Queue') \in Nat /\ Cardinality(Woken') \in Nat
  BY <1>1, <1>2, FS_CardinalityType
<1>5. parked' # {} => Cardinality(Queue) <= Cardinality(Woken)
  BY DEF NoIdleBehindQueue
<1> QED
  BY ONLY <1>1, <1>3, <1>4, <1>5, FiniteParts DEF NoIdleBehindQueue

(* Nobody sleeps in front of a queue that is empty.                        *)
LEMMA EmptyQueue ==
  ASSUME Queue' = {}, Woken' \subseteq Workers
  PROVE  NoIdleBehindQueue'
<1>1. Cardinality(Queue') = 0
  BY FS_EmptySet
<1>2. Cardinality(Woken') \in Nat
  BY PoolAssumption, FS_Subset, FS_CardinalityType
<1> QED
  BY ONLY <1>1, <1>2 DEF NoIdleBehindQueue

(* A woken worker takes the task it was woken for.                          *)
LEMMA OneLess ==
  ASSUME NoIdleBehindQueue, NEW t \in Queue, NEW w \in Woken,
         Queue' = Queue \ {t}, Woken' = Woken \ {w}, parked' = parked
  PROVE  NoIdleBehindQueue'
<1>1. Cardinality(Queue') = Cardinality(Queue) - 1 /\ Cardinality(Woken') = Cardinality(Woken) - 1
  BY FiniteParts, FS_RemoveElement
<1>2. parked' # {} => Cardinality(Queue) <= Cardinality(Woken)
  BY DEF NoIdleBehindQueue
<1> QED
  BY ONLY <1>1, <1>2, FiniteParts DEF NoIdleBehindQueue

(* The loop, with promises in which the same tasks are queued.              *)
LEMMA LoopAwake ==
  ASSUME PoolInv, NoIdleBehindQueue, NEW w \in Workers, w \notin parked,
         NEW tasks \in [Tasks -> TaskStates], NEW going,
         {t \in Tasks : tasks[t] = "queued"} = Queue,
         Loop(w, tasks, going)
  PROVE  NoIdleBehindQueue'
<1> USE DEF PoolInv, PoolTypeOK
<1>1. CASE worker[w] = "dead" /\ task' = tasks /\ UNCHANGED <<worker, parked>>
  <2>1. Queue' = Queue /\ Woken' = Woken
    BY <1>1 DEF Queue, Woken, InState
  <2>2. Woken' \subseteq Workers
    BY DEF Woken, InState
  <2> QED
    BY <1>1, <2>1, <2>2, StillAwake
<1>2. ASSUME NEW t \in Queue, worker[w] # "dead",
             task' = [tasks EXCEPT ![t] = "running"],
             worker' = [worker EXCEPT ![w] = "busy"], parked' = parked
      PROVE  NoIdleBehindQueue'
  <2>1. Queue' = Queue \ {t}
    BY <1>2 DEF Queue
  <2>2. Woken' = Woken \ {w} /\ Woken' \subseteq Workers
    BY <1>2 DEF Woken, InState
  <2>3. CASE w \in Woken
    BY <1>2, <2>1, <2>2, <2>3, OneLess
  <2>4. CASE w \notin Woken
    BY <1>2, <2>1, <2>2, <2>4, StillAwake
  <2> QED
    BY <2>3, <2>4
<1>3. CASE Queue = {} /\ task' = tasks
  <2>1. Queue' = {} /\ Woken' \subseteq Workers
    BY <1>3 DEF Queue, Woken, InState
  <2> QED
    BY <2>1, EmptyQueue
<1> QED
  BY <1>1, <1>2, <1>3 DEF Loop

(* The size of two sets that share nothing.                                *)
LEMMA DisjointUnion ==
  ASSUME NEW A, NEW B, IsFiniteSet(A), IsFiniteSet(B), A \cap B = {}
  PROVE  Cardinality(A \cup B) = Cardinality(A) + Cardinality(B)
<1>1. Cardinality(A \cup B) = Cardinality(A) + Cardinality(B) - Cardinality(A \cap B)
  BY FS_Union
<1>2. Cardinality(A \cap B) = 0
  BY FS_EmptySet
<1>3. Cardinality(A) \in Nat /\ Cardinality(B) \in Nat
  BY FS_CardinalityType
<1> QED
  BY ONLY <1>1, <1>2, <1>3

(* submit() wakes a worker for each task as long as one sleeps.             *)
LEMMA SubmitAwake ==
  ASSUME PoolInv, NoIdleBehindQueue, NEW S \in SUBSET Tasks, Submit(S)
  PROVE  NoIdleBehindQueue'
<1> USE DEF PoolInv, PoolTypeOK
<1>1. PICK woken \in SUBSET parked : Wakes(S, woken) /\ parked' = parked \ woken
  BY DEF Submit
<1>2. Queue' = Queue \cup S /\ Queue \cap S = {}
  BY DEF Submit, Queue
<1>3. Woken' = Woken \cup woken /\ Woken \cap woken = {}
  BY <1>1 DEF Submit, Woken, InState
<1>4. parked \subseteq Workers /\ woken \subseteq Workers
  BY DEF InState
<1>5. IsFiniteSet(S) /\ IsFiniteSet(parked) /\ IsFiniteSet(woken)
  BY <1>4, PoolAssumption, FS_Subset
<1>6. Cardinality(S) \in Nat /\ Cardinality(parked) \in Nat /\ Cardinality(woken) \in Nat
  BY <1>5, FS_CardinalityType
<1>7. Cardinality(Queue') = Cardinality(Queue) + Cardinality(S)
  BY <1>2, <1>5, FiniteParts, DisjointUnion
<1>8. Cardinality(Woken') = Cardinality(Woken) + Cardinality(woken)
  BY <1>3, <1>5, FiniteParts, DisjointUnion
<1>9. parked' # {} => Cardinality(woken) # Cardinality(parked)
  BY <1>1, <1>5, FS_Subset
<1>10. parked' # {} => Cardinality(woken) = Cardinality(S)
  BY <1>1, <1>6, <1>9 DEF Wakes, Smaller
<1>11. parked' # {} => Cardinality(Queue) <= Cardinality(Woken)
  BY <1>1 DEF NoIdleBehindQueue
<1> QED
  BY ONLY <1>6, <1>7, <1>8, <1>10, <1>11, FiniteParts DEF NoIdleBehindQueue

(* No worker sleeps while a task waits that no woken worker will take.      *)
THEOREM NobodySleepsBehindQueue == PoolSpec => []NoIdleBehindQueue
<1>1. PoolInit => NoIdleBehindQueue
  <2> SUFFICES ASSUME PoolInit PROVE NoIdleBehindQueue
    OBVIOUS
  <2>1. Queue = {}
    BY DEF PoolInit, Queue
  <2>2. Cardinality(Queue) = 0
    BY <2>1, FS_EmptySet
  <2> QED
    BY <2>2, FiniteParts DEF NoIdleBehindQueue
<1>2. PoolInv /\ NoIdleBehindQueue /\ [PoolNext]_poolVars => NoIdleBehindQueue'
  <2> SUFFICES ASSUME PoolInv, NoIdleBehindQueue, [PoolNext]_poolVars PROVE NoIdleBehindQueue'
    OBVIOUS
  <2> USE DEF PoolInv, PoolTypeOK
  <2>1. ASSUME NEW w \in Workers, WokenTurn(w) PROVE NoIdleBehindQueue'
    <3>1. w \notin parked /\ Loop(w, task, executing)
      BY <2>1 DEF WokenTurn, Woken
    <3> QED
      BY <3>1, LoopAwake DEF Queue
  <2>2. ASSUME NEW w \in Workers, current[w] # NoTask, NEW outcome \in {"ok", "failed"},
               NEW going, Loop(w, [task EXCEPT ![current[w]] = outcome], going)
        PROVE  NoIdleBehindQueue'
    <3>1. current[w] \in Tasks /\ task[current[w]] = "running" /\ w \notin parked
      BY <2>2 DEF OneSlotPerTask, InState
    <3>2. [task EXCEPT ![current[w]] = outcome] \in [Tasks -> TaskStates]
      BY DEF TaskStates
    <3>3. {t \in Tasks : [task EXCEPT ![current[w]] = outcome][t] = "queued"} = Queue
      BY <3>1 DEF Queue
    <3> QED
      BY <2>2, <3>1, <3>2, <3>3, LoopAwake
  <2>3. ASSUME NEW w \in Workers, Settle(w, "ok") \/ Settle(w, "failed") \/ TaskTimeout(w)
        PROVE  NoIdleBehindQueue'
    BY <2>2, <2>3 DEF Settle, TaskTimeout
  <2>4. ASSUME UNCHANGED <<task, worker, parked>> PROVE NoIdleBehindQueue'
    BY <2>4 DEF NoIdleBehindQueue, Queue, Woken, InState
  <2>5. ASSUME parked' = {} PROVE NoIdleBehindQueue'
    BY <2>5 DEF NoIdleBehindQueue
  <2>6. CASE Grow
    <3> USE <2>6 DEF Grow
    <3>1. PICK new \in SUBSET InState("absent"), T \in Leave(ToAdd, Queue) :
            /\ worker' = [w \in Workers |-> IF w \in new THEN "busy" ELSE worker[w]]
            /\ task' = [t \in Tasks |-> IF t \in T THEN "running" ELSE task[t]]
      OBVIOUS
    <3>2. Queue' \subseteq Queue
      BY <3>1 DEF Queue
    <3>3. Woken' = Woken /\ Woken' \subseteq Workers
      BY <3>1 DEF Woken, InState
    <3> QED
      BY <3>2, <3>3, StillAwake
  <2>7. CASE Shrink
    <3> USE <2>7 DEF Shrink
    <3>1. PICK gone \in SUBSET rested :
            /\ worker' = [w \in Workers |-> IF w \in gone THEN "absent" ELSE worker[w]]
            /\ parked' = parked \ gone
      OBVIOUS
    <3>2. Queue' = Queue
      BY DEF Queue
    <3>3. Woken' = Woken /\ Woken' \subseteq Workers
      BY <3>1 DEF Woken, InState
    <3> QED
      BY <3>1, <3>2, <3>3, StillAwake
  <2>8. ASSUME NEW t \in Tasks, Submit({t}) PROVE NoIdleBehindQueue'
    BY <2>8, SubmitAwake
  <2>9. DrainTimeout \/ Drain => NoIdleBehindQueue'
    BY <2>5 DEF DrainTimeout, Drain, Cleanup
  <2>10. ASSUME NEW w \in Workers, Rest(w) PROVE NoIdleBehindQueue'
    BY <2>4, <2>10 DEF Rest
  <2>11. ASSUME NEW t \in Tasks, LateSettle(t) PROVE NoIdleBehindQueue'
    BY <2>4, <2>11 DEF LateSettle
  <2>12. CASE UNCHANGED poolVars
    BY <2>4, <2>12 DEF poolVars
  <2> QED
    BY <2>1, <2>3, <2>6, <2>7, <2>8, <2>9, <2>10, <2>11, <2>12 DEF PoolNext, PoolStep
<1> QED
  BY <1>1, <1>2, Invariance, PTL DEF PoolSpec

-----------------------------------------------------------------------------
(* The pool serves each task at most once, and at most MaxSize at a time.   *)

(* A pool that does not grow stays within its size.                        *)
LEMMA SizeKept ==
  ASSUME SizeBounded, Pool' \subseteq Pool
  PROVE  SizeBounded'
<1>1. IsFiniteSet(Pool') /\ Cardinality(Pool') <= Cardinality(Pool)
  BY FiniteParts, FS_Subset
<1>2. Cardinality(Pool') \in Nat /\ MaxSize \in Nat
  BY <1>1, FS_CardinalityType, PoolAssumption
<1> QED
  BY ONLY <1>1, <1>2, FiniteParts, SizeBounded DEF SizeBounded

(* autoscale() adds no worker beyond the largest size.                     *)
LEMMA SizeGrows ==
  ASSUME PoolInv, SizeBounded, Grow
  PROVE  SizeBounded'
<1>1. PICK new \in SUBSET InState("absent") :
        /\ Cardinality(new) = ToAdd
        /\ worker' = [w \in Workers |-> IF w \in new THEN "busy" ELSE worker[w]]
  BY DEF Grow
<1>2. Pool' = Pool \cup new /\ Pool \cap new = {} /\ new \subseteq Workers
  BY <1>1 DEF Pool, InState
<1>3. IsFiniteSet(new) /\ Cardinality(new) \in Nat
  BY <1>2, PoolAssumption, FS_Subset, FS_CardinalityType
<1>4. Cardinality(Pool') = Cardinality(Pool) + Cardinality(new)
  BY <1>2, <1>3, FiniteParts, DisjointUnion
<1>5. MaxSize \in Nat /\ (Cardinality(Queue) + 1) \div 2 \in Int
  BY PoolAssumption, FiniteParts
<1>6. ToAdd <= MaxSize - Cardinality(Pool)
  BY ONLY <1>5, FiniteParts DEF ToAdd, Smaller
<1> QED
  BY ONLY <1>1, <1>3, <1>4, <1>5, <1>6, FiniteParts DEF SizeBounded

(* SizeBounded: the pool never has more workers than its largest size.     *)
THEOREM PoolStaysWithinSize == PoolSpec => []SizeBounded
<1>1. PoolInit => SizeBounded
  <2> SUFFICES ASSUME PoolInit PROVE SizeBounded
    OBVIOUS
  <2>1. PICK start \in SUBSET Workers :
          /\ Cardinality(start) = InitialSize
          /\ worker = [w \in Workers |-> IF w \in start THEN "idle" ELSE "absent"]
    BY DEF PoolInit
  <2>2. Pool = start
    BY <2>1 DEF Pool
  <2> QED
    BY <2>1, <2>2, PoolAssumption DEF SizeBounded
<1>2. PoolInv /\ SizeBounded /\ [PoolNext]_poolVars => SizeBounded'
  <2> SUFFICES ASSUME PoolInv, SizeBounded, [PoolNext]_poolVars, ~Grow PROVE SizeBounded'
    BY SizeGrows
  <2> USE DEF PoolInv, PoolTypeOK
  <2>1. ASSUME NEW w \in Workers, worker[w] # "absent", NEW tasks, NEW going, Loop(w, tasks, going)
        PROVE  Pool' \subseteq Pool
    BY <2>1 DEF Loop, Cleanup, Pool
  <2>2. ASSUME NEW w \in Workers, WokenTurn(w) PROVE Pool' \subseteq Pool
    BY <2>1, <2>2 DEF WokenTurn, Woken, InState
  <2>3. ASSUME NEW w \in Workers, Settle(w, "ok") \/ Settle(w, "failed") \/ TaskTimeout(w)
        PROVE  Pool' \subseteq Pool
    BY <2>1, <2>3 DEF Settle, TaskTimeout, OneSlotPerTask
  <2>4. ASSUME NEW w \in Workers, Rest(w) PROVE Pool' \subseteq Pool
    BY <2>4 DEF Rest, Pool
  <2>5. ASSUME NEW t \in Tasks, LateSettle(t) \/ Submit({t}) PROVE Pool' \subseteq Pool
    BY <2>5 DEF LateSettle, Submit, Pool
  <2>6. DrainTimeout \/ Drain \/ Shrink => Pool' \subseteq Pool
    BY DEF DrainTimeout, Drain, Shrink, Cleanup, Pool
  <2>7. UNCHANGED poolVars => Pool' \subseteq Pool
    BY DEF poolVars, Pool
  <2>8. Pool' \subseteq Pool
    BY <2>2, <2>3, <2>4, <2>5, <2>6, <2>7 DEF PoolNext, PoolStep
  <2> QED
    BY <2>8, SizeKept
<1> QED
  BY <1>1, <1>2, Invariance, PTL DEF PoolSpec

Running == {t \in Tasks : task[t] = "running"}

FewRunning == Cardinality(Running) \in Nat /\ Cardinality(Running) <= MaxSize

(* As many slots as running tasks.                                          *)
LEMMA SizeLimitsRunning ==
  ASSUME PoolInv, SizeBounded
  PROVE  FewRunning
<1> USE DEF PoolInv, PoolTypeOK, FewRunning
<1> DEFINE R == Running
<1> DEFINE slot == [t \in R |-> CHOOSE w \in Workers : current[w] = t]
<1>1. \A t \in R : slot[t] \in Workers /\ current[slot[t]] = t
  BY DEF OneSlotPerTask, Running
<1>2. \A t \in R : slot[t] \in Pool
  BY <1>1, PoolAssumption DEF OneSlotPerTask, Pool, Running
<1>3. slot \in Injection(R, Pool)
  BY <1>1, <1>2 DEF Injection, IsInjective
<1> HIDE DEF slot
<1>4. IsFiniteSet(R) /\ Cardinality(R) <= Cardinality(Pool)
  BY <1>3, FiniteParts, FS_Injection
<1>5. Cardinality(R) \in Nat /\ MaxSize \in Nat
  BY <1>4, FS_CardinalityType, PoolAssumption
<1> QED
  BY ONLY <1>4, <1>5, FiniteParts, SizeBounded DEF SizeBounded

(* What the pool does on its own submits nothing.                           *)
LEMMA QueuedMove ==
  ASSUME PoolInv, PoolStep, NEW t \in Tasks
  PROVE  \/ task'[t] = task[t]
         \/ task[t] = "queued" /\ task'[t] = "running"
         \/ task[t] = "running" /\ task'[t] \in {"ok", "failed"}
<1> USE DEF PoolInv, PoolTypeOK
<1>1. ASSUME NEW w \in Workers, NEW tasks \in [Tasks -> TaskStates], NEW going, Loop(w, tasks, going)
      PROVE  task'[t] = tasks[t] \/ (tasks[t] = "queued" /\ task'[t] = "running")
  <2>1. CASE task' = tasks
    BY <2>1
  <2>2. ASSUME NEW u \in Tasks, tasks[u] = "queued", task' = [tasks EXCEPT ![u] = "running"]
        PROVE  task'[t] = tasks[t] \/ (tasks[t] = "queued" /\ task'[t] = "running")
    BY ONLY <2>2, tasks \in [Tasks -> TaskStates], t \in Tasks
  <2>3. \/ task' = tasks
        \/ \E u \in Tasks : tasks[u] = "queued" /\ task' = [tasks EXCEPT ![u] = "running"]
    BY <1>1 DEF Loop
  <2> QED
    BY ONLY <2>1, <2>2, <2>3
<1>2. ASSUME NEW w \in Workers, WokenTurn(w)
      PROVE  task'[t] = task[t] \/ (task[t] = "queued" /\ task'[t] = "running")
  BY <1>1, <1>2 DEF WokenTurn
<1>3. ASSUME NEW w \in Workers, current[w] # NoTask, NEW outcome \in {"ok", "failed"},
             NEW going, Loop(w, [task EXCEPT ![current[w]] = outcome], going)
      PROVE  \/ task'[t] = task[t]
             \/ task[t] = "queued" /\ task'[t] = "running"
             \/ task[t] = "running" /\ task'[t] \in {"ok", "failed"}
  <2>1. current[w] \in Tasks /\ task[current[w]] = "running"
    BY <1>3 DEF OneSlotPerTask
  <2>2. [task EXCEPT ![current[w]] = outcome] \in [Tasks -> TaskStates]
    BY DEF TaskStates
  <2> DEFINE tasks == [task EXCEPT ![current[w]] = outcome]
  <2>3. task'[t] = tasks[t] \/ (tasks[t] = "queued" /\ task'[t] = "running")
    BY <1>1, <1>3, <2>2
  <2> QED
    BY <2>1, <2>3
<1>4. ASSUME NEW w \in Workers, Settle(w, "ok") \/ Settle(w, "failed") \/ TaskTimeout(w)
      PROVE  \/ task'[t] = task[t]
             \/ task[t] = "queued" /\ task'[t] = "running"
             \/ task[t] = "running" /\ task'[t] \in {"ok", "failed"}
  BY <1>3, <1>4 DEF Settle, TaskTimeout
<1>5. Grow => task'[t] = task[t] \/ (task[t] = "queued" /\ task'[t] = "running")
  <2> SUFFICES ASSUME Grow PROVE task'[t] = task[t] \/ (task[t] = "queued" /\ task'[t] = "running")
    OBVIOUS
  <2>1. PICK T \in Leave(ToAdd, Queue) :
          task' = [u \in Tasks |-> IF u \in T THEN "running" ELSE task[u]]
    BY DEF Grow
  <2>2. t \in T => task[t] = "queued"
    BY TasksLeave DEF Queue
  <2>3. task'[t] = IF t \in T THEN "running" ELSE task[t]
    BY ONLY <2>1, t \in Tasks
  <2> QED
    BY ONLY <2>2, <2>3
<1>6. ASSUME NEW u \in Tasks, LateSettle(u) PROVE task' = task
  BY <1>6 DEF LateSettle
<1>7. ASSUME NEW w \in Workers, Rest(w) PROVE task' = task
  BY <1>7 DEF Rest
<1>8. DrainTimeout \/ Shrink => task' = task
  BY DEF DrainTimeout, Shrink
<1> QED
  BY <1>2, <1>4, <1>5, <1>6, <1>7, <1>8 DEF PoolStep

(* A task only moves forward.                                               *)
LEMMA TasksMove ==
  ASSUME PoolInv, [PoolNext]_poolVars, NEW t \in Tasks
  PROVE  \/ task'[t] = task[t]
         \/ task[t] = "new" /\ task'[t] = "queued"
         \/ task[t] = "queued" /\ task'[t] = "running"
         \/ task[t] = "running" /\ task'[t] \in {"ok", "failed"}
<1>1. ASSUME NEW u \in Tasks, Submit({u})
      PROVE  task'[t] = task[t] \/ (task[t] = "new" /\ task'[t] = "queued")
  <2>1. /\ task[u] = "new"
        /\ task' = [s \in Tasks |-> IF s \in {u} THEN "queued" ELSE task[s]]
    BY <1>1 DEF Submit
  <2>2. task'[t] = IF t = u THEN "queued" ELSE task[t]
    BY ONLY <2>1, t \in Tasks
  <2> QED
    BY ONLY <2>1, <2>2
<1>2. Drain \/ UNCHANGED poolVars => task' = task
  BY DEF Drain, poolVars
<1> QED
  BY <1>1, <1>2, QueuedMove DEF PoolNext

(* The pool implements the abstract one: a task is served at most once, in  *)
(* one piece, and never more than MaxSize of them at a time.                *)
THEOREM ImplementsBoundedPool == PoolSpec => ServesWithinSize
<1>1. PoolInit => Bounded!Init
  BY DEF PoolInit, Bounded!Init, phase
<1>2. PoolInv /\ PoolInv' /\ FewRunning' /\ [PoolNext]_poolVars => [Bounded!Advance]_phase
  <2> SUFFICES ASSUME PoolInv, PoolInv', FewRunning', [PoolNext]_poolVars PROVE Bounded!Advance
    OBVIOUS
  <2>1. \A t \in Tasks : phase'[t] = phase[t] \/ phase'[t] \in Bounded!Later[phase[t]]
    <3> TAKE t \in Tasks
    <3>1. task[t] \in TaskStates /\ task'[t] \in TaskStates
      BY DEF PoolInv, PoolTypeOK
    <3> QED
      BY <3>1, TasksMove DEF phase, TaskStates, Bounded!Later
  <2>2. phase' \in [Tasks -> Bounded!Phases]
    BY DEF PoolInv, PoolTypeOK, phase, TaskStates, Bounded!Phases
  <2>3. Bounded!In("serving")' = Running'
    BY DEF PoolInv, PoolTypeOK, TaskStates, Bounded!In, phase, Running
  <2>4. /\ Cardinality(Bounded!In("serving")') <= MaxSize
        /\ Cardinality(Bounded!In("serving")') \in Nat
    BY <2>3 DEF FewRunning
  <2>5. \A S : Bounded!Cardinality(S) = Cardinality(S)
    BY Zenon DEF Bounded!Cardinality, Cardinality
  <2> QED
    BY <2>1, <2>2, <2>4, <2>5 DEF Bounded!Advance
<1>3. PoolInv /\ SizeBounded => FewRunning
  BY SizeLimitsRunning
<1> QED
  BY <1>1, <1>2, <1>3, Invariance, PoolStaysWithinSize, PTL DEF PoolSpec, ServesWithinSize, Bounded!Spec

-----------------------------------------------------------------------------
(* The nodes of a graph are the tasks of a pool.                            *)

(* A node is ready when no dependency is left to count.                    *)
LEMMA DepsAreFinite ==
  ASSUME NEW m \in Tasks, NEW R
  PROVE  /\ IsFiniteSet(Deps[m] \ R)
         /\ Cardinality(Deps[m] \ R) \in Nat
         /\ Cardinality(Deps[m] \ R) = 0 <=> Deps[m] \subseteq R
<1>1. Deps[m] \ R \subseteq Tasks
  BY GraphAssumption
<1>2. IsFiniteSet(Deps[m] \ R)
  BY <1>1, PoolAssumption, FS_Subset
<1> QED
  BY <1>2, FS_CardinalityType, FS_EmptySet

(* markCompleted(): one dependency less, and ready without any other.       *)
LEMMA OneDependencyLess ==
  ASSUME NEW m \in Tasks, NEW R, NEW n \in Tasks, n \notin R
  PROVE  /\ Cardinality(Deps[m] \ (R \cup {n}))
               = Cardinality(Deps[m] \ R) - (IF n \in Deps[m] THEN 1 ELSE 0)
         /\ n \in Deps[m] /\ Cardinality(Deps[m] \ R) = 1 => Deps[m] \subseteq R \cup {n}
<1> DEFINE D == Deps[m] \ R
<1>1. IsFiniteSet(D) /\ Cardinality(D) \in Nat
  BY DepsAreFinite
<1>2. CASE n \in Deps[m]
  <2>1. Deps[m] \ (R \cup {n}) = D \ {n} /\ n \in D
    BY <1>2
  <2> HIDE DEF D
  <2>2. Cardinality(D \ {n}) = Cardinality(D) - 1
    BY <1>1, <2>1, FS_RemoveElement
  <2>3. Cardinality(Deps[m] \ (R \cup {n})) = Cardinality(D) - 1
    BY <2>1, <2>2
  <2>4. Cardinality(Deps[m] \ (R \cup {n})) = 0 <=> Deps[m] \subseteq R \cup {n}
    BY DepsAreFinite
  <2>5. Cardinality(D) = 1 => Deps[m] \subseteq R \cup {n}
    BY <2>3, <2>4
  <2> QED
    BY <1>2, <2>3, <2>5 DEF D
<1>3. CASE n \notin Deps[m]
  <2>1. Deps[m] \ (R \cup {n}) = D
    BY <1>3
  <2> HIDE DEF D
  <2> QED
    BY <1>1, <1>3, <2>1 DEF D
<1> QED
  BY <1>2, <1>3

(* run() starts with all dependencies pending.                             *)
LEMMA RunBegins ==
  ASSUME Init
  PROVE  RunInv
<1> USE DEF Init
<1>1. PoolInv
  BY PoolInitHolds
<1>2. TypeOK
  <2>1. \A n \in Tasks : Cardinality(Deps[n]) \in Nat
    <3> TAKE n \in Tasks
    <3>1. Deps[n] \ {} = Deps[n]
      OBVIOUS
    <3> QED
      BY <3>1, DepsAreFinite
  <2> QED
    BY <1>1, <2>1 DEF TypeOK, PoolInv
<1>3. \A n \in Tasks : task[n] = "new"
  BY DEF PoolInit
<1>4. CountsPending
  BY DEF CountsPending
<1> QED
  BY <1>1, <1>2, <1>3, <1>4 DEF RunInv, DependenciesFirst, ReadyIsSubmitted, ResultsAreHandled,
                               NothingBeforeStart

(* The nodes that are submitted depend on nothing without a result.         *)
LEMMA StartKeeps ==
  ASSUME RunInv, Start
  PROVE  RunInv'
<1> USE DEF RunInv, TypeOK, Start
<1>1. PoolInv'
  BY SubmitStep
<1>2. task \in [Tasks -> TaskStates] /\ Roots \subseteq Tasks
  BY DEF PoolTypeOK, Roots
<1>3. \A n \in Tasks : task'[n] = IF n \in Roots THEN "queued" ELSE task[n]
  BY DEF Submit
<1>4. terminated = "no" /\ \A n \in Tasks : task[n] = "new"
  BY DEF NothingBeforeStart
<1>5. \A n \in Tasks : n \in Roots <=> Deps[n] \subseteq results
  BY <1>4, DepsAreFinite DEF Roots, CountsPending
<1>6. TypeOK'
  BY <1>1 DEF PoolInv
<1>7. DependenciesFirst' /\ ReadyIsSubmitted'
  BY <1>3, <1>4, <1>5 DEF DependenciesFirst, ReadyIsSubmitted
<1>8. CountsPending' /\ ResultsAreHandled' /\ NothingBeforeStart'
  BY <1>4 DEF CountsPending, ResultsAreHandled, NothingBeforeStart
<1> QED
  BY <1>1, <1>6, <1>7, <1>8

(* What the pool does on its own, and a drain, submit nothing.              *)
LEMMA PoolKeepsRun ==
  ASSUME RunInv, PoolStep \/ Drain \/ UNCHANGED poolVars,
         UNCHANGED <<results, handled, pendingDeps, used>>,
         terminated' = terminated \/ (terminated' = "error" /\ consumer # "start"),
         consumer' \in {consumer, "draining", "returned"}
  PROVE  RunInv'
<1> USE DEF RunInv, TypeOK
<1>1. PoolInv'
  BY PoolStepKeeps DEF PoolNext
<1>2. \A n \in Tasks : task'[n] = "new" <=> task[n] = "new"
  <2> TAKE n \in Tasks
  <2>1. CASE PoolStep
    BY <2>1, QueuedMove
  <2>2. CASE Drain \/ UNCHANGED poolVars
    BY <2>2 DEF Drain, poolVars
  <2> QED
    BY <2>1, <2>2
<1>3. TypeOK'
  BY <1>1 DEF PoolInv
<1>4. DependenciesFirst' /\ ReadyIsSubmitted' /\ NothingBeforeStart'
  BY <1>2 DEF DependenciesFirst, ReadyIsSubmitted, NothingBeforeStart
<1>5. CountsPending' /\ ResultsAreHandled'
  BY DEF CountsPending, ResultsAreHandled
<1> QED
  BY <1>1, <1>3, <1>4, <1>5

(* The first failure ends the run.                                          *)
LEMMA FailKeeps ==
  ASSUME RunInv, NEW n \in Tasks, Fail(n)
  PROVE  RunInv'
<1> USE DEF RunInv, TypeOK, Fail
<1>1. PoolInv'
  BY PoolStepKeeps
<1>2. task' = task /\ terminated' # "no" /\ consumer # "start"
  BY DEF poolVars, NothingBeforeStart
<1>3. TypeOK'
  BY <1>1 DEF PoolInv
<1> QED
  BY <1>1, <1>2, <1>3 DEF DependenciesFirst, CountsPending, ReadyIsSubmitted, ResultsAreHandled,
                          NothingBeforeStart

(* The .then() of a submit(): the budget, the successors, the completion.  *)
LEMMA CompleteKeeps ==
  ASSUME RunInv, NEW n \in Tasks, Complete(n)
  PROVE  RunInv'
<1> USE DEF RunInv, TypeOK
<1>1. /\ task[n] = "ok" /\ n \notin handled /\ n \notin results
      /\ handled' = handled \cup {n} /\ consumer' = consumer /\ consumer # "start"
  BY DEF Complete, NothingBeforeStart
<1>2. CASE /\ terminated # "no"
           /\ UNCHANGED <<poolVars, terminated, results, pendingDeps, used>>
  <2>1. PoolInv' /\ task' = task
    BY <1>2, PoolStepKeeps DEF poolVars
  <2>2. TypeOK'
    BY <1>1, <1>2, <2>1 DEF PoolInv
  <2> QED
    BY <1>1, <1>2, <2>1, <2>2 DEF DependenciesFirst, CountsPending, ReadyIsSubmitted,
                                  ResultsAreHandled, NothingBeforeStart
<1>3. ASSUME terminated = "no", results' = results \cup {n},
             \E usage \in {0, Tokens[n]} : used' = used + usage
      PROVE  used' \in Nat /\ results' \subseteq handled' /\ handled' \subseteq Tasks
  BY <1>1, <1>3, GraphAssumption
<1>4. ASSUME terminated = "no", results' = results \cup {n},
             \E usage \in {0, Tokens[n]} : used' = used + usage,
             terminated' = "error", UNCHANGED poolVars, pendingDeps' \in [Tasks -> Nat]
      PROVE  RunInv'
  <2>1. PoolInv' /\ task' = task
    BY <1>4, PoolStepKeeps DEF poolVars
  <2>2. TypeOK'
    BY <1>1, <1>3, <1>4, <2>1 DEF PoolInv
  <2> QED
    BY <1>1, <1>4, <2>1, <2>2 DEF DependenciesFirst, CountsPending, ReadyIsSubmitted,
                                  ResultsAreHandled, NothingBeforeStart
<1>5. ASSUME terminated = "no", results' = results \cup {n},
             pendingDeps' = [m \in Tasks |-> pendingDeps[m] - IF m \in Successors(n) THEN 1 ELSE 0]
      PROVE  /\ \A m \in Tasks : pendingDeps'[m] = Cardinality(Deps[m] \ results')
             /\ pendingDeps' \in [Tasks -> Nat]
             /\ \A m \in Tasks : m \in Ready(n) <=> n \in Deps[m] /\ Deps[m] \subseteq results'
  <2>1. ASSUME NEW m \in Tasks
        PROVE  /\ pendingDeps'[m] = Cardinality(Deps[m] \ results')
               /\ Cardinality(Deps[m] \ results') \in Nat
               /\ m \in Ready(n) <=> n \in Deps[m] /\ Deps[m] \subseteq results'
    <3>1. pendingDeps[m] = Cardinality(Deps[m] \ results)
      BY <1>5 DEF CountsPending
    <3>2. pendingDeps'[m] = pendingDeps[m] - IF n \in Deps[m] THEN 1 ELSE 0
      BY <1>5 DEF Successors
    <3>3. Cardinality(Deps[m] \ results') = Cardinality(Deps[m] \ results) - IF n \in Deps[m] THEN 1 ELSE 0
      BY <1>1, <1>5, OneDependencyLess
    <3>4. /\ Cardinality(Deps[m] \ results') \in Nat
          /\ Cardinality(Deps[m] \ results') = 0 <=> Deps[m] \subseteq results'
          /\ Cardinality(Deps[m] \ results) \in Nat
      BY DepsAreFinite
    <3>5. m \in Ready(n) <=> n \in Deps[m] /\ pendingDeps[m] = 1
      BY DEF Ready, Successors
    <3> QED
      BY ONLY <3>1, <3>2, <3>3, <3>4, <3>5
  <2>2. \A m \in Tasks : pendingDeps'[m] \in Nat
    BY <2>1
  <2>3. pendingDeps' \in [Tasks -> Nat]
    BY <1>5, <2>2
  <2> QED
    BY <2>1, <2>3
<1>6. ASSUME terminated = "no", results' = results \cup {n},
             \E usage \in {0, Tokens[n]} : used' = used + usage,
             pendingDeps' = [m \in Tasks |-> pendingDeps[m] - IF m \in Successors(n) THEN 1 ELSE 0],
             IF Ready(n) = {} THEN UNCHANGED poolVars ELSE Submit(Ready(n)),
             terminated' = IF Finished(results') THEN "complete" ELSE "no"
      PROVE  RunInv'
  <2>1. PoolInv'
    BY <1>6, PoolStepKeeps, SubmitStep
  <2>2. \A m \in Tasks : task'[m] = IF m \in Ready(n) THEN "queued" ELSE task[m]
    <3>1. CASE Ready(n) = {}
      BY <1>6, <3>1 DEF poolVars
    <3>2. CASE Ready(n) # {}
      BY <1>6, <3>2 DEF Submit
    <3> QED
      BY <3>1, <3>2
  <2>3. /\ \A m \in Tasks : pendingDeps'[m] = Cardinality(Deps[m] \ results')
        /\ pendingDeps' \in [Tasks -> Nat]
        /\ \A m \in Tasks : m \in Ready(n) <=> n \in Deps[m] /\ Deps[m] \subseteq results'
    BY <1>5, <1>6
  <2>4. TypeOK'
    BY <1>1, <1>3, <1>6, <2>1, <2>3 DEF PoolInv
  <2>5. DependenciesFirst'
    BY <1>6, <2>2, <2>3 DEF DependenciesFirst
  <2>6. CountsPending'
    BY <2>3 DEF CountsPending
  <2>7. ReadyIsSubmitted'
    <3> SUFFICES ASSUME consumer = "pulling", NEW m \in Tasks, Deps[m] \subseteq results'
                 PROVE  task'[m] # "new"
      BY <1>1 DEF ReadyIsSubmitted
    <3>1. CASE n \in Deps[m]
      BY <2>2, <2>3, <3>1
    <3>2. CASE n \notin Deps[m]
      BY <1>6, <2>2, <3>2 DEF ReadyIsSubmitted
    <3> QED
      BY <3>1, <3>2
  <2>8. ResultsAreHandled' /\ NothingBeforeStart'
    BY <1>1, <1>6 DEF ResultsAreHandled, NothingBeforeStart, Finished
  <2> QED
    BY <2>1, <2>4, <2>5, <2>6, <2>7, <2>8
<1> QED
  BY <1>2, <1>4, <1>5, <1>6 DEF Complete

(* For any graph, usage and budget: what the tracker counts and what has    *)
(* been submitted belong together as long as the run lives.                 *)
THEOREM GraphInvariance == Spec => []RunInv
<1>1. Init => RunInv
  BY RunBegins
<1>2. RunInv /\ [Next]_vars => RunInv'
  <2> SUFFICES ASSUME RunInv, [Next]_vars PROVE RunInv'
    OBVIOUS
  <2>1. CASE Start
    BY <2>1, StartKeeps
  <2>2. CASE Timeout \/ Finally \/ LeaveAtStart \/ Return
    <3>1. /\ Drain \/ UNCHANGED poolVars
          /\ UNCHANGED <<results, handled, pendingDeps, used>>
          /\ terminated' = terminated \/ (terminated' = "error" /\ consumer # "start")
          /\ consumer' \in {consumer, "draining", "returned"}
      BY <2>2 DEF Timeout, Finally, LeaveAtStart, Return
    <3> QED
      BY <3>1, PoolKeepsRun
  <2>3. ASSUME NEW n \in Tasks, Complete(n) \/ Fail(n) PROVE RunInv'
    BY <2>3, CompleteKeeps, FailKeeps
  <2>4. CASE PoolStep /\ UNCHANGED graphVars
    BY <2>4, PoolKeepsRun DEF graphVars
  <2>5. CASE UNCHANGED vars
    BY <2>5, PoolKeepsRun DEF vars, graphVars
  <2> QED
    BY <2>1, <2>2, <2>3, <2>4, <2>5 DEF Next
<1> QED
  BY <1>1, <1>2, PTL DEF Spec

(* A node is submitted after everything it depends on has its result.       *)
THEOREM DependenciesComeFirst == Spec => []DependenciesFirst
<1>1. RunInv => DependenciesFirst
  BY DEF RunInv
<1> QED
  BY <1>1, GraphInvariance, PTL

(* A run of an acyclic graph with nodes never waits for its timer alone:    *)
(* were nothing under way, each node that is not submitted would wait for   *)
(* another one of them.                                                     *)
THEOREM RunsNeverStall ==
  ASSUME Acyclic, Tasks # {}
  PROVE  Spec => []NeverStalls
<1>1. RunInv => NeverStalls
  <2> SUFFICES ASSUME RunInv, consumer = "pulling", terminated = "no", Followed,
                      \A n \in Tasks : task[n] \notin {"queued", "running"}
               PROVE  FALSE
    BY DEF NeverStalls
  <2> DEFINE left == {n \in Tasks : task[n] = "new"}
  <2>1. \A n \in Tasks \ left : n \in results
    BY DEF RunInv, PoolInv, PoolTypeOK, TaskStates, Followed, ResultsAreHandled
  <2>2. results \subseteq Tasks /\ results # Tasks
    BY DEF RunInv, TypeOK, ResultsAreHandled
  <2>3. left # {}
    BY <2>1, <2>2
  <2>4. PICK n \in left : Deps[n] \cap left = {}
    BY <2>3 DEF Acyclic
  <2>5. Deps[n] \subseteq results
    BY <2>1, <2>4, GraphAssumption
  <2> QED
    BY <2>4, <2>5 DEF RunInv, ReadyIsSubmitted
<1> QED
  BY <1>1, GraphInvariance, PTL

-----------------------------------------------------------------------------
(* Workflows.                                                              *)
(* The definition, and where execute() is.                                 *)
FlowTypes ==
  /\ steps \in Seq(Steps) /\ completed \in Seq(Steps) /\ at \in Nat \ {0}
  /\ \A i, j \in DOMAIN steps : steps[i] = steps[j] => i = j
  /\ flow \in {"between", "executing", "rolling", "completed", "failed"}
  /\ running \in [Steps -> {"idle", "executing", "backoff", "ok", "failed"}]

(* What is run.                                                            *)
Underway ==
  /\ flow = "between" => settled = "none"
  /\ flow = "executing" =>
       /\ at \in DOMAIN steps /\ doing \in Steps
       /\ doing \in Flow!Reached
       /\ Kind[doing] \in {"plain", "agent", "parallel", "loop"}
       /\ ~Flow!Leaf(doing) => Flow!ToSet(Children[doing]) \cap Undoable \subseteq DOMAIN registry
  /\ flow \in {"between", "executing"} => rolled = {}
  /\ flow = "failed" => DOMAIN registry \subseteq rolled

(* The plain step or agent step it waits for is not registered yet.        *)
Alone(s) == flow = "executing" /\ doing = s /\ Flow!Leaf(s)

(* What took effect and what may still take effect is registered, and no   *)
(* step but plain ones and agents is; a step that completed is among them. *)
Registered ==
  /\ \A s \in applied \cap Undoable : s \in DOMAIN registry \/ (Alone(s) /\ settled = "ok")
  /\ \A s \in Undoable : running[s] \in {"executing", "backoff"} =>
       s \in DOMAIN registry \/ (Alone(s) /\ settled = "none")
  /\ \A s \in DOMAIN registry : s \in Undoable /\ Flow!Leaf(s)
  /\ \A s \in Flow!ToSet(completed) \cap Undoable : Flow!Leaf(s) => s \in DOMAIN registry

(* The completed steps come in the order of the definition.                *)
CompletedInTurn ==
  /\ \A i \in DOMAIN completed : \E j \in DOMAIN steps : j < at /\ completed[i] = steps[j]
  /\ \A i, k \in DOMAIN completed, j, l \in DOMAIN steps :
       i < k /\ completed[i] = steps[j] /\ completed[k] = steps[l] => j < l

FlowInv == FlowTypes /\ Underway /\ Registered /\ CompletedInTurn

(* It starts with nothing registered or completed.                         *)
LEMMA FlowStart == Flow!Init => FlowInv
<1> SUFFICES ASSUME Flow!Init PROVE FlowInv
  OBVIOUS
<1>1. completed = <<>> /\ DOMAIN completed = {}
  BY EmptySeq DEF Flow!Init
<1>2. steps \in Definitions /\ Flow!IsInjective(steps)
  BY DEF Flow!Init, Flow!Valid
<1>3. FlowTypes
  BY <1>1, <1>2, EmptySeq, FlowAssumption DEF Flow!Init, FlowTypes, Flow!IsInjective
<1>4. Underway
  BY DEF Flow!Init, Underway
<1>5. Registered
  BY <1>1, EmptySeq, FlowAssumption DEF Flow!Init, Registered, Flow!ToSet
<1>6. CompletedInTurn
  BY <1>1 DEF CompletedInTurn
<1> QED
  BY <1>3, <1>4, <1>5, <1>6 DEF FlowInv


(* Map.set() leaves the keys there are.                                    *)
LEMMA KeysPut ==
  ASSUME NEW s
  PROVE  /\ DOMAIN Flow!RegisteredBefore(s) = DOMAIN registry \cup (Flow!ToSet(Children[s]) \cap Undoable)
         /\ DOMAIN Flow!RegisteredAfter(s) = DOMAIN registry \cup ({s} \cap Undoable)
BY DEF Flow!RegisteredBefore, Flow!RegisteredAfter, Flow!Put

(* What a step of the definition may run.                                  *)
LEMMA ReachedSteps ==
  ASSUME FlowTypes, at \in DOMAIN steps
  PROVE  /\ steps[at] \in Steps
         /\ Flow!Reached \subseteq Steps
         /\ \A s \in Flow!Reached : s # steps[at] => Kind[steps[at]] = "conditional"
<1>1. steps[at] \in Steps
  BY ElementOfSeq, LenProperties DEF FlowTypes
<1> QED
  BY <1>1, FlowAssumption DEF Flow!Reached

(* A step is pushed behind those before it.                                *)
LEMMA PushedInTurn ==
  ASSUME FlowTypes, CompletedInTurn, at \in DOMAIN steps,
         at' = at + 1, steps' = steps, NEW ids, Flow!Push(ids)
  PROVE  /\ completed' \in Seq(Steps) /\ CompletedInTurn'
         /\ \/ Flow!ToSet(completed)' = Flow!ToSet(completed)
            \/ Flow!ToSet(completed)' = Flow!ToSet(completed) \cup {steps[at]}
<1>1. at \in 1 .. Len(steps) /\ steps[at] \in Steps /\ at \in Nat
  BY ElementOfSeq, LenProperties DEF FlowTypes
<1>2. CASE completed' = completed
  <2>1. CompletedInTurn'
    BY <1>1, <1>2, LenProperties DEF CompletedInTurn, FlowTypes
  <2> QED
    BY <1>2, <2>1 DEF FlowTypes, Flow!ToSet
<1>3. CASE completed' = Append(completed, steps[at])
  <2> DEFINE n == Len(completed)
  <2>1. /\ n \in Nat /\ DOMAIN completed = 1 .. n
        /\ completed' \in Seq(Steps) /\ DOMAIN completed' = 1 .. n + 1
        /\ \A i \in 1 .. n : completed'[i] = completed[i]
        /\ completed'[n + 1] = steps[at]
    BY <1>1, <1>3, AppendProperties, LenProperties DEF FlowTypes
  <2>2. DOMAIN steps \subseteq Nat
    BY LenProperties DEF FlowTypes
  <2> HIDE DEF n
  <2>3. \A i \in 1 .. n + 1 : i \in 1 .. n \/ i = n + 1
    BY <2>1
  <2>4. Flow!ToSet(completed)' = Flow!ToSet(completed) \cup {steps[at]}
    BY <2>1, <2>3 DEF Flow!ToSet
  <2>5. \A i \in DOMAIN completed' : \E j \in DOMAIN steps : j < at + 1 /\ completed'[i] = steps[j]
    <3> TAKE i \in DOMAIN completed'
    <3>1. CASE i \in 1 .. n
      BY <1>1, <2>1, <2>2, <3>1 DEF CompletedInTurn
    <3>2. CASE i = n + 1
      BY <1>1, <2>1, <3>2
    <3> QED
      BY <2>1, <2>3, <3>1, <3>2
  <2>6. ASSUME NEW i \in DOMAIN completed', NEW k \in DOMAIN completed', NEW j \in DOMAIN steps, NEW l \in DOMAIN steps,
               i < k, completed'[i] = steps[j], completed'[k] = steps[l]
        PROVE  j < l
    <3>1. i \in 1 .. n /\ completed[i] = steps[j]
      BY <2>1, <2>3, <2>6
    <3>2. CASE k \in 1 .. n
      BY <2>1, <2>6, <3>1, <3>2 DEF CompletedInTurn
    <3>3. CASE k = n + 1
      <4>1. l = at
        BY <2>1, <2>6, <3>3 DEF FlowTypes
      <4>2. PICK m \in DOMAIN steps : m < at /\ completed[i] = steps[m]
        BY <2>1, <3>1 DEF CompletedInTurn
      <4>3. m = j
        BY <3>1, <4>2 DEF FlowTypes
      <4> QED
        BY <4>1, <4>2, <4>3
    <3> QED
      BY <2>1, <2>3, <3>2, <3>3
  <2> QED
    BY <2>1, <2>4, <2>5, <2>6 DEF CompletedInTurn
<1> QED
  BY <1>2, <1>3 DEF Flow!Push

(* Steps that begin: branches and bodies are registered by then.           *)
LEMMA LaunchKeeps ==
  ASSUME FlowInv, NEW d \in Flow!Reached, at \in DOMAIN steps,
         flow = "between" \/ (flow = "executing" /\ ~Flow!Leaf(doing)),
         Flow!Launch(d), Kind[d] \in {"plain", "agent", "parallel", "loop"},
         settled' = "none", UNCHANGED <<steps, at, completed, rolled>>,
         DOMAIN registry \subseteq DOMAIN registry',
         ~Flow!Leaf(d) => Flow!ToSet(Children[d]) \cap Undoable \subseteq DOMAIN registry',
         \A s \in DOMAIN registry' : s \in Undoable /\ Flow!Leaf(s)
  PROVE  FlowInv'
<1> USE DEF FlowInv
<1>1. /\ flow' = "executing" /\ doing' = d /\ applied' = applied
      /\ running' = [s \in Steps |-> IF s \in Flow!Below(d) THEN "executing" ELSE running[s]]
  BY DEF Flow!Launch
<1>2. FlowTypes'
  BY <1>1 DEF FlowTypes
<1>3. Underway'
  BY <1>1, ReachedSteps DEF Underway, Flow!Reached, Flow!Leaf
<1>4. CompletedInTurn'
  BY DEF CompletedInTurn
<1>5. \A s \in applied' \cap Undoable : s \in DOMAIN registry'
  BY <1>1 DEF Registered, Alone, Underway
<1>6. ASSUME NEW s \in Undoable, running'[s] \in {"executing", "backoff"}
      PROVE  s \in DOMAIN registry' \/ (Alone(s)' /\ settled' = "none")
  <2>1. s \in Steps
    BY FlowAssumption
  <2>2. CASE s \in Flow!Below(d)
    BY <1>1, <2>2 DEF Flow!Below, Alone, Flow!Leaf
  <2>3. CASE s \notin Flow!Below(d)
    <3>1. running[s] \in {"executing", "backoff"}
      BY <1>1, <1>6, <2>1, <2>3
    <3> QED
      BY <3>1 DEF Registered, Alone
  <2> QED
    BY <2>2, <2>3
<1>7. Registered'
  BY <1>5, <1>6 DEF Registered, Flow!Leaf, Flow!ToSet
<1> QED
  BY <1>2, <1>3, <1>4, <1>7

(* The rollback begins: by then what took effect is registered.            *)
LEMMA BeginRollbackKeeps ==
  ASSUME FlowInv, Flow!BeginRollback,
         flow = "between" \/ (flow = "executing" /\ (settled = "failed" \/ ~Flow!Leaf(doing))),
         UNCHANGED <<steps, at, completed, rolled, applied>>,
         running' = running \/ \E s \in Steps : running' = [running EXCEPT ![s] = "failed"],
         DOMAIN registry \subseteq DOMAIN registry',
         \A s \in DOMAIN registry' : s \in Undoable /\ Flow!Leaf(s)
  PROVE  FlowInv'
<1> USE DEF FlowInv
<1>1. flow' = "rolling"
  BY DEF Flow!BeginRollback
<1>2. FlowTypes'
  BY <1>1 DEF FlowTypes
<1>3. Underway' /\ CompletedInTurn'
  BY <1>1 DEF Underway, CompletedInTurn
<1>4. \A s \in Undoable : running'[s] \in {"executing", "backoff"} => running[s] \in {"executing", "backoff"}
  BY FlowAssumption DEF FlowTypes
<1>5. Registered'
  BY <1>1, <1>4 DEF Registered, Underway, Alone, Flow!Leaf, Flow!ToSet
<1> QED
  BY <1>2, <1>3, <1>5

(* The end of a step that had nothing to run, or has completed.            *)
LEMMA NextStepKeeps ==
  ASSUME FlowInv, Flow!NextStep, at \in DOMAIN steps,
         flow = "between" \/ (flow = "executing" /\ settled = "ok" /\ registry' = IF Flow!Leaf(doing) THEN Flow!RegisteredAfter(doing) ELSE registry),
         UNCHANGED <<steps, running, rolled, applied>>,
         NEW ids, Flow!Push(ids),
         DOMAIN registry \subseteq DOMAIN registry',
         \A s \in DOMAIN registry' : s \in Undoable /\ Flow!Leaf(s),
         steps[at] \in Undoable /\ Flow!Leaf(steps[at]) => steps[at] \in ids \/ steps[at] \in DOMAIN registry'
  PROVE  FlowInv'
<1> USE DEF FlowInv
<1>1. flow' = "between" /\ settled' = "none" /\ at' = at + 1
  BY DEF Flow!NextStep
<1>2. CompletedInTurn' /\ completed' \in Seq(Steps)
  BY <1>1, PushedInTurn
<1>3. FlowTypes'
  BY <1>1, <1>2 DEF FlowTypes
<1>4. Underway'
  BY <1>1 DEF Underway
<1>5. Registered'
  <2>1. \A s \in Flow!ToSet(completed)' : s \in Flow!ToSet(completed) \/ (s = steps[at] /\ steps[at] \notin ids)
    BY <1>1, PushedInTurn DEF Flow!Push
  <2>2. \A s \in Flow!ToSet(completed)' \cap Undoable : Flow!Leaf(s) => s \in DOMAIN registry'
    BY <2>1 DEF Registered
  <2>3. \A s \in Undoable : Alone(s) /\ settled = "ok" => s \in DOMAIN registry'
    BY KeysPut DEF Alone, Underway
  <2> QED
    BY <1>1, <2>2, <2>3 DEF Registered, Underway, Alone, Flow!Leaf
<1> QED
  BY <1>2, <1>3, <1>4, <1>5

(* Attempts settle and timers fire, whether or not anyone waits.           *)
LEMMA SettleKeeps ==
  ASSUME FlowInv, NEW s \in Steps, Flow!Succeed(s) \/ Flow!FailAttempt(s) \/ Flow!Retry(s)
  PROVE  FlowInv'
<1> USE DEF FlowInv
<1>1. /\ UNCHANGED <<steps, at, completed, registry, flow, doing, rolled>>
      /\ running' \in [Steps -> {"idle", "executing", "backoff", "ok", "failed"}]
      /\ \A t \in Steps \ {s} : running'[t] = running[t]
      /\ running[s] \in {"executing", "backoff"}
      /\ applied' \subseteq applied \cup {s}
  BY DEF Flow!Succeed, Flow!FailAttempt, Flow!Retry, Flow!control, FlowTypes
<1>2. /\ settled # "none" => settled' = settled
      /\ ~(flow = "executing") => settled' = settled
      /\ \A t : Alone(t) /\ t # s => settled' = settled
  BY DEF Flow!Succeed, Flow!FailAttempt, Flow!Retry, Flow!Outcome, Flow!Awaited, Flow!Below, Alone
<1>3. \A t : Alone(t)' <=> Alone(t)
  BY <1>1 DEF Alone, Flow!Leaf
<1>4. FlowTypes' /\ CompletedInTurn'
  BY <1>1 DEF FlowTypes, CompletedInTurn
<1>5. Underway'
  BY <1>1, <1>2 DEF Underway, Flow!Reached, Flow!Leaf
<1>6. s \in Undoable /\ s \notin DOMAIN registry =>
        /\ Alone(s) /\ settled = "none"
        /\ s \in applied' => settled' = "ok"
        /\ running'[s] \in {"executing", "backoff"} => settled' = "none"
  <2> SUFFICES ASSUME s \in Undoable, s \notin DOMAIN registry
               PROVE  /\ Alone(s) /\ settled = "none"
                      /\ s \in applied' => settled' = "ok"
                      /\ running'[s] \in {"executing", "backoff"} => settled' = "none"
    OBVIOUS
  <2>1. Alone(s) /\ settled = "none" /\ s \notin applied
    BY <1>1 DEF Registered
  <2>2. \A how : Flow!Outcome(s, how) = how
    BY <2>1 DEF Flow!Outcome, Flow!Awaited, Flow!Below, Flow!Decides, Flow!Waits, Alone, Flow!Leaf
  <2> QED
    BY <1>1, <2>1, <2>2 DEF Flow!Succeed, Flow!FailAttempt, Flow!Retry, FlowTypes
<1>7. Registered'
  BY <1>1, <1>2, <1>3, <1>6, FlowAssumption DEF Registered, Flow!Leaf, Flow!ToSet
<1> QED
  BY <1>4, <1>5, <1>7

(* Registering before a step of branches or of a body runs.                *)
LEMMA RegisteringIsSound ==
  ASSUME FlowInv, NEW s \in Steps, Kind[s] \in {"parallel", "loop"},
         registry' = Flow!RegisteredBefore(s)
  PROVE  /\ DOMAIN registry \subseteq DOMAIN registry'
         /\ Flow!ToSet(Children[s]) \cap Undoable \subseteq DOMAIN registry'
         /\ \A t \in DOMAIN registry' : t \in Undoable /\ Flow!Leaf(t)
         /\ \A t \in DOMAIN registry' \ DOMAIN registry : t \notin Flow!ToSet(completed)
         /\ \A t \in DOMAIN registry' : t # s
<1> DEFINE branches == Flow!ToSet(Children[s]) \cap Undoable
<1>1. DOMAIN registry' = DOMAIN registry \cup branches
  BY KeysPut
<1>2. \A t \in branches : t \in Undoable /\ Kind[t] = "plain"
  BY FlowAssumption
<1>3. \A t \in DOMAIN registry : t \in Undoable /\ Kind[t] \in {"plain", "agent"}
  BY DEF FlowInv, Registered, Flow!Leaf
<1>4. \A t \in DOMAIN registry' : t \in Undoable /\ Kind[t] \in {"plain", "agent"}
  BY <1>1, <1>2, <1>3
<1>5. \A t \in branches : t \in Flow!ToSet(completed) => t \in DOMAIN registry
  BY <1>2 DEF FlowInv, Registered, Flow!Leaf
<1> QED
  BY <1>1, <1>4, <1>5 DEF Flow!Leaf

(* Steps that start, and a loop that goes on.                              *)
LEMMA StartsKeep ==
  ASSUME FlowInv,
         Flow!StartLeaf \/ Flow!StartParallel \/ Flow!StartLoop \/ Flow!LoopAgain
  PROVE  /\ FlowInv'
         /\ UNCHANGED <<steps, completed, rolled>> /\ flow \in {"between", "executing"} /\ flow' = "executing"
         /\ DOMAIN registry \subseteq DOMAIN registry'
         /\ \A t \in DOMAIN registry' \ DOMAIN registry : t \notin Flow!ToSet(completed)
<1> USE DEF FlowInv
<1>1. Flow!Enter => at \in DOMAIN steps /\ flow = "between" /\ settled = "none"
  BY LenProperties DEF Flow!Enter, FlowTypes, Underway
<1>2. \A t \in DOMAIN registry : t \in Undoable /\ Flow!Leaf(t)
  BY DEF Registered
<1>3. CASE Flow!StartLeaf
  <2>1. PICK s \in Flow!Reached : Flow!Leaf(s) /\ Flow!Launch(s)
    BY <1>3 DEF Flow!StartLeaf
  <2>2. /\ flow = "between" /\ at \in DOMAIN steps /\ settled' = "none"
        /\ UNCHANGED <<steps, at, completed, rolled, registry>>
    BY <1>1, <1>3 DEF Flow!StartLeaf, Flow!control
  <2>3. FlowInv'
    BY <1>2, <2>1, <2>2, LaunchKeeps DEF Flow!Leaf
  <2> QED
    BY <2>1, <2>2, <2>3 DEF Flow!Launch
<1>4. CASE Flow!StartParallel \/ Flow!StartLoop
  <2>1. PICK s \in Flow!Reached :
          Kind[s] \in {"parallel", "loop"} /\ registry' = Flow!RegisteredBefore(s) /\ Flow!Launch(s)
    BY <1>4 DEF Flow!StartParallel, Flow!StartLoop
  <2>2. /\ flow = "between" /\ at \in DOMAIN steps /\ settled' = "none"
        /\ UNCHANGED <<steps, at, completed, rolled>>
    BY <1>1, <1>4 DEF Flow!StartParallel, Flow!StartLoop
  <2>3. s \in Steps
    BY <2>2, ReachedSteps
  <2>4. FlowInv'
    BY <2>1, <2>2, <2>3, RegisteringIsSound, LaunchKeeps
  <2> QED
    BY <2>1, <2>2, <2>3, <2>4, RegisteringIsSound DEF Flow!Launch
<1>5. CASE Flow!LoopAgain
  <2>1. /\ flow = "executing" /\ Kind[doing] = "loop" /\ Flow!Launch(doing) /\ settled' = "none"
        /\ UNCHANGED <<steps, at, completed, rolled, registry>>
    BY <1>5 DEF Flow!LoopAgain, Flow!InLoop, Flow!control
  <2>2. ~Flow!Leaf(doing)
    BY <2>1 DEF Flow!Leaf
  <2>3. FlowInv'
    BY <1>2, <2>1, <2>2, LaunchKeeps DEF Underway
  <2> QED
    BY <2>1, <2>3 DEF Flow!Launch
<1> QED
  BY <1>3, <1>4, <1>5

(* Steps that end: only a step of the definition that was pushed and is    *)
(* registered is one more to undo.                                         *)
LEMMA EndsKeep ==
  ASSUME FlowInv, Flow!NothingToRun \/ Flow!Skip \/ Flow!Complete
  PROVE  /\ FlowInv'
         /\ UNCHANGED <<steps, rolled>> /\ flow \in {"between", "executing"} /\ flow' = "between"
         /\ at \in DOMAIN steps
         /\ DOMAIN registry \subseteq DOMAIN registry'
         /\ \A t \in DOMAIN registry' \ DOMAIN registry : t \in Flow!ToSet(completed)' => t = steps[at]
         /\ \/ Flow!ToSet(completed)' = Flow!ToSet(completed)
            \/ Flow!ToSet(completed)' = Flow!ToSet(completed) \cup {steps[at]}
<1> USE DEF FlowInv
<1>1. Flow!Enter => at \in DOMAIN steps /\ flow = "between"
  BY LenProperties DEF Flow!Enter, FlowTypes
<1>2. /\ at \in DOMAIN steps /\ flow \in {"between", "executing"}
      /\ UNCHANGED <<steps, running, rolled, applied>> /\ Flow!NextStep
      /\ flow' = "between" /\ at' = at + 1
  BY <1>1 DEF Flow!NothingToRun, Flow!Skip, Flow!Complete, Flow!calls, Flow!NextStep, Underway
<1>3. PICK ids : Flow!Push(ids) /\ (Flow!Skip => ids = skipped')
  <2>1. CASE Flow!Skip
    BY <2>1 DEF Flow!Skip
  <2>2. CASE ~Flow!Skip
    BY <2>2 DEF Flow!NothingToRun, Flow!Complete
  <2> QED
    BY <2>1, <2>2
<1>4. /\ \/ Flow!ToSet(completed)' = Flow!ToSet(completed)
         \/ Flow!ToSet(completed)' = Flow!ToSet(completed) \cup {steps[at]}
      /\ \A t \in Flow!ToSet(completed)' : t \in Flow!ToSet(completed) \/ t = steps[at]
  BY <1>2, <1>3, PushedInTurn
<1>5. \A t \in DOMAIN registry : t \in Undoable /\ Flow!Leaf(t)
  BY DEF Registered
<1>6. /\ steps[at] \in Steps /\ Flow!Reached \subseteq Steps
      /\ \A s \in Flow!Reached : s # steps[at] => ~Flow!Leaf(steps[at])
  BY <1>2, ReachedSteps DEF Flow!Leaf
<1>7. CASE Flow!NothingToRun
  <2>1. CASE Flow!ChoosesNone(steps[at]) /\ registry' = registry
    <3>1. ~Flow!Leaf(steps[at]) /\ flow = "between"
      BY <1>1, <1>7, <2>1 DEF Flow!ChoosesNone, Flow!Leaf, Flow!NothingToRun
    <3> QED
      BY <1>2, <1>3, <1>4, <1>5, <2>1, <3>1, NextStepKeeps
  <2>2. ASSUME NEW s \in Flow!Reached, Kind[s] = "loop", registry' = Flow!RegisteredBefore(s)
        PROVE  /\ FlowInv' /\ DOMAIN registry \subseteq DOMAIN registry'
               /\ \A t \in DOMAIN registry' \ DOMAIN registry : t \in Flow!ToSet(completed)' => t = steps[at]
    <3>1. ~Flow!Leaf(steps[at]) /\ flow = "between" /\ s \in Steps
      BY <1>1, <1>6, <1>7, <2>2 DEF Flow!Leaf, Flow!NothingToRun
    <3>2. /\ DOMAIN registry \subseteq DOMAIN registry'
          /\ \A t \in DOMAIN registry' : t \in Undoable /\ Flow!Leaf(t)
          /\ \A t \in DOMAIN registry' \ DOMAIN registry : t \notin Flow!ToSet(completed)
      BY <2>2, <3>1, RegisteringIsSound
    <3>3. FlowInv'
      BY <1>2, <1>3, <3>1, <3>2, NextStepKeeps
    <3> QED
      BY <1>4, <3>2, <3>3
  <2> QED
    BY <1>2, <1>4, <1>7, <2>1, <2>2 DEF Flow!NothingToRun
<1>8. CASE Flow!Skip
  <2>1. registry' = registry /\ flow = "between"
    BY <1>1, <1>8 DEF Flow!Skip
  <2>2. PICK s \in Flow!Reached : s \in ids
    BY <1>3, <1>8 DEF Flow!Skip
  <2>3. Flow!Leaf(steps[at]) => steps[at] \in ids
    BY <1>6, <2>2
  <2> QED
    BY <1>2, <1>3, <1>4, <1>5, <2>1, <2>3, NextStepKeeps
<1>9. CASE Flow!Complete
  <2>1. /\ flow = "executing" /\ settled = "ok" /\ doing \in Steps /\ doing \in Flow!Reached
        /\ registry' = IF Flow!Leaf(doing) THEN Flow!RegisteredAfter(doing) ELSE registry
    BY <1>9 DEF Flow!Complete, Underway
  <2>2. /\ DOMAIN registry \subseteq DOMAIN registry'
        /\ \A t \in DOMAIN registry' \ DOMAIN registry : t = doing
        /\ \A t \in DOMAIN registry' : t \in Undoable /\ Flow!Leaf(t)
        /\ doing \in Undoable /\ Flow!Leaf(doing) => doing \in DOMAIN registry'
    BY <1>5, <2>1, KeysPut
  <2>3. Flow!Leaf(steps[at]) => doing = steps[at]
    BY <1>6, <2>1
  <2>4. FlowInv'
    BY <1>2, <1>3, <2>1, <2>2, <2>3, NextStepKeeps
  <2>5. \A t \in DOMAIN registry' \ DOMAIN registry : t \in Flow!ToSet(completed)' => t = steps[at]
    BY <1>4, <2>2 DEF Registered
  <2> QED
    BY <1>2, <1>4, <2>2, <2>4, <2>5
<1> QED
  BY <1>7, <1>8, <1>9

(* The workflow fails.                                                     *)
LEMMA FailuresKeep ==
  ASSUME FlowInv, Flow!DeadlineExceeded \/ Flow!Throw \/ Flow!LoopThrows \/ Flow!Fail
  PROVE  /\ FlowInv'
         /\ UNCHANGED <<steps, completed, rolled>> /\ flow \in {"between", "executing"} /\ flow' = "rolling"
         /\ DOMAIN registry \subseteq DOMAIN registry'
         /\ \A t \in DOMAIN registry' \ DOMAIN registry : t \notin Flow!ToSet(completed)
<1> USE DEF FlowInv
<1>1. /\ UNCHANGED <<steps, at, completed, rolled, applied>> /\ Flow!BeginRollback /\ flow' = "rolling"
      /\ flow = "between" \/ (flow = "executing" /\ (settled = "failed" \/ ~Flow!Leaf(doing)))
  BY DEF Flow!DeadlineExceeded, Flow!Throw, Flow!LoopThrows, Flow!Fail, Flow!control, Flow!calls,
         Flow!BeginRollback, Flow!Enter, Flow!InLoop, Flow!Leaf
<1>2. \A t \in DOMAIN registry : t \in Undoable /\ Flow!Leaf(t)
  BY DEF Registered
<1>3. CASE Flow!Throw
  <2>1. at \in DOMAIN steps
    BY <1>3, LenProperties DEF Flow!Throw, Flow!Enter, FlowTypes
  <2>2. PICK s \in Flow!Reached \cup {steps[at]} :
          /\ running' = [running EXCEPT ![s] = "failed"]
          /\ registry' = IF Kind[s] = "loop" THEN Flow!RegisteredBefore(s) ELSE registry
    BY <1>3 DEF Flow!Throw
  <2>3. s \in Steps
    BY <2>1, ReachedSteps
  <2>4. /\ DOMAIN registry \subseteq DOMAIN registry'
        /\ \A t \in DOMAIN registry' : t \in Undoable /\ Flow!Leaf(t)
        /\ \A t \in DOMAIN registry' \ DOMAIN registry : t \notin Flow!ToSet(completed)
    BY <1>2, <2>2, <2>3, RegisteringIsSound
  <2> QED
    BY <1>1, <2>2, <2>3, <2>4, BeginRollbackKeeps
<1>4. CASE Flow!DeadlineExceeded \/ Flow!Fail \/ Flow!LoopThrows
  <2>1. registry' = registry
    BY <1>4 DEF Flow!DeadlineExceeded, Flow!LoopThrows, Flow!Fail, Flow!control
  <2>2. running' = running \/ \E s \in Steps : running' = [running EXCEPT ![s] = "failed"]
    BY <1>4 DEF Flow!DeadlineExceeded, Flow!LoopThrows, Flow!Fail, Flow!calls, Flow!InLoop, Underway
  <2> QED
    BY <1>1, <1>2, <2>1, <2>2, BeginRollbackKeeps
<1> QED
  BY <1>3, <1>4

(* The rest changes nothing that was registered or completed.              *)
LEMMA OthersKeep ==
  ASSUME FlowInv,
         Flow!Finish \/ Flow!Rollback \/ Flow!ReportFailure \/ Flow!Expire \/ Flow!BranchTimer \/ UNCHANGED Flow!vars
  PROVE  FlowInv' /\ UNCHANGED <<steps, at, completed, registry>>
<1> USE DEF FlowInv
<1>1. UNCHANGED <<steps, at, completed, registry, running>> /\ applied' \subseteq applied
  BY DEF Flow!Finish, Flow!Rollback, Flow!ReportFailure, Flow!Expire, Flow!BranchTimer, Flow!control, Flow!calls, Flow!vars
<1>2. CompletedInTurn'
  BY <1>1 DEF CompletedInTurn
<1>3. CASE Flow!Finish \/ Flow!Rollback \/ Flow!ReportFailure
  <2>1. /\ flow \in {"between", "rolling"} /\ flow' \in {"completed", "rolling", "failed"}
        /\ flow' = "failed" => rolled' = rolled /\ DOMAIN registry \subseteq rolled
    BY <1>3 DEF Flow!Finish, Flow!Rollback, Flow!ReportFailure, Flow!Waiting
  <2>2. FlowTypes' /\ Underway'
    BY <1>1, <2>1 DEF FlowTypes, Underway
  <2>3. Registered'
    BY <1>1, <2>1 DEF Registered, Alone, Flow!Leaf, Flow!ToSet
  <2> QED
    BY <1>1, <1>2, <2>2, <2>3
<1>4. CASE Flow!Expire \/ Flow!BranchTimer \/ UNCHANGED Flow!vars
  <2>1. /\ UNCHANGED <<flow, doing, rolled>>
        /\ settled' = settled \/ (flow = "executing" /\ ~Flow!Leaf(doing))
    BY <1>4 DEF Flow!Expire, Flow!BranchTimer, Flow!vars, Flow!InParallel, Flow!Leaf
  <2>2. FlowTypes' /\ Underway'
    BY <1>1, <2>1 DEF FlowTypes, Underway, Flow!Reached, Flow!Leaf
  <2>3. Registered'
    BY <1>1, <2>1 DEF Registered, Alone, Flow!Leaf, Flow!ToSet
  <2> QED
    BY <1>1, <1>2, <2>2, <2>3
<1> QED
  BY <1>3, <1>4

(* The invariant holds of every execution of any definition.               *)
THEOREM FlowInvariance == Flow!Spec => []FlowInv
<1>1. FlowInv /\ [Flow!Next]_Flow!vars => FlowInv'
  BY StartsKeep, EndsKeep, FailuresKeep, OthersKeep, SettleKeeps DEF Flow!Next, Flow!Engine, Flow!Settle
<1> QED
  BY <1>1, FlowStart, PTL DEF Flow!Spec

(* NothingIsForgotten holds of every execution.                            *)
THEOREM NoStepIsForgotten == Flow!Spec => []NothingIsForgotten
<1>1. FlowInv => Flow!NothingIsForgotten
  BY DEF FlowInv, Registered, Underway, Alone, Flow!NothingIsForgotten
<1> QED
  BY <1>1, FlowInvariance, PTL DEF NothingIsForgotten

(* What stands after a step that pushes and registers nothing else.        *)
LEMMA SameStands ==
  ASSUME FlowInv, UNCHANGED <<steps, rolled, completed>>,
         DOMAIN registry \subseteq DOMAIN registry',
         \A t \in DOMAIN registry' \ DOMAIN registry : t \notin Flow!ToSet(completed)
  PROVE  Flow!Standing' = Flow!Standing
BY DEF Flow!Standing, Flow!ToSet

(* A saga whose steps are those of the definition.                         *)
LEMMA SagaStep ==
  ASSUME FlowInv, [Flow!Next]_Flow!vars
  PROVE  [Flow!Promise!Next]_<<steps, Flow!Standing, Flow!SagaState>>
<1> USE DEF FlowInv
<1>1. CASE Flow!StartLeaf \/ Flow!StartParallel \/ Flow!StartLoop \/ Flow!LoopAgain
  BY <1>1, StartsKeep, SameStands DEF Flow!SagaState
<1>2. CASE Flow!DeadlineExceeded \/ Flow!Throw \/ Flow!LoopThrows \/ Flow!Fail
  <2>1. Flow!Promise!Abort
    BY <1>2, FailuresKeep, SameStands DEF Flow!SagaState, Flow!Promise!Abort
  <2> QED
    BY <2>1 DEF Flow!Promise!Next
<1>3. CASE Flow!NothingToRun \/ Flow!Skip \/ Flow!Complete
  <2>1. /\ UNCHANGED <<steps, rolled>> /\ flow \in {"between", "executing"} /\ flow' = "between"
        /\ at \in DOMAIN steps /\ rolled = {}
        /\ DOMAIN registry \subseteq DOMAIN registry'
        /\ \A t \in DOMAIN registry' \ DOMAIN registry : t \in Flow!ToSet(completed)' => t = steps[at]
        /\ \/ Flow!ToSet(completed)' = Flow!ToSet(completed)
           \/ Flow!ToSet(completed)' = Flow!ToSet(completed) \cup {steps[at]}
    BY <1>3, EndsKeep DEF Underway
  <2>2. Flow!Standing' = Flow!Standing \/ Flow!Standing' = Flow!Standing \cup {at}
    <3>1. \A i \in DOMAIN steps : i # at => (i \in Flow!Standing' <=> i \in Flow!Standing)
      BY <2>1 DEF Flow!Standing, FlowTypes
    <3>2. \A i \in Flow!Standing : i \in Flow!Standing'
      BY <2>1 DEF Flow!Standing
    <3>3. Flow!Standing \subseteq DOMAIN steps /\ Flow!Standing' \subseteq DOMAIN steps
      BY <2>1 DEF Flow!Standing
    <3> QED
      BY <3>1, <3>2, <3>3
  <2>3. \A j \in Flow!Standing : j < at
    <3> TAKE j \in Flow!Standing
    <3>1. j \in DOMAIN steps /\ steps[j] \in Flow!ToSet(completed)
      BY DEF Flow!Standing
    <3>2. PICK k \in DOMAIN steps : k < at /\ steps[j] = steps[k]
      BY <3>1 DEF CompletedInTurn, Flow!ToSet
    <3>3. j = k
      BY <3>1, <3>2 DEF FlowTypes
    <3> QED
      BY <3>2, <3>3
  <2>4. Flow!SagaState = "forward" /\ Flow!SagaState' = "forward"
    BY <2>1 DEF Flow!SagaState
  <2>5. CASE Flow!Standing' = Flow!Standing
    BY <2>1, <2>4, <2>5
  <2>6. CASE Flow!Standing' = Flow!Standing \cup {at}
    <3>1. Flow!Promise!Do(at)
      BY <2>1, <2>3, <2>4, <2>6 DEF Flow!Promise!Do
    <3> QED
      BY <2>1, <3>1 DEF Flow!Promise!Next
  <2> QED
    BY <2>2, <2>5, <2>6
<1>4. CASE Flow!Rollback
  <2>1. PICK s \in Flow!Waiting :
          /\ \A t \in Flow!Waiting \ {s} : Flow!Listed(t, s)
          /\ rolled' = rolled \cup {s}
    BY <1>4 DEF Flow!Rollback
  <2>2. flow = "rolling" /\ flow' = "rolling" /\ UNCHANGED <<steps, completed, registry>>
    BY <1>4 DEF Flow!Rollback, Flow!control
  <2>3. Flow!SagaState = "backward" /\ Flow!SagaState' = "backward"
    BY <2>2 DEF Flow!SagaState
  <2>4. \A i : i \in Flow!Standing' <=> i \in Flow!Standing /\ steps[i] # s
    BY <2>1, <2>2 DEF Flow!Standing, Flow!ToSet
  <2>5. CASE \A i \in Flow!Standing : steps[i] # s
    <3>1. Flow!Standing' = Flow!Standing
      BY <2>4, <2>5 DEF Flow!Standing
    <3> QED
      BY <2>2, <2>3, <3>1
  <2>6. ASSUME NEW i \in Flow!Standing, steps[i] = s
        PROVE  Flow!Promise!UndoLast
    <3>1. i \in DOMAIN steps /\ Flow!Standing \subseteq DOMAIN steps /\ s \in Flow!ToSet(completed)
      BY <2>6 DEF Flow!Standing
    <3>2. Flow!Standing' = Flow!Standing \ {i}
      <4>1. \A j \in Flow!Standing : steps[j] = s <=> j = i
        BY <2>6, <3>1 DEF FlowTypes
      <4>2. \A j : j \in Flow!Standing' <=> j \in Flow!Standing \ {i}
        BY <2>4, <4>1
      <4> QED
        BY <4>2 DEF Flow!Standing
    <3>3. ASSUME NEW j \in Flow!Standing
          PROVE  j <= i
      <4>1. i \in Nat /\ j \in Nat /\ j \in DOMAIN steps
        BY <3>1, LenProperties DEF FlowTypes
      <4>2. CASE steps[j] = s
        BY <2>6, <3>1, <4>1, <4>2 DEF FlowTypes
      <4>3. CASE steps[j] # s
        <5>1. steps[j] \in Flow!Waiting \ {s}
          BY <4>3 DEF Flow!Standing, Flow!Waiting
        <5>2. PICK m, k \in DOMAIN completed : m < k /\ completed[m] = steps[j] /\ completed[k] = s
          BY <2>1, <3>1, <5>1 DEF Flow!Listed
        <5>3. j < i
          BY <2>6, <3>1, <4>1, <5>2 DEF CompletedInTurn
        <5> QED
          BY <4>1, <5>3
      <4> QED
        BY <4>2, <4>3
    <3> QED
      BY <2>2, <2>3, <3>2, <3>3 DEF Flow!Promise!UndoLast
  <2> QED
    BY <2>5, <2>6 DEF Flow!Promise!Next
<1>5. CASE Flow!Finish \/ Flow!ReportFailure
  <2>1. UNCHANGED <<steps, completed, registry, rolled>>
    BY <1>5 DEF Flow!Finish, Flow!ReportFailure, Flow!control
  <2>2. Flow!Standing' = Flow!Standing
    BY <2>1, SameStands
  <2>3. \/ Flow!SagaState = "forward" /\ Flow!SagaState' = "completed"
        \/ Flow!SagaState = "backward" /\ Flow!SagaState' = "failed" /\ Flow!Waiting = {}
    BY <1>5 DEF Flow!Finish, Flow!ReportFailure, Flow!SagaState
  <2>4. Flow!Waiting = {} => Flow!Standing = {}
    BY DEF Flow!Waiting, Flow!Standing
  <2>5. Flow!Promise!End
    BY <2>1, <2>2, <2>3, <2>4 DEF Flow!Promise!End
  <2> QED
    BY <2>5 DEF Flow!Promise!Next
<1>6. CASE \/ Flow!Expire \/ Flow!BranchTimer \/ UNCHANGED Flow!vars
           \/ \E s \in Steps : Flow!Settle(s) \/ Flow!Retry(s)
  <2>1. UNCHANGED <<steps, completed, registry, rolled, flow>>
    BY <1>6 DEF Flow!Expire, Flow!BranchTimer, Flow!vars, Flow!Settle, Flow!Succeed, Flow!FailAttempt, Flow!Retry, Flow!control
  <2>2. Flow!Standing' = Flow!Standing /\ Flow!SagaState' = Flow!SagaState
    BY <2>1, SameStands DEF Flow!SagaState
  <2> QED
    BY <2>1, <2>2
<1> QED
  BY <1>1, <1>2, <1>3, <1>4, <1>5, <1>6 DEF Flow!Next, Flow!Engine

(* Every execution implements the abstract saga.                           *)
THEOREM ImplementsSaga == Flow!Spec => KeepsTheSaga
<1>1. Flow!Init => Flow!Promise!Init
  BY DEF Flow!Promise!Init, Flow!Init, Flow!Standing, Flow!SagaState, Flow!ToSet
<1>2. FlowInv /\ [Flow!Next]_Flow!vars => [Flow!Promise!Next]_<<steps, Flow!Standing, Flow!SagaState>>
  BY SagaStep
<1> QED
  BY <1>1, <1>2, FlowInvariance, PTL DEF Flow!Spec, KeepsTheSaga, Flow!KeepsTheSaga, Flow!Promise!Spec

-----------------------------------------------------------------------------
(* The graph that is changed.  Its search for a cycle is a loop: what it   *)
(* has found after a turn follows from the turn before, and a turn at      *)
(* which that fails would have a first.                                    *)

GraphTypes == nodes \in SUBSET Ids /\ edges \in [Ids -> Seq(Ids)]

Searches == [stack : Seq(Ids), visited : SUBSET Ids]

On(stack, x) == \E i \in 1 .. Len(stack) : stack[i] = x
Closed(C) == \A x \in C : Dynamic!Targets(x) \subseteq C
Stopped(s, from) == s.stack = <<>> \/ s.stack[Len(s.stack)] = from

(* What was visited leads to what was or is to be visited; and nothing is  *)
(* but what "to" leads to.                                                 *)
Follows(s, from, to) ==
  /\ from \notin s.visited
  /\ \A x \in s.visited : \A y \in Dynamic!Targets(x) : y \in s.visited \/ On(s.stack, y)
  /\ to \in s.visited \/ On(s.stack, to)
  /\ \A C \in SUBSET Ids : to \in C /\ Closed(C) =>
       s.visited \subseteq C /\ \A i \in 1 .. Len(s.stack) : s.stack[i] \in C

IdCount == Cardinality(Ids)
Weight(s) == Len(s.stack) + IdCount * (IdCount - Cardinality(s.visited))

(* A set of numbers that is not empty has a least one.                     *)
LEMMA Least ==
  ASSUME NEW S \in SUBSET Nat, S # {}
  PROVE  \E m \in S : \A y \in S : m <= y
<1>1. PICK m \in S : \A y \in S : <<y, m>> \notin OpToRel(<, Nat)
  BY WFMin, NatLessThanWellFounded, Zenon
<1>2. \A y \in S : ~(y < m)
  BY <1>1, Zenon DEF OpToRel
<1> QED
  BY <1>2

(* Cardinality is the same operator in the instance.                       *)
LEMMA SameGraphCount == \A S : Dynamic!Cardinality(S) = Cardinality(S)
BY Zenon DEF Dynamic!Cardinality, Cardinality

(* There are so many nodes, and so many turns.                             *)
LEMMA Turns == IdCount \in Nat /\ Dynamic!MaxTurns = 1 + IdCount * IdCount /\ Dynamic!MaxTurns \in Nat
<1>1. IdCount \in Nat
  BY GraphIsFinite, FS_CardinalityType DEF IdCount
<1>2. Dynamic!MaxTurns = 1 + IdCount * IdCount
  BY SameGraphCount DEF Dynamic!MaxTurns, IdCount
<1> QED
  BY <1>1, <1>2

(* What is pushed is what the node leads to, no node of it twice.          *)
LEMMA PushedAre ==
  ASSUME NEW c
  PROVE  /\ Dynamic!Pushed(c) \in Seq(Ids) /\ Len(Dynamic!Pushed(c)) <= IdCount
         /\ \A x : On(Dynamic!Pushed(c), x) <=> x \in Dynamic!Targets(c)
<1> DEFINE T == Dynamic!Targets(c)
           n == Cardinality(T)
           f == Dynamic!Pushed(c)
<1>1. T \in SUBSET Ids
  BY DEF Dynamic!Targets
<1>2. IsFiniteSet(T) /\ n \in Nat /\ n <= IdCount /\ ExistsBijection(1 .. n, T)
  BY <1>1, GraphIsFinite, FS_Subset, FS_CardinalityType DEF IdCount
<1> HIDE DEF T
<1>3. PICK g : g \in Bijection(1 .. n, T)
  BY <1>2 DEF ExistsBijection
<1>4. g \in [1 .. n -> T] /\ \A a, b \in 1 .. n : g[a] = g[b] => a = b
  BY <1>3 DEF Bijection, Injection, IsInjective
<1>5. f = CHOOSE h \in [1 .. n -> T] : Dynamic!IsInjective(h)
  BY SameGraphCount DEF Dynamic!Pushed, Dynamic!SetToSeq, T
<1>6. Dynamic!IsInjective(g)
  BY <1>4 DEF Dynamic!IsInjective
<1>7. f \in [1 .. n -> T] /\ Dynamic!IsInjective(f)
  <2> HIDE DEF f, n
  <2> QED
    BY <1>4, <1>5, <1>6
<1> HIDE DEF f, n
<1>8. f \in Injection(1 .. n, T)
  BY <1>7 DEF Injection, IsInjective, Dynamic!IsInjective
<1>9. f \in Surjection(1 .. n, T)
  <2>1. Cardinality(1 .. n) = n
    BY <1>2, FS_Interval
  <2>2. Cardinality(1 .. n) = Cardinality(T)
    BY <2>1 DEF n
  <2> QED
    BY <1>2, <1>8, <2>2, FS_Injection
<1>10. f \in Seq(Ids) /\ Len(f) = n
  BY <1>1, <1>2, <1>7
<1>11. \A x : On(f, x) <=> x \in T
  BY <1>7, <1>9, <1>10 DEF On, Surjection
<1> QED
  BY <1>2, <1>10, <1>11 DEF f, T

IsRun(from, to, p) ==
  p = [k \in 0 .. Dynamic!MaxTurns |->
         IF k = 0 THEN [stack |-> <<to>>, visited |-> {}] ELSE Dynamic!Turn(p[k - 1], from)]

(* The loop of the search has a run.                                       *)
LEMMA RunExists ==
  ASSUME NEW from, NEW to
  PROVE  \E p : IsRun(from, to, p)
<1> DEFINE Upto(n, p) == p = [k \in 0 .. n |-> IF k = 0 THEN [stack |-> <<to>>, visited |-> {}]
                                               ELSE Dynamic!Turn(p[k - 1], from)]
           S == {n \in Nat : ~ \E p : Upto(n, p)}
<1> HIDE DEF Upto
<1>1. SUFFICES ASSUME S # {} PROVE FALSE
  <2>1. Dynamic!MaxTurns \notin S
    BY <1>1
  <2> QED
    BY <2>1, Turns DEF Upto, IsRun
<1>2. PICK m \in S : \A y \in S : m <= y
  BY <1>1, Least
<1>3. m # 0
  <2> DEFINE g0 == [i \in 0 .. 0 |-> [stack |-> <<to>>, visited |-> {}]]
  <2>1. Upto(0, g0)
    BY DEF Upto
  <2> QED
    BY <2>1
<1>4. m - 1 \in Nat /\ m - 1 \notin S
  BY <1>2, <1>3
<1>5. PICK p : Upto(m - 1, p)
  BY <1>4
<1> DEFINE q == [k \in 0 .. m |-> IF k = m THEN Dynamic!Turn(p[m - 1], from) ELSE p[k]]
<1>6. Upto(m, q)
  <2>1. \A k \in 0 .. m - 1 : p[k] = IF k = 0 THEN [stack |-> <<to>>, visited |-> {}] ELSE Dynamic!Turn(p[k - 1], from)
    BY <1>4, <1>5 DEF Upto
  <2>2. \A k \in 0 .. m : q[k] = IF k = 0 THEN [stack |-> <<to>>, visited |-> {}] ELSE Dynamic!Turn(q[k - 1], from)
    <3> SUFFICES ASSUME NEW k \in 0 .. m
                 PROVE  q[k] = IF k = 0 THEN [stack |-> <<to>>, visited |-> {}] ELSE Dynamic!Turn(q[k - 1], from)
      OBVIOUS
    <3>1. CASE k = m
      <4>1. m - 1 \in 0 .. m /\ m - 1 # m /\ m \in 0 .. m
        BY <1>3
      <4>2. q[m - 1] = p[m - 1] /\ q[m] = Dynamic!Turn(p[m - 1], from)
        BY <4>1
      <4> QED
        BY <1>3, <3>1, <4>2
    <3>2. CASE k # m
      <4>1. k \in 0 .. m - 1
        BY <1>3, <3>2
      <4>2. k # 0 => k - 1 \in 0 .. m /\ k - 1 # m
        BY <4>1
      <4>3. q[k] = p[k] /\ (k # 0 => q[k - 1] = p[k - 1])
        BY <3>2, <4>2
      <4>4. p[k] = IF k = 0 THEN [stack |-> <<to>>, visited |-> {}] ELSE Dynamic!Turn(p[k - 1], from)
        BY <2>1, <4>1
      <4> QED
        BY <4>3, <4>4
    <3> QED
      BY <3>1, <3>2
  <2>3. q = [k \in 0 .. m |-> q[k]]
    OBVIOUS
  <2> HIDE DEF q
  <2> QED
    BY <2>2, <2>3 DEF Upto
<1> QED
  BY <1>2, <1>6

(* The search is the last turn of its run.                                 *)
LEMMA SearchRuns ==
  ASSUME NEW from, NEW to
  PROVE  \E p : /\ p[0] = [stack |-> <<to>>, visited |-> {}]
                /\ \A k \in 1 .. Dynamic!MaxTurns : p[k] = Dynamic!Turn(p[k - 1], from)
                /\ Dynamic!Searched(from, to) = p[Dynamic!MaxTurns]
<1> DEFINE p == CHOOSE p : IsRun(from, to, p)
<1>1. IsRun(from, to, p)
  BY RunExists
<1>2. Dynamic!Searched(from, to) = p[Dynamic!MaxTurns]
  BY DEF Dynamic!Searched, IsRun
<1> HIDE DEF p
<1>3. \A k \in 0 .. Dynamic!MaxTurns :
        p[k] = IF k = 0 THEN [stack |-> <<to>>, visited |-> {}] ELSE Dynamic!Turn(p[k - 1], from)
  BY <1>1, Zenon DEF IsRun
<1>4. 0 \in 0 .. Dynamic!MaxTurns /\ \A k \in 1 .. Dynamic!MaxTurns : k \in 0 .. Dynamic!MaxTurns /\ k # 0
  BY Turns
<1>5. p[0] = [stack |-> <<to>>, visited |-> {}] /\ \A k \in 1 .. Dynamic!MaxTurns : p[k] = Dynamic!Turn(p[k - 1], from)
  BY <1>3, <1>4
<1> QED
  BY <1>2, <1>5

(* A node that was visited makes the search lighter by as much as can be   *)
(* pushed.                                                                 *)
LEMMA VisitWeighs ==
  ASSUME NEW V \in SUBSET Ids, NEW c \in Ids, c \notin V
  PROVE  /\ Cardinality(V) \in Nat /\ Cardinality(V \cup {c}) = Cardinality(V) + 1
         /\ IdCount * (IdCount - Cardinality(V \cup {c})) = IdCount * (IdCount - Cardinality(V)) - IdCount
         /\ IdCount * (IdCount - Cardinality(V)) \in Int
<1>1. IsFiniteSet(V)
  BY GraphIsFinite, FS_Subset
<1>2. Cardinality(V) \in Nat /\ Cardinality(V \cup {c}) = Cardinality(V) + 1
  BY <1>1, FS_CardinalityType, FS_AddElement
<1>3. \A a, v \in Nat : a * (a - (v + 1)) = a * (a - v) - a /\ a * (a - v) \in Int
  OBVIOUS
<1> QED
  BY <1>2, <1>3, Turns

(* A turn of the search follows the edges, and has less before it.         *)
LEMMA TurnFollows ==
  ASSUME GraphTypes, NEW from \in Ids, NEW to \in Ids, NEW s \in Searches, Follows(s, from, to)
  PROVE  /\ Dynamic!Turn(s, from) \in Searches /\ Follows(Dynamic!Turn(s, from), from, to)
         /\ IF Stopped(s, from) THEN Dynamic!Turn(s, from) = s ELSE Weight(Dynamic!Turn(s, from)) <= Weight(s) - 1
<1> DEFINE t == Dynamic!Turn(s, from)
           c == s.stack[Len(s.stack)]
           n == Len(s.stack)
           rest == SubSeq(s.stack, 1, n - 1)
<1>1. s.stack \in Seq(Ids) /\ s.visited \in SUBSET Ids /\ n \in Nat /\ s = [stack |-> s.stack, visited |-> s.visited]
  BY DEF Searches
<1>2. CASE Stopped(s, from)
  <2>1. t = s
    BY <1>2 DEF Stopped, Dynamic!Turn, Dynamic!Last
  <2> QED
    BY <1>2, <2>1
<1>3. CASE ~Stopped(s, from)
  <2>1. s.stack # <<>> /\ c # from /\ n \in Nat \ {0}
    BY <1>1, <1>3 DEF Stopped
  <2>2. c \in Ids /\ n \in 1 .. n
    <3>1. n \in 1 .. Len(s.stack)
      BY <2>1
    <3> HIDE DEF n
    <3>2. s.stack[n] \in Ids
      BY <1>1, <3>1, ElementOfSeq
    <3> QED
      BY <3>1, <3>2 DEF n
  <2>3. rest \in Seq(Ids) /\ Len(rest) = n - 1 /\ \A i \in 1 .. n - 1 : rest[i] = s.stack[i]
    <3> DEFINE m == n - 1
    <3>1. m \in Nat /\ m - 1 + 1 = m
      BY <1>1, <2>1
    <3>2. \A i \in 1 .. m : s.stack[i] \in Ids
      <4>1. \A i \in 1 .. m : i \in 1 .. Len(s.stack)
        BY <1>1, <2>1
      <4> QED
        BY <1>1, <4>1, ElementOfSeq
    <3> HIDE DEF m
    <3>3. /\ SubSeq(s.stack, 1, m) \in Seq(Ids)
          /\ Len(SubSeq(s.stack, 1, m)) = IF 1 <= m THEN m - 1 + 1 ELSE 0
          /\ \A i \in 1 .. m - 1 + 1 : SubSeq(s.stack, 1, m)[i] = s.stack[1 + i - 1]
      BY <3>1, <3>2, SubSeqProperties
    <3>4. \A i \in 1 .. m : 1 + i - 1 = i
      OBVIOUS
    <3>5. rest = SubSeq(s.stack, 1, m)
      BY DEF m
    <3> HIDE DEF rest, n
    <3>6. rest \in Seq(Ids) /\ Len(rest) = m /\ \A i \in 1 .. m : rest[i] = s.stack[i]
      BY <3>1, <3>3, <3>4, <3>5
    <3> QED
      BY <3>6 DEF m
  <2>4. t = IF c \in s.visited THEN [stack |-> rest, visited |-> s.visited]
            ELSE [stack |-> rest \o Dynamic!Pushed(c), visited |-> s.visited \cup {c}]
    BY <2>1 DEF Dynamic!Turn, Dynamic!Last, Dynamic!Front
  <2>5. \A x : On(s.stack, x) <=> On(rest, x) \/ x = c
    <3>1. \A i \in 1 .. n : i \in 1 .. n - 1 \/ i = n
      BY <1>1
    <3>2. \A i \in 1 .. n - 1 : i \in 1 .. n
      BY <1>1
    <3> HIDE DEF rest
    <3> QED
      BY <2>2, <2>3, <3>1, <3>2 DEF On
  <2>6. \A C \in SUBSET Ids : to \in C /\ Closed(C) =>
          s.visited \subseteq C /\ c \in C /\ \A i \in 1 .. Len(rest) : rest[i] \in C
    <3>1. \A i \in 1 .. n - 1 : i \in 1 .. n
      BY <1>1
    <3> HIDE DEF rest
    <3> QED
      BY <2>2, <2>3, <3>1 DEF Follows
  <2> HIDE DEF rest, c, n
  <2>7. CASE c \in s.visited
    <3>1. t.stack = rest /\ t.visited = s.visited /\ t \in Searches
      BY <1>1, <2>3, <2>4, <2>7 DEF Searches
    <3> HIDE DEF t
    <3>2. Follows(t, from, to)
      BY <2>5, <2>6, <2>7, <3>1 DEF Follows
    <3>3. Cardinality(s.visited) \in Nat /\ IdCount \in Nat
      BY <1>1, GraphIsFinite, FS_Subset, FS_CardinalityType, Turns
    <3>4. IdCount * (IdCount - Cardinality(s.visited)) \in Int
      BY <3>3
    <3>5. Weight(t) <= Weight(s) - 1
      BY <1>1, <2>3, <3>1, <3>4 DEF Weight, n
    <3> QED
      BY <1>3, <3>1, <3>2, <3>5 DEF t
  <2>8. CASE c \notin s.visited
    <3> DEFINE more == Dynamic!Pushed(c)
               all == rest \o more
    <3>1. more \in Seq(Ids) /\ Len(more) <= IdCount /\ \A x : On(more, x) <=> x \in Dynamic!Targets(c)
      BY PushedAre
    <3> HIDE DEF more
    <3>2. /\ all \in Seq(Ids) /\ Len(all) = Len(rest) + Len(more) /\ Len(more) \in Nat
          /\ \A i \in 1 .. Len(rest) : all[i] = rest[i]
          /\ \A i \in 1 .. Len(more) : all[Len(rest) + i] = more[i]
      BY <2>3, <3>1
    <3>3. \A i \in 1 .. Len(all) : i \in 1 .. Len(rest) \/ \E j \in 1 .. Len(more) : i = Len(rest) + j
      <4> SUFFICES ASSUME NEW i \in 1 .. Len(all), i \notin 1 .. Len(rest)
                   PROVE  \E j \in 1 .. Len(more) : i = Len(rest) + j
        OBVIOUS
      <4>1. Len(rest) \in Nat
        BY <2>3
      <4>2. i - Len(rest) \in 1 .. Len(more) /\ i = Len(rest) + (i - Len(rest))
        BY <3>2, <4>1
      <4> QED
        BY <4>2
    <3>4. \A i \in 1 .. Len(rest) : i \in 1 .. Len(all)
      BY <2>3, <3>2
    <3>5. \A j \in 1 .. Len(more) : Len(rest) + j \in 1 .. Len(all)
      BY <2>3, <3>2
    <3>6. t.stack = all /\ t.visited = s.visited \cup {c} /\ t \in Searches
      BY <1>1, <2>2, <2>4, <2>8, <3>2 DEF Searches, more, c
    <3> HIDE DEF all, t
    <3>7. \A x : On(all, x) <=> On(rest, x) \/ On(more, x)
      BY <3>2, <3>3, <3>4, <3>5 DEF On
    <3>8. Follows(t, from, to)
      <4>1. from \notin t.visited
        BY <2>1, <3>6 DEF Follows
      <4>2. ASSUME NEW x \in t.visited, NEW y \in Dynamic!Targets(x) PROVE y \in t.visited \/ On(t.stack, y)
        BY <2>5, <3>1, <3>6, <3>7, <4>2 DEF Follows
      <4>3. to \in t.visited \/ On(t.stack, to)
        BY <2>5, <3>6, <3>7 DEF Follows
      <4>4. ASSUME NEW C \in SUBSET Ids, to \in C, Closed(C)
            PROVE  t.visited \subseteq C /\ \A i \in 1 .. Len(t.stack) : t.stack[i] \in C
        <5>1. s.visited \subseteq C /\ c \in C /\ \A i \in 1 .. Len(rest) : rest[i] \in C
          BY <2>6, <4>4
        <5>2. \A i \in 1 .. Len(more) : more[i] \in C
          BY <3>1, <4>4, <5>1 DEF On, Closed
        <5> QED
          BY <3>2, <3>3, <3>6, <5>1, <5>2
      <4> QED
        BY <4>1, <4>2, <4>3, <4>4 DEF Follows
    <3>9. Weight(t) <= Weight(s) - 1
      <4>1. c \in Ids
        BY <2>2
      <4>2. Cardinality(t.visited) = Cardinality(s.visited) + 1
            /\ IdCount * (IdCount - Cardinality(t.visited)) = IdCount * (IdCount - Cardinality(s.visited)) - IdCount
            /\ IdCount * (IdCount - Cardinality(s.visited)) \in Int
        BY <1>1, <2>8, <3>6, <4>1, VisitWeighs
      <4>3. Len(t.stack) = n - 1 + Len(more) /\ n \in Nat /\ IdCount \in Nat
        BY <1>1, <2>1, <2>3, <3>2, <3>6, Turns
      <4> QED
        BY <3>1, <3>2, <4>2, <4>3 DEF Weight, n
    <3> QED
      BY <1>3, <3>6, <3>8, <3>9 DEF t
  <2> QED
    BY <2>7, <2>8
<1> QED
  BY <1>2, <1>3
(* The search ends: it cannot have turned as often without a node left     *)
(* that was not visited.                                                   *)
LEMMA SearchEnds ==
  ASSUME GraphTypes, NEW from \in Ids, NEW to \in Ids
  PROVE  /\ Dynamic!Searched(from, to) \in Searches /\ Follows(Dynamic!Searched(from, to), from, to)
         /\ Stopped(Dynamic!Searched(from, to), from)
<1> DEFINE max == Dynamic!MaxTurns
<1>1. max \in Nat /\ max = 1 + IdCount * IdCount /\ IdCount \in Nat
  BY Turns
<1>2. PICK p : /\ p[0] = [stack |-> <<to>>, visited |-> {}]
               /\ \A k \in 1 .. max : p[k] = Dynamic!Turn(p[k - 1], from)
               /\ Dynamic!Searched(from, to) = p[max]
  BY SearchRuns
<1> HIDE DEF max
<1> DEFINE Light(k) == Stopped(p[k], from) \/ Weight(p[k]) <= max - k
           Good(k) == p[k] \in Searches /\ Follows(p[k], from, to) /\ Light(k)
           Bad == {k \in 0 .. max : ~Good(k)}
<1>3. Good(0)
  <2> DEFINE s == [stack |-> <<to>>, visited |-> {}]
  <2>1. s \in Searches /\ s.stack = <<to>> /\ Len(<<to>>) = 1 /\ <<to>>[1] = to /\ s.visited = {}
    BY DEF Searches
  <2> HIDE DEF s
  <2>2. Follows(s, from, to)
    <3>1. \A i \in 1 .. 1 : i = 1
      OBVIOUS
    <3>2. 1 \in 1 .. 1
      OBVIOUS
    <3>3. On(s.stack, to)
      BY <2>1, <3>2 DEF On
    <3> QED
      BY <2>1, <3>1, <3>3 DEF Follows
  <2>3. Weight(s) = 1 + IdCount * (IdCount - 0)
    BY <2>1, FS_EmptySet DEF Weight
  <2>4. IdCount - 0 = IdCount /\ max - 0 = max
    BY <1>1
  <2>5. Weight(s) = max
    BY <1>1, <2>3, <2>4
  <2>6. p[0] = s
    BY <1>2 DEF s
  <2> QED
    BY <1>1, <2>1, <2>2, <2>4, <2>5, <2>6
<1>4. ASSUME NEW k \in 1 .. max, Good(k - 1) PROVE Good(k)
  <2>1. p[k] = Dynamic!Turn(p[k - 1], from)
    BY <1>2
  <2>2. /\ p[k] \in Searches /\ Follows(p[k], from, to)
        /\ IF Stopped(p[k - 1], from) THEN p[k] = p[k - 1] ELSE Weight(p[k]) <= Weight(p[k - 1]) - 1
    BY <1>4, <2>1, TurnFollows
  <2>3. Light(k)
    <3>1. CASE Stopped(p[k - 1], from)
      BY <2>2, <3>1
    <3>2. CASE ~Stopped(p[k - 1], from)
      <4>1. Weight(p[k]) <= Weight(p[k - 1]) - 1 /\ Weight(p[k - 1]) <= max - (k - 1)
        BY <1>4, <2>2, <3>2
      <4>2. Weight(p[k]) \in Int /\ Weight(p[k - 1]) \in Int
        <5>1. \A s \in Searches : Weight(s) \in Int
          <6> SUFFICES ASSUME NEW s \in Searches PROVE Weight(s) \in Int
            OBVIOUS
          <6>1. Len(s.stack) \in Nat /\ Cardinality(s.visited) \in Nat
            BY GraphIsFinite, FS_Subset, FS_CardinalityType DEF Searches
          <6>2. IdCount * (IdCount - Cardinality(s.visited)) \in Int
            BY <1>1, <6>1
          <6> QED
            BY <6>1, <6>2 DEF Weight
        <5> QED
          BY <1>4, <2>2, <5>1
      <4>3. Weight(p[k]) <= max - k
        BY <1>1, <4>1, <4>2
      <4> QED
        BY <4>3
    <3> QED
      BY <3>1, <3>2
  <2> QED
    BY <2>2, <2>3
<1>5. Bad = {}
  <2> SUFFICES ASSUME Bad # {} PROVE FALSE
    OBVIOUS
  <2>1. Bad \in SUBSET Nat
    BY <1>1
  <2>2. PICK m \in Bad : \A y \in Bad : m <= y
    <3> HIDE DEF Bad
    <3> QED
      BY <2>1, Least
  <2>3. m \in 0 .. max /\ ~Good(m)
    BY <2>2
  <2> HIDE DEF Good
  <2>4. m # 0
    BY <1>3, <2>3
  <2>5. m \in 1 .. max /\ m - 1 \in 0 .. max /\ ~(m <= m - 1)
    BY <1>1, <2>3, <2>4
  <2>6. Good(m - 1)
    BY <2>2, <2>5
  <2> QED
    BY <1>4, <2>3, <2>5, <2>6
<1>6. Good(max)
  <2>1. max \in 0 .. max
    BY <1>1
  <2> HIDE DEF Good
  <2> QED
    BY <1>5, <2>1
<1>7. CASE Weight(p[max]) <= max - max
  <2> DEFINE s == p[max]
             v == Cardinality(s.visited)
  <2>1. s.stack \in Seq(Ids) /\ s.visited \in SUBSET Ids
    BY <1>6 DEF Searches
  <2>2. v \in Nat /\ v <= IdCount
    BY <2>1, GraphIsFinite, FS_Subset, FS_CardinalityType DEF IdCount
  <2>3. Weight(s) <= 0 /\ Weight(s) = Len(s.stack) + IdCount * (IdCount - v)
    BY <1>1, <1>7 DEF Weight
  <2>4. IdCount * (IdCount - v) \in Nat
    <3>1. \A a, b \in Nat : a * b \in Nat
      OBVIOUS
    <3>2. IdCount - v \in Nat
      BY <1>1, <2>2
    <3> QED
      BY <1>1, <3>1, <3>2
  <2>5. Len(s.stack) \in Nat
    BY <2>1
  <2> HIDE DEF s, v
  <2>6. Len(s.stack) = 0
    BY <2>3, <2>4, <2>5
  <2>7. s.stack = <<>>
    BY <2>1, <2>6, EmptySeq
  <2> QED
    BY <1>2, <1>6, <2>7 DEF Stopped, s
<1> QED
  BY <1>2, <1>6, <1>7

(* When the search does not meet "from", what it visited is closed.        *)
LEMMA NothingCloses ==
  ASSUME GraphTypes, NEW from \in Ids, NEW to \in Ids, ~Dynamic!WouldCreateCycle(from, to)
  PROVE  \E V \in SUBSET Ids : to \in V /\ from \notin V /\ Closed(V)
<1> DEFINE s == Dynamic!Searched(from, to)
<1>1. s \in Searches /\ Follows(s, from, to) /\ s.stack = <<>>
  BY SearchEnds DEF Dynamic!WouldCreateCycle
<1> HIDE DEF s
<1>2. \A x : ~On(s.stack, x)
  <2>1. Len(s.stack) = 0 /\ \A i \in 1 .. 0 : FALSE
    BY <1>1
  <2> QED
    BY <2>1 DEF On
<1>3. s.visited \in SUBSET Ids /\ to \in s.visited /\ from \notin s.visited /\ Closed(s.visited)
  BY <1>1, <1>2 DEF Follows, Closed, Searches
<1> QED
  BY <1>3

(* When it meets "from", "to" leads there.                                 *)
LEMMA ItCloses ==
  ASSUME GraphTypes, NEW from \in Ids, NEW to \in Ids, Dynamic!WouldCreateCycle(from, to),
         NEW C \in SUBSET Ids, to \in C, Closed(C)
  PROVE  from \in C
<1> DEFINE s == Dynamic!Searched(from, to)
<1>1. s \in Searches /\ Follows(s, from, to) /\ Stopped(s, from) /\ s.stack # <<>>
  BY SearchEnds DEF Dynamic!WouldCreateCycle
<1> HIDE DEF s
<1>2. s.stack[Len(s.stack)] = from /\ s.stack \in Seq(Ids)
  BY <1>1 DEF Stopped, Searches
<1>3. Len(s.stack) \in 1 .. Len(s.stack)
  <2>1. Len(s.stack) \in Nat /\ Len(s.stack) # 0
    BY <1>1, <1>2, EmptySeq
  <2> QED
    BY <2>1
<1> QED
  BY <1>1, <1>2, <1>3 DEF Follows

(* What a change keeps.                                                    *)
ChangesInv ==
  /\ GraphTypes
  /\ Dynamic!EdgeSet \subseteq nodes \X nodes
  /\ Dynamic!Acyclic(Dynamic!EdgeSet)
  /\ \A n \in Ids : Dynamic!IsInjective(edges[n])

(* An edge is an edge to a target.                                         *)
LEMMA EdgesAre ==
  ASSUME GraphTypes
  PROVE  /\ Dynamic!EdgeSet \subseteq Ids \X Ids
         /\ \A x, y \in Ids : <<x, y>> \in Dynamic!EdgeSet <=> x \in Dynamic!ToSet(edges[y])
         /\ \A x, y \in Ids : <<x, y>> \in Dynamic!EdgeSet <=> y \in Dynamic!Targets(x)
         /\ \A x : Dynamic!Targets(x) \subseteq Ids
BY DEF Dynamic!EdgeSet, Dynamic!Targets

(* Fewer edges close fewer cycles.                                         *)
LEMMA FewerEdges ==
  ASSUME NEW A, NEW B \in SUBSET A, Dynamic!Acyclic(A)
  PROVE  Dynamic!Acyclic(B)
BY DEF Dynamic!Acyclic

(* An edge that closes nothing closes no cycle.                            *)
LEMMA EdgeKeeps ==
  ASSUME ChangesInv, NEW from \in nodes, NEW to \in nodes, ~Dynamic!WouldCreateCycle(from, to)
  PROVE  Dynamic!Acyclic(Dynamic!EdgeSet \cup {<<from, to>>})
<1> DEFINE E == Dynamic!EdgeSet
<1>1. from \in Ids /\ to \in Ids /\ nodes \subseteq Ids
  BY DEF ChangesInv, GraphTypes
<1>2. PICK V \in SUBSET Ids : to \in V /\ from \notin V /\ Closed(V)
  BY <1>1, NothingCloses DEF ChangesInv
<1>3. \A x \in V : \A y \in Ids : <<x, y>> \in E => y \in V
  BY <1>2, EdgesAre DEF Closed, ChangesInv
<1> HIDE DEF E
<1>4. \A some \in SUBSET nodes : some # {} => \E n \in some : \A m \in some : <<m, n>> \notin E
  BY DEF E, ChangesInv, Dynamic!Acyclic
<1>5. ASSUME NEW some \in SUBSET nodes, some # {}
      PROVE  \E n \in some : \A m \in some : <<m, n>> \notin E \cup {<<from, to>>}
  <2>1. CASE some \subseteq V
    <3>1. from \notin some
      BY <1>2, <2>1
    <3>2. PICK n \in some : \A m \in some : <<m, n>> \notin E
      BY <1>4, <1>5
    <3> QED
      BY <3>1, <3>2
  <2>2. CASE ~(some \subseteq V)
    <3>1. some \ V # {} /\ some \ V \in SUBSET nodes
      BY <2>2
    <3>2. PICK n \in some \ V : \A m \in some \ V : <<m, n>> \notin E
      BY <1>4, <3>1
    <3>3. \A m \in some : <<m, n>> \notin E
      BY <1>1, <1>3, <3>2
    <3>4. n # to
      BY <1>2, <3>2
    <3> QED
      BY <3>2, <3>3, <3>4
  <2> QED
    BY <2>1, <2>2
<1> QED
  BY <1>5 DEF E, Dynamic!Acyclic

(* And one that is refused would close one: of the nodes that "to" leads   *)
(* to, each would then have another of them before it.                     *)
LEMMA RefusedRightly ==
  ASSUME ChangesInv, NEW from \in nodes, NEW to \in nodes, Dynamic!WouldCreateCycle(from, to)
  PROVE  ~Dynamic!Acyclic(Dynamic!EdgeSet \cup {<<from, to>>})
<1> DEFINE E == Dynamic!EdgeSet
           R == {x \in Ids : \A C \in SUBSET Ids : to \in C /\ Closed(C) => x \in C}
<1>1. from \in Ids /\ to \in Ids /\ nodes \in SUBSET Ids
  BY DEF ChangesInv, GraphTypes
<1>2. \A x, y \in Ids : <<x, y>> \in E <=> y \in Dynamic!Targets(x)
  BY EdgesAre DEF ChangesInv
<1>3. Closed(nodes)
  <2>1. \A x \in nodes : \A y \in Dynamic!Targets(x) : y \in Ids /\ <<x, y>> \in E
    BY <1>1, <1>2, EdgesAre DEF ChangesInv
  <2> QED
    BY <2>1 DEF ChangesInv, Closed
<1>4. R \in SUBSET nodes /\ to \in R /\ R \in SUBSET Ids
  BY <1>1, <1>3
<1>5. from \in R
  BY <1>1, ItCloses DEF ChangesInv
<1>6. \A x \in R : \A y \in Dynamic!Targets(x) : y \in R
  <2> SUFFICES ASSUME NEW x \in R, NEW y \in Dynamic!Targets(x) PROVE y \in R
    OBVIOUS
  <2>1. y \in Ids
    BY EdgesAre DEF ChangesInv
  <2>2. \A C \in SUBSET Ids : to \in C /\ Closed(C) => y \in C
    BY DEF Closed
  <2> QED
    BY <2>1, <2>2
<1>7. \A x \in R : x # to => \E y \in R : <<y, x>> \in E
  <2> SUFFICES ASSUME NEW x \in R, x # to, \A y \in R : <<y, x>> \notin E PROVE FALSE
    OBVIOUS
  <2>1. x \in Ids /\ R \ {x} \in SUBSET Ids /\ to \in R \ {x}
    BY <1>4
  <2>2. Closed(R \ {x})
    <3>1. \A y \in R : x \notin Dynamic!Targets(y)
      BY <1>2, <1>4, <2>1
    <3> HIDE DEF R
    <3> QED
      BY <1>6, <3>1 DEF Closed
  <2>3. \A C \in SUBSET Ids : to \in C /\ Closed(C) => x \in C
    OBVIOUS
  <2> HIDE DEF R
  <2> QED
    BY <2>1, <2>2, <2>3
<1> HIDE DEF R, E
<1>8. \A x \in R : \E y \in R : <<y, x>> \in E \cup {<<from, to>>}
  BY <1>5, <1>7
<1>9. R # {} /\ R \in SUBSET nodes
  BY <1>4
<1> QED
  BY <1>8, <1>9 DEF E, Dynamic!Acyclic

(* So what a change keeps is that the graph is sound.                      *)
LEMMA ChangesShow == ChangesInv => StaysSound
BY RefusedRightly DEF ChangesInv, StaysSound, Dynamic!StaysSound

(* A list without one of its elements has the others, as often.            *)
LEMMA TakenOut ==
  ASSUME NEW list \in Seq(Ids), Dynamic!IsInjective(list), NEW k \in 1 .. Len(list)
  PROVE  LET rest == Dynamic!RemoveAt(list, k)
         IN rest \in Seq(Ids) /\ Dynamic!IsInjective(rest) /\ Dynamic!ToSet(rest) \subseteq Dynamic!ToSet(list)
<1> DEFINE n == Len(list)
           first == SubSeq(list, 1, k - 1)
           last == SubSeq(list, k + 1, n)
           rest == first \o last
<1>1. n \in Nat /\ DOMAIN list = 1 .. n /\ k \in Nat \ {0} /\ k <= n
  BY LenProperties
<1>2. /\ \A i \in 1 .. n : list[i] \in Ids
      /\ \A i, j \in 1 .. n : list[i] = list[j] => i = j
  BY <1>1, ElementOfSeq DEF Dynamic!IsInjective
<1> HIDE DEF n
<1>3. /\ first \in Seq(Ids) /\ Len(first) = k - 1
      /\ \A i \in 1 .. k - 1 : first[i] = list[i]
  <2>1. /\ 1 \in Int /\ k - 1 \in Int /\ \A i \in 1 .. k - 1 : list[i] \in Ids
        /\ (k - 1) - 1 + 1 = k - 1
        /\ ~(1 <= k - 1) => k - 1 = 0
        /\ \A i \in 1 .. k - 1 : 1 + i - 1 = i
    BY <1>1, <1>2
  <2>2. /\ first \in Seq(Ids)
        /\ Len(first) = IF 1 <= k - 1 THEN (k - 1) - 1 + 1 ELSE 0
        /\ \A i \in 1 .. (k - 1) - 1 + 1 : first[i] = list[1 + i - 1]
    BY <2>1, SubSeqProperties
  <2> QED
    BY <2>1, <2>2
<1>4. /\ last \in Seq(Ids) /\ Len(last) = n - k
      /\ \A i \in 1 .. n - k : last[i] = list[k + i]
  <2>1. /\ k + 1 \in Int /\ n \in Int /\ \A i \in k + 1 .. n : i \in 1 .. n
        /\ n - (k + 1) + 1 = n - k
        /\ ~(k + 1 <= n) => n - k = 0
        /\ \A i \in 1 .. n - k : k + 1 + i - 1 = k + i
    BY <1>1
  <2>2. \A i \in k + 1 .. n : list[i] \in Ids
    BY <1>2, <2>1
  <2>3. /\ last \in Seq(Ids)
        /\ Len(last) = IF k + 1 <= n THEN n - (k + 1) + 1 ELSE 0
        /\ \A i \in 1 .. n - (k + 1) + 1 : last[i] = list[k + 1 + i - 1]
    BY <2>1, <2>2, SubSeqProperties
  <2> QED
    BY <2>1, <2>3
<1>5. Dynamic!RemoveAt(list, k) = rest
  BY DEF Dynamic!RemoveAt, n
<1> HIDE DEF first, last
<1>6. /\ rest \in Seq(Ids) /\ Len(rest) = (k - 1) + (n - k)
      /\ \A i \in 1 .. (k - 1) + (n - k) : rest[i] = IF i <= k - 1 THEN first[i] ELSE last[i - (k - 1)]
  <2>1. /\ rest \in Seq(Ids) /\ Len(rest) = Len(first) + Len(last)
        /\ \A i \in 1 .. Len(first) + Len(last) :
             rest[i] = IF i <= Len(first) THEN first[i] ELSE last[i - Len(first)]
    BY <1>3, <1>4, ConcatProperties
  <2> HIDE DEF rest
  <2> QED
    BY <1>3, <1>4, <2>1
<1>7. (k - 1) + (n - k) = n - 1
  BY <1>1
<1>8. \A i \in 1 .. n - 1 : rest[i] = list[IF i < k THEN i ELSE i + 1]
  <2> SUFFICES ASSUME NEW i \in 1 .. n - 1 PROVE rest[i] = list[IF i < k THEN i ELSE i + 1]
    OBVIOUS
  <2>1. CASE i < k
    <3>1. i \in 1 .. k - 1 /\ i <= k - 1 /\ i \in 1 .. (k - 1) + (n - k)
      BY <1>1, <2>1
    <3> QED
      BY <1>3, <1>6, <2>1, <3>1
  <2>2. CASE ~(i < k)
    <3>1. i - (k - 1) \in 1 .. n - k /\ k + (i - (k - 1)) = i + 1 /\ ~(i <= k - 1) /\ i \in 1 .. (k - 1) + (n - k)
      BY <1>1, <2>2
    <3> QED
      BY <1>4, <1>6, <2>2, <3>1
  <2> QED
    BY <2>1, <2>2
<1> HIDE DEF rest
<1>9. rest \in Seq(Ids) /\ DOMAIN rest = 1 .. n - 1
  BY <1>6, <1>7, LenProperties
<1>10. \A i \in 1 .. n - 1 : (IF i < k THEN i ELSE i + 1) \in 1 .. n
  BY <1>1
<1>11. Dynamic!ToSet(rest) \subseteq Dynamic!ToSet(list)
  BY <1>1, <1>8, <1>9, <1>10 DEF Dynamic!ToSet
<1>12. \A i, j \in 1 .. n - 1 : rest[i] = rest[j] => i = j
  <2> SUFFICES ASSUME NEW i \in 1 .. n - 1, NEW j \in 1 .. n - 1, rest[i] = rest[j] PROVE i = j
    OBVIOUS
  <2> DEFINE a == IF i < k THEN i ELSE i + 1
             b == IF j < k THEN j ELSE j + 1
  <2>1. a \in 1 .. n /\ b \in 1 .. n /\ (a = b => i = j)
    BY <1>1
  <2>2. rest[i] = list[a] /\ rest[j] = list[b]
    BY <1>8
  <2> HIDE DEF a, b
  <2> QED
    BY <1>2, <2>1, <2>2
<1> QED
  BY <1>5, <1>9, <1>11, <1>12 DEF Dynamic!IsInjective
(* A graph starts empty.                                                   *)
LEMMA ChangesInit == Dynamic!Init => ChangesInv
<1> SUFFICES ASSUME Dynamic!Init PROVE ChangesInv
  OBVIOUS
<1>1. nodes = {} /\ edges = [n \in Ids |-> <<>>]
  BY DEF Dynamic!Init
<1>2. <<>> \in Seq(Ids)
  OBVIOUS
<1>3. GraphTypes
  BY <1>1, <1>2 DEF GraphTypes
<1>4. \A n \in Ids : edges[n] = <<>> /\ DOMAIN <<>> = {}
  BY <1>1
<1>5. Dynamic!EdgeSet = {}
  BY <1>4 DEF Dynamic!EdgeSet, Dynamic!ToSet
<1>6. \A n \in Ids : Dynamic!IsInjective(edges[n])
  BY <1>4 DEF Dynamic!IsInjective
<1> QED
  BY <1>1, <1>3, <1>5, <1>6 DEF ChangesInv, Dynamic!Acyclic

(* A new node has no edges.                                                *)
LEMMA NodeAdded ==
  ASSUME ChangesInv, NEW id \in Ids, Dynamic!AddNode(id)
  PROVE  ChangesInv'
<1>1. nodes' = nodes \cup {id} /\ edges' = edges /\ id \notin nodes
  BY DEF Dynamic!AddNode
<1>2. Dynamic!EdgeSet' = Dynamic!EdgeSet
  BY <1>1 DEF Dynamic!EdgeSet
<1>3. Dynamic!EdgeSet \subseteq nodes \X nodes
  BY DEF ChangesInv
<1>4. \A some \in SUBSET nodes' : some # {} => \E n \in some : \A m \in some : <<m, n>> \notin Dynamic!EdgeSet
  <2> SUFFICES ASSUME NEW some \in SUBSET nodes', some # {}
               PROVE  \E n \in some : \A m \in some : <<m, n>> \notin Dynamic!EdgeSet
    OBVIOUS
  <2>1. CASE id \in some
    BY <1>1, <1>3, <2>1
  <2>2. CASE id \notin some
    BY <1>1, <2>2 DEF ChangesInv, Dynamic!Acyclic
  <2> QED
    BY <2>1, <2>2
<1>5. GraphTypes' /\ (\A n \in Ids : Dynamic!IsInjective(edges[n]))'
  BY <1>1 DEF ChangesInv, GraphTypes
<1>6. (Dynamic!EdgeSet \subseteq nodes \X nodes)'
  BY <1>1, <1>2, <1>3
<1>7. Dynamic!Acyclic(Dynamic!EdgeSet)'
  BY <1>2, <1>4 DEF Dynamic!Acyclic
<1> QED
  BY <1>5, <1>6, <1>7 DEF ChangesInv

(* A node that is removed leads nowhere, and its edges go with it.         *)
LEMMA NodeRemoved ==
  ASSUME ChangesInv, NEW id \in Ids, Dynamic!RemoveNode(id)
  PROVE  ChangesInv'
<1>1. nodes' = nodes \ {id} /\ edges' = [edges EXCEPT ![id] = <<>>] /\ Dynamic!Targets(id) = {}
  BY DEF Dynamic!RemoveNode
<1>2. nodes \in SUBSET Ids /\ edges \in [Ids -> Seq(Ids)] /\ GraphTypes
  BY DEF ChangesInv, GraphTypes
<1>3. GraphTypes'
  <2>1. <<>> \in Seq(Ids)
    OBVIOUS
  <2> QED
    BY <1>1, <1>2, <2>1 DEF GraphTypes
<1>4. \A n \in Ids : edges'[n] = IF n = id THEN <<>> ELSE edges[n]
  BY <1>1, <1>2
<1>5. Dynamic!EdgeSet' \subseteq Dynamic!EdgeSet \cap ((nodes \ {id}) \X (nodes \ {id}))
  <2> SUFFICES ASSUME NEW e \in Dynamic!EdgeSet'
               PROVE  e \in Dynamic!EdgeSet /\ e \in (nodes \ {id}) \X (nodes \ {id})
    OBVIOUS
  <2>1. e \in Ids \X Ids /\ e[1] \in Dynamic!ToSet(edges'[e[2]])
    BY DEF Dynamic!EdgeSet
  <2>2. e[2] # id
    <3>1. Dynamic!ToSet(<<>>) = {}
      BY DEF Dynamic!ToSet
    <3> QED
      BY <1>4, <2>1, <3>1
  <2>3. e \in Dynamic!EdgeSet
    BY <1>4, <2>1, <2>2 DEF Dynamic!EdgeSet
  <2>4. e[1] # id
    <3>1. e = <<e[1], e[2]>> /\ e[1] \in Ids /\ e[2] \in Ids
      BY <2>1
    <3> QED
      BY <1>1, <1>2, <2>3, <3>1, EdgesAre
  <2>5. e \in nodes \X nodes
    BY <2>3 DEF ChangesInv
  <2> QED
    BY <2>2, <2>3, <2>4, <2>5
<1>6. \A n \in Ids : Dynamic!IsInjective(edges'[n])
  <2>1. Dynamic!IsInjective(<<>>)
    BY DEF Dynamic!IsInjective
  <2> QED
    BY <1>4, <2>1 DEF ChangesInv
<1>7. Dynamic!Acyclic(Dynamic!EdgeSet')
  BY <1>5, FewerEdges DEF ChangesInv
<1>8. \A some \in SUBSET nodes' : some \in SUBSET nodes
  BY <1>1
<1>9. Dynamic!Acyclic(Dynamic!EdgeSet)'
  BY <1>7, <1>8 DEF Dynamic!Acyclic
<1> QED
  BY <1>1, <1>3, <1>5, <1>6, <1>9 DEF ChangesInv

(* An edge that is added is one that closes nothing.                       *)
LEMMA EdgeAdded ==
  ASSUME ChangesInv, NEW from \in Ids, NEW to \in Ids, Dynamic!AddEdge(from, to)
  PROVE  ChangesInv'
<1>1. /\ from \in nodes /\ to \in nodes /\ nodes' = nodes
      /\ ~Dynamic!WouldCreateCycle(from, to) /\ from \notin Dynamic!ToSet(edges[to])
      /\ edges' = [edges EXCEPT ![to] = Append(@, from)]
  BY DEF Dynamic!AddEdge
<1>2. edges \in [Ids -> Seq(Ids)] /\ nodes \in SUBSET Ids
  BY DEF ChangesInv, GraphTypes
<1> DEFINE old == edges[to]
           new == Append(old, from)
<1>3. /\ old \in Seq(Ids) /\ new \in Seq(Ids) /\ Len(old) \in Nat /\ Len(new) = Len(old) + 1
      /\ DOMAIN old = 1 .. Len(old) /\ DOMAIN new = 1 .. Len(old) + 1
      /\ new[Len(old) + 1] = from /\ \A i \in 1 .. Len(old) : new[i] = old[i]
  <2>1. old \in Seq(Ids)
    BY <1>2
  <2> HIDE DEF old
  <2> QED
    BY <2>1, AppendProperties, LenProperties
<1>4. edges' \in [Ids -> Seq(Ids)] /\ \A n \in Ids : edges'[n] = IF n = to THEN new ELSE edges[n]
  BY <1>1, <1>2, <1>3
<1>5. \A i \in 1 .. Len(old) : old[i] # from
  BY <1>1, <1>3 DEF Dynamic!ToSet
<1>6. Dynamic!IsInjective(old)
  BY DEF ChangesInv
<1> HIDE DEF old, new
<1>7. \A i \in 1 .. Len(old) + 1 : i \in 1 .. Len(old) \/ i = Len(old) + 1
  BY <1>3
<1>8. Dynamic!ToSet(new) \subseteq Dynamic!ToSet(old) \cup {from}
  BY <1>3, <1>7 DEF Dynamic!ToSet
<1>9. Dynamic!IsInjective(new)
  BY <1>3, <1>5, <1>6, <1>7 DEF Dynamic!IsInjective
<1>10. Dynamic!EdgeSet' \subseteq Dynamic!EdgeSet \cup {<<from, to>>}
  <2> SUFFICES ASSUME NEW e \in Dynamic!EdgeSet' PROVE e \in Dynamic!EdgeSet \cup {<<from, to>>}
    OBVIOUS
  <2>1. e \in Ids \X Ids /\ e[1] \in Dynamic!ToSet(edges'[e[2]]) /\ e = <<e[1], e[2]>>
    BY DEF Dynamic!EdgeSet
  <2>2. CASE e[2] = to
    <3>1. e[1] \in Dynamic!ToSet(edges[e[2]]) \/ e[1] = from
      BY <1>4, <1>8, <2>1, <2>2 DEF old
    <3> QED
      BY <2>1, <2>2, <3>1 DEF Dynamic!EdgeSet
  <2>3. CASE e[2] # to
    BY <1>4, <2>1, <2>3 DEF Dynamic!EdgeSet
  <2> QED
    BY <2>2, <2>3
<1>11. Dynamic!Acyclic(Dynamic!EdgeSet')
  <2>1. Dynamic!Acyclic(Dynamic!EdgeSet \cup {<<from, to>>})
    BY <1>1, EdgeKeeps
  <2> QED
    BY <1>10, <2>1, FewerEdges
<1>12. Dynamic!Acyclic(Dynamic!EdgeSet)'
  BY <1>1, <1>11 DEF Dynamic!Acyclic
<1>13. (Dynamic!EdgeSet \subseteq nodes \X nodes)'
  <2>1. Dynamic!EdgeSet \subseteq nodes \X nodes
    BY DEF ChangesInv
  <2> QED
    BY <1>1, <1>10, <2>1
<1>14. \A n \in Ids : Dynamic!IsInjective(edges'[n])
  BY <1>4, <1>9 DEF ChangesInv
<1> QED
  BY <1>1, <1>2, <1>4, <1>12, <1>13, <1>14 DEF ChangesInv, GraphTypes

(* An edge that is removed leaves the others.                              *)
LEMMA EdgeRemoved ==
  ASSUME ChangesInv, NEW from \in Ids, NEW to \in Ids, Dynamic!RemoveEdge(from, to)
  PROVE  ChangesInv'
<1>1. edges \in [Ids -> Seq(Ids)] /\ nodes \in SUBSET Ids /\ nodes' = nodes
  BY DEF ChangesInv, GraphTypes, Dynamic!RemoveEdge
<1>2. PICK i \in DOMAIN edges[to] : edges' = [edges EXCEPT ![to] = Dynamic!RemoveAt(edges[to], i)]
  BY DEF Dynamic!RemoveEdge
<1> DEFINE rest == Dynamic!RemoveAt(edges[to], i)
<1>3. rest \in Seq(Ids) /\ Dynamic!IsInjective(rest) /\ Dynamic!ToSet(rest) \subseteq Dynamic!ToSet(edges[to])
  <2>1. edges[to] \in Seq(Ids) /\ Dynamic!IsInjective(edges[to])
    BY <1>1 DEF ChangesInv
  <2>2. i \in 1 .. Len(edges[to])
    BY <2>1, LenProperties
  <2> QED
    BY <2>1, <2>2, TakenOut
<1> HIDE DEF rest
<1>4. edges' = [edges EXCEPT ![to] = rest]
  BY <1>2 DEF rest
<1>5. edges' \in [Ids -> Seq(Ids)] /\ \A n \in Ids : edges'[n] = IF n = to THEN rest ELSE edges[n]
  BY <1>1, <1>3, <1>4
<1>6. Dynamic!EdgeSet' \subseteq Dynamic!EdgeSet
  BY <1>3, <1>5 DEF Dynamic!EdgeSet
<1>7. Dynamic!Acyclic(Dynamic!EdgeSet')
  BY <1>6, FewerEdges DEF ChangesInv
<1>8. Dynamic!Acyclic(Dynamic!EdgeSet)'
  BY <1>1, <1>7 DEF Dynamic!Acyclic
<1>9. (Dynamic!EdgeSet \subseteq nodes \X nodes)'
  BY <1>1, <1>6 DEF ChangesInv
<1>10. \A n \in Ids : Dynamic!IsInjective(edges'[n])
  BY <1>3, <1>5 DEF ChangesInv
<1> QED
  BY <1>1, <1>5, <1>8, <1>9, <1>10 DEF ChangesInv, GraphTypes

(* Every change keeps it.                                                  *)
LEMMA ChangesStep == ChangesInv /\ [Dynamic!Next]_dynamicVars => ChangesInv'
<1> SUFFICES ASSUME ChangesInv, [Dynamic!Next]_dynamicVars PROVE ChangesInv'
  OBVIOUS
<1>1. CASE UNCHANGED dynamicVars
  BY <1>1 DEF dynamicVars, ChangesInv, GraphTypes, Dynamic!EdgeSet, Dynamic!Acyclic
<1>2. CASE Dynamic!Next
  BY <1>2, NodeAdded, NodeRemoved, EdgeAdded, EdgeRemoved DEF Dynamic!Next
<1> QED
  BY <1>1, <1>2

(* However a graph of any nodes is changed, it has no cycle, no edge of a  *)
(* node that is gone and no edge twice; and what wouldCreateCycle()        *)
(* refuses would have closed a cycle.                                      *)
THEOREM GraphStaysSound == Dynamic!Init /\ [][Dynamic!Next]_dynamicVars => []StaysSound
<1>1. Dynamic!Init /\ [][Dynamic!Next]_dynamicVars => []ChangesInv
  BY ChangesInit, ChangesStep, PTL
<1> QED
  BY <1>1, ChangesShow, PTL
=============================================================================
