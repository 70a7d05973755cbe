----------------------------- MODULE WorkerPool -----------------------------
(***************************************************************************)
(* src/graph/worker-pool.ts: worker loops that take tasks from one queue,  *)
(* the promise each submit() returns, the executors in flight, autoscaling *)
(* and drain().                                                            *)
(*                                                                         *)
(* One action is one turn of the event loop.  A worker that was woken, or  *)
(* whose task settled, goes on in a microtask: timers (drain timeout,      *)
(* heartbeat) fire only when no worker waits for its turn, submit() may    *)
(* come first.                                                             *)
(***************************************************************************)
EXTENDS Integers, FiniteSets

CONSTANTS
  Tasks, Priority,                \* Priority[t]: lower is served first
  Workers,                        \* identities of the slots
  InitialSize, MinSize, MaxSize,
  GrowThreshold,
  TaskTimeouts, DrainTimeouts,    \* whether those timers may fire
  NoTask

ASSUME PoolAssumption ==
  /\ Priority \in [Tasks -> Int]
  /\ IsFiniteSet(Workers) /\ IsFiniteSet(Tasks)
  /\ InitialSize \in Nat /\ MinSize \in Nat /\ MaxSize \in Nat /\ GrowThreshold \in Nat
  /\ InitialSize <= MaxSize /\ MaxSize <= Cardinality(Workers)
  /\ TaskTimeouts \in BOOLEAN /\ DrainTimeouts \in BOOLEAN
  /\ NoTask \notin Tasks

VARIABLES
  task,         \* the promise of each submit(): not made, pending, settled
  executing,    \* tasks whose executor has not settled
  worker,       \* state of each slot; "absent" is not in the map
  current,      \* currentTask
  parked,       \* slots with a wakeResolve
  rested,       \* idle for longer than idleShrinkMs
  draining,
  drain         \* the promise of drain()

poolVars == <<task, executing, worker, current, parked, rested, draining, drain>>

TaskStates == {"new", "queued", "running", "ok", "failed"}
WorkerStates == {"absent", "idle", "busy", "dead"}

Queue == {t \in Tasks : task[t] = "queued"}
Pool == {w \in Workers : worker[w] # "absent"}
InState(s) == {w \in Workers : worker[w] = s}

(* Slots whose loop goes on before the next timer.                         *)
Woken == InState("idle") \ parked

Smaller(a, b) == IF a <= b THEN a ELSE b

PoolInit ==
  /\ task = [t \in Tasks |-> "new"]
  /\ executing = {}
  /\ \E start \in SUBSET Workers :
       /\ Cardinality(start) = InitialSize
       /\ worker = [w \in Workers |-> IF w \in start THEN "idle" ELSE "absent"]
       /\ parked = start
  /\ current = [w \in Workers |-> NoTask]
  /\ rested = {}
  /\ draining = FALSE
  /\ drain = "none"

-----------------------------------------------------------------------------
(* k tasks that leave the queue q first.                                   *)
Leave(k, q) ==
  {T \in SUBSET q : /\ Cardinality(T) = Smaller(k, Cardinality(q))
                    /\ \A t \in T, u \in q \ T : Priority[t] <= Priority[u]}

(* cleanup(): every slot dies and every parked loop is woken to see it.    *)
Cleanup ==
  /\ worker' = [w \in Workers |-> IF w \in Pool THEN "dead" ELSE "absent"]
  /\ parked' = {}
  /\ rested' = {}

(* wakeOneIdleWorker(), once for each task of S.                           *)
Wakes(S, woken) == Cardinality(woken) = Smaller(Cardinality(S), Cardinality(parked))

(* The tasks of S are submitted, in one turn.  An idle slot with a         *)
(* wakeResolve is in parked.                                               *)
Submit(S) ==
  /\ ~draining
  /\ \A t \in S : task[t] = "new"
  /\ task' = [t \in Tasks |-> IF t \in S THEN "queued" ELSE task[t]]
  /\ \E woken \in SUBSET parked :
       /\ Wakes(S, woken)
       /\ parked' = parked \ woken
       /\ rested' = rested \ woken
  /\ UNCHANGED <<executing, worker, current, draining, drain>>

(* allIdle() fails because of these, asked by the loop of w.               *)
OtherBusy(w) == InState("busy") \ {w}

(* workerLoop() from the top of the loop, with the task promises as in     *)
(* "tasks" and the executors as in "running": take a task; or, the queue   *)
(* being empty, end the drain if nobody works any more; or park.           *)
Loop(w, tasks, running) ==
  LET q == {t \in Tasks : tasks[t] = "queued"} IN
  \/ /\ worker[w] = "dead"
     /\ task' = tasks /\ executing' = running
     /\ current' = [current EXCEPT ![w] = NoTask]
     /\ UNCHANGED <<worker, parked, rested, drain>>
  \/ /\ worker[w] # "dead"
     /\ \E t \in q :
          /\ {t} \in Leave(1, q)
          /\ task' = [tasks EXCEPT ![t] = "running"]
          /\ executing' = running \cup {t}
          /\ current' = [current EXCEPT ![w] = t]
          /\ worker' = [worker EXCEPT ![w] = "busy"]
     /\ UNCHANGED <<parked, rested, drain>>
  \/ /\ worker[w] # "dead" /\ q = {}
     /\ task' = tasks /\ executing' = running
     /\ current' = [current EXCEPT ![w] = NoTask]
     /\ IF draining /\ OtherBusy(w) = {}
          THEN Cleanup /\ drain' = "resolved"
          ELSE /\ worker' = [worker EXCEPT ![w] = "idle"]
               /\ parked' = parked \cup {w}
               /\ rested' = rested \ {w}
               /\ UNCHANGED drain

(* A woken loop finds its slot alive.                                      *)
WokenTurn(w) ==
  /\ w \in Woken
  /\ Loop(w, task, executing)
  /\ UNCHANGED draining

(* The executor settles in time.                                           *)
Settle(w, outcome) ==
  /\ current[w] # NoTask
  /\ Loop(w, [task EXCEPT ![current[w]] = outcome], executing \ {current[w]})
  /\ UNCHANGED draining

(* Variant: the executor is aborted and still awaited.                     *)
TaskTimeoutAwaits(w) ==
  /\ TaskTimeouts /\ current[w] # NoTask
  /\ UNCHANGED poolVars

(* executeWithTimeout() gives up: the promise rejects and the worker moves *)
(* on, but the executor has only been asked to abort.                      *)
TaskTimeout(w) ==
  /\ TaskTimeouts /\ Woken = {}
  /\ current[w] # NoTask
  /\ Loop(w, [task EXCEPT ![current[w]] = "failed"], executing)
  /\ UNCHANGED draining

(* The outcome of an executor that had timed out is dropped.               *)
LateSettle(t) ==
  /\ t \in executing /\ task[t] # "running"
  /\ executing' = executing \ {t}
  /\ UNCHANGED <<task, worker, current, parked, rested, draining, drain>>

(* Variant: an empty queue is enough.                                      *)
DrainIfEmpty ==
  /\ ~draining
  /\ draining' = TRUE
  /\ IF Queue = {}
       THEN Cleanup /\ drain' = "resolved"
       ELSE /\ drain' = "waiting"
            /\ parked' = {} /\ rested' = {}
            /\ UNCHANGED worker
  /\ UNCHANGED <<task, executing, current>>

(* drain(): at once, or a promise for which all idle loops are woken.  The *)
(* repository calls it once per pool.                                      *)
Drain ==
  /\ ~draining
  /\ draining' = TRUE
  /\ IF InState("busy") = {} /\ Queue = {}
       THEN Cleanup /\ drain' = "resolved"
       ELSE /\ drain' = "waiting"
            /\ parked' = {} /\ rested' = {}
            /\ UNCHANGED worker
  /\ UNCHANGED <<task, executing, current>>

(* The timer of drain(): the running tasks are asked to abort.             *)
DrainTimeout ==
  /\ DrainTimeouts /\ Woken = {}
  /\ drain = "waiting"
  /\ drain' = "rejected"
  /\ Cleanup
  /\ UNCHANGED <<task, executing, current, draining>>

ToAdd == Smaller((Cardinality(Queue) + 1) \div 2, MaxSize - Cardinality(Pool))

(* autoscale(), a deep queue: every new worker takes a task at once.       *)
Grow ==
  /\ drain \in {"none", "waiting"} /\ Woken = {}
  /\ Cardinality(Queue) > GrowThreshold
  /\ InState("idle") = {}
  /\ Cardinality(Pool) < MaxSize
  /\ \E new \in SUBSET InState("absent"), T \in Leave(ToAdd, Queue) :
       /\ Cardinality(new) = ToAdd
       /\ \E pick \in [new -> T] :
            /\ \A t \in T : \E w \in new : pick[w] = t
            /\ current' = [w \in Workers |-> IF w \in new THEN pick[w] ELSE current[w]]
       /\ worker' = [w \in Workers |-> IF w \in new THEN "busy" ELSE worker[w]]
       /\ task' = [t \in Tasks |-> IF t \in T THEN "running" ELSE task[t]]
       /\ executing' = executing \cup T
  /\ UNCHANGED <<parked, rested, draining, drain>>

(* How many idle workers may go.                                           *)
Spare == Cardinality(Pool) - MinSize

(* autoscale(), rested workers: they are removed down to minSize.          *)
Shrink ==
  /\ drain \in {"none", "waiting"} /\ Woken = {}
  /\ Cardinality(InState("idle")) > 1
  /\ Spare > 0
  /\ \E gone \in SUBSET rested :
       /\ Cardinality(gone) = Smaller(Cardinality(rested), Spare)
       /\ worker' = [w \in Workers |-> IF w \in gone THEN "absent" ELSE worker[w]]
       /\ parked' = parked \ gone
       /\ rested' = rested \ gone
  /\ UNCHANGED <<task, executing, current, draining, drain>>

(* A parked worker has been idle for longer than idleShrinkMs.             *)
Rest(w) ==
  /\ w \in parked
  /\ rested' = rested \cup {w}
  /\ UNCHANGED <<task, executing, worker, current, parked, draining, drain>>

(* What the pool does on its own.                                          *)
PoolStep ==
  \/ \E w \in Workers :
       \/ WokenTurn(w) \/ Settle(w, "ok") \/ Settle(w, "failed")
       \/ TaskTimeout(w) \/ Rest(w)
  \/ \E t \in Tasks : LateSettle(t)
  \/ DrainTimeout \/ Grow \/ Shrink

PoolNext ==
  \/ PoolStep \/ Drain
  \/ \E t \in Tasks : Submit({t})

PoolSpec == PoolInit /\ [][PoolNext]_poolVars

(* Microtasks and timers run; an executor may hang for ever.               *)
PoolFairness ==
  /\ \A w \in Workers : WF_poolVars(WokenTurn(w)) /\ WF_poolVars(TaskTimeout(w))

FairPoolSpec == PoolSpec /\ PoolFairness

-----------------------------------------------------------------------------
PoolTypeOK ==
  /\ task \in [Tasks -> TaskStates]
  /\ executing \subseteq Tasks
  /\ worker \in [Workers -> WorkerStates]
  /\ current \in [Workers -> Tasks \cup {NoTask}]
  /\ parked \subseteq InState("idle") /\ rested \subseteq parked
  /\ draining \in BOOLEAN
  /\ drain \in {"none", "waiting", "resolved", "rejected"}

(* Each running task is the currentTask of one slot, alive or abandoned,   *)
(* and no slot that is idle or was removed holds one: its promise would    *)
(* never settle, or settle twice.                                          *)
OneSlotPerTask ==
  /\ \A t \in Tasks :
       task[t] = "running" <=> \E w \in Workers : current[w] = t
  /\ \A v, w \in Workers : current[v] = current[w] /\ current[v] # NoTask => v = w
  /\ \A w \in Workers : (worker[w] = "busy") => (current[w] # NoTask)
  /\ \A w \in Workers : (worker[w] \in {"idle", "absent"}) => (current[w] = NoTask)

(* No worker sleeps in front of a queued task unless enough others were    *)
(* woken for the queue.                                                    *)
NoIdleBehindQueue == parked # {} => Cardinality(Queue) <= Cardinality(Woken)

(* drain() resolves when every promise handed out is settled.              *)
DrainedMeansSettled ==
  drain = "resolved" => \A t \in Tasks : task[t] \notin {"queued", "running"}

(* Why: the slots die together, when drain() is over, and not before.      *)
DrainKills ==
  /\ draining <=> drain # "none"
  /\ IF drain \in {"resolved", "rejected"} THEN Pool = InState("dead") ELSE InState("dead") = {}

(* The slots, and so the tasks served, stay within maxSize.                 *)
SizeBounded == Cardinality(Pool) <= MaxSize

(* The inductive invariant of OrchestrationProofs.                         *)
PoolInv == PoolTypeOK /\ OneSlotPerTask /\ DrainedMeansSettled /\ DrainKills

(* The pool serves every task, also when executors hang, unless a drain    *)
(* timed out.                                                              *)
EveryTaskSettles ==
  \A t \in Tasks : task[t] = "queued" ~> task[t] \in {"ok", "failed"} \/ drain = "rejected"

(* The slots serve every task at most once, and at most MaxSize at a time, *)
(* through growth, shrinking, timeouts and drain.                          *)
phase == [t \in Tasks |->
  CASE task[t] = "new"     -> "new"
    [] task[t] = "queued"  -> "pending"
    [] task[t] = "running" -> "serving"
    [] task[t] \in {"ok", "failed"} -> "gone"]

Bounded == INSTANCE BoundedPool WITH Jobs <- Tasks, Fewest <- 0, Most <- MaxSize

ServesWithinSize == Bounded!Spec
=============================================================================
