------------------------- MODULE SubagentScheduler -------------------------
(***************************************************************************)
(* src/tools/subagent/subagent-scheduler.ts driving the registry: the      *)
(* queue of handles, the worker slots, the calls of agent.generate() in    *)
(* flight and one circuit breaker per task type (handle.instructions).     *)
(*                                                                         *)
(* One action is one turn of the event loop: a tool call, a timer, the     *)
(* settling of a generate() promise, or the .finally() callback that runs  *)
(* in a later turn and gives the worker slot back.  Any other turn may     *)
(* come between those two.                                                 *)
(***************************************************************************)
EXTENDS SubagentRegistry

CONSTANTS
  Types, TypeOf,              \* handle.instructions of each task
  MinWorkers, MaxWorkers,
  ScaleUp, ScaleDown,         \* scale thresholds, in tenths (0.8 is 8)
  FailureThreshold            \* failures in the window that open a breaker

ASSUME SchedulerAssumption ==
  /\ TypeOf \in [Tasks -> Types]
  /\ MinWorkers \in Nat \ {0}
  /\ MaxWorkers \in Nat /\ MaxWorkers >= MinWorkers
  /\ ScaleUp \in 0..10 /\ ScaleDown \in 0..7
  /\ FailureThreshold \in Nat \ {0}

VARIABLES
  queue,          \* handles in the heap
  exec,           \* executeHandle(): not running, in generate(), or returned
                  \* with its .finally() callback still to run
  activeWorkers,
  poolSize,       \* currentPoolSize
  breaker,        \* state of each type's circuit
  failures,       \* failures of each type inside the monitor window
  cooled          \* types whose last failure is more than resetTimeout ago

schedulerVars == <<queue, exec, activeWorkers, poolSize, breaker, failures, cooled>>
vars == <<registryVars, schedulerVars>>

ExecStates == {"idle", "generating", "returned"}

Busy == {t \in Tasks : exec[t] # "idle"}

Least(a, b) == IF a <= b THEN a ELSE b
Greatest(a, b) == IF a >= b THEN a ELSE b

Init ==
  /\ RegistryInit
  /\ queue = {}
  /\ exec = [t \in Tasks |-> "idle"]
  /\ activeWorkers = 0
  /\ poolSize = MinWorkers
  /\ breaker = [y \in Types |-> "closed"]
  /\ failures = [y \in Types |-> 0]
  /\ cooled = {}

-----------------------------------------------------------------------------
(* isCircuitOpen(): an open circuit refuses until the reset timeout has    *)
(* passed; the first handle it then sees makes it half-open, and a         *)
(* half-open circuit lets every handle through.                            *)
Refuses(y) == breaker[y] = "open" /\ y \notin cooled

(* drain(): dequeue while there is a free worker.  Handles aborted while   *)
(* queued are dropped, those of a refusing circuit are to fail, the others *)
(* start.  st, hs, q, ex, busy and size are the tables as the caller leaves*)
(* them.  The heap's order decides which handles are taken; here any order *)
(* may.                                                                    *)
DrainTakes(q, busy, size, taken, started) ==
  /\ started # {} => busy + Cardinality(started) <= size
  /\ busy >= size => taken = {}
  /\ taken # q => busy + Cardinality(started) >= size

Drain(st, hs, q, ex, busy, size) ==
  \E taken \in SUBSET q :
    LET dropped == taken \cap aborted
        refused == {t \in taken \ aborted : Refuses(TypeOf[t])}
        started == taken \ (dropped \cup refused)
        probing == {TypeOf[t] : t \in started}
    IN /\ DrainTakes(q, busy, size, taken, started)
       /\ status' = Transition(
                      Transition(
                        Transition(st, hs, dropped, "cancelled"),
                        hs, refused, "failed"),
                      hs, started, "running")
       /\ CompletionEffects(status', started)
       /\ queue' = q \ taken
       /\ exec' = [t \in Tasks |-> IF t \in started THEN "generating" ELSE ex[t]]
       /\ activeWorkers' = busy + Cardinality(started)
       /\ poolSize' = size
       /\ breaker' = [y \in Types |-> IF y \in probing /\ breaker[y] = "open"
                                      THEN "half-open" ELSE breaker[y]]

HasRoom(p) ==
  /\ Cardinality(ActiveChildren(p)) < MaxConcurrentPerParent
  /\ Cardinality(QueuedIn(status, handles)) < MaxQueueSize

(* dispatch(): the three limits, a new queued handle, and enqueue().       *)
Dispatch(t) ==
  /\ status[t] = "none"
  /\ ParentOf[t] \in Tasks => status[ParentOf[t]] # "none"
  /\ DepthOf[t] < MaxDepth
  /\ HasRoom(ParentOf[t])
  /\ handles' = handles \cup {t}
  /\ Drain([status EXCEPT ![t] = "queued"], handles', queue \cup {t}, exec,
           activeWorkers, poolSize)
  /\ UNCHANGED <<aborted, failures, cooled>>

(* The 100 ms interval timer set by start().                               *)
DrainTick ==
  /\ Drain(status, handles, queue, exec, activeWorkers, poolSize)
  /\ UNCHANGED <<handles, aborted, failures, cooled>>

(* recordSuccess() and recordFailure().  Old failures leave the window as  *)
(* time passes: any number of them may have.                               *)
RecordSuccess(y) ==
  /\ breaker' = IF breaker[y] = "half-open"
                THEN [breaker EXCEPT ![y] = "closed"] ELSE breaker
  /\ failures' = IF breaker[y] = "half-open"
                 THEN [failures EXCEPT ![y] = 0] ELSE failures
  /\ UNCHANGED cooled

RecordFailure(y) ==
  /\ cooled' = cooled \ {y}
  /\ \E inWindow \in 0..failures[y] :
       LET n == Least(inWindow + 1, FailureThreshold) IN
       /\ failures' = [failures EXCEPT ![y] = n]
       /\ breaker' = IF n >= FailureThreshold
                     THEN [breaker EXCEPT ![y] = "open"] ELSE breaker

(* generate() of a handle settles.  A result is recorded whatever became   *)
(* of the handle meanwhile; an error after an abort is swallowed.          *)
GenerateReturns(t) ==
  /\ exec[t] = "generating"
  /\ exec' = [exec EXCEPT ![t] = "returned"]
  /\ status' = Transition(status, handles, {t}, "completed")
  /\ CompletionEffects(status', {})
  /\ RecordSuccess(TypeOf[t])
  /\ UNCHANGED <<handles, aborted, queue, activeWorkers, poolSize>>

(* Variant: the early return of an aborted call skips the .finally().      *)
ThrowsAbortedLeaksSlot(t) ==
  /\ exec[t] = "generating"
  /\ t \in aborted
  /\ exec' = [exec EXCEPT ![t] = "idle"]
  /\ UNCHANGED <<registryVars, queue, activeWorkers, poolSize, breaker, failures, cooled>>

GenerateThrowsAborted(t) ==
  /\ exec[t] = "generating"
  /\ t \in aborted
  /\ exec' = [exec EXCEPT ![t] = "returned"]
  /\ UNCHANGED <<registryVars, queue, activeWorkers, poolSize, breaker, failures, cooled>>

GenerateFails(t) ==
  /\ exec[t] = "generating"
  /\ t \notin aborted
  /\ exec' = [exec EXCEPT ![t] = "returned"]
  /\ status' = Transition(status, handles, {t}, "failed")
  /\ CompletionEffects(status', {})
  /\ RecordFailure(TypeOf[t])
  /\ UNCHANGED <<handles, aborted, queue, activeWorkers, poolSize>>

(* maybeResize() with n workers busy: nothing during the cooldown.         *)
Resized(n) ==
  IF 10 * n > ScaleUp * poolSize
  THEN Least((3 * poolSize + 1) \div 2, MaxWorkers)
  ELSE IF 10 * n < ScaleDown * poolSize
       THEN Greatest((3 * poolSize) \div 4, MinWorkers)
       ELSE poolSize

(* Variant: the queue is left to the interval timer.                       *)
WorkerFreedQuietly(t) ==
  /\ exec[t] = "returned"
  /\ exec' = [exec EXCEPT ![t] = "idle"]
  /\ activeWorkers' = activeWorkers - 1
  /\ UNCHANGED <<registryVars, queue, poolSize, breaker, failures, cooled>>

(* The .finally() callback: free the slot, resize, drain.                  *)
WorkerFreed(t) ==
  /\ exec[t] = "returned"
  /\ \E size \in {poolSize, Resized(activeWorkers - 1)} :
       Drain(status, handles, queue, [exec EXCEPT ![t] = "idle"],
             activeWorkers - 1, size)
  /\ UNCHANGED <<handles, aborted, failures, cooled>>

(* The reset timeout of an open circuit passes.                            *)
CoolDown(y) ==
  /\ breaker[y] = "open" /\ y \notin cooled
  /\ cooled' = cooled \cup {y}
  /\ UNCHANGED <<registryVars, queue, exec, activeWorkers, poolSize, breaker, failures>>

-----------------------------------------------------------------------------
RegistryCall ==
  /\ \/ \E t \in Tasks : Cancel(t) \/ Timeout(t)
     \/ \E p \in {ParentOf[t] : t \in Tasks} : CancelAll(p)
     \/ \E w \in Waiters : WaitTimeout(w) \/ \E t \in Tasks : WaitForCompletion(w, t)
     \/ \E expired, stuck \in SUBSET handles : Gc(expired, stuck)
     \/ Shutdown
  /\ UNCHANGED schedulerVars

SchedulerStep ==
  \/ DrainTick
  \/ \E t \in Tasks : \/ Dispatch(t)
                      \/ GenerateReturns(t)
                      \/ GenerateThrowsAborted(t)
                      \/ GenerateFails(t)
                      \/ WorkerFreed(t)
  \/ \E y \in Types : CoolDown(y)

Next == RegistryCall \/ SchedulerStep

(* The runtime promises that timers fire, that callbacks run and that a    *)
(* generate() whose signal is aborted settles; not that a generate() left  *)
(* alone ever does, nor that anyone calls dispatch(), cancel() or gc().    *)
Fairness ==
  /\ \A t \in Tasks : /\ WF_vars(Timeout(t) /\ UNCHANGED schedulerVars)
                      /\ WF_vars(GenerateThrowsAborted(t))
                      /\ WF_vars(WorkerFreed(t))
  /\ \A y \in Types : WF_vars(CoolDown(y))

Spec == Init /\ [][Next]_vars

FairSpec == Spec /\ Fairness
-----------------------------------------------------------------------------
(* Properties.                                                             *)

(* Every variable stays in its type.                                       *)
TypeOK ==
  /\ status \in [Tasks -> Statuses]
  /\ handles \subseteq Tasks
  /\ aborted \subseteq Tasks
  /\ timer \subseteq Tasks
  /\ awaiting \in [Waiters -> Tasks \cup {NoTask}]
  /\ queue \subseteq Tasks
  /\ exec \in [Tasks -> ExecStates]
  /\ activeWorkers \in Nat
  /\ poolSize \in MinWorkers..MaxWorkers
  /\ breaker \in [Types -> {"closed", "open", "half-open"}]
  /\ failures \in [Types -> 0..FailureThreshold]
  /\ cooled \subseteq Types

(* activeWorkers counts the executeHandle() calls that have not given      *)
(* their slot back, and a shrinking pool never strands more of them than   *)
(* it has slots: the ++ of drain() and the -- of .finally() balance on     *)
(* every path, cancelled, timed-out and garbage-collected handles included.*)
SlotAccounting ==
  /\ activeWorkers = Cardinality(Busy)
  /\ activeWorkers <= poolSize

(* A handle waits in the queue only while every worker slot is taken: the  *)
(* drains of enqueue() and of .finally() leave nothing for the timer.      *)
WorkConserving == queue # {} => activeWorkers = poolSize

(* What drain() is about to start is a registered handle nobody started,   *)
(* settled or collected: abort() is called on every path that takes a      *)
(* handle out of "queued" behind the scheduler's back.                     *)
QueuedIsStartable ==
  \A t \in queue \ aborted :
    status[t] = "queued" /\ t \in handles /\ exec[t] = "idle"

(* A handle is running exactly while its timeout timer is armed, and its   *)
(* generate() is then in flight with a signal nobody aborted: no running   *)
(* handle is left behind, and no timer outlives its handle's settlement.   *)
RunningIsGuarded ==
  /\ timer = {t \in Tasks : status[t] = "running"}
  /\ \A t \in timer : t \in handles \ aborted /\ exec[t] = "generating"

(* Nobody waits for a handle that has settled or left the registry: the    *)
(* check for a terminal state and the registration of the listener see     *)
(* the same state, and every way to settle calls the listeners.            *)
NoLostWakeup == \A w \in Waiters : awaiting[w] # NoTask => awaiting[w] \in Live

(* A settled handle never changes again: not by the late result of its     *)
(* generate(), its timer, a second cancel() or the drop from the queue.    *)
ResultIsFinal ==
  [][\A t \in Tasks : IsTerminal(status[t]) => status'[t] = status[t]]_vars

(* The call that cancels a handle, directly, in cascade, from the watchdog *)
(* or at shutdown, leaves none of its children alive.                      *)
CancelCascades ==
  [][\A t, c \in Tasks : t \in Live /\ status'[t] = "cancelled" /\ ParentOf[c] = t
                          => c \notin Live']_vars

Stranded(t) == t \in handles /\ status[t] = "queued" /\ t \notin queue

(* Every queued handle settles, or is one that drain() took and refused:   *)
(* even if no generate() ever returns by itself, timers abort the running  *)
(* ones, the aborted calls give the slots back, and the queue moves on.    *)
HandleSettles ==
  \A t \in Tasks : t \in queue ~> (IsTerminal(status[t]) \/ Stranded(t))

(* drain() fails the handles of an open circuit ("Circuit breaker open for *)
(* this task type"), so every registered handle that is still queued is in *)
(* the scheduler's queue.  VALID_TRANSITIONS has no queued -> failed, so   *)
(* transition() does nothing and the code violates it.                     *)
RefusedHandleFails == \A t \in Tasks : ~Stranded(t)

(* With fewer than six workers a pool whose scale-up threshold is 0.8      *)
(* never grows: maybeResize() only runs just after a slot was given back.  *)
PoolStaysMinimal == poolSize = MinWorkers

(* The pool implements BoundedPool.                                        *)
PhaseOf(t) == IF t \in queue THEN "pending"
              ELSE IF exec[t] # "idle" THEN "serving"
              ELSE IF status[t] = "none" THEN "new"
              ELSE "gone"

Pool == INSTANCE BoundedPool WITH
          Jobs <- Tasks, Fewest <- MinWorkers, Most <- MaxWorkers,
          phase <- [t \in Tasks |-> PhaseOf(t)]

ServedAtMostOnce == Pool!Spec
=============================================================================
