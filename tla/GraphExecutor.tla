--------------------------- MODULE GraphExecutor ---------------------------
(***************************************************************************)
(* src/graph/graph-executor.ts, one call of stream(): the tracker of       *)
(* pending dependencies (incremental-ready-tracker.ts) submits the nodes   *)
(* of the graph to a WorkerPool, the continuation of each submit() puts    *)
(* events into an AsyncChannel, and the consumer pulls them and drains the *)
(* pool when it leaves.  The tasks of the pool are the nodes.              *)
(***************************************************************************)
EXTENDS WorkerPool

CONSTANTS
  Deps,               \* the edges: what each node depends on
  Tokens,             \* the usage each node reports, if it reports any
  MaxTokenBudget,
  MayAbandon          \* whether the consumer may leave early

ASSUME GraphAssumption ==
  /\ Deps \in [Tasks -> SUBSET Tasks]
  /\ Tokens \in [Tasks -> Nat]
  /\ MaxTokenBudget \in Nat
  /\ MayAbandon \in BOOLEAN

VARIABLES
  consumer,           \* the generator: not started, pulling, in its finally
                      \* block, returned
  terminated,         \* how the run ended; the channel is closed with it
  results,            \* nodeResults
  handled,            \* nodes whose submit() promise was followed up
  pendingDeps,
  used                \* totalInput + totalOutput

graphVars == <<consumer, terminated, results, handled, pendingDeps, used>>
vars == <<poolVars, graphVars>>

Init ==
  /\ PoolInit
  /\ consumer = "start"
  /\ terminated = "no"
  /\ results = {} /\ handled = {}
  /\ pendingDeps = [n \in Tasks |-> Cardinality(Deps[n])]
  /\ used = 0

-----------------------------------------------------------------------------
Roots == {n \in Tasks : pendingDeps[n] = 0}

(* The first next(): seedInitialReady(), and the deadlock check behind it. *)
Start ==
  /\ consumer = "start"
  /\ consumer' = "pulling"
  /\ Submit(Roots)
  /\ terminated' = IF Roots = {} /\ Tasks # {} THEN "error" ELSE terminated
  /\ UNCHANGED <<results, handled, pendingDeps, used>>

Successors(n) == {m \in Tasks : n \in Deps[m]}

(* Variants: ready with the first dependency; the count is read before it  *)
(* is decremented.                                                         *)
ReadyEarly(n) == {m \in Successors(n) : pendingDeps[m] = Cardinality(Deps[m])}
ReadyLate(n) == {m \in Successors(n) : pendingDeps[m] = 0}

(* markCompleted(): the successors for which n was the last dependency.    *)
Ready(n) == {m \in Successors(n) : pendingDeps[m] = 1}

Finished(done) == done = Tasks

(* The .then() of a submit().  Its order: the budget, the successors, the  *)
(* completion.  Submitting to a pool the consumer is already draining      *)
(* throws, which is an error of this node (what the counts are then is     *)
(* never read again).                                                      *)
Complete(n) ==
  /\ task[n] = "ok" /\ n \notin handled
  /\ handled' = handled \cup {n}
  /\ UNCHANGED consumer
  /\ \/ /\ terminated # "no"
        /\ UNCHANGED <<poolVars, terminated, results, pendingDeps, used>>
     \/ /\ terminated = "no"
        /\ results' = results \cup {n}
        /\ \E usage \in {0, Tokens[n]} : used' = used + usage
        /\ \/ /\ used' > MaxTokenBudget
              /\ terminated' = "error"
              /\ UNCHANGED <<poolVars, pendingDeps>>
           \/ /\ used' <= MaxTokenBudget
              /\ pendingDeps' =
                   [m \in Tasks |-> pendingDeps[m] - IF m \in Successors(n) THEN 1 ELSE 0]
              /\ IF Ready(n) # {} /\ draining
                   THEN terminated' = "error" /\ UNCHANGED poolVars
                   ELSE /\ IF Ready(n) = {} THEN UNCHANGED poolVars ELSE Submit(Ready(n))
                        /\ terminated' = IF Finished(results') THEN "complete" ELSE "no"

(* The .catch(): the first failure of a node ends the run.                 *)
Fail(n) ==
  /\ task[n] = "failed" /\ n \notin handled
  /\ handled' = handled \cup {n}
  /\ terminated' = IF terminated = "no" THEN "error" ELSE terminated
  /\ UNCHANGED <<poolVars, consumer, results, pendingDeps, used>>

Followed == \A n \in Tasks : task[n] \in {"ok", "failed"} => n \in handled

(* The timer of the run.                                                   *)
Timeout ==
  /\ consumer = "pulling" /\ terminated = "no"
  /\ Woken = {} /\ Followed
  /\ terminated' = "error"
  /\ UNCHANGED <<poolVars, consumer, results, handled, pendingDeps, used>>

(* The consumer pulls the last event, or breaks out of its loop: the       *)
(* finally block clears the timer and drains the pool.                     *)
Finally ==
  /\ consumer = "pulling"
  /\ terminated # "no" \/ MayAbandon
  /\ consumer' = "draining"
  /\ Drain
  /\ UNCHANGED <<terminated, results, handled, pendingDeps, used>>

(* A consumer that leaves at graph:start, which is yielded before the try, *)
(* leaves the pool running.                                                *)
LeaveAtStart ==
  /\ MayAbandon
  /\ consumer = "start"
  /\ consumer' = "returned"
  /\ UNCHANGED <<poolVars, terminated, results, handled, pendingDeps, used>>

(* Variant: a drain that times out is not caught.                          *)
ReturnIfResolved ==
  /\ consumer = "draining"
  /\ drain = "resolved"
  /\ consumer' = "returned"
  /\ UNCHANGED <<poolVars, terminated, results, handled, pendingDeps, used>>

Return ==
  /\ consumer = "draining"
  /\ drain \in {"resolved", "rejected"}
  /\ consumer' = "returned"
  /\ UNCHANGED <<poolVars, terminated, results, handled, pendingDeps, used>>

Next ==
  \/ Start \/ Timeout \/ Finally \/ LeaveAtStart \/ Return
  \/ \E n \in Tasks : Complete(n) \/ Fail(n)
  \/ PoolStep /\ UNCHANGED graphVars

Spec == Init /\ [][Next]_vars

(* The consumer keeps pulling, and timers and continuations run; no agent  *)
(* need ever answer.                                                       *)
Fairness ==
  /\ PoolFairness /\ WF_vars(DrainTimeout /\ UNCHANGED graphVars)
  /\ WF_vars(Start) /\ WF_vars(Timeout) /\ WF_vars(Finally) /\ WF_vars(Return)
  /\ \A n \in Tasks : WF_vars(Complete(n)) /\ WF_vars(Fail(n))

FairSpec == Spec /\ Fairness

-----------------------------------------------------------------------------
TypeOK ==
  /\ PoolTypeOK
  /\ consumer \in {"start", "pulling", "draining", "returned"}
  /\ terminated \in {"no", "complete", "error"}
  /\ results \subseteq handled /\ handled \subseteq Tasks
  /\ pendingDeps \in [Tasks -> Nat]
  /\ used \in Nat

(* A node is submitted only when every node it depends on has a result,    *)
(* whatever the order in which workers, timeouts and continuations run.    *)
DependenciesFirst == \A n \in Tasks : task[n] # "new" => Deps[n] \subseteq results

(* A run that has not ended always has a node in the pool, or a settled    *)
(* promise to follow up: it never waits for its timer alone.  So the check *)
(* for a deadlock at the start is enough for an acyclic graph.             *)
NeverStalls ==
  consumer = "pulling" /\ terminated = "no" =>
    \/ \E n \in Tasks : task[n] \in {"queued", "running"}
    \/ ~Followed

(* No run of nodes that each wait for another one of the run.               *)
Acyclic == \A S \in SUBSET Tasks : S # {} => \E n \in S : Deps[n] \cap S = {}

(* What makes both of them hold: while the run lives, the tracker counts   *)
(* the dependencies without a result, every node without any is submitted, *)
(* and a result is what was followed up.                                   *)
CountsPending ==
  terminated = "no" => \A n \in Tasks : pendingDeps[n] = Cardinality(Deps[n] \ results)

ReadyIsSubmitted ==
  consumer = "pulling" /\ terminated = "no" =>
    \A n \in Tasks : Deps[n] \subseteq results => task[n] # "new"

ResultsAreHandled ==
  terminated = "no" => handled = results /\ (Tasks # {} => results # Tasks)

NothingBeforeStart ==
  consumer = "start" => terminated = "no" /\ \A n \in Tasks : task[n] = "new"

(* The inductive invariant of OrchestrationProofs for the nodes of a graph. *)
RunInv ==
  /\ PoolInv /\ TypeOK
  /\ DependenciesFirst
  /\ CountsPending /\ ReadyIsSubmitted /\ ResultsAreHandled /\ NothingBeforeStart

(* stream() returns, also when agents hang.                                *)
StreamReturns == <>(consumer = "returned")

=============================================================================
