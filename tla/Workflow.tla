----------------------------- MODULE Workflow ------------------------------
(***************************************************************************)
(* src/adapters/workflow/default-workflow.engine.ts: one execute() of the  *)
(* DefaultWorkflowEngine.  The loop over the steps, the branches of a      *)
(* parallel step and the timers interleave; the branches a parallel step   *)
(* no longer waits for go on beside the later steps and the rollback.  The *)
(* engine that plugins/workflow.plugin.ts has of its own behaves like this *)
(* one on a definition of plain steps without a deadline.                  *)
(*                                                                         *)
(* A context is left out: what a step writes is told from "applied", the   *)
(* steps whose effect stands.                                              *)
(***************************************************************************)
EXTENDS Naturals, Sequences, SequencesExt

CONSTANTS
  Steps,              \* the ids of all steps, nested ones included
  Definitions,        \* the workflows: sequences of ids
  Kind,               \* plain, agent, parallel, conditional or loop
  Children,           \* the branches; ifTrue and ifFalse; the body
  Strategy,           \* the mergeStrategy of a parallel step
  Conditional,        \* plain steps with a condition
  Undoable,           \* steps with a rollback
  MaxAttempts,
  MaxIterations

VARIABLES
  steps,              \* the definition
  timed,              \* whether it has a maxDurationMs
  expired,            \* whether the deadline has passed
  phase,              \* where execute() is
  at,                 \* the step it is at
  doing,              \* the step it runs: the one a conditional step chose
  outcome,            \* how the promise it waits for settled
  iteration,          \* of the loop it is in
  run,                \* executeWithRetry() of each step with an execute()
  attempt,
  completed,          \* completedSteps
  skipped,            \* skippedSteps
  registry,           \* executedRegistry: when each key was set
  rolled,             \* the steps whose rollback() was called
  applied

vars == <<steps, timed, expired, phase, at, doing, outcome, iteration, run,
          attempt, completed, skipped, registry, rolled, applied>>
control == <<steps, timed, at, completed, skipped, registry>>
calls == <<run, attempt, applied>>

Leaf(s) == Kind[s] \in {"plain", "agent"}

(* validate(): ids are unique, and every step has the parts it needs.  The *)
(* nested steps are not looked at.                                         *)
Valid(d) ==
  /\ Len(d) > 0
  /\ IsInjective(d)
  /\ \A s \in ToSet(d) : Kind[s] \in {"parallel", "conditional", "loop"} => Children[s] # <<>>

Init ==
  /\ steps \in {d \in Definitions : Valid(d)}
  /\ timed \in BOOLEAN
  /\ expired = FALSE
  /\ phase = "between" /\ at = 1
  /\ doing = "none" /\ outcome = "none" /\ iteration = 0
  /\ run = [s \in Steps |-> "idle"]
  /\ attempt = [s \in Steps |-> 0]
  /\ completed = <<>> /\ skipped = {} /\ registry = <<>>
  /\ rolled = {} /\ applied = {}

-----------------------------------------------------------------------------
(* Map.set(): a key that is there keeps its place.                         *)
Put(new) ==
  [k \in DOMAIN registry \cup DOMAIN new |-> IF k \in DOMAIN registry THEN registry[k] ELSE new[k]]

(* Variant: a branch is registered like a plain step, after it has run.    *)
NotRegistered(s) == registry

(* The branches of a parallel step and the body of a loop are registered   *)
(* before they run,                                                        *)
RegisteredBefore(s) ==
  Put([c \in ToSet(Children[s]) \cap Undoable |-> <<at, CHOOSE i \in DOMAIN Children[s] : Children[s][i] = c>>])

(* the others once they have completed.                                    *)
RegisteredAfter(s) == Put([c \in {s} \cap Undoable |-> <<at, 0>>])

Earlier(p, q) == p[1] < q[1] \/ (p[1] = q[1] /\ p[2] < q[2])

(* Variant of the order below: not reversed.                               *)
InOrder(s, t) ==
  IF s \in ToSet(completed)
    THEN \E i, j \in DOMAIN completed : i < j /\ completed[i] = t /\ completed[j] = s
    ELSE t \in ToSet(completed) \/ Earlier(registry[t], registry[s])

(* rollbackSteps() lists the completed steps and then the rest of the      *)
(* registry, and goes through the list in reverse: the nested steps are    *)
(* rolled back before every step of the definition.                        *)
Listed(s, t) ==
  IF t \in ToSet(completed)
    THEN \E i, j \in DOMAIN completed : i < j /\ completed[i] = s /\ completed[j] = t
    ELSE s \in ToSet(completed) \/ Earlier(registry[s], registry[t])

BeginRollback ==
  /\ phase' = "rolling"
  /\ doing' = "none" /\ outcome' = "none" /\ iteration' = 0

(* A step completes, unless its id is among those that were skipped.       *)
Push(ids) == completed' = IF steps[at] \in ids THEN completed ELSE Append(completed, steps[at])

(* The end of one turn of the for loop of execute().                       *)
NextStep ==
  /\ at' = at + 1
  /\ phase' = "between"
  /\ doing' = "none" /\ outcome' = "none" /\ iteration' = 0

(* One turn of the loop finds the deadline passed.                         *)
DeadlineExceeded ==
  /\ phase = "between" /\ at <= Len(steps)
  /\ expired
  /\ BeginRollback
  /\ UNCHANGED <<control, expired, calls, rolled>>

(* What the step it is at may run: a conditional step runs the one it      *)
(* chooses.                                                                *)
Reached ==
  IF Kind[steps[at]] = "conditional" THEN ToSet(Children[steps[at]]) ELSE {steps[at]}

ChoosesNone(s) == Kind[s] = "conditional" /\ Len(Children[s]) = 1

(* The steps whose execute() a step waits for.                             *)
Below(s) == IF Leaf(s) THEN {s} ELSE ToSet(Children[s])
Awaited == IF phase = "executing" THEN Below(doing) ELSE {}

(* executeWithRetry() of those begins.                                     *)
Launch(d) ==
  /\ run' = [s \in Steps |-> IF s \in Below(d) THEN "executing" ELSE run[s]]
  /\ attempt' = [s \in Steps |-> IF s \in Below(d) THEN 1 ELSE attempt[s]]
  /\ doing' = d
  /\ phase' = "executing"
  /\ UNCHANGED applied

Enter == phase = "between" /\ at <= Len(steps) /\ ~expired

StartLeaf ==
  /\ Enter
  /\ \E s \in Reached : Leaf(s) /\ Launch(s)
  /\ UNCHANGED <<control, expired, outcome, iteration, rolled>>

StartParallel ==
  /\ Enter
  /\ \E s \in Reached :
       /\ Kind[s] = "parallel"
       /\ registry' = RegisteredBefore(s)
       /\ Launch(s)
  /\ UNCHANGED <<steps, timed, at, completed, skipped, expired, outcome, iteration, rolled>>

StartLoop ==
  /\ Enter
  /\ \E s \in Reached :
       /\ Kind[s] = "loop"
       /\ registry' = RegisteredBefore(s)
       /\ Launch(s)
  /\ iteration' = 1
  /\ UNCHANGED <<steps, timed, at, completed, skipped, expired, outcome, rolled>>

(* The condition of a loop is false at once, or a conditional step without *)
(* ifFalse has nothing to run.                                             *)
NothingToRun ==
  /\ Enter
  /\ \/ \E s \in Reached :
          Kind[s] = "loop" /\ registry' = RegisteredBefore(s)
     \/ ChoosesNone(steps[at]) /\ registry' = registry
  /\ Push(skipped)
  /\ NextStep
  /\ UNCHANGED <<steps, timed, skipped, expired, calls, rolled>>

(* The condition of a plain step is false.  Below a conditional step it is *)
(* the nested id that is skipped, and the conditional step completes.      *)
Skip ==
  /\ Enter
  /\ \E s \in Reached \cap Conditional : skipped' = skipped \cup {s}
  /\ Push(skipped')
  /\ NextStep
  /\ UNCHANGED <<steps, timed, registry, expired, calls, rolled>>

(* A condition or a prompt throws, or there is no executor for an agent    *)
(* step: the step fails before any attempt.                                *)
Throw ==
  /\ Enter
  /\ \E s \in Reached \cup {steps[at]} :
       /\ Kind[s] \in {"agent", "conditional", "loop"} \/ s \in Conditional
       /\ run' = [run EXCEPT ![s] = "failed"]
       /\ registry' = IF Kind[s] = "loop" THEN RegisteredBefore(s) ELSE registry
  /\ BeginRollback
  /\ UNCHANGED <<steps, timed, at, completed, skipped, expired, attempt, applied, rolled>>

Finish ==
  /\ phase = "between" /\ at > Len(steps)
  /\ phase' = "completed"
  /\ UNCHANGED <<control, expired, doing, outcome, iteration, calls, rolled>>

-----------------------------------------------------------------------------
(* The strategy of the parallel step that waits; a single step is awaited  *)
(* as it is.                                                               *)
Waits(strategy) == strategy = IF Kind[doing] = "parallel" THEN Strategy[doing] ELSE "race"

Others(s, how) == \A t \in Awaited \ {s} : run[t] = how

(* Variant: Promise.any() that waits for a branch to succeed.              *)
WaitsForSuccess(s, how) ==
  \/ Waits("race")
  \/ Waits("all") /\ (how = "failed" \/ Others(s, "ok"))
  \/ Waits("first") /\ how = "ok"

(* Promise.race, all or any settle with s.                                 *)
Decides(s, how) ==
  \/ Waits("race")
  \/ Waits("all") /\ (how = "failed" \/ Others(s, "ok"))
  \/ Waits("first") /\ (how = "ok" \/ Others(s, "failed"))

Outcome(s, how) ==
  IF outcome = "none" /\ s \in Awaited /\ Decides(s, how) THEN how ELSE outcome

Succeed(s) ==
  /\ run[s] = "executing"
  /\ run' = [run EXCEPT ![s] = "ok"]
  /\ applied' = applied \cup {s}
  /\ outcome' = Outcome(s, "ok")
  /\ UNCHANGED <<control, expired, phase, doing, iteration, attempt, rolled>>

FailAttempt(s) ==
  /\ run[s] = "executing"
  /\ IF attempt[s] < MaxAttempts
       THEN run' = [run EXCEPT ![s] = "backoff"] /\ UNCHANGED outcome
       ELSE run' = [run EXCEPT ![s] = "failed"] /\ outcome' = Outcome(s, "failed")
  /\ UNCHANGED <<control, expired, phase, doing, iteration, attempt, applied, rolled>>

(* The backoff timer.                                                      *)
Retry(s) ==
  /\ run[s] = "backoff"
  /\ run' = [run EXCEPT ![s] = "executing"]
  /\ attempt' = [attempt EXCEPT ![s] = @ + 1]
  /\ UNCHANGED <<control, expired, phase, doing, outcome, iteration, applied, rolled>>

(* The deadline passes,                                                    *)
Expire ==
  /\ timed /\ ~expired
  /\ phase \in {"between", "executing"}
  /\ expired' = TRUE
  /\ UNCHANGED <<control, phase, doing, outcome, iteration, calls, rolled>>

InParallel == phase = "executing" /\ Kind[doing] = "parallel"

(* which only the timers around the branches of a parallel step notice     *)
(* while a step runs.                                                      *)
BranchTimer ==
  /\ expired
  /\ InParallel /\ outcome = "none"
  /\ outcome' = "failed"
  /\ UNCHANGED <<control, expired, phase, doing, iteration, calls, rolled>>

-----------------------------------------------------------------------------
InLoop == phase = "executing" /\ Kind[doing] = "loop"

(* The body of a loop has run, and the condition holds again.              *)
LoopAgain ==
  /\ InLoop /\ outcome = "ok" /\ iteration < MaxIterations
  /\ ~expired
  /\ Launch(doing)
  /\ outcome' = "none"
  /\ iteration' = iteration + 1
  /\ UNCHANGED <<control, expired, rolled>>

(* The condition throws, or it holds and the deadline has passed.          *)
LoopThrows ==
  /\ InLoop /\ outcome = "ok" /\ iteration < MaxIterations
  /\ run' = [run EXCEPT ![doing] = "failed"]
  /\ BeginRollback
  /\ UNCHANGED <<control, expired, attempt, applied, rolled>>

(* The step has completed; a plain step or an agent step is registered.    *)
Complete ==
  /\ phase = "executing" /\ outcome = "ok"
  /\ registry' = IF Leaf(doing) THEN RegisteredAfter(doing) ELSE registry
  /\ Push(skipped)
  /\ NextStep
  /\ UNCHANGED <<steps, timed, skipped, expired, calls, rolled>>

Fail ==
  /\ phase = "executing" /\ outcome = "failed"
  /\ BeginRollback
  /\ UNCHANGED <<control, expired, calls, rolled>>

(* One rollback(); when it rejects, the error is swallowed.                *)
Waiting == DOMAIN registry \ rolled

Rollback ==
  /\ phase = "rolling"
  /\ \E s \in Waiting :
       /\ \A t \in Waiting \ {s} : Listed(t, s)
       /\ rolled' = rolled \cup {s}
       /\ \E undone \in {{}, {s}} : applied' = applied \ undone
  /\ UNCHANGED <<control, expired, phase, doing, outcome, iteration, run, attempt>>

ReportFailure ==
  /\ phase = "rolling" /\ Waiting = {}
  /\ phase' = "failed"
  /\ UNCHANGED <<control, expired, doing, outcome, iteration, calls, rolled>>

Engine ==
  \/ DeadlineExceeded \/ StartLeaf \/ StartParallel \/ StartLoop \/ NothingToRun
  \/ Skip \/ Throw \/ Finish \/ LoopAgain \/ LoopThrows \/ Complete
  \/ Fail \/ Rollback \/ ReportFailure

Settle(s) == Succeed(s) \/ FailAttempt(s)

Next == Engine \/ Expire \/ BranchTimer \/ \E s \in Steps : Settle(s) \/ Retry(s)

Spec == Init /\ [][Next]_vars

(* Continuations and timers run.  The functions of the steps return, but   *)
(* those of branches need not when the workflow has a deadline.            *)
Fairness ==
  /\ WF_vars(Engine) /\ WF_vars(Expire) /\ WF_vars(BranchTimer)
  /\ \A s \in Steps :
       /\ WF_vars(Retry(s))
       /\ WF_vars(Settle(s) /\ s \in Awaited /\ ~(timed /\ InParallel))

FairSpec == Spec /\ Fairness

-----------------------------------------------------------------------------
Ended == phase \in {"completed", "failed"}

(* The steps of the definition itself keep the promise of a saga.          *)
Standing == {i \in DOMAIN steps : steps[i] \in (ToSet(completed) \cap DOMAIN registry) \ rolled}

SagaState ==
  IF phase \in {"between", "executing"} THEN "forward"
  ELSE IF phase = "rolling" THEN "backward" ELSE phase

Promise == INSTANCE Saga WITH done <- Standing, state <- SagaState

(* The steps of the definition that can be undone are done in turn; when   *)
(* the workflow fails they are all undone, each once, the last one first,  *)
(* before it is reported.                                                  *)
KeepsTheSaga == Promise!Spec

(* A workflow that reports failure has asked every step that took effect   *)
(* and has a rollback to undo it: only what a branch does after its        *)
(* rollback is left.                                                       *)
NothingIsForgotten ==
  phase = "failed" => applied \cap Undoable \subseteq rolled

(* Every workflow ends, although attempts fail and loops go on; with a     *)
(* deadline also when branches never return.                               *)
WorkflowEnds == <>Ended
=============================================================================
