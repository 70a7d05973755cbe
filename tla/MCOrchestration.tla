-------------------------- MODULE MCOrchestration --------------------------
(* Small instances for TLC: a run of a graph, and beside it, never         *)
(* together, the workflows of the workflow engine and a graph that is      *)
(* changed; and, in a run of its own, a pool that grows.                   *)
EXTENDS GraphExecutor, Sequences, TLC

CONSTANTS
  Parts,              \* the systems that may move in a run
  Ids,                \* of the graph that is changed
  Steps, Definitions, Kind, Children, Strategy, Conditional, Undoable, MaxAttempts, MaxIterations
VARIABLES part, nodes, edges,
  steps, timed, expired, flow, at, doing, settled, iteration, running, attempt,
  completed, skipped, registry, rolled, applied

ASSUME GraphIsFinite == IsFiniteSet(Ids)

Dynamic == INSTANCE DynamicGraph
Flow == INSTANCE Workflow WITH phase <- flow, run <- running, outcome <- settled

\* Branches and bodies are plain steps; no id is left undefined.
ASSUME FlowAssumption ==
  /\ \A d \in Definitions : d \in Seq(Steps)
  /\ Undoable \subseteq Steps
  /\ \A s \in Steps :
       /\ Flow!ToSet(Children[s]) \subseteq Steps
       /\ Kind[s] \in {"parallel", "loop"} => \A c \in Flow!ToSet(Children[s]) : Kind[c] = "plain"

(* Tasks of a pool, of which one comes first.                              *)
FirstOfAll == [t \in Tasks |-> IF t = "j1" THEN 5 ELSE 0]

(* A graph: b depends on a, d on a and c: a join, and two nodes nothing    *)
(* depends on.  c reports most.                                            *)
Join == [n \in Tasks |-> CASE n \in {"a", "c"} -> {} [] n = "b" -> {"a"} [] n = "d" -> {"a", "c"}]
Apart == [n \in Tasks |-> {}]
OnePriority == [n \in Tasks |-> 0]
Usage == [n \in Tasks |-> IF n = "c" THEN 2 ELSE 1]

(* Workflows of plain steps, of branches merged in each way, of a loop and *)
(* of conditions.                                                          *)
Kinds ==
  [s \in Steps |-> CASE s \in {"all", "first", "race"} -> "parallel"
                     [] s = "loop" -> "loop"
                     [] s \in {"choice", "maybe"} -> "conditional"
                     [] s = "g" -> "agent"
                     [] OTHER -> "plain"]
Nested ==
  [s \in Steps |-> CASE s \in {"all", "first", "race"} -> <<"b1", "b2">>
                     [] s = "loop" -> <<"w">>
                     [] s = "choice" -> <<"w", "race">>
                     [] s = "maybe" -> <<"v">>
                     [] OTHER -> <<>>]
Merge == [s \in Steps |-> s]
Workflows == {<<"u", "v", "all">>, <<"race", "u", "g">>, <<"first", "u">>,
              <<"u", "loop", "g">>, <<"choice", "u", "maybe">>, <<"maybe", "v", "u">>}
Single == {<<"first", "u">>}

flowVars == <<steps, timed, expired, flow, at, doing, settled, iteration, running,
              attempt, completed, skipped, registry, rolled, applied>>
dynamicVars == <<nodes, edges>>
mcVars == <<part, vars, flowVars, dynamicVars>>

MCInit ==
  /\ part \in Parts
  /\ Init /\ Flow!Init /\ Dynamic!Init
  /\ part # "workflow" => steps = <<"first", "u">> /\ ~timed

MCNext ==
  \/ part = "pool" /\ PoolNext /\ UNCHANGED <<part, graphVars, flowVars, dynamicVars>>
  \/ part = "graph" /\ Next /\ UNCHANGED <<part, flowVars, dynamicVars>>
  \/ part = "workflow" /\ Flow!Next /\ UNCHANGED <<part, vars, dynamicVars>>
  \/ part = "changes" /\ Dynamic!Next /\ UNCHANGED <<part, vars, flowVars>>

MCFairness == (part = "graph" => Fairness) /\ (part = "workflow" => Flow!Fairness)

MCSpec == MCInit /\ [][MCNext]_mcVars /\ MCFairness

\* For a run in which the pool is the only part.
MCPoolSpec == MCInit /\ [][MCNext]_mcVars /\ PoolFairness

(* The stream of a graph run ends, in whatever way the run does            *)
(* (GraphExecutor.StreamReturns).                                          *)
RunReturns == part = "graph" => StreamReturns

(* A graph that is changed stays one that can run (DynamicGraph).          *)
StaysSound == Dynamic!StaysSound

KeepsTheSaga == Flow!KeepsTheSaga
NothingIsForgotten == Flow!NothingIsForgotten
WorkflowEnds == part = "workflow" => Flow!WorkflowEnds
=============================================================================
