----------------------------- MODULE PlanSchema -----------------------------
(***************************************************************************)
(* src/domain/plan.schema.ts: what a plan is, when it is valid, which      *)
(* status may follow which, and how far a plan has got; and its conversion *)
(* to a graph in src/tools/planning/plan-to-graph.ts.                      *)
(*                                                                         *)
(* A plan is a sequence of phases, a phase has a sequence of steps, a step *)
(* the ids of its sub-steps at all levels (subs).  Texts, contracts,       *)
(* resources and times are left out.                                       *)
(***************************************************************************)
EXTENDS Naturals, Sequences, SequencesExt, FiniteSets

-----------------------------------------------------------------------------
(* The AgentGraphBuilder of src/graph/agent-graph.ts, as operators on the  *)
(* graph it has so far.  A call that throws leaves "thrown" set, and what  *)
(* the caller does with the rest is void.                                  *)

(* nodes in the order they were added (the Map of the code); deps[n] is    *)
(* edgeMap.get(n); forks are the nodes that stand for several agents.      *)
EmptyGraph == [nodes |-> <<>>, edges |-> <<>>, forks |-> {}, thrown |-> FALSE]

Throw(g) == [g EXCEPT !.thrown = TRUE]

(* edgeMap.get(n) ?? []                                                    *)
DepsOf(g, n) ==
  LET into == SelectSeq(g.edges, LAMBDA e : e[2] = n)
  IN [i \in DOMAIN into |-> into[i][1]]

AddNode(g, id) ==
  IF id \in ToSet(g.nodes) THEN Throw(g) ELSE [g EXCEPT !.nodes = Append(@, id)]

AddEdge(g, from, to) == [g EXCEPT !.edges = Append(@, <<from, to>>)]

AddFork(g, id, count) ==
  IF count < 2 \/ id \in ToSet(g.nodes) THEN Throw(g)
  ELSE [g EXCEPT !.nodes = Append(@, id), !.forks = @ \cup {id}]

-----------------------------------------------------------------------------
(* The depth-first search of validateNoCycles(), which detectCycles() of   *)
(* plan.schema.ts repeats: "stack" holds the nodes being visited.          *)
NothingVisited == [stack |-> {}, visited |-> {}, cycle |-> FALSE]

RECURSIVE Visit(_, _, _)
Visit(id, sources, search) ==
  IF id \in search.stack THEN [search EXCEPT !.cycle = TRUE]
  ELSE IF id \in search.visited THEN search
  ELSE LET below == FoldLeft(LAMBDA s, dep : Visit(dep, sources, s),
                             [search EXCEPT !.stack = @ \cup {id}],
                             IF id \in DOMAIN sources THEN sources[id] ELSE <<>>)
       IN [below EXCEPT !.stack = @ \ {id}, !.visited = @ \cup {id}]

FindsCycle(ids, sources) ==
  FoldLeft(LAMBDA s, id : Visit(id, sources, s), NothingVisited, ids).cycle

ValidEdges(g) == \A e \in ToSet(g.edges) : {e[1], e[2]} \subseteq ToSet(g.nodes)

(* build() returns; otherwise it, or a call before it, throws.             *)
Builds(g) == /\ ~g.thrown
             /\ ValidEdges(g)
             /\ ~FindsCycle(g.nodes, [n \in ToSet(g.nodes) |-> DepsOf(g, n)])

-----------------------------------------------------------------------------
(* STEP_STATUS_TRANSITIONS                                                 *)
MayFollow ==
  [idle |-> {"pending", "skipped", "cancelled"},
   pending |-> {"running", "blocked", "skipped", "cancelled"},
   running |-> {"completed", "failed", "cancelled"},
   completed |-> {},
   failed |-> {"pending"},
   skipped |-> {},
   blocked |-> {"pending", "cancelled"},
   cancelled |-> {}]

(* createStep() with its defaults; "configured" tells whether the          *)
(* condition or the loopConfig its mode calls for is there.                *)
Step(id, mode, deps, subs) ==
  [id |-> id, mode |-> mode, deps |-> deps, subs |-> subs,
   status |-> "idle", configured |-> FALSE, result |-> FALSE]

Phase(id, mode, order, deps, steps) ==
  [id |-> id, mode |-> mode, order |-> order, deps |-> deps, steps |-> steps]

Plan(status, version, phases) == [status |-> status, version |-> version, phases |-> phases]

StepsOf(plan) == FlattenSeq([i \in DOMAIN plan.phases |-> plan.phases[i].steps])
PhaseIds(plan) == [i \in DOMAIN plan.phases |-> plan.phases[i].id]

(* collectSubStepIds(), for all the steps.                                 *)
AllIds(plan) ==
  LET steps == StepsOf(plan)
  IN FlattenSeq([i \in DOMAIN steps |-> <<steps[i].id>> \o steps[i].subs])

(* detectCycles() on the dependencies of the phases, as a record by id     *)
(* holds them: of two phases with one id the last.                         *)
PhaseDeps(plan) ==
  [id \in ToSet(PhaseIds(plan)) |-> Last(SelectSeq(plan.phases, LAMBDA p : p.id = id)).deps]

PhasesInCycle(plan) == FindsCycle(PhaseIds(plan), PhaseDeps(plan))

-----------------------------------------------------------------------------
(* createExamplePlan(): its phases, with the modes, the dependencies and   *)
(* the sub-steps of their steps.                                           *)
DesignPhase ==
  Phase("design", "sequential", 0, <<>>,
    <<Step("db-schema-design", "sequential", <<>>, <<>>),
      Step("api-design", "sequential", <<"db-schema-design">>, <<>>)>>)

ImplementationPhase ==
  Phase("implementation", "parallel", 1, <<"design">>,
    <<Step("impl-db-layer", "sequential", <<"db-schema-design">>,
           <<"impl-db-connection", "impl-db-models", "impl-db-migrations">>),
      Step("impl-auth-service", "sequential", <<"api-design">>, <<>>),
      Step("impl-middleware", "sequential", <<"api-design">>, <<>>)>>)

TestingPhase ==
  Phase("testing", "parallel", 2, <<"implementation">>,
    <<Step("test-unit", "sequential", <<"impl-auth-service", "impl-middleware">>, <<>>),
      Step("test-integration", "sequential", <<"impl-db-layer", "impl-auth-service">>, <<>>)>>)

ValidationPhase ==
  Phase("validation", "sequential", 3, <<"testing">>,
    <<[Step("validate-coverage", "conditional", <<"test-unit", "test-integration">>, <<>>)
         EXCEPT !.configured = TRUE],
      [Step("fix-coverage", "loop", <<>>, <<>>) EXCEPT !.configured = TRUE]>>)

ExamplePlan ==
  Plan("draft", 1, <<DesignPhase, ImplementationPhase, TestingPhase, ValidationPhase>>)

-----------------------------------------------------------------------------
(* validatePlan(): cycles between steps are not looked for.                *)
ValidPhase(plan, p) ==
  ToSet(p.deps) \subseteq ToSet(PhaseIds(plan)) \ {p.id}

ValidStep(plan, s) ==
  /\ ToSet(s.deps) \subseteq ToSet(AllIds(plan)) \ {s.id}
  /\ s.mode \in {"conditional", "loop"} => s.configured

ValidPlan(plan) ==
  /\ IsInjective(PhaseIds(plan))
  /\ IsInjective(AllIds(plan))
  /\ \A p \in ToSet(plan.phases) : ValidPhase(plan, p)
  /\ \A s \in ToSet(StepsOf(plan)) : ValidStep(plan, s)
  /\ ~PhasesInCycle(plan)

-----------------------------------------------------------------------------
(* derivePhaseStatus()                                                     *)
Some(steps, status) == \E s \in ToSet(steps) : s.status = status

PhaseStatus(steps) ==
  IF \A s \in ToSet(steps) : s.status = "completed" THEN "completed"
  ELSE IF Some(steps, "failed") THEN "failed"
  ELSE IF Some(steps, "running") THEN "running"
  ELSE IF Some(steps, "pending") THEN "pending"
  ELSE IF Some(steps, "blocked") THEN "blocked"
  ELSE "idle"

Count(steps, status) == Len(SelectSeq(steps, LAMBDA s : s.status = status))

(* calculateProgress(): the counts, and the derived statuses.              *)
Progress(plan) ==
  [total     |-> Len(StepsOf(plan)),
   completed |-> Count(StepsOf(plan), "completed"),
   failed    |-> Count(StepsOf(plan), "failed"),
   phases    |-> [i \in DOMAIN plan.phases |-> PhaseStatus(plan.phases[i].steps)]]

-----------------------------------------------------------------------------
(* planToGraph(): a parallel phase of two steps or more becomes one fork   *)
(* node with the id of the phase, every other step becomes a node.         *)
Forked(p) == p.mode = "parallel" /\ Len(p.steps) >= 2

(* sort() by order is stable.                                              *)
Sorted(plan) ==
  LET Before(i, j) ==
        LET a == plan.phases[i].order  b == plan.phases[j].order
        IN a < b \/ (a = b /\ i < j)
      rank(i) == Cardinality({j \in DOMAIN plan.phases : Before(j, i)}) + 1
  IN [r \in DOMAIN plan.phases |-> plan.phases[CHOOSE i \in DOMAIN plan.phases : rank(i) = r]]

(* The edges from the last nodes of the phases p depends on; a phase that  *)
(* comes later, or has no steps, has none yet.                             *)
LinkPhases(g, last, p, to) ==
  FoldLeft(LAMBDA h, dep : AddEdge(h, last[dep], to),
           g, SelectSeq(p.deps, LAMBDA dep : dep \in DOMAIN last))

AddStep(g, last, p, i) ==
  LET s == p.steps[i]
      node == AddNode(g, s.id)
      own == FoldLeft(LAMBDA h, dep : AddEdge(h, dep, s.id), node, s.deps)
  IN IF i = 1 THEN LinkPhases(own, last, p, s.id) ELSE own

LinkPrevious(g, p, i) ==
  IF p.steps[i - 1].id \in ToSet(p.steps[i].deps) THEN g
  ELSE AddEdge(g, p.steps[i - 1].id, p.steps[i].id)

Numbers(from, to) == [i \in 1..(to - from + 1) |-> from + i - 1]

(* Variant: a phase ends with its first step.                              *)
HeadStep(p) == p.steps[1].id

EndStep(p) == Last(p.steps).id

(* registerPhase(); "last" is lastStepByPhase.                             *)
RegisterPhase(acc, p) ==
  LET forked == LinkPhases(AddFork(acc.graph, p.id, Len(p.steps)), acc.last, p, p.id)
      nodes == FoldLeft(LAMBDA g, i : AddStep(g, acc.last, p, i), acc.graph,
                        Numbers(1, Len(p.steps)))
      serial == FoldLeft(LAMBDA g, i : LinkPrevious(g, p, i), nodes, Numbers(2, Len(p.steps)))
      end(id) == [x \in DOMAIN acc.last \cup {p.id} |-> IF x = p.id THEN id ELSE acc.last[x]]
  IN IF Forked(p) THEN [graph |-> forked, last |-> end(p.id)]
     ELSE [graph |-> serial,
           last |-> IF p.steps = <<>> THEN acc.last ELSE end(EndStep(p))]

PlanToGraph(plan) ==
  FoldLeft(RegisterPhase, [graph |-> EmptyGraph, last |-> [x \in {} |-> x]], Sorted(plan)).graph

-----------------------------------------------------------------------------
(* todosToplan(): the todos become the steps of one sequential phase.      *)
StatusOfTodo ==
  [pending |-> "pending", in_progress |-> "running", done |-> "completed", blocked |-> "blocked"]

TodosToPlan(todos) ==
  Plan("draft", 1, <<Phase("migrated-phase", "sequential", 0, <<>>,
    [i \in DOMAIN todos |->
      [Step(todos[i].id, "sequential", todos[i].deps, <<>>)
         EXCEPT !.status = StatusOfTodo[todos[i].status]]])>>)
=============================================================================
