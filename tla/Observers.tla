------------------------------ MODULE Observers -----------------------------
(***************************************************************************)
(* The plugins that watch an agent's runs, and what they write down:       *)
(*   - src/plugins/observability.plugin.ts: a span for every run and for   *)
(*     every call of a tool, at most maxSpans of them, and the metrics;    *)
(*   - src/plugins/evals.plugin.ts: one evaluation for every finished run; *)
(*   - src/plugins/guardrails.plugin.ts: refuses prompts, answers and      *)
(*     arguments by throwing from its hooks;                               *)
(*   - src/adapters/cost-tracker: what the tokens of the runs cost.        *)
(* src/plugins/plugin-manager.ts calls their hooks one after the other and *)
(* awaits each, so hooks of different runs and calls interleave between    *)
(* plugins.  Runs of one session may overlap: everything is filed under    *)
(* the session.                                                            *)
(*                                                                         *)
(* Tools that were given to the builder or belong to plugins are the same  *)
(* objects in every run, and src/agent/tool-manager.ts puts its hooks      *)
(* around their execute() once more in each: the call of such a tool makes *)
(* another call of it, of what was wrapped, until the tool itself runs.    *)
(***************************************************************************)
EXTENDS Integers, Sequences, FiniteSets

CONSTANTS
  Runs, Calls,      \* runs of agents; calls of tools, also those that calls make
  Sessions, Tools,
  Users,            \* the sessions whose agents share a tool; none if each run has its own
  MaxSpans,         \* the option maxSpans
  Budget,           \* the tracker's budget
  Usages            \* tokens a provider may report

VARIABLES
  order,       \* the plugins of the agent
  session, tool, runOf,
  origin,      \* the call of the model that a call is, or is made by
  under,       \* the session a call is filed under: of the run that wrapped the tool
  wraps,       \* the sessions of the runs that wrapped a tool, the innermost first
  layer,       \* the wrapping a call passes
  at,          \* where each run and each call is
  pos,         \* the plugin whose hook comes next
  spans,       \* the Map of spans, by id: ids are given out in order
  roots,       \* rootSpans, the ids of them
  active,      \* activeSpans: per session, the ids of the root span, if any
  stack,       \* toolSpanStack: per session and tool, ids; the top is the greatest
  ids,         \* ids given out
  metrics,     \* per session, the toolCalls of its metrics
  states,      \* runStates: per session, the state, if any
  taken,       \* the state afterRun has taken out, until its scores are in
  results,     \* the evaluations
  cost,        \* total, and whether onBudgetExceeded has been called
  shared       \* ghost: runs and calls that others were filed beside

inputs == <<order, session, tool, runOf, origin, under>>
walkVars == <<inputs, wraps, layer, at, pos, shared>>
spanVars == <<spans, roots, active, stack, ids>>
evalVars == <<states, taken, results>>
vars == <<walkVars, spanVars, metrics, evalVars, cost>>

Plugins == {"observability", "evals", "guardrails"}

(* Some of the plugins, as they were registered: register() takes none     *)
(* twice.                                                                  *)
Orders ==
  {q \in UNION {[1..n -> Plugins] : n \in 1..Cardinality(Plugins)} :
     \A i, j \in DOMAIN q : q[i] = q[j] => i = j}

Actors == Runs \cup Calls
Walks == {"beforeRun", "afterRun", "beforeTool", "afterTool", "runError", "toolError"}
Quiet == {"idle", "done", "failed"}
Nobody == {}

Init ==
  /\ order \in Orders
  /\ session \in [Runs -> Sessions] /\ tool \in [Calls -> Tools] /\ runOf \in [Calls -> Runs]
  /\ origin \in [Calls -> Calls] /\ under \in [Calls -> Sessions]
  /\ \A c \in Calls : LET o == origin[c]
                      IN  origin[o] = o /\ tool[o] = tool[c] /\ runOf[o] = runOf[c]
  /\ wraps = [t \in Tools |-> <<>>] /\ layer = [c \in Calls |-> 0]
  /\ at = [x \in Actors |-> "idle"] /\ pos = [x \in Actors |-> 0]
  /\ spans = <<>> /\ roots = {} /\ ids = 0
  /\ active = [s \in Sessions |-> {}]
  /\ stack = [s \in Sessions |-> [t \in Tools |-> {}]]
  /\ metrics = [s \in Sessions |-> <<>>]
  /\ states = [s \in Sessions |-> {}]
  /\ taken = [r \in Runs |-> {}]
  /\ results = <<>>
  /\ cost = [total |-> 0, told |-> FALSE]
  /\ shared = {}

-----------------------------------------------------------------------------
(* ObservabilityPlugin.  A span remembers the run's prompt or the call's   *)
(* arguments: whose it is.                                                 *)
(* createSpan(): the oldest span makes room, also among the roots.         *)
CreateSpan(owner, trace, parent) ==
  LET oldest == {i \in DOMAIN spans : \A j \in DOMAIN spans : i <= j}
      gone == IF Cardinality(DOMAIN spans) >= MaxSpans THEN oldest ELSE {}
      span == [trace |-> trace, parent |-> parent, of |-> owner,
               ended |-> FALSE, status |-> "ok", result |-> Nobody]
  IN  /\ spans' = [i \in (DOMAIN spans \ gone) \cup {ids} |-> IF i = ids THEN span ELSE spans[i]]
      /\ roots' = (roots \ gone) \cup IF parent = {} THEN {ids} ELSE {}
      /\ ids' = ids + 1

(* endSpan(), with the attributes set after it.                            *)
Ended(id, status, result) ==
  [i \in DOMAIN spans |->
     IF i = id THEN [spans[i] EXCEPT !.ended = TRUE, !.status = status, !.result = result]
               ELSE spans[i]]

(* onRequest(): what the session had is overwritten.                       *)
OnRequest(r) ==
  /\ CreateSpan(r, ids, {})
  /\ active' = [active EXCEPT ![session[r]] = {ids}]
  /\ metrics' = [metrics EXCEPT ![session[r]] = <<>>]
  /\ UNCHANGED stack

OnResponse(r) ==
  /\ \/ active[session[r]] = {} /\ UNCHANGED spans
     \/ \E root \in active[session[r]] : spans' = Ended(root, "ok", {r})
  /\ active' = [active EXCEPT ![session[r]] = {}]
  /\ UNCHANGED <<roots, stack, ids, metrics>>

(* onToolStart(): without a root span the call is a root of its own.       *)
OnToolStart(c) ==
  LET root == active[under[c]]
  IN  /\ CreateSpan(c, IF root = {} THEN ids ELSE CHOOSE id \in root : TRUE, root)
      /\ stack' = [stack EXCEPT ![under[c]][tool[c]] = @ \cup {ids}]
      /\ UNCHANGED <<active, metrics>>

(* Variant: the span that has been waiting longest.                        *)
WaitedLongest(entries) == CHOOSE i \in entries : \A j \in entries : i <= j

(* The span a returning call of a tool is taken to belong to: the last one *)
(* pushed.                                                                 *)
LastStarted(entries) == CHOOSE i \in entries : \A j \in entries : j <= i

OnToolEnd(c) ==
  LET s == under[c]
      entries == stack[s][tool[c]]
  IN  /\ IF entries = {}
           THEN UNCHANGED <<spans, stack>>
           ELSE /\ spans' = Ended(LastStarted(entries), "ok", {c})
                /\ stack' = [stack EXCEPT ![s][tool[c]] = @ \ {LastStarted(entries)}]
      /\ metrics' = [metrics EXCEPT ![s] = Append(@, tool[c])]
      /\ UNCHANGED <<roots, active, ids>>

(* onError(): the first of the unfinished spans of the trace that started  *)
(* in the last millisecond any did: it may be any of them.                 *)
OnError(s) ==
  /\ LET open == {i \in DOMAIN spans : ~spans[i].ended /\ active[s] = {spans[i].trace}}
     IN  \/ open = {} /\ UNCHANGED spans
         \/ \E i \in open : spans' = Ended(i, "error", Nobody)
  /\ UNCHANGED <<roots, active, stack, ids, metrics>>

-----------------------------------------------------------------------------
(* EvalsPlugin.                                                            *)
NoCounts == [t \in Tools |-> 0]

Opened(s, r) == {[prompt |-> r, counts |-> NoCounts]}

EvalBeforeRun(r) ==
  /\ states' = [states EXCEPT ![session[r]] = Opened(session[r], r)]
  /\ UNCHANGED <<taken, results>>

(* afterRun(): the state is taken out before the scorers are awaited.      *)
EvalAfterRun(r) ==
  /\ taken' = [taken EXCEPT ![r] = states[session[r]]]
  /\ states' = [states EXCEPT ![session[r]] = {}]
  /\ UNCHANGED results

EvalAfterTool(c) ==
  /\ states' = [states EXCEPT ![under[c]] = {[x EXCEPT !.counts[tool[c]] = @ + 1] : x \in @}]
  /\ UNCHANGED <<taken, results>>

EvalOnError(s, phase) ==
  /\ states' = IF phase = "runError" THEN [states EXCEPT ![s] = {}] ELSE states
  /\ UNCHANGED <<taken, results>>

-----------------------------------------------------------------------------
(* DefaultCostTrackerAdapter: recordUsage() clamps what providers report.  *)

Clamped(n) == IF n > 0 THEN n ELSE 0

RecordUsage(n) ==
  LET total == cost.total + Clamped(n)
  IN  cost' = [total |-> total, told |-> cost.told \/ total > Budget]

ResetCost ==
  /\ cost.total > 0
  /\ cost' = [total |-> 0, told |-> FALSE]
  /\ UNCHANGED <<walkVars, spanVars, metrics, evalVars>>

-----------------------------------------------------------------------------
Active(x) == at[x] \notin Quiet

(* What y does is filed where x is: runs of one session, calls of a tool   *)
(* in one, and beside a run the calls of other runs under its session.     *)
Disturbs(y, x) ==
  \/ x \in Runs /\ y \in Runs \ {x} /\ session[y] = session[x]
  \/ x \in Runs /\ y \in Calls /\ under[y] = session[x] /\ runOf[y] # x
  \/ x \in Calls /\ y \in Calls /\ under[y] = under[x] /\ tool[y] = tool[x] /\ origin[y] # origin[x]

Meets(x) == {y \in Actors : Active(y) /\ Disturbs(y, x)}
Met(x) == {y \in Actors : Active(y) /\ Disturbs(x, y)} \cup IF Meets(x) = {} THEN {} ELSE {x}

Goes(x, place, i) ==
  /\ at' = [at EXCEPT ![x] = place]
  /\ pos' = [pos EXCEPT ![x] = i]

Starts(x, place) ==
  /\ at[x] = "idle"
  /\ Goes(x, place, 1)
  /\ shared' = shared \cup Met(x)
  /\ UNCHANGED <<inputs, spanVars, metrics, evalVars, cost>>

(* run(): the tools are prepared, those that are shared wrapped again; the *)
(* hooks before the run come next.                                         *)
RunStarts(r) ==
  /\ Starts(r, "beforeRun")
  /\ wraps' = [t \in Tools |-> IF session[r] \in Users[t] THEN Append(wraps[t], session[r]) ELSE wraps[t]]
  /\ UNCHANGED layer

WrapsOf(c) == IF Users[tool[c]] = {} THEN <<session[runOf[c]]>> ELSE wraps[tool[c]]

(* The calls that call c made, one inside the other.                       *)
MadeBy(c) == {d \in Calls : origin[d] = origin[c] /\ at[d] # "idle" /\ layer[d] < layer[c]}

(* The hooks of the n-th wrapping are next.                                *)
Enters(c, n) ==
  /\ n \in DOMAIN WrapsOf(c) /\ WrapsOf(c)[n] = under[c]
  /\ Starts(c, "beforeTool")
  /\ layer' = [layer EXCEPT ![c] = n]
  /\ UNCHANGED wraps

(* The model calls a tool, in the last of its wrappings; or past the hooks *)
(* of one, and what else it puts around, what it wraps is called.          *)
CallStarts(c) ==
  \/ /\ origin[c] = c /\ at[runOf[c]] = "model"
     /\ Users[tool[c]] # {} => session[runOf[c]] \in Users[tool[c]]
     /\ Enters(c, Len(WrapsOf(c)))
  \/ \E o \in Calls :
       /\ origin[c] # c /\ origin[o] = origin[c] /\ at[o] = "body" /\ MadeBy(o) = {}
       /\ Enters(c, layer[o] - 1)

(* Where a walk along the plugins leads: onError never leads elsewhere.    *)
AfterWalk(place) ==
  CASE place = "beforeRun" -> "model"
    [] place = "beforeTool" -> "body"
    [] place \in {"afterRun", "afterTool"} -> "done"
    [] place \in {"runError", "toolError"} -> "failed"

(* A throwing hook: of a run it ends in onError; before a tool it is       *)
(* outside the try that would lead there.                                  *)
Thrown(place) ==
  CASE place \in {"beforeRun", "afterRun"} -> "runError"
    [] place = "beforeTool" -> "failed"
    [] place = "afterTool" -> "toolError"

Onwards(x) ==
  IF pos[x] = Len(order) THEN Goes(x, AfterWalk(at[x]), 0) ELSE Goes(x, at[x], pos[x] + 1)

Hook(x) ==
  /\ at[x] \in Walks
  /\ UNCHANGED <<inputs, wraps, layer, cost, shared>>
  /\ LET place == at[x]
         s == IF x \in Runs THEN session[x] ELSE under[x]
     IN  \/ /\ order[pos[x]] = "observability"
            /\ CASE place = "beforeRun" -> OnRequest(x)
                 [] place = "afterRun" -> OnResponse(x)
                 [] place = "beforeTool" -> OnToolStart(x)
                 [] place = "afterTool" -> OnToolEnd(x)
                 [] place \in {"runError", "toolError"} -> OnError(s)
            /\ Onwards(x)
            /\ UNCHANGED evalVars
         \/ /\ order[pos[x]] = "evals"
            /\ CASE place = "beforeRun" -> EvalBeforeRun(x)
                 [] place = "afterRun" -> EvalAfterRun(x)
                 [] place = "beforeTool" -> UNCHANGED evalVars
                 [] place = "afterTool" -> EvalAfterTool(x)
                 [] place \in {"runError", "toolError"} -> EvalOnError(s, place)
            /\ IF place = "afterRun" THEN Goes(x, "scores", pos[x]) ELSE Onwards(x)
            /\ UNCHANGED <<spanVars, metrics>>
         \/ /\ order[pos[x]] = "guardrails"
            /\ Onwards(x)
            /\ UNCHANGED <<spanVars, metrics, evalVars>>

(* fail() of the guardrails: what was asked or answered is refused.        *)
Refuses(x) ==
  /\ at[x] \in {"beforeRun", "afterRun", "beforeTool"}
  /\ order[pos[x]] = "guardrails"
  /\ Goes(x, Thrown(at[x]), IF x \in Runs THEN 1 ELSE 0)
  /\ UNCHANGED <<inputs, wraps, layer, shared, spanVars, metrics, evalVars, cost>>

(* The scorers have settled (one that throws scores -1): the result is     *)
(* kept; storing it or onEval may then throw.                              *)
Scored(r) ==
  /\ at[r] = "scores"
  /\ results' = Append(results,
                  [output |-> r,
                   prompt |-> {x.prompt : x \in taken[r]},
                   counts |-> IF taken[r] = {} THEN NoCounts ELSE (CHOOSE x \in taken[r] : TRUE).counts])
  /\ taken' = [taken EXCEPT ![r] = {}]
  /\ \/ Goes(r, "runError", 1)
     \/ IF pos[r] = Len(order) THEN Goes(r, "done", 0) ELSE Goes(r, "afterRun", pos[r] + 1)
  /\ UNCHANGED <<inputs, wraps, layer, shared, spanVars, metrics, states, cost>>

(* generate(): it settles when the calls it made have.                     *)
ModelAnswers(r) ==
  /\ at[r] = "model"
  /\ \A c \in Calls : runOf[c] = r => ~Active(c)
  /\ \/ Goes(r, "afterRun", 1) /\ \E n \in Usages : RecordUsage(n)
     \/ Goes(r, "runError", 1) /\ UNCHANGED cost
  /\ UNCHANGED <<inputs, wraps, layer, shared, spanVars, metrics, evalVars>>

(* What is behind the hooks has settled: the call that was made, as it is; *)
(* or the tool itself, an approval, the breaker or the cache.              *)
BodySettles(c) ==
  /\ at[c] = "body"
  /\ \A d \in MadeBy(c) : ~Active(d)
  /\ \E place \in {"afterTool", "toolError"} :
       /\ MadeBy(c) # {} => (place = "toolError" <=> \E d \in MadeBy(c) : at[d] = "failed")
       /\ Goes(c, place, 1)
  /\ UNCHANGED <<inputs, wraps, layer, shared, spanVars, metrics, evalVars, cost>>

(* reset() of the observability plugin, at any time.                       *)
ResetSpans ==
  /\ spans # <<>>
  /\ spans' = <<>> /\ roots' = {}
  /\ active' = [s \in Sessions |-> {}]
  /\ stack' = [s \in Sessions |-> [t \in Tools |-> {}]]
  /\ metrics' = [s \in Sessions |-> <<>>]
  /\ UNCHANGED <<walkVars, ids, evalVars, cost>>

Next ==
  \/ \E r \in Runs : RunStarts(r) \/ ModelAnswers(r) \/ Scored(r)
  \/ \E c \in Calls : CallStarts(c) \/ BodySettles(c)
  \/ \E x \in Actors : Hook(x) \/ Refuses(x)
  \/ ResetSpans \/ ResetCost

Spec == Init /\ [][Next]_vars

-----------------------------------------------------------------------------
(* A run that had its session to itself is evaluated as what it was: its   *)
(* own prompt beside its own answer, with the calls that succeeded         *)
(* counted, those that failed, or of a run that failed before, not.  A     *)
(* call counts in every wrapping it returned through: once more for every  *)
(* run before that wrapped the tool, unless an approval, the breaker or    *)
(* the cache kept it from the inner ones.                                  *)
EvalsPairUp ==
  \A i \in DOMAIN results :
    LET r == results[i].output
    IN  r \notin shared =>
          /\ results[i].prompt = {r}
          /\ \A t \in Tools : results[i].counts[t] =
               Cardinality({c \in Calls : /\ runOf[c] = r /\ under[c] = session[r]
                                         /\ tool[c] = t /\ at[c] = "done"})

(* As long as its span is kept, a call that succeeded and met no other of  *)
(* its tool, but those it made or was made by, is shown as such, with its  *)
(* own result: whatever other calls failed, were refused or were reset     *)
(* beside it.  A span left open by a call that failed is never taken for   *)
(* that of a later one, that of a call never for one inside it.            *)
SpansTell ==
  \A i \in DOMAIN spans :
    LET c == spans[i].of
    IN  /\ c \in Calls /\ at[c] = "done" /\ c \notin shared =>
             spans[i].ended /\ spans[i].status = "ok" /\ spans[i].result = {c}
        /\ c \in Calls /\ c \notin shared => spans[i].result \subseteq {c}

(* The traces shown are the kept spans without a parent.                   *)
RootsAreKept ==
  /\ Cardinality(DOMAIN spans) <= MaxSpans
  /\ roots = {i \in DOMAIN spans : spans[i].parent = {}}

(* Over budget is told once, and stays told until the tracker is reset.    *)
BudgetIsTold == cost.told <=> cost.total > Budget

(* What the plugins that watch a run write down happened: evaluations,     *)
(* spans, their roots and the cost (EvalsPlugin, ObservabilityPlugin,      *)
(* DefaultCostTracker).                                                    *)
RecordsAreTrue == EvalsPairUp /\ SpansTell /\ RootsAreKept /\ BudgetIsTold
=============================================================================
