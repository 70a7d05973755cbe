----------------------------- MODULE MCPlanning -----------------------------
(* Small instances for TLC: the planning tools, and beside them, never     *)
(* together, tools composed from tools.                                    *)
EXTENDS PlanTools, TLC

CONSTANTS s1, s2, s3, s4, p, q, r, t1, t2
VARIABLES part,
  fallbacks, pipes, middlewares

(* Fallbacks that share tools, a pipe, one through it, and one of a single *)
(* tool; middlewares whose hooks return, throw and recover.                *)
Composing == INSTANCE ToolComposition WITH
  Tools <- {<<p>>, <<q>>, <<r>>}, MaxCalls <- 4,
  Fallbacks <- {[primary |-> <<p>>, fallback |-> <<q>>], [primary |-> <<q>>, fallback |-> <<r>>],
                [primary |-> <<p, q>>, fallback |-> <<r>>]},
  Pipes <- {<<<<p>>, <<q>>>>, <<<<p, q>>, <<r>>>>, <<<<q>>>>},
  Middlewares <- {[before |-> "returns", after |-> "returns", onError |-> "none"],
                  [before |-> "none", after |-> "throws", onError |-> "returns"],
                  [before |-> "returns", after |-> "none", onError |-> "passes"],
                  [before |-> "throws", after |-> "none", onError |-> "throws"]}

compVars == <<fallbacks, pipes, middlewares>>
mcVars == <<vars, part, compVars>>

MCInit ==
  /\ part \in {"plan", "todos", "composition"}
  /\ Init /\ Composing!Init
  /\ part \notin {"plan", "todos"} => atomic

(* The example plan is edited by one call at a time; on LocalFilesystem    *)
(* calls edit the first version of a plan.                                 *)
OfExample(f) == f.state = "whole" /\ f.text.phases[1].id = "design"

MCNext ==
  \/ /\ part \in {"plan", "todos"} /\ Next /\ UNCHANGED <<part, compVars>>
     /\ \A c \in Calls : call'[c].pc = "idle" \/ call'[c].of = part
     /\ OfExample(file.plan) \/ OfExample(file'.plan) => \E c \in Calls : call'[c] = Idle /\ call[c] = Idle
     /\ atomic \/ part = "todos" \/ \A c \in Calls : call'[c].pc = "read" => call'[c].text.version = 1
     /\ file'[IF part = "plan" THEN "todos" ELSE "plan"] = Missing
  \/ part = "composition" /\ Composing!Next /\ UNCHANGED <<part, vars>>

MCSpec == MCInit /\ [][MCNext]_mcVars

Sym == Permutations(Calls)

(* Composed tools call what they should (ToolComposition); for a part that *)
(* does not look at them nothing is composed.                              *)
ComposedToolsRunRight == part = "composition" => Composing!ComposedToolsRunRight

(* A series and a fork behind it; a fork, and a step behind it.            *)
Series == <<Phase(p, "sequential", 0, <<>>, <<Step(s1, "sequential", <<>>, <<>>),
                                             Step(s2, "sequential", <<s1>>, <<>>)>>),
            Phase(q, "parallel", 1, <<p>>, <<Step(s3, "sequential", <<s2>>, <<s4>>)>>)>>
Forks == <<Phase(p, "parallel", 0, <<>>, <<Step(s1, "sequential", <<>>, <<>>),
                                           Step(s2, "sequential", <<s1>>, <<>>)>>),
           Phase(q, "sequential", 1, <<p>>, <<Step(s3, "sequential", <<>>, <<>>)>>)>>
Choice == <<Phase(p, "sequential", 0, <<>>, <<Step(s1, "conditional", <<>>, <<>>)>>)>>

Asked ==
  {[do |-> "create", phases |-> x] : x \in {Series, Forks, Choice, ExamplePlan.phases}}
  \cup {[do |-> "update_step", step |-> s1, status |-> x] : x \in {"pending", "running", "completed", "failed"}}
  \cup {[do |-> "update_step", step |-> s2, deps |-> <<>>],
        [do |-> "update_step", step |-> s1, deps |-> <<s2>>],
        [do |-> "update_step", step |-> s3, mode |-> "loop"],
        [do |-> "add_step", phase |-> q, new |-> Step(s4, "sequential", <<s3>>, <<>>)],
        [do |-> "add_step", phase |-> r, new |-> Step(s4, "sequential", <<s1>>, <<>>)],
        [do |-> "remove_step", step |-> s1],
        [do |-> "remove_step", step |-> s3],
        [do |-> "update_phase", phase |-> p, mode |-> "sequential"],
        [do |-> "update_phase", phase |-> p, deps |-> <<q>>],
        [do |-> "add_phase", phase |-> r, deps |-> <<q>>],
        [do |-> "add_phase", phase |-> p, deps |-> <<>>, order |-> 0],
        [do |-> "update_plan_status", status |-> "completed"],
        [do |-> "set_result", step |-> s2],
        [do |-> "update_phase", phase |-> "implementation", mode |-> "sequential"],
        [do |-> "update_phase", phase |-> "testing", mode |-> "sequential"],
        [do |-> "write_todos", todos |-> <<[id |-> t1],
                                          [id |-> t2, status |-> "blocked", deps |-> <<t1>>]>>],
        [do |-> "write_todos", todos |-> <<[id |-> t2, status |-> "done"]>>]}
  \cup {[do |-> "review_todos", todo |-> t1, status |-> x] : x \in {"in_progress", "done"}}
=============================================================================
