-------------------------- MODULE ToolComposition ---------------------------
(***************************************************************************)
(* src/adapters/tool-composition/default-tool-composition.adapter.ts: tools *)
(* composed from tools.  Fallbacks, pipes and middlewares are collected in *)
(* any order, build() applies them in that one.  A composed tool is a tree *)
(* of the execute functions it captured; Run evaluates it.                 *)
(***************************************************************************)
EXTENDS Integers, Sequences, SequencesExt

CONSTANTS Tools,        \* the tools given, each named by a sequence of one
          Fallbacks,    \* [primary, fallback] that may be asked for
          Pipes,        \* sequences of names that may be asked for
          Middlewares,  \* [before, after, onError]: what each hook does
          MaxCalls      \* bound: calls that collect

VARIABLES fallbacks, pipes, middlewares
vars == <<fallbacks, pipes, middlewares>>

Init == fallbacks = <<>> /\ pipes = <<>> /\ middlewares = <<>>

WithFallback(f) == fallbacks' = Append(fallbacks, f) /\ UNCHANGED <<pipes, middlewares>>
Pipe(names) == pipes' = Append(pipes, names) /\ UNCHANGED <<fallbacks, middlewares>>
WithMiddleware(m) == middlewares' = Append(middlewares, m) /\ UNCHANGED <<fallbacks, pipes>>

Next ==
  /\ Len(fallbacks) + Len(pipes) + Len(middlewares) < MaxCalls
  /\ \/ \E f \in Fallbacks : WithFallback(f)
     \/ \E names \in Pipes : Pipe(names)
     \/ \E m \in Middlewares : WithMiddleware(m)

-----------------------------------------------------------------------------
(* build(): a function from names to trees, or Nothing when it throws.     *)
Nothing == <<>>
Extended(built, name, tree) == [n \in DOMAIN built \cup {name} |-> IF n = name THEN tree ELSE built[n]]

Plain == [t \in Tools |-> [kind |-> "tool", name |-> t]]

\* What the names mean when the fallback is added.
WrapWithFallback(built, f) ==
  IF built = Nothing \/ ~({f.primary, f.fallback} \subseteq DOMAIN built) THEN Nothing
    ELSE Extended(built, f.primary,
                  [kind |-> "fallback", primary |-> built[f.primary], fallback |-> built[f.fallback]])

\* "a" and "b" make "a_pipe_b"; one name alone makes nothing.
PipeName(names) == FlattenSeq(names)
BuildPipeTool(built, names) ==
  IF built = Nothing \/ Len(names) < 2 THEN built
  ELSE IF ~(ToSet(names) \subseteq DOMAIN built) THEN Nothing
  ELSE Extended(built, PipeName(names), [kind |-> "pipe", steps |-> [i \in DOMAIN names |-> built[names[i]]]])

WrapWithMiddlewares(built) ==
  IF built = Nothing \/ middlewares = <<>> THEN built
    ELSE [n \in DOMAIN built |-> [kind |-> "hooked", name |-> n, inner |-> built[n]]]

\* Variant: pipes take the tools that the middlewares have wrapped.
BuildHookedFirst ==
  FoldLeft(BuildPipeTool,
           WrapWithMiddlewares(FoldLeft(WrapWithFallback, Plain, fallbacks)), pipes)

Build ==
  WrapWithMiddlewares(
    FoldLeft(BuildPipeTool, FoldLeft(WrapWithFallback, Plain, fallbacks), pipes))

-----------------------------------------------------------------------------
(* A call.  What a run returns, or its error, with all that happened in it *)
(* in order; a value is the sequence of what it went through.              *)
Did(what, by, tool) == [what |-> what, by |-> by, tool |-> tool]
Result(ok, value, trace) == [ok |-> ok, value |-> value, trace |-> trace]
Following(r, s) == [s EXCEPT !.trace = r.trace \o @]

\* One hook of a middleware, which has none, returns or throws.
Hook(r, what, i, name) ==
  LET does == middlewares[i][what]
      mark == Did(what, i, name) IN
  IF ~r.ok \/ does = "none" THEN r
    ELSE Result(does # "throws", Append(r.value, mark), Append(r.trace, mark))

Hooks(r, what, name) ==
  FoldLeft(LAMBDA acc, i : Hook(acc, what, i, name), r, [i \in DOMAIN middlewares |-> i])

\* The onError hooks, last middleware first, until one has a value to return
\* or throws itself.
Recovers(i) == middlewares[i].onError \in {"returns", "throws"}
Handlers == SelectSeq([j \in DOMAIN middlewares |-> Len(middlewares) + 1 - j],
                      LAMBDA i : middlewares[i].onError # "none")
Asked == LET last == SelectInSeq(Handlers, Recovers)
         IN IF last = 0 THEN Handlers ELSE SubSeq(Handlers, 1, last)

OnError(r, name) ==
  LET marks == [j \in DOMAIN Asked |-> Did("onError", Asked[j], name)] IN
  Result(\E j \in DOMAIN Asked : middlewares[Asked[j]].onError = "returns",
         IF marks = <<>> THEN r.value ELSE <<marks[Len(marks)]>>,
         r.trace \o marks)

RECURSIVE Run(_, _, _)
Run(tree, args, works) ==
  CASE tree.kind = "tool" ->
         LET mark == Did("run", tree.name, tree.name)
         IN Result(tree.name \in works, Append(args, mark), <<mark>>)
    [] tree.kind = "fallback" ->
         LET first == Run(tree.primary, args, works)
         IN IF first.ok THEN first ELSE Following(first, Run(tree.fallback, args, works))
    [] tree.kind = "pipe" ->
         FoldLeft(LAMBDA r, step : IF r.ok THEN Following(r, Run(step, r.value, works)) ELSE r,
                  Result(TRUE, args, <<>>), tree.steps)
    [] tree.kind = "hooked" ->
         LET before == Hooks(Result(TRUE, args, <<>>), "before", tree.name)
             inner == IF before.ok THEN Following(before, Run(tree.inner, before.value, works)) ELSE before
         IN CASE ~before.ok -> before
              [] before.ok /\ inner.ok -> Hooks(inner, "after", tree.name)
              [] before.ok /\ ~inner.ok -> OnError(inner, tree.name)

-----------------------------------------------------------------------------
(* Whatever is composed in whatever order, for a call of any tool of the   *)
(* result: each hook of a middleware runs at most once, and for that tool, *)
(* also when pipes and fallbacks have other tools run in it; tools run     *)
(* only behind all "before" hooks, an "after" hook only behind a success,  *)
(* an "onError" hook only behind a failure; and a value that is not an     *)
(* error handler's went through all hooks and all stages in order, through *)
(* one tool a stage: the first one that works of those the stage's         *)
(* fallbacks, as they were then, allow.                                    *)
Alternatives ==
  FoldLeft(LAMBDA alt, f : [alt EXCEPT ![f.primary] = @ \o alt[f.fallback]],
           [t \in Tools |-> <<t>>], fallbacks)
Marks(r, what) == SelectSeq(r.trace, LAMBDA d : d.what = what)
Having(what) == SelectSeq([i \in DOMAIN middlewares |-> i], LAMBDA i : middlewares[i][what] # "none")

RunsRight(name, r, works) ==
  LET through(what) == SelectSeq(r.value, LAMBDA d : d.what = what)
      by(list) == [j \in DOMAIN list |-> list[j].by]
      first(n) == LET alt == Alternatives[<<n>>]
                  IN alt[SelectInSeq(alt, LAMBDA t : t \in works)]
  IN /\ \A d \in ToSet(r.trace) : d.what # "run" => d.tool = name
     /\ \A what \in {"before", "after", "onError"} : IsInjective(by(Marks(r, what)))
     /\ Marks(r, "run") # <<>> => by(Marks(r, "before")) = Having("before")
     /\ Marks(r, "after") = <<>> \/ Marks(r, "onError") = <<>>
     /\ Marks(r, "onError") = <<>> /\ r.ok =>
          /\ by(through("before")) = Having("before") /\ by(through("after")) = Having("after")
          /\ by(through("run")) = [j \in DOMAIN name |-> first(name[j])]
     /\ r.ok /\ Marks(r, "onError") # <<>> =>
          \E j \in DOMAIN name : \A t \in ToSet(Alternatives[<<name[j]>>]) : t \notin works

ComposedToolsRunRight ==
  Build # Nothing =>
    \A name \in DOMAIN Build : \A works \in SUBSET Tools :
      RunsRight(name, Run(Build[name], <<>>, works), works)
=============================================================================
