----------------------------- MODULE AgentRuns -----------------------------
(***************************************************************************)
(* Runs of one DeepAgent (src/agent/deep-agent.ts): execution-engine.ts    *)
(* takes a run from its tools over plugins, model calls and hooks to its   *)
(* end, while other runs of the agent do the same and the agent may be     *)
(* disposed of.  They share the plugins (src/plugins/plugin-manager.ts:    *)
(* one initialisation, joined by whoever needs it), the event bus, and the *)
(* rate limiter in front of the model (RateLimiter.tla).                   *)
(*                                                                         *)
(* An action goes from one await to the next.  Every plugin has a setup()  *)
(* that subscribes to the bus first, a dispose(), and hooks.               *)
(***************************************************************************)
EXTENDS Integers, Sequences, FiniteSets, SequencesExt, SequenceTheorems, TLAPS

CONSTANTS
  Runs, Streams,        \* calls of run() and, among them, of stream()
  Closers,              \* calls of dispose()
  NumPlugins,
  MaxSteps,             \* of the configuration: model calls of a run
  MaxTokens, RefillRate,
  MaxResets             \* bound: calls of the limiter's reset()

ASSUME AgentAssumption ==
  /\ Streams \subseteq Runs
  /\ NumPlugins \in Nat \ {0}
  /\ MaxSteps \in Nat \ {0}
  /\ MaxTokens \in Nat \ {0}
  /\ RefillRate \in Nat \ {0}
  /\ MaxResets \in Nat

VARIABLES
  phase, steps,         \* of each run; steps counts its model calls
  initPhase,            \* of initPromise: no attempt, setting up, rolling
                        \* back, fulfilled
  initAt,               \* the plugin whose setup() or dispose() it awaits
  attempt,              \* attempts so far
  live,                 \* plugins set up and not disposed of since
  handlers,             \* a plugin's subscriptions: the attempts of them
  disposed, isShuttingDown,
  closer,               \* where each dispose() is
  walkAt,               \* the plugin dispose() awaits
  calm,                 \* history: no initialisation was under way when
                        \* dispose() began
  tokens, sinceRefill, waitQueue, processingScheduled, timers, resets

runVars == <<phase, steps>>
pluginVars == <<initPhase, initAt, attempt, live, handlers>>
closeVars == <<disposed, isShuttingDown, closer, walkAt, calm>>
limiterVars == <<tokens, sinceRefill, waitQueue, processingScheduled, timers>>
vars == <<runVars, pluginVars, closeVars, limiterVars, resets>>

Limiter == INSTANCE RateLimiter WITH Clients <- Runs

Plugins == 1 .. NumPlugins
Ended == {"returned", "rejected"}
Initialised == {"prologue", "acquire", "model", "epilogue", "returned"}
Phases == {"catalog", "initialising", "onError"} \cup Initialised \cup Ended

Init ==
  /\ phase = [r \in Runs |-> "catalog"]
  /\ steps = [r \in Runs |-> 0]
  /\ initPhase = "none" /\ initAt = 0 /\ attempt = 0
  /\ live = {}
  /\ handlers = [p \in Plugins |-> {}]
  /\ disposed = FALSE /\ isShuttingDown = FALSE
  /\ closer = [d \in Closers |-> "idle"]
  /\ walkAt = 0 /\ calm = TRUE
  /\ Limiter!Init
  /\ resets = 0

-----------------------------------------------------------------------------
(* PluginManager.                                                          *)

Goes(r, p) == phase' = [phase EXCEPT ![r] = p]

(* The runs that await the initialisation all go on to p.                  *)
Resolves(p) ==
  phase' = [r \in Runs |-> IF phase[r] = "initialising" THEN p ELSE phase[r]]

(* setup() of p is called, and subscribes.                                 *)
SetUp(p, n) ==
  /\ initPhase' = "setup"
  /\ initAt' = p
  /\ handlers' = [handlers EXCEPT ![p] = @ \cup {n}]

(* detachAllSubscriptions() and dispose() of p.                            *)
Disposal(p) ==
  /\ handlers' = [handlers EXCEPT ![p] = {}]
  /\ live' = live \ {p}

(* Starts initPromise, joins it, or finds it fulfilled.                    *)
Joins(r) ==
  \/ /\ initPhase = "none"
     /\ Goes(r, "initialising")
     /\ attempt' = attempt + 1
     /\ SetUp(1, attempt')
     /\ UNCHANGED live
  \/ initPhase \in {"setup", "rollback"} /\ Goes(r, "initialising") /\ UNCHANGED pluginVars
  \/ initPhase = "done" /\ Goes(r, "prologue") /\ UNCHANGED pluginVars

(* Variant: a disposed manager is initialised.                             *)
InitializeDisposed(r) == Joins(r)

(* initialize(), for run r.                                                *)
Initialize(r) ==
  \/ disposed /\ Goes(r, "onError") /\ UNCHANGED pluginVars
  \/ ~disposed /\ Joins(r)

SetupReturns ==
  /\ initPhase = "setup"
  /\ live' = live \cup {initAt}
  /\ IF initAt < NumPlugins
       THEN SetUp(initAt + 1, attempt) /\ UNCHANGED phase
       ELSE /\ initPhase' = "done" /\ Resolves("prologue")
            /\ UNCHANGED <<initAt, handlers>>
  /\ UNCHANGED <<steps, attempt, closeVars, limiterVars, resets>>

(* Variant: nobody is told.                                                *)
FailedSilently ==
  /\ initPhase' = "none"
  /\ UNCHANGED <<initAt, phase>>

(* rollback() is through: initPromise is given up and rejects.             *)
Failed ==
  /\ initPhase' = "none"
  /\ Resolves("onError")
  /\ UNCHANGED initAt

(* rollback() of the plugins up to p, last one first.  The plugin that     *)
(* failed is not among them: its subscription stays.                       *)
RollsBack(p) ==
  IF p = 0
    THEN Failed /\ UNCHANGED <<handlers, live>>
    ELSE /\ initPhase' = "rollback"
         /\ initAt' = p
         /\ Disposal(p)
         /\ UNCHANGED phase

SetupThrows ==
  /\ initPhase = "setup"
  /\ RollsBack(initAt - 1)
  /\ UNCHANGED <<steps, attempt, closeVars, limiterVars, resets>>

RollbackContinues ==
  /\ initPhase = "rollback"
  /\ RollsBack(initAt - 1)
  /\ UNCHANGED <<steps, attempt, closeVars, limiterVars, resets>>

-----------------------------------------------------------------------------
(* A run.  One that has not begun yet is one whose tools are not built.    *)

(* buildToolCatalog() of prepareTools(): MCP servers are asked.            *)
CatalogBuilt(r) ==
  /\ phase[r] = "catalog"
  /\ Initialize(r)
  /\ UNCHANGED <<steps, closeVars, limiterVars, resets>>

(* acquire() of the rate limited model.                                    *)
CallModel(r) ==
  /\ Limiter!Acquire(r)
  /\ Goes(r, IF waitQueue' = waitQueue THEN "model" ELSE "acquire")
  /\ steps' = [steps EXCEPT ![r] = @ + 1]

(* Learning context, beforeRun hooks, checkpoint; the agent loop begins.   *)
PrologueEnds(r) ==
  /\ phase[r] = "prologue"
  /\ CallModel(r)
  /\ UNCHANGED <<pluginVars, closeVars, resets>>

(* The model calls tools, and is called again, or has its last word.       *)
ModelAnswers(r) ==
  /\ phase[r] = "model"
  /\ \/ steps[r] < MaxSteps /\ CallModel(r)
     \/ /\ Goes(r, IF r \in Streams THEN "returned" ELSE "epilogue")
        /\ UNCHANGED <<steps, limiterVars>>
  /\ UNCHANGED <<pluginVars, closeVars, resets>>

(* Step hooks, checkpoint, agent:stop, afterRun hooks.                     *)
EpilogueEnds(r) ==
  /\ phase[r] = "epilogue"
  /\ Goes(r, "returned")
  /\ UNCHANGED <<steps, pluginVars, closeVars, limiterVars, resets>>

(* What a run awaits rejects: the catch, or, when stream() has handed out  *)
(* its promise, the caller.                                                *)
AwaitRejects(r) ==
  /\ phase[r] \in {"catalog", "prologue", "model", "epilogue"}
  /\ Goes(r, IF r \in Streams /\ phase[r] = "model" THEN "rejected" ELSE "onError")
  /\ UNCHANGED <<steps, pluginVars, closeVars, limiterVars, resets>>

(* runOnError(): suppressed, or reported and thrown.                       *)
OnErrorEnds(r) ==
  /\ phase[r] = "onError"
  /\ \E p \in Ended : Goes(r, p)
  /\ UNCHANGED <<steps, pluginVars, closeVars, limiterVars, resets>>

-----------------------------------------------------------------------------
(* shutdown() and dispose() of the agent.                                  *)

At(d, p) == closer' = [closer EXCEPT ![d] = p]

(* dispose() of the plugin manager, once shutdown() is behind it.          *)
AfterShutdown(d) ==
  IF disposed
    THEN At(d, "closeAll") /\ UNCHANGED <<disposed, walkAt, calm, live, handlers>>
    ELSE /\ disposed' = TRUE
         /\ calm' = (initPhase \in {"none", "done"})
         /\ At(d, "walk")
         /\ walkAt' = NumPlugins
         /\ Disposal(NumPlugins)

(* LifecycleManager.shutdown(): a second one returns at once.  No run is   *)
(* registered with trackOperation(), so none is waited for.                *)
ShutDown ==
  /\ ~isShuttingDown
  /\ isShuttingDown' = TRUE
  /\ UNCHANGED <<runVars, pluginVars, disposed, closer, walkAt, calm, limiterVars, resets>>

(* dispose() calls it first.                                               *)
Close(d) ==
  /\ closer[d] = "idle"
  /\ IF isShuttingDown
       THEN AfterShutdown(d) /\ UNCHANGED isShuttingDown
       ELSE /\ isShuttingDown' = TRUE
            /\ At(d, "onShutdown")
            /\ UNCHANGED <<disposed, walkAt, calm, live, handlers>>
  /\ UNCHANGED <<runVars, initPhase, initAt, attempt, limiterVars, resets>>

OnShutdownEnds(d) ==
  /\ closer[d] = "onShutdown"
  /\ AfterShutdown(d)
  /\ UNCHANGED <<runVars, initPhase, initAt, attempt, isShuttingDown, limiterVars, resets>>

WalkContinues(d) ==
  /\ closer[d] = "walk"
  /\ IF walkAt = 1
       THEN At(d, "closeAll") /\ walkAt' = 0 /\ UNCHANGED <<live, handlers>>
       ELSE walkAt' = walkAt - 1 /\ Disposal(walkAt') /\ UNCHANGED closer
  /\ UNCHANGED <<runVars, initPhase, initAt, attempt, disposed, isShuttingDown, calm>>
  /\ UNCHANGED <<limiterVars, resets>>

(* The MCP connections are closed; removeAllListeners().                   *)
CloseAllEnds(d) ==
  /\ closer[d] = "closeAll"
  /\ At(d, "done")
  /\ handlers' = [p \in Plugins |-> {}]
  /\ UNCHANGED <<runVars, initPhase, initAt, attempt, live>>
  /\ UNCHANGED <<disposed, isShuttingDown, walkAt, calm, limiterVars, resets>>

-----------------------------------------------------------------------------
(* The limiter's timer serves waiting runs; its reset() rejects them.      *)

Waiting == Range(waitQueue)

TokenTimer ==
  /\ Limiter!TimerFires
  /\ phase' = [r \in Runs |-> IF r \in Waiting \ Range(waitQueue') THEN "model" ELSE phase[r]]
  /\ UNCHANGED <<steps, pluginVars, closeVars, resets>>

ResetLimiter ==
  /\ resets < MaxResets
  /\ resets' = resets + 1
  /\ Limiter!Reset
  /\ phase' = [r \in Runs |->
       IF r \notin Waiting THEN phase[r]
       ELSE IF r \in Streams THEN "rejected" ELSE "onError"]
  /\ UNCHANGED <<steps, pluginVars, closeVars>>

Tick ==
  /\ Limiter!Tick
  /\ UNCHANGED <<runVars, pluginVars, closeVars, resets>>

Plugging == SetupReturns \/ SetupThrows \/ RollbackContinues

Running(r) ==
  \/ CatalogBuilt(r) \/ PrologueEnds(r) \/ ModelAnswers(r) \/ EpilogueEnds(r)
  \/ AwaitRejects(r) \/ OnErrorEnds(r)

Closing(d) == OnShutdownEnds(d) \/ WalkContinues(d) \/ CloseAllEnds(d)

Next ==
  \/ \E r \in Runs : Running(r)
  \/ Plugging
  \/ ShutDown
  \/ \E d \in Closers : Close(d) \/ Closing(d)
  \/ TokenTimer \/ ResetLimiter \/ Tick

Spec == Init /\ [][Next]_vars

(* Plugins, hooks, model calls and MCP servers settle, and time passes.    *)
FairSpec ==
  /\ Spec
  /\ \A r \in Runs : WF_vars(Running(r))
  /\ WF_vars(Plugging) /\ WF_vars(TokenTimer) /\ WF_vars(Tick)

-----------------------------------------------------------------------------
TypeOK ==
  /\ phase \in [Runs -> Phases]
  /\ steps \in [Runs -> 0 .. MaxSteps]
  /\ initPhase \in {"none", "setup", "rollback", "done"}
  /\ initAt \in 0 .. NumPlugins /\ walkAt \in 0 .. NumPlugins
  /\ live \subseteq Plugins
  /\ handlers \in [Plugins -> SUBSET (1 .. attempt)]
  /\ Limiter!TypeOK

(* A dispose() that meets no initialisation leaves nothing behind: no      *)
(* handler on the bus and no plugin set up, and later runs bring none back.*)
DisposedForGood ==
  calm => \A d \in Closers : closer[d] = "done" =>
    /\ \A p \in Plugins : handlers[p] = {}
    /\ walkAt = 0 => live = {}

(* README.md:563 of dispose(): "Closes MCP connections and removes all     *)
(* event listeners."                                                       *)
NoListenerIsLeft ==
  \A d \in Closers : closer[d] = "done" =>
    \A p \in Plugins : handlers[p] = {}

(* A run that waits for a token is in the limiter's queue and a timer will *)
(* look at it, whatever reset() and the other runs do.                     *)
WaitersAreServed ==
  /\ \A r \in Runs : phase[r] = "acquire" <=> r \in Waiting
  /\ Limiter!NobodyIsStranded

(* Every run ends, with hooks, a model and MCP servers that settle: none   *)
(* waits for ever for an initialisation or for a token.                    *)
RunsEnd == \A r \in Runs : <>(phase[r] \in Ended)

(* What keeps WaitersAreServed: a queue that is not empty has its turn     *)
(* scheduled, and what is scheduled has a timer.                           *)
QueueInv ==
  /\ phase \in [Runs -> Phases]
  /\ tokens \in Nat /\ sinceRefill \in Nat
  /\ waitQueue \in Seq(Runs)
  /\ processingScheduled \in BOOLEAN
  /\ timers \in [Limiter!Delays -> Nat]
  /\ \A r \in Runs : phase[r] = "acquire" <=> r \in Waiting
  /\ waitQueue # <<>> => processingScheduled
  /\ processingScheduled => \E d \in Limiter!Delays : timers[d] > 0

(* What keeps DisposedForGood: one dispose() walks over the plugins, and   *)
(* one that met no initialisation is never met by one.                     *)
DisposalInv ==
  /\ closer \in [Closers -> {"idle", "onShutdown", "walk", "closeAll", "done"}]
  /\ live \subseteq Plugins
  /\ handlers \in [Plugins -> SUBSET Nat]
  /\ attempt \in Nat
  /\ walkAt \in 0 .. NumPlugins
  /\ initPhase = "setup" => initAt \in Plugins
  /\ ~disposed => walkAt = 0 /\ \A d \in Closers : closer[d] \in {"idle", "onShutdown"}
  /\ \A d \in Closers : closer[d] = "walk" => walkAt > 0
  /\ \A d, e \in Closers : closer[d] = "walk" /\ closer[e] = "walk" => d = e
  /\ disposed /\ calm =>
       /\ initPhase \in {"none", "done"}
       /\ live \subseteq 1 .. walkAt - 1
       /\ \A d \in Closers : closer[d] = "done" => \A p \in Plugins : handlers[p] = {}

-----------------------------------------------------------------------------
(* Proofs.                                                                 *)

(* One more in the queue.                                                  *)
LEMMA QueueGrows ==
  ASSUME NEW q \in Seq(Runs), NEW r \in Runs
  PROVE  /\ Append(q, r) \in Seq(Runs)
         /\ Append(q, r) # q
         /\ Append(q, r) # <<>>
         /\ Range(Append(q, r)) = Range(q) \cup {r}
<1>1. /\ Append(q, r) \in Seq(Runs)
      /\ Append(q, r) # <<>>
      /\ Len(Append(q, r)) = Len(q) + 1
      /\ \A i \in 1 .. Len(q) : Append(q, r)[i] = q[i]
      /\ Append(q, r)[Len(q) + 1] = r
  BY AppendProperties
<1>2. Len(q) \in Nat /\ DOMAIN q = 1 .. Len(q) /\ DOMAIN Append(q, r) = 1 .. Len(q) + 1
  BY <1>1
<1>3. Range(Append(q, r)) = Range(q) \cup {r}
  BY <1>1, <1>2 DEF Range
<1>4. Append(q, r) # q
  <2> SUFFICES ASSUME Append(q, r) = q  PROVE FALSE
    OBVIOUS
  <2>1. Len(q) = Len(q) + 1
    BY <1>1
  <2> QED
    BY <2>1, <1>2
<1> QED
  BY <1>1, <1>3, <1>4

(* The first n of the queue are served.                                    *)
LEMMA QueueShrinks ==
  ASSUME NEW q \in Seq(Runs), NEW n \in 0 .. Len(q)
  PROVE  /\ SubSeq(q, n + 1, Len(q)) \in Seq(Runs)
         /\ Range(SubSeq(q, n + 1, Len(q))) \subseteq Range(q)
<1> DEFINE rest == SubSeq(q, n + 1, Len(q))
<1>1. Len(q) \in Nat /\ \A i \in 1 .. Len(q) : q[i] \in Runs
  OBVIOUS
<1>2. /\ rest \in Seq(Runs)
      /\ Len(rest) = IF n + 1 <= Len(q) THEN Len(q) - (n + 1) + 1 ELSE 0
      /\ \A i \in 1 .. Len(rest) : rest[i] = q[n + 1 + i - 1]
  BY <1>1, SubSeqProperties
<1>3. \A i \in DOMAIN rest : i + n \in DOMAIN q /\ rest[i] = q[i + n]
  BY <1>1, <1>2
<1> QED
  BY <1>2, <1>3 DEF Range

(* The arithmetic of the bucket.                                           *)
LEMMA BucketRefills ==
  ASSUME tokens \in Nat, sinceRefill \in Nat, waitQueue \in Seq(Runs)
  PROVE  /\ Limiter!Refilled \in Nat
         /\ Limiter!SinceRefilled \in 0 .. RefillRate - 1
         /\ Limiter!Served \in 0 .. Len(waitQueue)
         /\ Limiter!Refilled - Limiter!Served \in Nat
<1>1. sinceRefill \div RefillRate \in Nat
  BY AgentAssumption
<1>2. sinceRefill % RefillRate \in 0 .. RefillRate - 1
  BY AgentAssumption
<1>3. Len(waitQueue) \in Nat
  OBVIOUS
<1> QED
  BY <1>1, <1>2, <1>3, AgentAssumption
     DEF Limiter!Refilled, Limiter!SinceRefilled, Limiter!Served, Limiter!Lesser

(* A timeout for the next refill is a timer.                               *)
LEMMA TimerIsSet ==
  ASSUME NEW ts \in [Limiter!Delays -> Nat],
         tokens \in Nat, sinceRefill \in Nat, waitQueue \in Seq(Runs)
  PROVE  /\ Limiter!WithTimer(ts) \in [Limiter!Delays -> Nat]
         /\ \E d \in Limiter!Delays : Limiter!WithTimer(ts)[d] > 0
<1> DEFINE d == RefillRate - Limiter!SinceRefilled
<1>1. d \in Limiter!Delays
  BY BucketRefills, AgentAssumption DEF Limiter!Delays
<1> HIDE DEF d
<1>2. ts[d] \in Nat
  BY <1>1
<1>3. Limiter!WithTimer(ts) = [ts EXCEPT ![d] = ts[d] + 1]
  BY DEF Limiter!WithTimer, d
<1> QED
  BY <1>1, <1>2, <1>3

(* A call of the model, with a token or in the queue.                      *)
LEMMA CallKeepsQueue ==
  ASSUME QueueInv, NEW r \in Runs, phase[r] # "acquire", CallModel(r)
  PROVE  QueueInv'
<1> USE DEF QueueInv
<1> DEFINE scheduled == IF processingScheduled THEN timers ELSE Limiter!WithTimer(timers)
<1>1. /\ Limiter!Refilled \in Nat
      /\ Limiter!SinceRefilled \in Nat
  BY BucketRefills, AgentAssumption
<1>2. /\ Append(waitQueue, r) \in Seq(Runs)
      /\ Append(waitQueue, r) # waitQueue
      /\ Append(waitQueue, r) # <<>>
      /\ Range(Append(waitQueue, r)) = Waiting \cup {r}
  BY QueueGrows DEF Waiting
<1>3. scheduled \in [Limiter!Delays -> Nat] /\ \E d \in Limiter!Delays : scheduled[d] > 0
  BY TimerIsSet
<1>4. /\ sinceRefill' = Limiter!SinceRefilled
      /\ phase' = [phase EXCEPT ![r] = IF waitQueue' = waitQueue THEN "model" ELSE "acquire"]
  BY DEF CallModel, Limiter!Acquire, Goes
<1>5. phase' \in [Runs -> Phases]
  BY <1>4 DEF Phases, Initialised
<1>6. CASE Limiter!Refilled > 0
  <2>1. /\ tokens' = Limiter!Refilled - 1
        /\ UNCHANGED <<waitQueue, processingScheduled, timers>>
    BY <1>6 DEF CallModel, Limiter!Acquire
  <2> QED
    BY <1>1, <1>4, <1>5, <1>6, <2>1 DEF Waiting, Limiter!Delays
<1>7. CASE ~(Limiter!Refilled > 0)
  <2>1. /\ tokens' = 0
        /\ waitQueue' = Append(waitQueue, r)
        /\ processingScheduled' = TRUE
        /\ timers' = scheduled
    BY <1>7 DEF CallModel, Limiter!Acquire
  <2> HIDE DEF scheduled
  <2>2. \A x \in Runs : phase'[x] = "acquire" <=> x \in Waiting'
    BY <1>2, <1>4, <2>1 DEF Waiting
  <2> QED
    BY <1>1, <1>2, <1>3, <1>4, <1>5, <2>1, <2>2 DEF Limiter!Delays
<1> QED
  BY <1>6, <1>7

(* The timer hands out tokens, and is set again for those who remain.      *)
LEMMA TimerKeepsQueue ==
  ASSUME QueueInv, TokenTimer
  PROVE  QueueInv'
<1> USE DEF QueueInv
<1> DEFINE n    == Limiter!Served
           less == [timers EXCEPT ![0] = timers[0] - 1]
<1>1. /\ Limiter!SinceRefilled \in Nat
      /\ n \in 0 .. Len(waitQueue)
      /\ Limiter!Refilled - n \in Nat
  BY BucketRefills, AgentAssumption
<1>2. /\ waitQueue' = SubSeq(waitQueue, n + 1, Len(waitQueue))
      /\ sinceRefill' = Limiter!SinceRefilled
      /\ tokens' = Limiter!Refilled - n
      /\ processingScheduled' = (waitQueue' # <<>>)
      /\ timers[0] > 0
      /\ timers' = IF waitQueue' # <<>> THEN Limiter!WithTimer(less) ELSE less
  BY DEF TokenTimer, Limiter!TimerFires
<1>3. waitQueue' \in Seq(Runs) /\ Waiting' \subseteq Waiting
  BY <1>1, <1>2, QueueShrinks DEF Waiting
<1>4. less \in [Limiter!Delays -> Nat]
  BY <1>2, AgentAssumption DEF Limiter!Delays
<1>5. /\ timers' \in [Limiter!Delays -> Nat]
      /\ waitQueue' # <<>> => \E d \in Limiter!Delays : timers'[d] > 0
  BY <1>2, <1>4, TimerIsSet
<1>6. phase' = [r \in Runs |-> IF r \in Waiting \ Waiting' THEN "model" ELSE phase[r]]
  BY DEF TokenTimer, Waiting
<1>7. /\ phase' \in [Runs -> Phases]
      /\ \A r \in Runs : phase'[r] = "acquire" <=> r \in Waiting'
  BY <1>3, <1>6 DEF Phases, Initialised
<1> QED
  BY <1>1, <1>2, <1>3, <1>5, <1>7 DEF Limiter!Delays

(* A tick brings every timer nearer and loses none.                        *)
LEMMA TickKeepsQueue ==
  ASSUME QueueInv, Tick
  PROVE  QueueInv'
<1> USE DEF QueueInv, Limiter!Delays
<1>1. /\ phase' = phase /\ UNCHANGED <<tokens, waitQueue, processingScheduled>>
      /\ sinceRefill' = IF sinceRefill = RefillRate * (MaxTokens + 1)
                          THEN RefillRate * MaxTokens + 1 ELSE sinceRefill + 1
      /\ timers' = [d \in 0 .. RefillRate |->
                      (IF d = 0 THEN timers[0] ELSE 0)
                      + (IF d < RefillRate THEN timers[d + 1] ELSE 0)]
  BY DEF Tick, Limiter!Tick, runVars
<1>2. RefillRate * MaxTokens \in Nat
  BY AgentAssumption
<1>3. sinceRefill' \in Nat
  BY <1>1, <1>2
<1>4. timers' \in [0 .. RefillRate -> Nat]
  BY <1>1, AgentAssumption
<1>5. ASSUME NEW d \in 0 .. RefillRate, timers[d] > 0
      PROVE  \E e \in 0 .. RefillRate : timers'[e] > 0
  <2>1. CASE d = 0
    BY <1>1, <1>5, <2>1, AgentAssumption
  <2>2. CASE d # 0
    <3>1. d - 1 \in 0 .. RefillRate /\ d - 1 < RefillRate /\ (d - 1) + 1 = d
      BY <2>2, AgentAssumption
    <3>2. timers'[d - 1] = (IF d - 1 = 0 THEN timers[0] ELSE 0) + timers[d]
      BY <1>1, <3>1
    <3>3. timers'[d - 1] > 0
      BY <1>5, <3>2, AgentAssumption
    <3> QED
      BY <3>1, <3>3
  <2> QED
    BY <2>1, <2>2
<1> QED
  BY <1>1, <1>3, <1>4, <1>5 DEF Waiting

(* Whoever is in the limiter's queue is asleep there, with a timer set.    *)
THEOREM QueueInvariance == Spec => []QueueInv
<1>1. Init => QueueInv
  BY AgentAssumption
     DEF Init, QueueInv, Limiter!Init, Limiter!Delays, Waiting, Range, Phases, Initialised
<1>2. QueueInv /\ [Next]_vars => QueueInv'
  <2> SUFFICES ASSUME QueueInv, [Next]_vars  PROVE QueueInv'
    OBVIOUS
  <2> USE DEF Limiter!Delays
  <2>1. ASSUME NEW r \in Runs, Running(r)  PROVE QueueInv'
    <3> USE DEF QueueInv, Waiting, limiterVars, Goes, Phases, Initialised, Ended
    <3>1. CASE CatalogBuilt(r)
      BY <3>1 DEF CatalogBuilt, Initialize, Joins
    <3>2. CASE PrologueEnds(r)
      BY <3>2, CallKeepsQueue DEF PrologueEnds
    <3>3. CASE ModelAnswers(r)
      <4>1. phase[r] # "acquire"
        BY <3>3 DEF ModelAnswers
      <4>2. CASE CallModel(r)
        BY <4>1, <4>2, CallKeepsQueue
      <4>3. CASE ~CallModel(r)
        <5>1. UNCHANGED limiterVars /\ \E p \in {"returned", "epilogue"} : Goes(r, p)
          BY <3>3, <4>3 DEF ModelAnswers
        <5> QED
          BY <4>1, <5>1
      <4> QED
        BY <4>2, <4>3
    <3>4. CASE EpilogueEnds(r)
      BY <3>4 DEF EpilogueEnds
    <3>5. CASE AwaitRejects(r)
      BY <3>5 DEF AwaitRejects
    <3>6. CASE OnErrorEnds(r)
      BY <3>6 DEF OnErrorEnds
    <3> QED
      BY <2>1, <3>1, <3>2, <3>3, <3>4, <3>5, <3>6 DEF Running
  <2>2. CASE Plugging
    <3>1. UNCHANGED limiterVars
      BY <2>2 DEF Plugging, SetupReturns, SetupThrows, RollbackContinues
    <3>2. phase' = phase \/ Resolves("prologue") \/ Resolves("onError")
      BY <2>2 DEF Plugging, SetupReturns, SetupThrows, RollbackContinues, RollsBack, Failed
    <3>3. /\ phase' \in [Runs -> Phases]
          /\ \A r \in Runs : phase'[r] = "acquire" <=> phase[r] = "acquire"
      BY <3>2 DEF Resolves, QueueInv, Phases, Initialised
    <3> QED
      BY <3>1, <3>3 DEF QueueInv, Waiting, limiterVars
  <2>3. CASE ShutDown
    BY <2>3 DEF ShutDown, runVars, QueueInv, Waiting, limiterVars
  <2>4. ASSUME NEW d \in Closers, Close(d) \/ Closing(d)  PROVE QueueInv'
    <3>1. UNCHANGED <<runVars, limiterVars>>
      BY <2>4 DEF Close, Closing, OnShutdownEnds, WalkContinues, CloseAllEnds
    <3> QED
      BY <3>1 DEF runVars, limiterVars, QueueInv, Waiting
  <2>5. CASE TokenTimer
    BY <2>5, TimerKeepsQueue
  <2>6. CASE ResetLimiter
    <3>1. /\ tokens' = MaxTokens /\ sinceRefill' = 0 /\ waitQueue' = <<>>
          /\ processingScheduled' = FALSE /\ timers' = timers
          /\ phase' = [r \in Runs |->
               IF r \notin Waiting THEN phase[r]
               ELSE IF r \in Streams THEN "rejected" ELSE "onError"]
      BY <2>6 DEF ResetLimiter, Limiter!Reset
    <3>2. waitQueue' \in Seq(Runs) /\ Waiting' = {}
      BY <3>1 DEF Waiting, Range
    <3>3. /\ phase' \in [Runs -> Phases]
          /\ \A r \in Runs : phase'[r] # "acquire"
      BY <3>1 DEF QueueInv, Phases, Initialised, Ended
    <3> QED
      BY <3>1, <3>2, <3>3, AgentAssumption DEF QueueInv
  <2>7. CASE Tick
    BY <2>7, TickKeepsQueue
  <2>8. CASE UNCHANGED vars
    BY <2>8 DEF vars, runVars, limiterVars, QueueInv, Waiting
  <2> QED
    BY <2>1, <2>2, <2>3, <2>4, <2>5, <2>6, <2>7, <2>8 DEF Next
<1> QED
  BY <1>1, <1>2, PTL DEF Spec

(* A run that waits for a token is in the queue, and a timer will look at  *)
(* it, for any number of runs, tokens, refills and resets.                 *)
THEOREM WaitersHaveATimer == Spec => []WaitersAreServed
<1>1. QueueInv => WaitersAreServed
  BY DEF QueueInv, WaitersAreServed, Limiter!NobodyIsStranded
<1> QED
  BY <1>1, QueueInvariance, PTL

(* Steps of an initialisation.                                             *)
LEMMA SetUpKeepsDisposal ==
  ASSUME DisposalInv, Plugging
  PROVE  DisposalInv'
<1>1. UNCHANGED closeVars
  BY DEF Plugging, SetupReturns, SetupThrows, RollbackContinues
<1>2. ~(disposed /\ calm)
  BY DEF Plugging, SetupReturns, SetupThrows, RollbackContinues, DisposalInv
<1>3. CASE SetupReturns
  <2>1. initAt \in Plugins /\ live' = live \cup {initAt} /\ attempt' = attempt
    BY <1>3 DEF SetupReturns, DisposalInv
  <2>2. /\ initPhase' = "setup" => initAt' \in Plugins
        /\ handlers' \in [Plugins -> SUBSET Nat]
    <3>1. CASE initAt < NumPlugins
      BY <1>3, <2>1, <3>1, AgentAssumption DEF SetupReturns, SetUp, DisposalInv, Plugins
    <3>2. CASE ~(initAt < NumPlugins)
      BY <1>3, <3>2 DEF SetupReturns, DisposalInv
    <3> QED
      BY <3>1, <3>2
  <2> QED
    BY <1>1, <1>2, <2>1, <2>2 DEF DisposalInv, closeVars
<1>4. CASE SetupThrows \/ RollbackContinues
  <2>1. RollsBack(initAt - 1) /\ attempt' = attempt
    BY <1>4 DEF SetupThrows, RollbackContinues
  <2>2. /\ initPhase' \in {"none", "rollback"}
        /\ live' \subseteq live
        /\ handlers' = handlers \/ handlers' = [handlers EXCEPT ![initAt - 1] = {}]
    BY <2>1 DEF RollsBack, Failed, Disposal
  <2> QED
    BY <1>1, <1>2, <2>1, <2>2 DEF DisposalInv, closeVars
<1> QED
  BY <1>3, <1>4 DEF Plugging

(* dispose() begins its walk, or finds the plugins disposed of.            *)
LEMMA ShutdownKeepsDisposal ==
  ASSUME DisposalInv, NEW d \in Closers, closer[d] \in {"idle", "onShutdown"},
         AfterShutdown(d), UNCHANGED <<initPhase, initAt, attempt>>
  PROVE  DisposalInv'
<1>1. CASE disposed
  BY <1>1 DEF AfterShutdown, At, DisposalInv
<1>2. CASE ~disposed
  <2>1. /\ disposed' = TRUE /\ calm' = (initPhase \in {"none", "done"})
        /\ closer' = [closer EXCEPT ![d] = "walk"]
        /\ walkAt' = NumPlugins
        /\ handlers' = [handlers EXCEPT ![NumPlugins] = {}]
        /\ live' = live \ {NumPlugins}
    BY <1>2 DEF AfterShutdown, At, Disposal
  <2>2. live' \subseteq 1 .. NumPlugins - 1
    BY <2>1, AgentAssumption DEF DisposalInv, Plugins
  <2>3. \A e \in Closers : closer'[e] = IF e = d THEN "walk" ELSE closer[e]
    BY <2>1 DEF DisposalInv
  <2>4. \A e \in Closers : closer[e] \in {"idle", "onShutdown"}
    BY <1>2 DEF DisposalInv
  <2>5. handlers' \in [Plugins -> SUBSET Nat]
    BY <2>1 DEF DisposalInv
  <2>6. closer' \in [Closers -> {"idle", "onShutdown", "walk", "closeAll", "done"}]
    BY <2>1 DEF DisposalInv
  <2>7. calm' => initPhase' \in {"none", "done"}
    BY <2>1
  <2>8. \A e, f \in Closers : closer'[e] = "walk" /\ closer'[f] = "walk" => e = f
    BY <2>3, <2>4
  <2>9. \A e \in Closers : closer'[e] # "done"
    BY <2>3, <2>4
  <2>10. walkAt' \in 0 .. NumPlugins /\ walkAt' > 0
    BY <2>1, AgentAssumption
  <2>11. UNCHANGED <<initPhase, initAt, attempt>> /\ live' \subseteq Plugins
    BY <2>1 DEF DisposalInv
  <2> QED
    BY <2>1, <2>2, <2>5, <2>6, <2>7, <2>8, <2>9, <2>10, <2>11 DEF DisposalInv
<1> QED
  BY <1>1, <1>2

(* An agent that was disposed of stays so.                                 *)
THEOREM DisposalInvariance == Spec => []DisposalInv
<1>1. Init => DisposalInv
  BY AgentAssumption DEF Init, DisposalInv, Plugins
<1>2. DisposalInv /\ [Next]_vars => DisposalInv'
  <2> SUFFICES ASSUME DisposalInv, [Next]_vars  PROVE DisposalInv'
    OBVIOUS
  <2>1. ASSUME UNCHANGED <<pluginVars, closeVars>>  PROVE DisposalInv'
    BY <2>1 DEF pluginVars, closeVars, DisposalInv
  <2>2. ASSUME NEW r \in Runs, Running(r)  PROVE DisposalInv'
    <3>1. CASE CatalogBuilt(r)
      <4>1. UNCHANGED closeVars
        BY <3>1 DEF CatalogBuilt
      <4>2. CASE UNCHANGED pluginVars
        BY <2>1, <4>1, <4>2
      <4>3. CASE ~(UNCHANGED pluginVars)
        <5>1. /\ ~disposed /\ initPhase' = "setup" /\ initAt' = 1
              /\ attempt' = attempt + 1 /\ live' = live
              /\ handlers' = [handlers EXCEPT ![1] = handlers[1] \cup {attempt'}]
          BY <3>1, <4>3 DEF CatalogBuilt, Initialize, Joins, SetUp
        <5>2. handlers' \in [Plugins -> SUBSET Nat] /\ 1 \in Plugins
          BY <5>1, AgentAssumption DEF DisposalInv, Plugins
        <5> QED
          BY <4>1, <5>1, <5>2 DEF closeVars, DisposalInv
      <4> QED
        BY <4>2, <4>3
    <3>2. CASE ~CatalogBuilt(r)
      BY <2>1, <2>2, <3>2
         DEF Running, PrologueEnds, ModelAnswers, EpilogueEnds, AwaitRejects, OnErrorEnds
    <3> QED
      BY <3>1, <3>2
  <2>3. CASE Plugging
    BY <2>3, SetUpKeepsDisposal
  <2>4. CASE ShutDown
    BY <2>4 DEF ShutDown, pluginVars, DisposalInv
  <2>5. ASSUME NEW d \in Closers, Close(d)  PROVE DisposalInv'
    <3>1. closer[d] = "idle" /\ UNCHANGED <<initPhase, initAt, attempt>>
      BY <2>5 DEF Close
    <3>2. CASE isShuttingDown
      BY <2>5, <3>1, <3>2, ShutdownKeepsDisposal DEF Close
    <3>3. CASE ~isShuttingDown
      BY <2>5, <3>1, <3>3 DEF Close, At, DisposalInv
    <3> QED
      BY <3>2, <3>3
  <2>6. ASSUME NEW d \in Closers, OnShutdownEnds(d)  PROVE DisposalInv'
    BY <2>6, ShutdownKeepsDisposal DEF OnShutdownEnds
  <2>7. ASSUME NEW d \in Closers, WalkContinues(d)  PROVE DisposalInv'
    <3>1. CASE walkAt = 1
      <4>1. /\ closer[d] = "walk" /\ closer' = [closer EXCEPT ![d] = "closeAll"] /\ walkAt' = 0
            /\ UNCHANGED <<live, handlers, initPhase, initAt, attempt, disposed, calm>>
        BY <2>7, <3>1 DEF WalkContinues, At
      <4>2. /\ closer' \in [Closers -> {"idle", "onShutdown", "walk", "closeAll", "done"}]
            /\ \A e \in Closers : closer'[e] = IF e = d THEN "closeAll" ELSE closer[e]
        BY <4>1 DEF DisposalInv
      <4>3. \A e \in Closers : closer'[e] # "walk"
        BY <4>1, <4>2 DEF DisposalInv
      <4>4. disposed /\ calm => live \subseteq 1 .. 0 - 1
        BY <3>1 DEF DisposalInv
      <4> QED
        BY <4>1, <4>2, <4>3, <4>4, AgentAssumption DEF DisposalInv
    <3>2. CASE walkAt # 1
      <4>1. /\ closer[d] = "walk" /\ walkAt' = walkAt - 1
            /\ handlers' = [handlers EXCEPT ![walkAt - 1] = {}]
            /\ live' = live \ {walkAt - 1}
            /\ UNCHANGED <<closer, initPhase, initAt, attempt, disposed, calm>>
        BY <2>7, <3>2 DEF WalkContinues, Disposal
      <4>2. walkAt' \in 1 .. NumPlugins
        BY <3>2, <4>1, AgentAssumption DEF DisposalInv
      <4>3. disposed /\ calm => live' \subseteq 1 .. walkAt' - 1
        BY <4>1, <4>2 DEF DisposalInv
      <4>4. handlers' \in [Plugins -> SUBSET Nat]
        BY <4>1 DEF DisposalInv
      <4>5. \A p \in Plugins : handlers[p] = {} => handlers'[p] = {}
        BY <4>1 DEF DisposalInv
      <4>6. disposed
        BY <4>1 DEF DisposalInv
      <4> QED
        BY <4>1, <4>2, <4>3, <4>4, <4>5, <4>6, AgentAssumption DEF DisposalInv
    <3> QED
      BY <3>1, <3>2
  <2>8. ASSUME NEW d \in Closers, CloseAllEnds(d)  PROVE DisposalInv'
    BY <2>8 DEF CloseAllEnds, At, DisposalInv
  <2>9. CASE TokenTimer \/ ResetLimiter \/ Tick
    BY <2>1, <2>9 DEF TokenTimer, ResetLimiter, Tick
  <2>10. CASE UNCHANGED vars
    BY <2>1, <2>10 DEF vars
  <2> QED
    BY <2>2, <2>3, <2>4, <2>5, <2>6, <2>7, <2>8, <2>9, <2>10 DEF Next, Closing
<1> QED
  BY <1>1, <1>2, PTL DEF Spec

(* A dispose() that met no initialisation leaves no handler and no plugin, *)
(* for any number of plugins, of runs and of other dispose() calls.        *)
THEOREM NothingComesBack == Spec => []DisposedForGood
<1>1. DisposalInv => DisposedForGood
  BY AgentAssumption DEF DisposalInv, DisposedForGood
<1> QED
  BY <1>1, DisposalInvariance, PTL
=============================================================================
