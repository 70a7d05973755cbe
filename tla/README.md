# A formal model of onegenui-deep-agents

TLA+ modules, TLC runs and TLAPS proofs about the part of
`@giulio-leone/gaussflow-agent` where several callers, timers, promises or
processes share state. JavaScript runs one callback at a time, so an action of
these modules is one *turn*: the code between two awaits, timers or promise
callbacks. Whatever a turn read before an `await` may be stale after it, and
that is what the models are about.

## 1. Inventory

| Component | State | Operations | What is hard | What makes it correct |
|---|---|---|---|---|
| Async subagents (`src/tools/subagent`) | handle table, statuses, abort signals, timers, completion listeners; heap, worker count, pool size, circuits per task type | dispatch, poll, await, cancel (cascading), cancelAll, gc, shutdown; drain, execute, resize | results later than cancellation or timeout; two components with a table of legal moves between them; a counter lowered in a later turn | a settled handle is final; slots are counted; nobody waits for something settled; every handle settles |
| Worker pool (`graph/worker-pool.ts`) | task heap, worker states, wake-up resolvers, draining flag | submit, drain, worker loop, timeout, autoscale, remove | lost wake-ups, drain racing a timeout, executors that outlive their timeout | no task waits next to an idle worker; drain resolves only when all is over |
| Graph executor (`graph-executor.ts`, `incremental-ready-tracker.ts`, `async-channel.ts`, `token-budget-controller.ts`) | dependency counters, results, budget, event channel | stream, tracker callback, emitError, emitCompletion | callbacks after termination, double readiness | a node starts after its dependencies, once; the stream ends |
| Fork and consensus (`fork-coordinator.ts`, `adapters/consensus`) | results and errors by completion, timer; debate | complete, fail, timeout, evaluate | the timer racing the last report | one decision, from what was there |
| Graph building (`agent-graph.ts`, `dynamic-agent-graph.ts`) | nodes, edges | builder calls, build; addNode, removeNode, addEdge, removeEdge | cycles closed one edge at a time | the graph stays acyclic and whole |
| Workflow engine (`adapters/workflow`) | step registry, completed steps, attempts, rollback list | execute with every kind of step; rollback | branches that go on beside later steps and beside the rollback | what took effect is undone, in reverse order |
| Planning (`domain/plan.schema.ts`, `tools/planning`) | `plan.json`, `todos.json` | create, update, add, remove, set_result, todos; conversion to a graph | read-modify-write across awaits, torn files | ids stay apart, the graph keeps the order of the plan |
| Shared context (`graph/shared-context.ts`) | versions (memory), values (files) | set, get, delete, getVersioned, setVersioned, merge | version moved before the value is written | one winner per version |
| Supervisor (`graph/agent-supervisor.ts`) | child status, restart history, heartbeats | start, handleChildCrash, strategies, shutdown | awaits inside restarts, shutdown in between | running children are watched; stopped ones get their turn |
| Resilience and tool pipeline (`adapters/resilience`, `agent/tool-manager.ts`, `agent/approval-manager.ts`) | circuit, tokens and waiters, cache; wrappings of a tool | execute, acquire, get/set; wrap, call | late outcomes, the half-open probe, wrappings that pile up | a quiet timeout before a probe; recovery; fresh answers |
| Agent runs, plugins, lifecycle (`agent/*`, `plugins/plugin-manager.ts`) | phases of runs, shared initialisation, subscriptions | run, stream, initialize, dispose, shutdown | dispose during initialisation, failed attempts rolled back while retried | nothing survives dispose; every run ends |
| Tool composition (`adapters/tool-composition`) | fallbacks, pipes, middlewares | withFallback, pipe, withMiddleware, build | the order in which they capture each other | a tool runs the tools it should, hooks once |
| A2A (`plugins/a2a*.ts`) | tasks, completion stamps, webhooks, streams | send, subscribe, cancel, evict; hooks; HTTP handler; remote calls | hooks that change tasks of another call; lost answers, streams cut anywhere | ends are reported; both ends agree |
| MCP (`adapters/mcp*`, `server`, `plugins/mcp-server.plugin.ts`) | sessions, links; adapter, stdin buffer, listener | connect, initialise, call, delete, restart; start, stop, lines | lost answers, restarts, overlapping starts | a call runs at most once; one server answers |
| REST server (`src/rest`) | connections, agents per request | listen, route, run, stream, graph, close | disconnects, failures after the head was sent, a close that waits for connections only | one answer for whoever still waits, agent disposed of |
| Streaming and event bus (`streaming`, `agent/event-bus.ts`) | buffers, delta encoder, bubbling window | emit, read, drop, buffer | back-pressure against deltas | events in order; nothing unannounced is missing |
| Observers (`observability`, `evals`, `guardrails` plugins, cost tracker) | spans, stacks, run states, costs | hooks of runs and tool calls | overlapping runs of one session; calls of tools that were wrapped again and again | records tell what happened |
| Memory (`adapters/memory`, `deno`, `browser`) | files, Maps, databases | store, recall, clear; checkpoints | chains of locks, torn writes, crash, files that cannot be read; delete beside save | what was stored is kept; the latest checkpoint too |
| Filesystems (`adapters/filesystem`, `deno`, `browser`) | Map of entries, trees | write, read, delete, list, glob, sync | four ideas of a path; a walk under changes | adapters agree; sync reaches the disk |
| Knowledge and chunking (`plugins/vectorless.plugin.ts`, `adapters/chunking`) | knowledge, chunks | ingest, generate, query, dispose | merges across awaits | nothing learnt is lost; chunks cover the text |
| Context (`src/context`) | messages | offload, summarise, truncate | off by one between summary and rest | a conversation without gaps |
| CLI (`src/cli`) | files, git index, prompts; session, clients, `~/.gaussflowrc` | tools that ask; REPL commands | parallel questions; git commands that fail; several processes on one file, saves that fail | one question at a time; the session says what is so |
| Others: builder, runtimes, templates, schemas, learning, testing, marketplace | | | no shared state, or plain reads and writes | not modelled |

## 2. Modules

### The core

Definitions keep the names of the functions they translate; `PROJECT.json` maps
each to its lines.

| Module | Models | Uses | Proofs |
|---|---|---|---|
| `SubagentRegistry` | `tools/subagent/subagent-registry.ts`: the handle table | | |
| `SubagentScheduler` | `subagent-scheduler.ts` driving the registry | extends `SubagentRegistry`, refines `BoundedPool` | `SubagentProofs` |
| `WorkerPool` | `graph/worker-pool.ts`, `priority-queue.ts` | refines `BoundedPool` | `OrchestrationProofs` |
| `BoundedPool` | abstract: jobs are served at most once, within a size, in front of a busy pool | | |
| `GraphExecutor` | `graph/graph-executor.ts` with tracker, channel, budget | extends `WorkerPool` | `OrchestrationProofs` |
| `Workflow` | `adapters/workflow/default-workflow.engine.ts` | refines `Saga` | `OrchestrationProofs` |
| `Saga` | abstract: done in turn; undone when it fails, the last one first | | |
| `SharedContext` | `graph/shared-context.ts`: one key, its file and version | | `AdapterProofs` |
| `AgentSupervisor` | `graph/agent-supervisor.ts` | | `CoordinationProofs` |
| `CircuitBreaker` | `adapters/resilience/circuit-breaker.ts` | | `ResilienceProofs` |
| `ToolPipeline` | `agent/tool-manager.ts`, `approval-manager.ts`, `tool-cache.ts` | instantiates `CircuitBreaker` | `ResilienceProofs` |
| `RateLimiter` | `adapters/resilience/rate-limiter.ts` | | |
| `AgentRuns` | `agent/execution-engine.ts`, `deep-agent.ts`, `lifecycle.ts`, `plugins/plugin-manager.ts` | instantiates `RateLimiter` | at its end |
| `A2ATasks` | `plugins/a2a.plugin.ts`, `a2a-handler.ts`: the task table | | `ProtocolProofs` |

### What agents plan with and talk through

| Module | Models | Proofs |
|---|---|---|
| `PlanSchema` | `domain/plan.schema.ts`, `plan-to-graph.ts` and the `AgentGraphBuilder`, as functions of a plan | |
| `PlanTools` | the planning tools on `plan.json` and `todos.json`, through an atomic or a truncating filesystem, with a crash; extends `PlanSchema` | |
| `DynamicGraph` | `graph/dynamic-agent-graph.ts` | `OrchestrationProofs` |
| `ForkRun` | a fork node: its agents, `ForkCoordinator`, the consensus adapters | `CoordinationProofs` |
| `ToolComposition` | `adapters/tool-composition`: what `build()` makes of calls in any order, and what the tool then calls | |
| `Knowledge` | `plugins/vectorless.plugin.ts` and the four chunking strategies | `ResilienceProofs` |
| `Conversation` | `src/context`: offloading, rolling summary, truncation | `ResilienceProofs` |
| `CliTools` | the tools of `cli/tools.ts` that ask, with both ways of asking, and git | `CoordinationProofs` |
| `Repl` | `cli/repl.ts`, `cli/config.ts`, the MCP clients a session opens | `CoordinationProofs` |

### What surrounds the agents

| Module | Models | Proofs |
|---|---|---|
| `FileSystems` | four filesystem adapters on the same calls, and the sync to disk | `AdapterProofs` |
| `FileMemory` | `file-memory.adapter.ts` with its chains of locks, torn writes and restarts | at its end |
| `SessionStore` | checkpoints in the in-memory, IndexedDB, Deno KV and Supabase adapters | `AdapterProofs` |
| `EventStream` | `createEventStream()` with bubbling, delta encoding and both back-pressure strategies | `AdapterProofs` |
| `A2APush` | webhook subscriptions to a task | `AdapterProofs` |
| `A2AWire` | an A2A client and the HTTP handler, event streams in pieces, lost answers | `ProtocolProofs` |
| `McpLink` | the streamable HTTP client and session handler, with restarts | `ProtocolProofs` |
| `McpHost` | `mcp:start-server`, `mcp:stop-server` and the stdio or SSE server they make | `ProtocolProofs` |
| `RestServer` | `src/rest`: requests, agents, streams, close | `AdapterProofs` |
| `Observers` | observability, evals, guardrails and cost tracker under the plugin manager's walk, registered in any order | `AdapterProofs` |

### Instances

`MC` modules hold the small instances of TLC. `MCSubagents` only gives constants
values. `MCOrchestration`, `MCCoordination`, `MCResilience`, `MCProtocols`,
`MCAdapters` and `MCPlanning` extend one system and instantiate others beside it:
a variable `part` picks the system that moves, for good, at the beginning, and the
others stay in their initial state (fixed to one where there are several). Each of
them declares the constants of the systems it holds with the assumptions about
them, the `.cfg` files give the values, and the module with the proofs extends the
`MC` module, so that a theorem is about the very instance the runs look at, for
every value of its constants. Systems that do not meet in the code thus share a
run without multiplying its states. The systems that do meet are composed in their
modules: scheduler and registry, executor and pool, pipeline and breaker, runs and
limiter, tools and graph, session and clients. `MCCoordination` holds what waits
for one another: the supervisor, a fork, the tools that ask, the sessions.
`AgentRuns`, and `SharedContext` for its violated run, need no `MC` module.

Conventions. A promise that is awaited is a place in a process's control state
(`step`, `exec`, `at`, `phase`, `stage`, `walk`, `pc`). A rejected promise is a
disjunct or an action of its own. A timer is an action that may fire whenever it
is armed; where ages matter (breaker, limiter, cache, A2A eviction) time
advances by `Tick`. What only history knows is marked as history where it is
declared and read by no guard. Operators whose comment begins with "Variant"
are plausible slips in the code; `PROJECT.json` names the runs that put them in
the place of the operator they precede, and each property is violated by one of
them.

### Correspondence of state and code

- **Subagents.** `status`, `aborted`, `timer` are fields of the handles in the
  `handles` Map; `awaiting` is `completionListeners` turned around. `Transition`
  is `transition()`, which silently ignores pairs outside `ValidTransitions`.
  `Dispatch`, `Cancel` (with its cascade), `Shutdown`, `Gc`, `Timeout`,
  `WaitForCompletion` are the registry's calls; `Drain` is the loop of `drain()`
  that `enqueue()`, `.finally()` and the interval timer run, `Generate...` the
  ways an `agent.generate()` settles, `WorkerFreed` the `.finally()` a turn
  later. `Resized` is `maybeResize()`, `OnDequeue`/`Record...` the circuits per
  task type. Open: the order of the heap (any queued handle may be next) and
  time (timers fire at any time; `CoolDown` is the reset timeout passing).
- **Worker pool.** `task` is the promise of each `submit()`, `executing` the
  executors that have not settled (a timed-out one goes on), `worker`,
  `current`, `parked`, `rested` the slots with `wakeResolve` and idle time.
  `Loop` is one pass of `workerLoop()` from the settling of a task to the next
  await. Timers fire only when no woken worker waits for its microtask.
- **Graph executor.** The tasks of the pool are the nodes. `pendingDeps` is the
  tracker, `handled` the `.then()` of each `submit()`, `terminated` the closed
  channel, `consumer` the generator with its `finally`.
- **Fork.** `results` and `errors` are the coordinator's Maps in the order of
  completion, `outcome` its promise, `taken` what it had when it settled;
  `Judge`, `Debate` and their failures are the awaits of the consensus.
- **Workflow.** `at` is the step of the definition `execute()` is at, `doing` the
  one it runs there, `run` and `attempt` the `executeWithRetry()` of each step,
  nested ones included, and `outcome` how the promise it awaits settled.
  `completed` and `skipped` are the lists of that name; a step whose id is among
  the skipped is not counted as completed. `registry` is the Map of what can be
  rolled back, each key with the place it was first set at, since `Map.set()`
  keeps the place of a key that is there. The rollback goes through the completed
  steps and what else is registered in reverse, so nested steps are undone before
  the first step of the definition is. `applied` is the effect a step has on the
  world. An attempt that fails is taken to have had none (what a retry repeats of
  a half-taken effect is the step's business, not the engine's); one that the
  deadline left running may still come to its effect.
- **Planning.** `file` is what is on disk (parsed, missing, empty or spoilt),
  `call` what each tool call has read and is about to write. With `atomic` the
  write is one turn (`VirtualFilesystem`), without it a truncation and a fill
  (`LocalFilesystem`), and the process may die in between.
- **Shared context.** `step` is where an operation is suspended at the
  filesystem; `version` moves where the code moves it: before the write in
  `setVersioned()`, after it in `set()` and `delete()`. A stored value is the
  set of writers it stems from.
- **Supervisor.** A walk is one `await` chain through an interval of children:
  `start()`, and each restart. `Report` is `handleChildCrash()`, with intensity,
  strategy and escalation; `Ping`/`Pong`/`PingFails` the heartbeat.
- **Breaker.** `Updated` is `updateState()`, `Execute`, `Succeed`, `Fail` the
  three parts of `execute()`, `GetState` and `Reset` the calls of others.
- **Tool pipeline.** `layer` is the wrapping a call is in, `value` what it
  carries outwards, `cache` the Map of the cache in its order (`Others` are the
  entries of other keys, since the Map holds a key once). `Descend`, `Leave` are the
  ways in and out through hooks, cache, breaker and gate.
- **Agent runs.** `phase` is where a `run()` or `stream()` waits, `initPhase`
  and `initAt` the shared `initPromise`, `handlers` the subscriptions on the
  bus, `closer`/`walkAt` each `dispose()`. `Limiter!Acquire`, `TimerFires`,
  `Reset` are the limiter's turns.
- **A2A.** `status`, `created`, `stamp` are `tasks`, `createdAt` and
  `completionTimestamps`; `stage` is each call's agent run. `Hook` is what the
  plugin's `beforeRun`/`afterRun`/`onError` do to the task of *the metadata*,
  `Record` the result handler; `EvictedFor` the eviction `queueTask()` runs.
  On the wire, a stream is a sequence of tokens (lines and line ends) that
  arrive in pieces; `position` is how much has arrived, `buffer` the rest of a
  line. `A2APush` follows one id of the table through its statuses;
  `subscriptions` is its Map as a set of records, each with a number of its own
  and the number of events before it, and `posts`, which is history, every fetch
  that was made.
- **MCP.** `sessions` is the server's Set, `link` what the client believes,
  `phase` which request of a call is on its way; `Restart` empties the Set.
  `stdio` are the adapters with a listener on stdin, `http` those with a port;
  a line of stdin comes in two pieces.
- **Filesystems.** `virt` is the Map in its order, `tree` what the other adapter
  keeps; a call is made of both in one step, as a test that swaps one for the
  other would, and `agreed` is lowered where they are known to answer
  differently (section 4). `sync` is the walk of `syncToPersistent()`; a deletion
  under it moves its cursor back by what it removes before it, as a Map does
  (`Left` is what is left of the first entries, one more at a time). A path is a
  sequence of segments, and `Normalized` the walk of `normalizePath()` along it.
- **Memory.** `fileLocks` is the last promise of each file's chain, a call's
  place says whether it waits, has read, has truncated. `LoadFails` is the `catch`
  of `loadFile()` on a file that is there; `hurt`, which is history, holds the files
  it then rewrites and those that a write has torn. In `SessionStore` the
  checkpoints of a session are a set, and each carries the timestamp, the step
  index and the number it was saved with, since the adapters order by different
  ones; `sessionOrder` is the Map of sessions, as the set of those behind each,
  and `since`, which is history, the sessions that saved something since a
  session last did.
- **Streams.** `waiting` is a pending `pull`, `queue` the chunk in the stream's
  own queue, `kept` the handler's buffer, `lastSeen` the delta encoder's Map,
  `client` what the reader has put together.
- **Observers.** `at` and `pos` say in which hook of which plugin each run or
  call is; `spans`, `roots`, `active`, `stack` are the plugin's fields, `states`
  and `results` those of evals. Ids are given out in order, so the `Map` of spans
  is a function of them (its first key is the least), and the array of root spans
  each stack are sets of them (the top of a stack is the greatest). `order` is
  any of the `Orders` in which `register()` may have taken the plugins. A run
  wraps the tools that it shares (`Users`) once more: `wraps` is, for each tool,
  the sessions of the runs that wrapped it, the innermost first. The hooks of each
  wrapping are one call in the model, in its `layer`: the call of a wrapped tool
  makes a call of what was wrapped, which is filed `under` the session of the run
  that had wrapped it; `origin` is the one the model made. Agents that share a tool
  are taken to have the same plugins in the same order.
- **REST.** `stage` is the `await` a handler is in, `ended` says whether
  `res.end()` was called. `left` are the requests whose connection was closed
  before the answer; nobody tells the handler, which goes on. `close()` waits
  until every connection was answered or left (`Quiet`), as `http` does, and not
  for handlers. A stage `hangs` is left without an answer (section 4).
- **Command line.** `head`, `index`, `work` are git's three trees, `born` says
  that there is a commit, `lock` is the chain of `confirmAction()`. `names` is
  what the names that `git diff` prints, which begin at the root of the
  repository, name to `git add`, which takes them from the directory of the
  session. Files, `git add`, `git commit` and the resets may fail where the code
  calls them (`failed`). In `Repl`, `rc` is the file, `saving` what each process
  is about to write to it, `at` the await a session is in; in which order clients
  are connected and closed is left open. `LoadConfig` is the set of what
  `loadConfig()` may return, since a file that cannot be read is empty to it;
  `WriteFails` is a save that throws, with the file emptied or not. `clash`, which
  is history, remembers the saves that overlapped, were cut short or began from a
  file that was not read. `Others` is the `filter()` of `config.ts` on a list that
  holds a server once.

## 3. Runs

| Run | Instance | What it shows |
|---|---|---|
| `Subagents` | a handle, its child and grandchild, two task types, two workers (up to three), two waiters | slots balance (`SlotAccounting`), nobody sleeps through a completion (`NoLostWakeup`), refinement of `BoundedPool` (`ServedAtMostOnce`), cancellation cascades (`CancelCascades`), every queued handle settles or is one of the refused ones below (`HandleSettles`) |
| `Resilience` | three calls around one breaker (threshold 3, reset after 2 ticks, window of 4); two calls of a tool wrapped by one or two runs, cache of one entry; a conversation of five messages; documents of up to four words and three knowledge calls | no probe before a quiet timeout (`QuietBeforeProbe`), the breaker recovers (`Recovers`); the pipeline uses it as `CircuitBreaker` says and cached answers are fresh (`GuardsHold`); `CallsAreAnswered`; the model reads a conversation without gaps (`ConversationIsWhole`); chunks cover their documents and nothing learnt is lost (`RetrievalIsWhole`) |
| `PoolTasks` | four tasks of two priorities, one to two of three slots | a resolved `drain()` leaves nothing pending (`DrainedMeansSettled`); every task settles, although executors may hang, unless a `drain()` timed out (`EveryTaskSettles`) |
| `Orchestration` | four nodes with a join on two workers, budget 4; five workflows of parallel, loop and conditional steps, three attempts, a deadline or none; a graph of four nodes that is changed | `DependenciesFirst`; a live run always has work or a continuation (`NeverStalls`); `stream()` returns (`RunReturns`); a workflow refines `Saga` (`KeepsTheSaga`), leaves no effect it could undo (`NothingIsForgotten`) and ends (`WorkflowEnds`); no changes close a cycle, and no edge is refused that would not (`StaysSound`) |
| `AgentRuns` | a run and a stream, two `dispose()` calls, two plugins, two model calls, one token | what `dispose()` found finished stays disposed (`DisposedForGood`), waiters have a timer (`WaitersAreServed`), every run ends (`RunsEnd`) |
| `Coordination` | two children, all strategies, policies, escalations, two walks; a fork of three nodes with three rounds of debate; three tool calls on the command line, one of which may fail, at the root of a repository or below it; two sessions of the shell, whose reads and saves may fail | a running child is watched (`RunningIsWatched`) and children that were stopped get their turn (`StoppedGetsItsTurn`); a fork answers from what it had when it settled (`ForkAnswers`); questions come one by one (`ConfirmedOneByOne`); a session says what is so (`SessionIsTrue`) |
| `Protocols` | a send and a stream on a table of two with an older task; one A2A call or subscription of three events; two `connect()`, one call, two sessions; two callers of start and stop, two lines | the end of a run is in the table for its caller (`EndIsReported`) and calls end (`CallsEnd`); a refused request did nothing and a subscriber hears each event up to the end (`PeersAgree`); a call runs at most once and one server answers a line (`McpServes`) |
| `Adapters` | the shared context with three writers; a virtual filesystem beside each of three trees; three stores on a file that may be unreadable, two checkpoint deletions on two sessions; a stream of three events; four events of a task with two webhooks; two requests whose clients may leave; two runs of a session that share a tool, with two calls, side by side or one inside the other | `OneWinnerPerVersion`; adapters agree and sync covers (`FilesAgree`); memories and checkpoints are kept (`StoresKeep`); `ClientsAreTold`; `HandlersCleanUp`; `RecordsAreTrue` |
| `Planning` | two planning calls on a plan or todo list; composed tools | ids stay apart, progress agrees, and graphs built from plans keep the order of their steps (`PlanStaysWhole`); `ComposedToolsRunRight` |
| `SubagentRefused` | three siblings of one type, one worker | *violated*: section 4 |
| `ContextMergeLost` | two merges, three retries | *violated*: section 4 |
| `AgentDisposed` | one run, one `dispose()`, two plugins | *violated*: section 4 |

Every property is stated in a comment in the module it belongs to; those of
hosted systems are conjunctions of the named properties there
(`McpServes == Link!CallsRunOnce /\ Host!OneServerAnswers`).

**Bounds.** Two actors suffice for a race of two; a third is there where the
third makes the case: a late failure besides a probe and a refused call
(`Resilience`), a grandchild behind a settled child (`Subagents`), a compare
that expects what two others moved (`Adapters`), a chain of three locks whose
middle one fails (`Adapters`), a join whose dependencies end in either order
beside an independent node (`Orchestration`), a third answer that is asked for
while one knowledge call is awaited and another merged (`Resilience`). The limits
are set to be reached: a queue of two for three handles, a table of two for
three ids, one token for two runs, one cache entry for two keys, a budget one
below what the nodes use, one delta entry for two types, a session Map of one
for two sessions, three spans for two runs and two calls, a history of three
for four lines. `PoolTasks` has a third slot identity so that growth can follow
shrinking. `Horizon` is three TTLs because an orphan is evicted after more than
two. The numbers of the breaker are ordered as in the defaults, where the window
is longer than the reset timeout. All texts of up to four words, with every kind
of gap, every strategy and every size up to three, are cut; with overlaps
of up to two words.

Names that begin with `Max` and are not options of the code (`MaxResets`,
`MaxRuns`, `MaxPings`, `MaxVersion`, `MaxEvents`, `MaxSaid`, ...), `Walks` and
`Horizon` are bounds of the model. Beside them the `MC` modules keep their
systems small, each time in the open, in `MCInit` and `MCNext`:

- `MCResilience`: the first call of the tool asks for the first key (the two
  are interchangeable); the first of the knowledge calls is `c1`'s and cuts any
  document, those that meet cut a small one.
- `MCAdapters`: the trees are followed until adapters disagree, with one file
  changed under a sync at a time; checkpoints carry free timestamps only where
  the adapter orders by them, free step indices only for Supabase;
  `Len(emitted) + 2 * Len(subscriptions) < 7` follows one webhook for four events
  or two for two; one walk over the hooks is under way at a time
  (`Observes`), guardrails are registered between the other two plugins, so that
  what they refuse has been seen by one and not by the other, all runs share the
  tools (`MCUsers`), spans are reset while the call of some run is under way, costs
  between runs, and costs are followed in runs that call no tools; the server's API key and
  its CORS option are set together.
- `MCCoordination`: the calls of tools, which differ in nothing but their names,
  start in order, and at most one of them fails; yolo and chat are told apart
  where something is asked (yolo in the REPL), a repository without a commit is
  looked at from its root, and the other directory is one where the file that is
  `p` to the session is `q` to git (`Directories`). A second session only saves a
  server; what is said, and what a session switches to, is followed with no server
  and no other process (`Plain`, `Sits`).
- `MCPlanning`: two calls edit the plans of three small shapes; the built-in
  example plan is edited by one call at a time; on `LocalFilesystem` a call reads
  a plan of version one; calls on the plan and on the todos do not mix (they
  share nothing).

Permutations of runs and of tool calls (`Adapters`) and of calls (`Planning`)
are interchangeable in their modules and in these constraints, and no liveness
is checked there, so symmetry is sound.

**Deadlock.** `Subagents` and `SubagentRefused` are checked for it. The others
stop for good when all calls are answered, the drain or the workflow is over or a
bound is reached, and say so.

**Fairness.** Weak fairness stands for two things only: the event loop runs what
is due (microtasks, promise callbacks, armed timers), and, where named here, the
outside answers. `Subagents`, `PoolTasks` and the graph of `Orchestration` do
*not* assume that an agent or an executor ever answers: their timers do the work;
an aborted `generate()` does throw. The graph assumes a consumer that pulls until
it leaves. A workflow assumes of the steps it awaits that they return, except,
where it has a deadline, of the branches of a parallel step, which the code then
races against a timer; it assumes nothing of branches it no longer waits for. The
breaker's part of `Resilience` assumes that time passes, that tools are called and
that operations succeed when they cannot fail any more; the premise of `Recovers`
is that at some point none fails. The tool's part, the tasks of `Protocols`,
`AgentRuns` and the supervisor of `Coordination` assume that hooks, models,
factories and tool bodies settle, one way or the other, since the code has no
timeout there. Nothing is assumed of users: no fairness on dispatch, cancel,
dispose, disconnect, reset or eviction. `Adapters` and `Planning` state safety
only, without fairness.


## 4. Findings

Disagreements of the code with what the repository says of it, each shown by a
run that TLC finds violated:

1. **A refused subagent is lost** (`SubagentRefused`). `drain()` "fails" a
   handle whose type's circuit is open, but the registry has no move from
   `queued` to `failed`; the handle has left the heap and stays queued, holding
   its place in both quotas. (`subagent-scheduler.ts:280`)
2. **Two successful merges keep one value** (`ContextMergeLost`).
   `setVersioned()` bumps the version before it writes, so a merge that starts
   in between pairs the new version with the old value.
   (`shared-context.ts:183`)
3. **`dispose()` during initialisation** (`AgentDisposed`). The plugins that
   are still to be set up subscribe to the bus after everything was detached.
   (`plugin-manager.ts:241`)

Observations made while modelling, without a run of their own; the models
behave as the code does, and a property that one of them concerns excepts it by
name.

*Resilience and tools.* `getState()` of the breaker raises
`halfOpenTestInProgress` (`circuit-breaker.ts:116`), so looking at a breaker can
use up its probe and leave it refusing calls until `reset()`; `Recovers` excepts
it. The threshold counts failures in a window, also with successes in between,
while `docs/docs/resilience.md:22` says "5 consecutive failures". Tools of the
builder and of plugins are wrapped again in every run, so one call passes the
breaker once per earlier run: the outer wrapping holds the probe and the inner
one is refused (`tool-manager.ts:284`). A denial by the approval gate is an
ordinary string and is cached like an answer. Of composed tools, chains of
fallbacks depend on the order of the `withFallback()` calls, fallbacks cannot
name pipes, and a hook that throws consults no `onError`.

*Graphs and forks.* After the budget or a node failed, the pool still starts
what is queued (`graph-executor.ts:188`). `build()` accepts a graph without
nodes, and `stream()` of it waits for its timer, since the deadlock check wants
`totalNodes > 0` (`graph-executor.ts:259`). A fork node with an agent that never
settles keeps the graph waiting although its coordinator timed out. An empty
synthesis in the first round of a debate counts as convergence. The catch around
a consensus that votes is never reached. Step cycles of a plan are found only by
`build()`; the builder hands its own Maps to the graph it built. `planToGraph`
throws when something depends on a step of a forked phase, as in
`createExamplePlan()`, and drops dependencies inside a fork; the example's
`ifTrueStepId` names a step that does not exist.

*Planning.* Concurrent planning calls lose updates. `plan_update_status` does
not look at `PLAN_STATUS_TRANSITIONS`; removing a step leaves others that
depend on it; updates of steps and phases are not validated; `set_result` does
not raise the version. A phase without steps counts as completed and breaks the
order between the phases around it.

*Workflows.* Loop bodies and branches are in the rollback list whether or not
they ran or completed (`default-workflow.engine.ts:198`, `240`); nested steps are
rolled back before all top-level ones, while `docs/docs/plugins/workflow.md:154`
says reverse order; a loop body that ran n times is rolled back once; the
rollback of a container step is never called. Losers of `race` and `first` go on
beside the rollback. Retries do not look at the deadline and share the context
they changed. `lastResult` of the plugin is shared by all calls.

*Subagents and supervisor.* A late success of any older call closes a half-open
circuit of its type (`subagent-scheduler.ts:340`). The watchdog cancels a handle
(`subagent-registry.ts:474`) that the comment at line 469 calls a timeout.
`shutdown()` of the supervisor does not stop walks, pings and fallbacks in
flight (`agent-supervisor.ts:166`); `restartAll()` and `restartRestForOne()`
restart temporary children too (line 259, against the comment at line 108).

*Agent runs.* `stream()` returns `this.withSpan(...)` without awaiting it, so a
failure of the model bypasses the `catch` with the `onError` hooks
(`execution-engine.ts:303`). An `afterRun` hook that throws does so after
`agent:stop` was emitted. Two concurrent `startup()` calls run the startup hook
twice, and `trackOperation()` has no caller. A plugin whose `setup()` throws
keeps the subscriptions it made before.

*A2A.* `tasks/cancel` does not stop the run, whose hooks may revive the task. A
subscriber refused for want of capacity is told "Task subscription completed"
with an error event. The streaming route does not look at the version or at
types. A subscriber that has heard an end never cancels the body, and delegated
calls have no timeout. Webhooks of successive events may arrive out of order; a
task that is evicted leaves its subscriptions to the next one with its id.

*MCP.* After a restart of the server a client stays "connected" with a session
that every call is refused for; `disconnect()` never deletes the session. Two
`mcp:start-server` calls that overlap leak the first adapter; an SSE server that
failed to listen is kept, and its `close()` rejects. Answers under way are
written after a stop.

*REST and streams.* With an API key, preflight requests are refused although the
comment in `server.ts` says CORS is for all routes; a body of `null` is answered
500; the run of a stream goes on when its client is gone; a second `listen()`
leaks the first server. `close()` waits for connections, not for handlers
(`server.ts:134`), so that `agent.shutdown()` may run beside the runs of clients
that left, and be over before they are. Two requests get no answer at all: one whose address
`new URL()` refuses, such as `//` (`server.ts:98`, outside of any `try`, so the
rejection is unhandled), and a stream with blank instructions, for which
`DeepAgent.auto()` throws once the head was sent (`handlers.ts:191`).
A stream's buffer is flushed only by the next event; the
delta encoder's memory moves on although the event was dropped; a `data` that
vanishes is not encoded. In the event bus a handler that throws keeps the event
from the handlers behind it, and bubbling overwrites `_source` at each level.

*Storage.* Adapters of the filesystem port differ in the `path` of `list()`, in
`maxDepth` without `recursive`, in deleting a zone's root (wiped by two, ignored
by two), in absolute paths, in paths that leave a zone by ".." and come back by
its name (`../persistent/a` is `persistent/a` of the Map, and `a` of a tree), in
names that begin with two dots and in writing below a file. A sync never removes
files from the disk and ends with the first rejection. A torn memory file is read
as empty, and so is one that cannot be read, for its rights or for want of
descriptors (`file-memory.adapter.ts:69`); the next `store()` rewrites it with one
entry. `clear()` takes no lock. `deleteOldCheckpoints(keep = 0)` keeps all in
memory; Supabase orders by step index and swallows errors when not strict; the Map
forgets whole sessions at 1000; nothing in `src/` deletes old checkpoints.

*Observers.* Concurrent runs of one session overwrite each other's root span and
run state; a tool call that fails or is refused leaves an open span on the
stack; a tool that earlier runs have wrapped has a span and is counted once for
every wrapping its call passes (`tool-manager.ts:284`); an answer refused by
guardrails behind the observers is recorded as good.

*Knowledge and context.* A `generate()` that ends late replaces what was ingested
meanwhile, and an `ingest` under way at `dispose()` fills the plugin again. A
failed import of the library is remembered until `dispose()`. The offsets of
chunks with repeated words are those of the first occurrence, although a comment
in the strategy speaks of accurate offsets. With `preserveRecentMessages` 0
nothing is left out of the list and a summary is added each time; summaries are
system messages, never truncated, and can crowd out the conversation. Nothing in
`src/` uses these two classes.

*Command line.* An edit writes the text that was computed before it was
confirmed; a created file overwrites one that came while the question waited; a
declined commit stages the files as they are now. In a repository without commits
it leaves all staged, since `git reset HEAD` throws (`tools.ts:302`); below the
root, what was staged is lost or other files are staged, since the names are the
root's and nobody looks at the status of `git add` (line 305). A commit that git
refuses leaves its files staged (line 312). Commits that overlap take each
other's files; the `confirm` of `chat` (`chat.ts:22`) has no lock. Empty answers
are put into the history as a prompt without an answer. A failing client at the
end of a session keeps the others open. `/mcp add` of a known id saves the new
configuration beside the old client. A settings file that does not parse, or that
cannot be read, is empty (`config.ts:38`), and the next save loses all keys; one
that fails after it emptied the file has lost them already, and `/mcp add` catches
that and the session goes on (`repl.ts:608`).

## 5. Proofs

TLAPS checks every theorem for all values of the constants that satisfy the named
assumptions: `RegistryAssumption`, `SchedulerAssumption`, `BreakerAssumption`,
`ContextAssumption`, `PoolAssumption`, `GraphAssumption`, `A2AAssumption`,
`SupervisorAssumption`, `AgentAssumption` in the modules that declare the
constants, and for the instantiated systems `FlowAssumption`, `GraphIsFinite`,
`ForkAssumption`, `CliAssumption`, `ReplAssumption`, `McpAssumption`,
`AdaptersAssumption`, `FilesAssumption`, `ResilienceAssumption` and
`KnowledgeAssumption` in the `MC` modules. They say that limits are natural
numbers (a cache holds at least one entry, a breaker needs at least one failure
and one tick, `maxSpans` is at least one, `deleteOldCheckpoints()` keeps at least
one), that messages and summaries have at least one token, that a document is a
sequence of words with the strategy and sizes the schema of `rag:ingest` lets
through, that the sets of tasks, workers, nodes, calls and ids are finite where
something is counted, that runs are no calls, that no path of a filesystem call
names the zone it is made in (section 4), that sentinels are not members of the
sets they mark, what the requests of tools and the definitions of workflows look
like (branches and loop bodies are plain steps; anything may be sequenced around
them), and that a pool's initial size is at most its maximum, which the code's
defaults have and nothing checks. TLC evaluates them in the runs.

The theorems of an instantiated system are about its own `Init` and `Next`,
without what `MCInit` and `MCNext` leave out.

- **`SubagentProofs`.** Inductive invariant `TypeOK /\ Consistent /\
  SlotAccounting /\ WorkConserving /\ NoLostWakeup`. `SlotAccounting` alone is
  not inductive: that `.finally()` finds a slot to give back needs `Consistent`,
  which ties a handle's status to its timer, its signal, its place in the queue
  and its `generate()` across the two components. From it follow type
  correctness, `SlotsCounted`, `RunningGuarded`, `WaitersAwaken`,
  `OnlyQueuedStarts`, `NoIdleWorker`; the action properties `SettledForever`
  and `CascadeLeavesNoChild`; and `ImplementsBoundedPool`, the refinement under
  `PhaseOf`: the initial state maps to `BoundedPool`'s, and each action moves
  handles forward only, within `MaxWorkers`, leaving handles pending only if
  `MinWorkers` are served. `DefaultPoolIsFixed`: with the default thresholds and
  at most five workers the pool's size never changes, because `maybeResize()`
  runs only after a slot was given back. Parents may be any function of the
  tasks here, so cascades of any shape are covered.
- **`OrchestrationProofs`.** *The pool*: inductive invariant `PoolTypeOK /\
  OneSlotPerTask /\ DrainedMeansSettled /\ DrainKills`: slots die together, when
  the drain is over, which is why no task can be pending after it.
  `OneSlotPerTask` (every running task is the current task of exactly one slot,
  also one that timed out) carries the timeouts. `NobodySleepsBehindQueue` is
  proved on top of it, and with `SizeBounded` the refinement
  `ImplementsBoundedPool`. *The graph* that runs on it: `RunInv` adds
  `DependenciesFirst`, `CountsPending` (a node's counter is the number of its
  dependencies whose end was not handled), `ReadyIsSubmitted` (a live run has
  submitted every node whose counter is zero), `ResultsAreHandled` and
  `NothingBeforeStart`. It gives `DependenciesFirst` for every graph
  (`DependenciesComeFirst`), and `NeverStalls` for every acyclic graph with nodes
  (`RunsNeverStall`): in a run that stalled, every node that was not submitted
  would wait for another one that was not, which `Acyclic` rules out. *The
  workflow engine*: `FlowInv`. That a failure has undone every effect
  (`NoStepIsForgotten`) is not inductive; what is, is that everything that took
  effect, *or may still do so*, is registered, with one exception, the plain
  step that is awaited, which is registered when it returns (`Registered`). Late
  branches of `race` and `first` satisfy it because branches are registered
  before they run. `ImplementsSaga` is the refinement of `Saga`: `done` is the
  undoable top-level steps that completed and were not yet rolled back, and
  `CompletedInTurn` makes the last of them the one the reverse walk comes to
  next. *The graph that is changed*: `ChangesInv` is the property but for what
  `wouldCreateCycle()` refuses. The search is a loop, so that first its run is
  shown to exist (`RunExists`) and to end: every turn takes from its weight, the
  stack and a full stack for each node not visited (`TurnFollows`,
  `SearchEnds`). What it visited is then closed under the edges without "from"
  in it (`NothingCloses`), so an edge that is added comes from outside of a set
  that holds its end and that no edge leaves, and closes no cycle (`EdgeKeeps`).
  And if it met "from", each of the nodes "to" leads to would have another of
  them before it once the edge was there (`RefusedRightly`).
- **`CoordinationProofs`.** *The supervisor*: inductive invariant `TypeOK /\
  RestartingIsAwaited /\ RunningIsWatched /\ OneFactoryPerChild /\
  MarkedWhileAwaited`: under one-for-one a child that is awaited is marked
  restarting, which is what the guard of `handleChildCrash()` looks at. *Forks*:
  `ForkInv` says that the coordinator heard of each node what happened to it, once
  (`Reports`), and settled on exactly that (`Settled`); `ForksAnswer` follows with
  what each consensus may answer. The proof corrected the property: a debate of
  three rounds whose synthesis is empty and whose next call fails answers with the
  first result, not with what the model said last. *The tools that ask*: `CliInv`.
  The promises of the chain of questions are put in one row (`InTurn`: a rank for
  each call, those up to some rank answered, the next one being asked), whatever
  the order in which the calls came; that a call which met no other finds files
  and index as it saw them (`Undisturbed`) needs that a call starting marks all
  those that are pending. `AskedForOneByOne` then says of such a call what it
  leaves behind on every path (`AsAsked`): told to or not, done or failed, in a
  repository with or without commits, at its root or below. *The sessions*:
  `SessionInv`. `SessionIsTrue` speaks of what is on disk and of whole histories;
  inductive is that a save holds all keys the file does while nobody else saves,
  none failed half-way and none began from a file it could not read
  (`FileIsKept`), that a process saves exactly where it waits for a save and
  closes what it has open (`Seated`), and that the history, without a prompt that
  was not answered, is the end of what was said and either all of it or at its
  bound (`HistoryFollows`, on `Ends`, which is `IsSuffix` place by place).
- **`AdapterProofs`.** *The shared context*: inductive invariant `TypeOK /\
  VersionCountsMoves /\ MovesOnce /\ RetriesSeeProgress`. The version equals the
  number of operations that moved it, each of which did so once; hence two of them
  never replaced the same version (`WinnersAreUnique`), and the attempt count of a
  merge never exceeds the version it expects, so a merge that gave up has seen
  more than `MaxRetries` others move it (`MergeFailsOnlyContended`). *The REST
  server*: `RestInv`, which looks at each request alone, since requests share
  nothing but the server's state: a request has its answer exactly when its
  handler has nothing left but to dispose of its agent (`AnswersOnce`), whether
  its client is there or not, a stream's end is its last event, and the server's
  agent goes when every request was answered or left (`ClosesLast`). *The stores
  of sessions*: `SessionInv`. `LatestIsKept` is not inductive, because calls that
  listed old checkpoints go on deleting while others save; what is, is that the
  store has one checkpoint as late as any that was saved, the last one in the
  order loads go by, which no call under way has on its list (`TopIsKept`). For
  the Map it takes that the sessions behind one in its order are among those that
  saved since (`OfMap`), or the history could remember what the Map evicted. The
  least-element argument for `DeleteListed` uses the well-founded order of the
  natural numbers. *The observing plugins*: `ObserverInv`, of five parts. The walk
  (`WalkInv`): a call is under way only while the model of its run is asked; of
  the calls that one call of the model makes, those outside wait for those inside
  and fail if one of them did (`Nested`); and whoever met nobody has nobody beside
  it but those. The evaluations (`EvalInv`): while a run that met no other is
  watched, its session's state is the run's own and counts the calls filed under
  it that have passed the plugin, each wrapping once. The spans (`SpanInv`): above
  the span of a call that may still return lie just the spans of the calls inside
  it that may (`Within`); so when it returns, it is on top. That is not inductive
  with the spans which failed calls leave on the stack, since `onToolEnd()` pops
  for whoever returns; what is, is that above a span left behind there are at
  least as many others as calls that may still return (`Told`), which a call no
  longer is once one inside it has failed (`MayReturn`). The roots (`RootInv`) and
  the costs (`CostInv`) stand alone. It gives `RecordsStayTrue` for every order of
  the plugins, any number of wrappings and any sharing of the tools among
  sessions. *The stream of events*: `StreamInv`. The chunks that are on their way,
  in the stream's queue or the handler's buffer, are in the order of their ids
  (`InOrder`), the delta encoder remembers of each type the last event there was
  (`Remembered`), and the client, once it has read what is on its way, knows that
  event (`After`). The last holds across a chunk that only carries what changed
  because a spread of the changes over what the encoder remembers is the event
  again. *The webhooks*: `PushInv`, a count for every subscription and every
  event: none before it subscribed and none of an event it did not ask for, one of
  every other. Together they give `TheyAreTold`. *The filesystems*: `FilesInv`.
  While every call was taken by both, the Map and the tree are `Alike`: they have
  the same locations with the same contents, and, which `AdaptersAgree` does not
  say, every prefix of a location is a directory of the tree, so that a walk down
  the tree reaches what a search through keys finds. The keys of the Map stay
  distinct through `set()` and `delete()` (`Maps`), and the entries before the
  cursor of a sync are on disk unless they changed (`Covers`). What the recursive
  functions along a path, along the parents of a location and along the entries of
  the Map compute is shown step by step (`TreePathIs`, `ParentsIs`, `LeftRemains`,
  `LeftBegins`). It gives `FilesDoAgree`, for all three trees, any names, contents
  and calls.
- **`ResilienceProofs`.** *The breaker*: `TypeCorrect`, then three properties
  inductive relative to it: `HalfOpenHasAProbe`, `TimeoutIsQuiet`, `OneProbe`.
  `UpdatedCases` sums up what `updateState()` may return. *The pipeline*:
  `ToolsAreGuarded`. That each wrapping of each call is a client of
  `CircuitBreaker` is a refinement; `EnteredOnce` says which wrappings are
  waiting for an outcome of the breaker, namely those around the layer the call
  is in, and every step of the pipeline is then a step of `CircuitBreaker` or
  leaves it alone. Freshness needs that what is stored is no older than its entry
  (`KeptFresh`), which holds while one run has wrapped the tool, since an outer
  wrapping stores again what an inner one answered from the cache. *The
  conversation*: `TalkInv`. The messages in the list carry consecutive numbers
  that end with the last one said, and exactly those before them were summed up or
  left out; a summary takes some from the front, and truncation leaves an end of
  the list. That its loop stops somewhere (`LoopStops`), and that the newest
  messages count the same in the shorter list (`NewestTokens`), takes the
  least-element argument below; that nothing fits where no token is left, that
  each message has at least its own four. It gives `ConversationStaysWhole`. *The
  documents*: every strategy makes a `Row`, ranges that follow each other from the
  first word to the last, or, for the sliding window, `Tiles` that repeat what was
  asked for. Rows join (`RowJoin`) and lose their last range (`RowFront`), which is
  all the shared loop does with them (`PackedIsGood`), whatever it was given for the
  parts that are too large; so sentences rest on words, paragraphs on sentences,
  and every separator on those behind it (`ChunkedByFits`). A chunk is found where
  it was cut because the search begins no further than its first word
  (`LocatedIs`). *The knowledge*: `KnowInv` says that whoever is in it has had its
  answer, so that nobody enters twice. Together they give `KnowledgeStaysWhole`,
  for texts of any length.
- **`ProtocolProofs`.** *The task table*: inductive invariant `TypeOK /\
  WithinCapacity /\ StampsFollowTasks /\ EndIsReported /\ RunsAreFollowed`.
  `RunsAreFollowed` is what makes the end of a run reportable: its task is in the
  table unless it was evicted, and live as long as an open stream has heard
  nothing. `CancellationBeatsResults`: a result handler never turns a cancelled
  task into a completed one. *MCP*: `LinkInv` ties what a call has run to the
  phase and the answer under way, through restarts and lost answers; `HostInv`
  says that callers who do not overlap leave one adapter listening, and that a
  line is read once both of its halves have come, by one adapter that then
  answers it. Together they give `McpIsServed`. *The wire*: `WireInv`, for event
  streams of any length cut into any pieces: what the client has heard is the
  events whose five tokens have arrived (`Whole`), and its buffer is a piece of
  the stream (`Cut`) that begins where a line begins (`LineStart`) and has no
  line end in it. From it follows `PeersDoAgree`.
- **`AgentRuns`.** `QueueInv`, over the limiter that `AgentRuns` instantiates:
  those who wait are exactly those in the queue, a queue that is not empty is
  scheduled, and what is scheduled has a timer, which a tick brings nearer and
  `reset()` leaves behind; hence `WaitersAreServed`. `DisposalInv`: only one
  `dispose()` walks over the plugins, and if it met no initialisation none
  starts later, since `initialize()` looks at `disposed` in the turn in which it
  starts; the plugins still set up are those the walk has not reached; hence
  `DisposedForGood`.
- **`FileMemory`.** Inductive invariant `MemoryInv`: the calls of a file stand in
  one line (`InLine`), and what a call is about to write holds what was stored
  before it, unless the file could not be read (`Carried`). That the last promise
  of the chain may be forgotten when its call ends needs that nobody is still
  behind it (`LastIsAlone`): others would each wait for another of them, which
  `NoCircle` excludes, as it does for any number of calls. With `SessionInv` it
  gives `WhatIsStoredStays`.

A fact about a recursive function, at every place of its domain, is proved by
looking at the least place where it fails (`Least` and `Upwards`, from the
well-founded order of the natural numbers; `Recursion` says that the function
exists), since the induction theorems of the library cannot be applied here. This
needs recursive functions instead of `RECURSIVE` operators, which take the SMT
solver away from every module that reaches them.

Some of these are checked by no run any more because they are proved, such as
`OneProbe`, `OneFactoryAtATime`, `TableIsBounded` and the type invariants.

**Only model-checked**, and why:

- All liveness (`HandleSettles`, `Recovers`, `CallsAreAnswered`,
  `EveryTaskSettles`, `RunReturns`, `WorkflowEnds`, `StoppedGetsItsTurn`,
  `CallsEnd`, `RunsEnd`): fairness and `ENABLED` are out of the prover's reach.
- `PlanStaysWhole` and `ComposedToolsRunRight`, the properties of `Planning`:
  plans, the graphs made from them and composed tools are walked by `RECURSIVE`
  operators, and `MCPlanning` reaches them.

## 6. What is not modelled

`PROJECT.json` lists every component with its status and reason.

- *Components:* the builder and configuration (run before anything starts), the
  platform runtimes and entry points (re-exports and stateless wrappers),
  templates and prompts (text), learning, hot reload and marketplace (Maps and
  downloads), testing utilities, schemas, ports, types and errors.
- *In the modelled ones:* payloads, wording, logging, metrics and events nobody
  in the model listens to; token accounting of a run; the aging order of the
  subagents' heap and the exact ages behind its timers; watchers, scopes and the
  key list of the shared context; checkpoints of the graph executor; a
  supervisor's parent, which is another instance; the contents of a workflow's
  context; the choice among agents in a delegation; cache invalidation; the
  `gitBranch` tool and the one-shot commands; namespaces of the event bus; the
  WebSocket and JSON streams; todos and conversations of the session stores
  beyond that they use a session.

## 7. What could follow

1. The graph executor with fork nodes inside, now that `ForkRun` models one
   alone, and its checkpoints with `SessionStore` behind them.
2. The planning tools on `FileSystems` and the agents' memories on `FileMemory`
   inside `AgentRuns`, which are composed through ports here.
3. Theorems for the systems of `Planning`: their recursive helpers would be
   rewritten as recursive functions first, as those of `DynamicGraph`,
   `Conversation` and `Knowledge` are.
