------------------------------ MODULE MCAdapters ------------------------------
(* Small instances for TLC: the shared context, and beside it, never       *)
(* together, what the agents are surrounded by: the stores of files, of    *)
(* memories and of sessions, the stream of events, the webhooks of a task, *)
(* the plugins that watch and the REST server.                             *)
EXTENDS SharedContext, Sequences, TLC

CONSTANTS
  w1, w2, w3, w4, a, b, h, c1, c2, r1, r2, d1, d2, None, Undefined,
  FileNames, DotDotNames, HiddenNames, FileContents, FileCalls,   \* of the filesystems
  StoreCalls, StoreFiles, Entries,                       \* of the store of memories
  CleaningCalls, StoredSessions, MaxSessions, MaxCheckpoints, RunSteps, Keeps,   \* of sessions
  Requests, MaxTokens,                                   \* of the REST server
  EventTypes, EventTimes, EventData, Children, MaxBubbles, BufferSize, MaxEntries, MaxChunks,   \* of the stream
  Webhooks, MaxTold, MaxWebhooks,                        \* of the notifier
  ObservedRuns, ObservedCalls, ObservedSessions, ObservedTools, ObservedUsers, MaxSpans, Budget, UsedTokens   \* of the observers

ASSUME AdaptersAssumption ==
  /\ None \notin StoreCalls
  /\ IsFiniteSet(StoredSessions) /\ MaxSessions \in Nat /\ MaxCheckpoints \in Nat
  /\ RunSteps \subseteq Nat /\ Keeps \subseteq Nat \ {0}
  /\ IsFiniteSet(ObservedCalls) /\ ObservedRuns \cap ObservedCalls = {}
  /\ BufferSize \in Nat /\ MaxEntries \in Nat \ {0} /\ MaxWebhooks \in Nat
  /\ MaxSpans \in Nat \ {0} /\ Budget \in Nat /\ UsedTokens \subseteq Int

VARIABLES part,
  kind, virt, tree, agreed, sync, disk,
  memory, fileLocks, store, clearing, stored, hurt,
  adapter, checkpoints, others, sessionOrder, call, checkpointsMade, saved, since,
  mode, strategy, open, bubbles, id, lastSeen, queue, kept, waiting, client, latest, dropped,
  options, server, request, left, stage, status, ended, agent, events,
  known, subscriptions, emitted, posts,
  order, session, tool, runOf, origin, under, wraps, layer, at, pos, spans, roots, active, stack, ids, metrics,
  states, taken, results, cost, shared

MCSymmetry == Permutations({r1, r2}) \cup Permutations({d1, d2})

(* Spelled paths: a file below a directory, a hidden one reached through a *)
(* directory and back, a directory where a file may lie, and two that lead *)
(* out of the zone.                                                        *)
MCFileCalls ==
  {[do |-> "write", zone |-> "persistent", path |-> x] : x \in {<<a, b>>, <<b, "..", h>>, <<a>>}}
  \cup {[do |-> "delete", zone |-> "persistent", path |-> x] : x \in {<<a, ".">>, <<h>>, <<".">>}}
  \cup {[do |-> "write", zone |-> "transient", path |-> x] : x \in {<<"..", "persistent", a>>, <<"", a>>}}

Trees == INSTANCE FileSystems WITH Names <- FileNames, Hidden <- HiddenNames, Contents <- FileContents,
                                   Asked <- FileCalls
(* No call of a zone names that zone in its path: one that leaves the zone *)
(* by ".." and names it to come back is somewhere else in a tree.          *)
ASSUME FilesAssumption ==
  /\ \A asked \in FileCalls :
       /\ asked.zone \in {"transient", "persistent"} /\ asked.path \in Seq(FileNames \cup Trees!Idle \cup {Trees!Up})
       /\ \A i \in DOMAIN asked.path : asked.path[i] # asked.zone

Memories == INSTANCE FileMemory WITH Calls <- StoreCalls, Files <- StoreFiles,
                                     file <- memory, call <- store
Checkpoints == INSTANCE SessionStore WITH Calls <- CleaningCalls, Sessions <- StoredSessions, Steps <- RunSteps,
                                          kind <- adapter, made <- checkpointsMade

Stream == INSTANCE EventStream WITH Types <- EventTypes, Times <- EventTimes, Values <- EventData,
                                    MaxEvents <- MaxChunks, buffer <- kept, lost <- dropped
(* Webhooks that are told of everything and of ends, and two that are      *)
(* refused.                                                                *)
Webhook(url) == [url |-> url, https |-> TRUE, host |-> "peer", blocked |-> FALSE,
                 events |-> {"queued", "running", "completed", "failed", "cancelled"}]
MCWebhooks == {Webhook(a), [Webhook(b) EXCEPT !.https = FALSE, !.host = "localhost", !.events = {"completed", "failed"}],
             [Webhook(a) EXCEPT !.https = FALSE], [Webhook(b) EXCEPT !.blocked = TRUE]}
Push == INSTANCE A2APush WITH Configs <- Webhooks, MaxEvents <- MaxTold, MaxConfigs <- MaxWebhooks, status <- known
Rest == INSTANCE RestServer
(* All runs share the tools.                                               *)
MCUsers == [t \in ObservedTools |-> ObservedSessions]
Observing == INSTANCE Observers WITH
               Runs <- ObservedRuns, Calls <- ObservedCalls,
               Sessions <- ObservedSessions, Tools <- ObservedTools,
               Users <- ObservedUsers, Usages <- {-1} \cup UsedTokens

memVars == <<memory, fileLocks, store, clearing, stored, hurt>>
sesVars == <<adapter, checkpoints, others, sessionOrder, call, checkpointsMade, saved, since>>
fsVars == <<kind, virt, tree, agreed, sync, disk>>
streamVars == <<mode, strategy, open, bubbles, id, lastSeen, queue, kept, waiting, client, latest, dropped>>
restVars == <<options, server, request, left, stage, status, ended, agent, events>>
pushVars == <<known, subscriptions, emitted, posts>>
obsVars == <<order, session, tool, runOf, origin, under, wraps, layer, at, pos, spans, roots, active, stack, ids, metrics,
             states, taken, results, cost, shared>>
mcVars == <<part, vars, fsVars, memVars, sesVars, streamVars, restVars, pushVars, obsVars>>

MCInit ==
  /\ part \in {"context", "trees", "memories", "sessions", "stream", "rest", "push", "observers"}
  /\ Init /\ Trees!Init /\ Memories!Init /\ Checkpoints!Init /\ Stream!Init /\ Rest!Init
  /\ Push!Init /\ order = <<"observability", "guardrails", "evals">> /\ Observing!Init
  /\ part # "context" => \A w \in Writers : op[w] = "set"
  /\ part # "trees" => kind = "local"
  /\ part # "sessions" => adapter = "memory"
  /\ part # "stream" => mode = "full" /\ strategy = "drop"
  /\ part = "rest" => options.apiKey = options.cors
  /\ part # "rest" => options.apiKey /\ options.cors /\ options.agent
  /\ part # "observers" => \A c \in ObservedCalls : runOf[c] = r1 /\ origin[c] = c

(* Hooks of one walk at a time are under way, the spans are reset while    *)
(* the calls of some run are, the costs between runs; what runs cost is    *)
(* followed where they call no tools.                                      *)
Inside(x) == at[x] \in {"beforeRun", "afterRun", "beforeTool", "afterTool", "runError", "toolError"} /\ pos[x] > 1
Observes ==
  /\ Observing!Next
  /\ Cardinality({x \in ObservedRuns \cup ObservedCalls : Inside(x)'}) < 2
  /\ spans' = <<>> /\ spans # <<>> =>
       /\ \E c \in ObservedCalls : at[c] = "body"
       /\ \A r \in ObservedRuns : at[r] \in {"idle", "done", "failed", "model"}
  /\ cost'.total < cost.total => \A r \in ObservedRuns : at[r] \in {"idle", "done", "failed"}
  /\ cost'.total > 0 => \A c \in ObservedCalls : at'[c] = "idle"

(* One webhook is followed for four events, two for two.                   *)
MCNext ==
  \/ part = "context" /\ Next /\ UNCHANGED <<part, fsVars, memVars, sesVars, streamVars, restVars, pushVars, obsVars>>
  \/ /\ part = "trees" /\ agreed /\ Trees!Next /\ Cardinality(sync'.changed) < 2
     /\ UNCHANGED <<part, vars, memVars, sesVars, streamVars, restVars, pushVars, obsVars>>
  \/ part = "memories" /\ Memories!Next /\ UNCHANGED <<part, vars, fsVars, sesVars, streamVars, restVars, pushVars, obsVars>>
  \/ /\ part = "sessions" /\ Checkpoints!Next
     /\ \A s \in StoredSessions : \A x \in saved'[s] :
          /\ adapter # "supabase" => x.step = 0
          /\ adapter \in {"memory", "supabase"} => x.at = x.nth
     /\ UNCHANGED <<part, vars, fsVars, memVars, streamVars, restVars, pushVars, obsVars>>
  \/ part = "stream" /\ Stream!Next /\ UNCHANGED <<part, vars, fsVars, memVars, sesVars, restVars, pushVars, obsVars>>
  \/ part = "rest" /\ Rest!Next /\ UNCHANGED <<part, vars, fsVars, memVars, sesVars, streamVars, pushVars, obsVars>>
  \/ /\ part = "push" /\ Push!Next /\ Len(emitted') + 2 * Cardinality(subscriptions') < 7
     /\ UNCHANGED <<part, vars, fsVars, memVars, sesVars, streamVars, restVars, obsVars>>
  \/ /\ part = "observers" /\ Observes
     /\ UNCHANGED <<part, vars, fsVars, memVars, sesVars, streamVars, restVars, pushVars>>

MCSpec == MCInit /\ [][MCNext]_mcVars

(* The filesystem adapters can stand in for each other (FileSystems).      *)
FilesAgree == Trees!FilesAgree

(* The stores keep what they took: files of memories (FileMemory), and the *)
(* checkpoints of sessions (SessionStore).                                 *)
StoresKeep == Memories!NothingStoredIsLost /\ Checkpoints!LatestIsKept

(* Clients are told what happened: those of a stream of events             *)
(* (EventStream), and those who subscribed to a task (A2APush).            *)
ClientsAreTold == Stream!ClientKeepsUp /\ Push!WebhooksAreTold

(* Requests are answered and their agents disposed of (RestServer).        *)
HandlersCleanUp == Rest!HandlersCleanUp

(* What is recorded of a run happened (Observers).                         *)
RecordsAreTrue == Observing!RecordsAreTrue
=============================================================================
