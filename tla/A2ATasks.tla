------------------------------ MODULE A2ATasks ------------------------------
(***************************************************************************)
(* The A2A server's task table (src/plugins/a2a.plugin.ts): calls of       *)
(* tasks/send and tasks/sendSubscribe queue a task and run the agent; the  *)
(* agent's run reports into the same table through the plugin's hooks and  *)
(* once more through the caller's result handler; tasks/cancel, the        *)
(* eviction timer and other calls with the same task id change the entry   *)
(* in between.  Time is counted in units of TASK_TTL_MS.                   *)
(***************************************************************************)
EXTENDS Integers, FiniteSets

CONSTANTS Ids,        \* task ids; a client may send one again
          Senders,    \* calls of tasks/send
          Streams,    \* calls of tasks/sendSubscribe
          Uses,       \* the ids each call may be made with
          Earlier,    \* ids of tasks that earlier calls may have left behind
          Capacity,   \* MAX_COMPLETED_TASKS
          Horizon     \* bound: the clock stops here

ASSUME A2AAssumption == /\ IsFiniteSet(Ids)
                        /\ Earlier \subseteq Ids /\ Cardinality(Earlier) <= Capacity
                        /\ Senders \cap Streams = {}
                        /\ Uses \in [Senders \cup Streams -> SUBSET Ids]
                        /\ Capacity \in Nat \ {0}
                        /\ Horizon \in Nat

VARIABLES hooked,     \* is the plugin installed on the agent it serves?
          now,
          status,     \* this.tasks: the status of each id, "absent" without entry
          created,    \* createdAt
          stamp,      \* completionTimestamps, Never without entry
          target,     \* the task id of each call
          stage,      \* where each call's agent run stands
          answer,     \* what tasks/send returned
          listeners,  \* taskEventListeners
          heard,      \* streams whose listener saw a terminal event (completed)
          lost        \* history: calls whose task was evicted under their run

taskVars == <<status, created, stamp>>
callVars == <<target, stage, answer>>
vars == <<hooked, now, taskVars, callVars, listeners, heard, lost>>

Calls == Senders \cup Streams
Never == -1
NoId == "none"
Settled == {"completed", "failed", "cancelled"}
Live == {"queued", "running"}
InFlight == {"starting", "generating", "finishing", "returned", "thrown"}
Present == {id \in Ids : status[id] # "absent"}

TypeOK ==
  /\ hooked \in BOOLEAN /\ now \in 0..Horizon
  /\ status \in [Ids -> Live \cup Settled \cup {"absent"}]
  /\ created \in [Ids -> 0..Horizon]
  /\ stamp \in [Ids -> 0..Horizon \cup {Never}]
  /\ target \in [Calls -> Ids \cup {NoId}]
  /\ stage \in [Calls -> InFlight \cup {"idle", "refused", "settled"}]
  /\ answer \in [Senders -> Live \cup Settled \cup {"none", "not found"}]
  /\ listeners \subseteq Streams /\ heard \subseteq Streams /\ lost \subseteq Calls

Init ==
  /\ hooked \in BOOLEAN /\ now = 0
  /\ \E left \in SUBSET Earlier :
       /\ status = [id \in Ids |-> IF id \in left THEN "completed" ELSE "absent"]
       /\ stamp = [id \in Ids |-> IF id \in left THEN 0 ELSE Never]
  /\ created = [id \in Ids |-> 0]
  /\ target = [c \in Calls |-> NoId]
  /\ stage = [c \in Calls |-> "idle"]
  /\ answer = [c \in Senders |-> "none"]
  /\ listeners = {} /\ heard = {} /\ lost = {}

-----------------------------------------------------------------------------
(* markTaskRunning, markTaskCompleted, markTaskFailed with emitTaskEvent:    *)
(* nothing happens to an evicted task, and nothing checks the old status.    *)

Mark(id, s) ==
  \/ status[id] = "absent" /\ UNCHANGED <<status, stamp, heard>>
  \/ /\ status[id] # "absent"
     /\ status' = [status EXCEPT ![id] = s]
     /\ stamp' = IF s \in Settled THEN [stamp EXCEPT ![id] = now] ELSE stamp
     /\ heard' = heard \cup {w \in listeners : target[w] = id /\ s \in Settled}

\* evictStaleTasks: entries whose completion stamp is older than the TTL -
\* whatever has become of the id since - and live ones created over two ago.
Stale == {id \in Ids : stamp[id] # Never /\ now - stamp[id] > 1}
Orphans == {id \in Ids : status[id] \in Live /\ now - created[id] > 2}

Forget(evicted) ==
  /\ stamp' = [id \in Ids |-> IF id \in evicted THEN Never ELSE stamp[id]]
  /\ lost' = lost \cup {c \in Calls : target[c] \in evicted /\ stage[c] \in InFlight}

EvictStaleTasks ==
  LET evicted == Stale \cup Orphans IN
  /\ evicted # {}
  /\ status' = [id \in Ids |-> IF id \in evicted THEN "absent" ELSE status[id]]
  /\ created' = [id \in Ids |-> IF id \in evicted THEN 0 ELSE created[id]]
  /\ Forget(evicted)
  /\ UNCHANGED <<hooked, now, callVars, listeners, heard>>

-----------------------------------------------------------------------------
(* sendTask and sendTaskSubscribe up to their first await.                   *)

\* What queueTask's first capacity check evicts.
EvictedFor == IF Cardinality(Present) >= Capacity THEN Stale \cup Orphans ELSE {}

Admits == Cardinality(Present \ EvictedFor) < Capacity

\* queueTask, which replaces an entry with the same id, markTaskRunning, and
\* the start of agent.run: one turn.  A stream has added its listener before,
\* outside the try that removes it.
Send(c, id) ==
  /\ stage[c] = "idle"
  /\ listeners' = listeners \cup ({c} \cap Streams)
  /\ target' = [target EXCEPT ![c] = id]
  /\ Forget(EvictedFor)
  /\ stage' = [stage EXCEPT ![c] = IF Admits THEN "starting" ELSE "refused"]
  /\ status' = [i \in Ids |-> IF i = id /\ Admits THEN "running"
                             ELSE IF i \in EvictedFor THEN "absent" ELSE status[i]]
  /\ created' = [i \in Ids |-> IF i = id /\ Admits THEN now
                              ELSE IF i \in EvictedFor THEN 0 ELSE created[i]]
  /\ UNCHANGED <<hooked, now, answer, heard>>

-----------------------------------------------------------------------------
(* The agent's run (ExecutionEngine.run) and the plugin's hooks in it.       *)

Hook(c, s) == IF hooked THEN Mark(target[c], s) ELSE UNCHANGED <<status, stamp, heard>>

Moves(c, s) == /\ stage' = [stage EXCEPT ![c] = s]
               /\ UNCHANGED <<hooked, now, created, target, listeners, lost>>

BeforeRun(c) ==
  /\ stage[c] = "starting"
  /\ Hook(c, "running")
  /\ Moves(c, "generating") /\ UNCHANGED answer

\* "finishing": the hook of a later plugin is about to throw.
AfterRun(c) ==
  /\ stage[c] = "generating"
  /\ Hook(c, "completed")
  /\ \E s \in {"returned", "finishing"} : Moves(c, s)
  /\ UNCHANGED answer

\* The catch of run: onError, after which the error is rethrown unless some
\* plugin suppresses it.
OnError(c) ==
  /\ stage[c] \in {"starting", "generating", "finishing"}
  /\ Hook(c, "failed")
  /\ \E s \in {"returned", "thrown"} : Moves(c, s)
  /\ UNCHANGED answer

-----------------------------------------------------------------------------
(* The caller's own result handlers.                                         *)

\* Variant: an error is left to the plugin's hooks.
RecordResultsOnly(c) ==
  LET id == target[c] IN
  \/ /\ stage[c] = "returned" /\ status[id] \in Live
     /\ Mark(id, "completed")
  \/ /\ \/ stage[c] = "returned" /\ status[id] \notin Live
        \/ stage[c] = "thrown"
     /\ UNCHANGED <<status, stamp, heard>>

\* A result completes a live task only; an error fails any but a failed one.
Record(c) ==
  LET id == target[c] IN
  \/ /\ stage[c] = "returned" /\ status[id] \in Live
     /\ Mark(id, "completed")
  \/ /\ stage[c] = "thrown" /\ status[id] # "failed"
     /\ Mark(id, "failed")
  \/ /\ \/ stage[c] = "returned" /\ status[id] \notin Live
        \/ stage[c] = "thrown" /\ status[id] = "failed"
     /\ UNCHANGED <<status, stamp, heard>>

\* sendTask then returns cloneTask, which throws for an evicted task.
Settle(c) ==
  /\ Record(c)
  /\ answer' = [s \in Senders |-> IF s # c THEN answer[s]
                  ELSE IF status'[target[c]] = "absent" THEN "not found"
                  ELSE status'[target[c]]]
  /\ Moves(c, "settled")

\* Variant: only a completion ends the stream.
MayEndCompleted(w) == w \in heard /\ stage[w] = "settled" /\ status[target[w]] = "completed"

\* The generator has seen completed and its runPromise has settled.
MayEnd(w) == w \in heard /\ stage[w] = "settled"

EndStream(w) ==
  /\ w \in listeners /\ MayEnd(w)
  /\ listeners' = listeners \ {w}
  /\ UNCHANGED <<hooked, now, taskVars, callVars, heard, lost>>

\* The client is gone: the response's enqueue throws at an event and the
\* generator's finally runs.  The agent's run goes on.
Disconnect(w) ==
  /\ w \in listeners /\ stage[w] \notin {"idle", "refused"}
  /\ stage[w] \in {"starting", "generating"} \/ w \in heard
  /\ ~MayEnd(w)
  /\ listeners' = listeners \ {w}
  /\ UNCHANGED <<hooked, now, taskVars, callVars, heard, lost>>

-----------------------------------------------------------------------------
CancelTask(id) ==
  /\ status[id] \in Live \cup {"cancelled"}
  /\ Mark(id, "cancelled")
  /\ UNCHANGED <<hooked, now, created, callVars, listeners, lost>>

\* No time passes between a run's end and its promise callbacks.
Tick ==
  /\ now < Horizon
  /\ \A c \in Calls : stage[c] \notin {"returned", "thrown"}
  /\ now' = now + 1
  /\ UNCHANGED <<hooked, taskVars, callVars, listeners, heard, lost>>

Next ==
  \/ \E c \in Calls : \E id \in Uses[c] : Send(c, id)
  \/ \E c \in Calls : BeforeRun(c) \/ AfterRun(c) \/ OnError(c) \/ Settle(c)
  \/ \E w \in Streams : EndStream(w) \/ Disconnect(w)
  \/ \E id \in Ids : CancelTask(id)
  \/ EvictStaleTasks
  \/ Tick

Spec == Init /\ [][Next]_vars

\* The agent's runs end, and promise callbacks run.
Fairness ==
  /\ \A c \in Calls : WF_vars(BeforeRun(c)) /\ WF_vars(AfterRun(c) \/ OnError(c))
                      /\ WF_vars(Settle(c))
  /\ \A w \in Streams : WF_vars(EndStream(w))

FairSpec == Spec /\ Fairness

-----------------------------------------------------------------------------
\* The table never holds more than MAX_COMPLETED_TASKS entries, although the
\* check comes before an eviction that may free nothing (queueTask).
WithinCapacity == Cardinality(Present) <= Capacity

\* A settled task carries a completion stamp, or the eviction timer would never
\* drop it; and a stamp belongs to an entry, or the stamps would outgrow the
\* bounded table (markTask*, cancelTask, evictStaleTasks).
StampsFollowTasks ==
  \A id \in Ids : /\ status[id] \in Settled => stamp[id] # Never
                  /\ stamp[id] # Never => status[id] # "absent"

\* When a call's run is over its caller learns of an end: tasks/send answers
\* with a settled task and an open stream has seen a terminal event - unless
\* the task was evicted while the run was in flight.  Hooks, cancellations,
\* suppressed errors and other calls with the same id lie between the run's end
\* and the caller's look at the table.
EndIsReported ==
  \A c \in Calls : (stage[c] = "settled" /\ c \notin lost) =>
    /\ c \in Senders => answer[c] \in Settled
    /\ c \in Streams \cap listeners => c \in heard

\* A run's result is recorded over a cancelled task only by the plugin's hooks:
\* without them a cancelled task does not become completed.
CancelledIsNotCompleted ==
  [][\A id \in Ids : (~hooked /\ status[id] = "cancelled") => status'[id] # "completed"]_vars

\* Why EndIsReported holds: a call's task stays in the table until the call is
\* over or has lost it, and it is live as long as the call's open stream has
\* not seen an end.
RunsAreFollowed ==
  \A c \in Calls : stage[c] \in InFlight =>
    /\ target[c] \in Ids
    /\ c \notin lost =>
         /\ status[target[c]] # "absent"
         /\ c \in (Streams \cap listeners) \ heard => status[target[c]] \in Live

\* The inductive invariant of ProtocolProofs.
IInv == TypeOK /\ WithinCapacity /\ StampsFollowTasks /\ EndIsReported /\ RunsAreFollowed

\* Every accepted call comes to its end: a send is answered, a stream closes or
\* has lost its task to the eviction.
CallsEnd ==
  \A c \in Calls : (stage[c] = "starting") ~>
     (stage[c] = "settled" /\ (c \in listeners => c \in lost))
=============================================================================
