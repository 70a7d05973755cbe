-------------------------- MODULE SubagentRegistry --------------------------
(***************************************************************************)
(* The handle table of src/tools/subagent/subagent-registry.ts: who        *)
(* dispatched what, the status of every handle, its AbortController and    *)
(* timeout timer, and the callers blocked in waitForCompletion().          *)
(*                                                                         *)
(* The module declares the registry's state and what each registry call    *)
(* does to it; SubagentScheduler composes the calls with the scheduler the *)
(* registry drives (dispatch() enqueues, and enqueue() drains, before the  *)
(* call returns).                                                          *)
(*                                                                         *)
(* A task id stands for one dispatch() call: randomUUID never repeats, so  *)
(* the arguments of the call (parent, depth, instructions) are functions   *)
(* of the id.                                                              *)
(***************************************************************************)
EXTENDS Integers, FiniteSets

CONSTANTS
  Tasks,                   \* the ids dispatch() may hand out
  ParentOf,                \* parentId of each; a task id when nested
  DepthOf,                 \* currentDepth of each
  Waiters,                 \* concurrent waitForCompletion() calls
  NoTask,                  \* "this waiter is not waiting"
  MaxConcurrentPerParent, MaxQueueSize, MaxDepth,
  HandleLimit              \* maxConcurrentGlobal * 10, the aggressive-GC bound

ASSUME RegistryAssumption ==
  /\ IsFiniteSet(Tasks)
  /\ NoTask \notin Tasks
  /\ {MaxConcurrentPerParent, MaxQueueSize, MaxDepth, HandleLimit} \subseteq Nat
  /\ DepthOf \in [Tasks -> Nat]

VARIABLES
  status,    \* handle.status; "none" until the id is dispatched
  handles,   \* the ids in the handles Map (and so in parentIndex)
  aborted,   \* handle.abortController.signal.aborted
  timer,     \* ids whose timeoutTimer is armed
  awaiting   \* completionListeners: the task each waiter listens to

registryVars == <<status, handles, aborted, timer, awaiting>>

TerminalStates == {"completed", "failed", "timeout", "cancelled"}

Statuses == {"none", "queued", "running", "streaming"} \cup TerminalStates

ValidTransitions ==        \* the pairs VALID_TRANSITIONS lists
  ({"queued"} \X {"running", "cancelled"})
    \cup ({"running"} \X ({"streaming"} \cup TerminalStates))
    \cup ({"streaming"} \X TerminalStates)

IsTerminal(s) == s \in TerminalStates

Live == {t \in handles : ~IsTerminal(status[t])}

QueuedIn(st, hs) == {t \in hs : st[t] = "queued"}

ActiveChildren(p) == {t \in Live : ParentOf[t] = p}

RegistryInit ==
  /\ status = [t \in Tasks |-> "none"]
  /\ handles = {}
  /\ aborted = {}
  /\ timer = {}
  /\ awaiting = [w \in Waiters |-> NoTask]

-----------------------------------------------------------------------------

(* transition(): a no-op for an id that left the Map, for a terminal one   *)
(* and for a move VALID_TRANSITIONS does not list.                         *)
Transition(st, hs, ts, new) ==
  [t \in Tasks |-> IF t \in ts \cap hs /\ <<st[t], new>> \in ValidTransitions
                   THEN new ELSE st[t]]

(* The handles a change of the status table took to a terminal state: each *)
(* has its timer cleared and its listeners called and dropped.             *)
Completed(old, new) == {t \in Tasks : ~IsTerminal(old[t]) /\ IsTerminal(new[t])}

CompletionEffects(new, armed) ==
  /\ timer' = (timer \cup armed) \ Completed(status, new)
  /\ awaiting' = [w \in Waiters |-> IF awaiting[w] \in Completed(status, new)
                                    THEN NoTask ELSE awaiting[w]]

(* cancel() aborts a live handle, moves it to "cancelled" and cancels the  *)
(* live handles whose parentId it is: the smallest set of live handles     *)
(* that holds the roots and the live children of its members.              *)
CancelClosed(S) == \A t \in Live : ParentOf[t] \in S => t \in S

(* Variant: no cascade.                                                    *)
CascadeRootsOnly(roots) == roots

Cascade(roots) ==
  {t \in Live : \A S \in SUBSET Live : (roots \subseteq S /\ CancelClosed(S)) => t \in S}

CancelEffects(cancelled) ==
  /\ aborted' = aborted \cup cancelled
  /\ status' = Transition(status, handles, cancelled, "cancelled")
  /\ CompletionEffects(status', {})

-----------------------------------------------------------------------------
(* The calls that touch the registry only.                                 *)

Cancel(t) ==
  /\ t \in Live
  /\ CancelEffects(Cascade({t}))
  /\ UNCHANGED handles

CancelAll(p) ==
  /\ ActiveChildren(p) # {}
  /\ CancelEffects(Cascade(ActiveChildren(p)))
  /\ UNCHANGED handles

(* Variant: the timer sets the status but does not abort generate().       *)
TimeoutWithoutAbort(t) ==
  /\ t \in timer
  /\ status' = Transition(status, handles, {t}, "timeout")
  /\ CompletionEffects(status', {})
  /\ UNCHANGED <<handles, aborted>>

(* The timer set by executeHandle() fires.                                 *)
Timeout(t) ==
  /\ t \in timer
  /\ aborted' = aborted \cup {t}
  /\ status' = Transition(status, handles, {t}, "timeout")
  /\ CompletionEffects(status', {})
  /\ UNCHANGED handles

(* Variant: waitForCompletion() without its check for a settled handle.    *)
WaitUnchecked(w, t) ==
  /\ awaiting[w] = NoTask
  /\ t \in handles
  /\ awaiting' = [awaiting EXCEPT ![w] = t]
  /\ UNCHANGED <<status, handles, aborted, timer>>

(* waitForCompletion() on a handle that is not terminal registers a        *)
(* listener; on a terminal one it resolves at once and changes nothing.    *)
WaitForCompletion(w, t) ==
  /\ awaiting[w] = NoTask
  /\ t \in Live
  /\ awaiting' = [awaiting EXCEPT ![w] = t]
  /\ UNCHANGED <<status, handles, aborted, timer>>

(* Its own timer fires first: the listener is spliced out.                 *)
WaitTimeout(w) ==
  /\ awaiting[w] # NoTask
  /\ awaiting' = [awaiting EXCEPT ![w] = NoTask]
  /\ UNCHANGED <<status, handles, aborted, timer>>

(* gc(): drop terminal handles past their TTL, cancel ("watchdog") running *)
(* ones created more than twice their timeout ago, then drop every         *)
(* terminal handle if too many remain.  Which are old enough is a matter   *)
(* of time, hence a choice.                                                *)
Gc(expired, stuck) ==
  /\ expired \subseteq handles \ Live
  /\ stuck \subseteq {t \in Live : status[t] \in {"running", "streaming"}}
  /\ CancelEffects(Cascade(stuck))
  /\ LET kept == handles \ expired IN
     handles' = IF Cardinality(kept) > HandleLimit
                THEN {t \in kept : ~IsTerminal(status'[t])} ELSE kept

(* shutdown(): cancel every live handle, then clear the three Maps.        *)
Shutdown ==
  /\ handles # {}
  /\ aborted' = aborted \cup Live
  /\ status' = Transition(status, handles, Live, "cancelled")
  /\ timer' = timer \ Completed(status, status')
  /\ awaiting' = [w \in Waiters |-> NoTask]
  /\ handles' = {}
=============================================================================
