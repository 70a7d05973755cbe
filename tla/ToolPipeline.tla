---------------------------- MODULE ToolPipeline ----------------------------
(***************************************************************************)
(* src/agent/tool-manager.ts: what stands between a call of a tool and its *)
(* body.  Every run of an agent wraps each tool once more, in place: inside*)
(* out with the approval gate, the circuit breaker, the cache and the      *)
(* plugins' hooks.  Tools given to the builder and tools of plugins are    *)
(* the same objects in every run, so their wrappings pile up.              *)
(*                                                                         *)
(* The module follows the calls of one such tool of an agent that has all  *)
(* four.  A turn takes a call from one await to the next: hooks, approval  *)
(* callback, body.  The breaker is CircuitBreaker.tla, entered once by     *)
(* each wrapping of each call.                                             *)
(***************************************************************************)
EXTENDS Integers, Sequences, SequencesExt

CONSTANTS
  Callers,                      \* calls of the tool
  Keys,                         \* what they are called with: cache keys
  MaxRuns,                      \* bound: runs of the agent
  CacheSize, Ttl,
  Threshold, Reset, Window      \* of the circuit breaker

VARIABLES
  circuit, failed, sinceFailed, testing, entered, polled,
  auto,       \* the policy approves the tool without asking
  wrapped,    \* how many runs have wrapped the tool
  at,         \* where each call waits
  key,        \* what it was called with
  layer,      \* in which wrapping; 1 is the innermost
  depth,      \* how many wrappings the tool had when it was called
  value,      \* what the call carries outwards
  cache       \* least recently used entry first

circuitVars == <<circuit, failed, sinceFailed, testing, entered, polled>>
callVars == <<at, key, layer, depth, value>>
vars == <<circuitVars, callVars, auto, wrapped, cache>>

Frames == Callers \X (1 .. MaxRuns)

Breaker == INSTANCE CircuitBreaker WITH
  Calls <- Frames, FailureThreshold <- Threshold, ResetTimeout <- Reset, MonitorWindow <- Window,
  state <- circuit, failures <- failed, sinceFailure <- sinceFailed, halfOpenTestInProgress <- testing,
  running <- entered, probePolled <- polled

Places == {"idle", "hooks", "approval", "body", "after", "onError", "done"}

(* Outcomes, with the time since the body returned, up to one tick more    *)
(* than the cache keeps it.                                                *)
Kinds == {"none", "result", "denied", "skipped", "nothing", "error"}
AgeCap == Ttl + 1
Outcome(kind) == [kind |-> kind, age |-> 0]
Older(o) == [o EXCEPT !.age = IF @ < AgeCap THEN @ + 1 ELSE @]

Init ==
  /\ Breaker!Init
  /\ auto \in BOOLEAN
  /\ wrapped = 0
  /\ at = [c \in Callers |-> "idle"]
  /\ key \in [Callers -> Keys]
  /\ layer = [c \in Callers |-> 0]
  /\ depth = [c \in Callers |-> 0]
  /\ value = [c \in Callers |-> Outcome("none")]
  /\ cache = <<>>

-----------------------------------------------------------------------------
(* ToolCache: a Map in the order of use, entries of the age they have.     *)

Cached(k) == {e \in Range(cache) : e.key = k /\ e.age <= Ttl}

(* delete(): no key has more than one entry.                               *)
Others(k, entries) ==
  IF \E i \in DOMAIN entries : entries[i].key = k
    THEN RemoveAt(entries, CHOOSE i \in DOMAIN entries : entries[i].key = k)
    ELSE entries

(* get(): the entry becomes the most recently used.                        *)
Used(e) == Append(Others(e.key, cache), e)

(* set(): a full cache gives up its least recently used entry for a new    *)
(* key, expired or not.                                                    *)
Stored(k, o) ==
  LET full == Len(cache) >= CacheSize /\ \A e \in Range(cache) : e.key # k
  IN  Append(Others(k, IF full THEN Tail(cache) ELSE cache),
             [key |-> k, value |-> o, age |-> 0])

-----------------------------------------------------------------------------
(* A call at the hooks of wrapping k.                                      *)
Wait(c, place, k) ==
  /\ at' = [at EXCEPT ![c] = place]
  /\ layer' = [layer EXCEPT ![c] = k]

(* execute() of the breaker in wrapping k has settled with o.  A value is  *)
(* stored, a denial as well; the hooks come next.                          *)
Settled(c, k, o) ==
  /\ entered' = entered \ {<<c, k>>}
  /\ value' = [value EXCEPT ![c] = o]
  /\ IF o.kind = "error"
       THEN /\ Breaker!OnFailure
            /\ Wait(c, "onError", k)
            /\ UNCHANGED cache
       ELSE /\ Breaker!OnSuccess
            /\ cache' = Stored(key[c], o)
            /\ Wait(c, "after", k)
  /\ UNCHANGED polled

(* Wrapping k is left with o: the one around it, or the caller, gets it.   *)
Leave(c, o) ==
  IF layer[c] = depth[c]
    THEN /\ Wait(c, "done", 0)
         /\ value' = [value EXCEPT ![c] = o]
         /\ UNCHANGED <<circuitVars, cache>>
    ELSE Settled(c, layer[c] + 1, o)

(* Past the gate of wrapping k: the wrapping inside, or the body.          *)
Descend(c, k) == IF k = 1 THEN Wait(c, "body", 1) ELSE Wait(c, "hooks", k - 1)

(* prepareTools() of another run.                                          *)
PrepareTools ==
  /\ wrapped < MaxRuns
  /\ wrapped' = wrapped + 1
  /\ UNCHANGED <<circuitVars, callVars, auto, cache>>

Call(c) ==
  /\ at[c] = "idle" /\ wrapped > 0
  /\ Wait(c, "hooks", wrapped)
  /\ depth' = [depth EXCEPT ![c] = wrapped]
  /\ UNCHANGED <<circuitVars, key, value, auto, wrapped, cache>>

(* runBeforeTool() throws, or answers in the tool's place.                 *)
BeforeToolEnds(c) ==
  /\ at[c] = "hooks"
  /\ \E kind \in {"skipped", "error"} : Leave(c, Outcome(kind))
  /\ UNCHANGED <<key, depth, auto, wrapped>>

(* has() and get() read the clock one after the other: an entry in its     *)
(* last moment is there for has(), and undefined and deleted for get().    *)
Hit(c) ==
  /\ at[c] = "hooks"
  /\ \E e \in Cached(key[c]) :
       \/ /\ cache' = Used(e)
          /\ value' = [value EXCEPT ![c] = e.value]
       \/ /\ e.age = Ttl
          /\ cache' = Others(e.key, cache)
          /\ value' = [value EXCEPT ![c] = Outcome("nothing")]
  /\ Wait(c, "after", layer[c])
  /\ UNCHANGED <<circuitVars, key, depth, auto, wrapped>>

(* Variant: no look at the breaker.                                        *)
MissUnguarded(c) ==
  /\ at[c] = "hooks" /\ Cached(key[c]) = {}
  /\ entered' = entered \cup {<<c, layer[c]>>}
  /\ IF auto THEN Descend(c, layer[c]) ELSE Wait(c, "approval", layer[c])
  /\ UNCHANGED <<circuit, failed, sinceFailed, testing, polled>>
  /\ UNCHANGED <<key, depth, value, auto, wrapped, cache>>

(* Nothing cached (an expired entry is deleted): the breaker refuses the   *)
(* call, or admits it to the approval gate.                                *)
Miss(c) ==
  /\ at[c] = "hooks" /\ Cached(key[c]) = {}
  /\ Breaker!Execute(<<c, layer[c]>>)
  /\ IF <<c, layer[c]>> \notin entered'
       THEN /\ Wait(c, "onError", layer[c])
            /\ value' = [value EXCEPT ![c] = Outcome("error")]
       ELSE /\ IF auto THEN Descend(c, layer[c]) ELSE Wait(c, "approval", layer[c])
            /\ UNCHANGED value
  /\ cache' = Others(key[c], cache)
  /\ UNCHANGED <<key, depth, auto, wrapped>>

(* onApprovalRequired() approves, denies or rejects.                       *)
Approved(c) ==
  /\ at[c] = "approval"
  /\ Descend(c, layer[c])
  /\ UNCHANGED <<circuitVars, key, depth, value, auto, wrapped, cache>>

NotApproved(c) ==
  /\ at[c] = "approval"
  /\ \E kind \in {"denied", "error"} : Settled(c, layer[c], Outcome(kind))
  /\ UNCHANGED <<key, depth, auto, wrapped>>

BodySettles(c) ==
  /\ at[c] = "body"
  /\ \E kind \in {"result", "error"} : Settled(c, 1, Outcome(kind))
  /\ UNCHANGED <<key, depth, auto, wrapped>>

(* runAfterTool() returns, or throws into the catch around it.             *)
AfterToolReturns(c) ==
  /\ at[c] = "after"
  /\ Leave(c, value[c])
  /\ UNCHANGED <<key, depth, auto, wrapped>>

AfterToolThrows(c) ==
  /\ at[c] = "after"
  /\ Wait(c, "onError", layer[c])
  /\ value' = [value EXCEPT ![c] = Outcome("error")]
  /\ UNCHANGED <<circuitVars, key, depth, auto, wrapped, cache>>

(* Variant: the hooks' context tries again.                                *)
OnErrorRetries(c) ==
  /\ at[c] = "onError"
  /\ \/ Wait(c, "hooks", layer[c]) /\ UNCHANGED <<circuitVars, value, cache>>
     \/ Leave(c, Outcome("nothing"))
  /\ UNCHANGED <<key, depth, auto, wrapped>>

(* runOnError(): a suppressed error makes the call return undefined.       *)
OnErrorReturns(c) ==
  /\ at[c] = "onError"
  /\ \E kind \in {"nothing", "error"} : Leave(c, Outcome(kind))
  /\ UNCHANGED <<key, depth, auto, wrapped>>

Tick ==
  /\ Breaker!Tick
  /\ cache' = [i \in DOMAIN cache |->
                 [cache[i] EXCEPT !.age = IF @ < AgeCap THEN @ + 1 ELSE @,
                                  !.value = Older(@)]]
  /\ value' = [c \in Callers |-> IF at[c] \in {"idle", "done"} THEN value[c] ELSE Older(value[c])]
  /\ UNCHANGED <<at, key, layer, depth, auto, wrapped>>

CallStep(c) ==
  \/ BeforeToolEnds(c) \/ Hit(c) \/ Miss(c)
  \/ Approved(c) \/ NotApproved(c) \/ BodySettles(c)
  \/ AfterToolReturns(c) \/ AfterToolThrows(c) \/ OnErrorReturns(c)

Next ==
  \/ PrepareTools \/ Tick
  \/ \E c \in Callers : Call(c) \/ CallStep(c)

Spec == Init /\ [][Next]_vars

(* Hooks, approval callbacks and bodies settle.                            *)
Fairness == \A c \in Callers : WF_vars(CallStep(c))

FairSpec == Spec /\ Fairness

-----------------------------------------------------------------------------
TypeOK ==
  /\ auto \in BOOLEAN /\ wrapped \in 0 .. MaxRuns
  /\ at \in [Callers -> Places] /\ key \in [Callers -> Keys]
  /\ layer \in [Callers -> 0 .. MaxRuns] /\ depth \in [Callers -> 0 .. MaxRuns]
  /\ value \in [Callers -> [kind : Kinds, age : 0 .. AgeCap]]
  /\ entered \subseteq Frames
  /\ Len(cache) <= CacheSize
  /\ \A i, j \in DOMAIN cache : cache[i].key = cache[j].key => i = j

(* The wrapped breaker is used as CircuitBreaker.tla says, so that what is *)
(* proved of it holds of an agent's tools: no call enters without a look,  *)
(* and each entrance has one outcome.                                      *)
BreakerIsUsed == Breaker!Spec

(* A call is answered with what a body returned no more than Ttl before,   *)
(* as long as one run has wrapped the tool.                                *)
AnswersAreFresh ==
  [][\A c \in Callers :
       at[c] = "hooks" /\ at'[c] = "after" /\ value'[c].kind = "result" /\ wrapped < 2
         => value'[c].age <= Ttl]_vars

(* Every call is answered, whatever the gate, the breaker, the cache and   *)
(* the hooks do with it, once what it waits for settles.                   *)
CallsAreAnswered == \A c \in Callers : at[c] # "idle" ~> at[c] = "done"
=============================================================================
