-------------------------- MODULE ResilienceProofs --------------------------
(***************************************************************************)
(* What holds of CircuitBreaker for every threshold, timeout, window and   *)
(* set of callers; of the calls of a tool that every run wraps in one more *)
(* of them, for any calls, keys, runs and cache; of Conversation for any   *)
(* sizes, windows and summaries; and of Knowledge for any calls and any    *)
(* documents that rag:ingest accepts.                                      *)
(***************************************************************************)
EXTENDS MCResilience, SequenceTheorems, WellFoundedInduction, TLAPS

(* What updateState() computes, branch by branch.                          *)
LEMMA UpdatedCases ==
  ASSUME TypeOK
  PROVE  /\ Updated.state \in States /\ Updated.test \in BOOLEAN
         /\ state = "closed" => Updated.state = "closed"
         /\ state = "half-open" => Updated.state = "half-open" /\ Updated.test
         /\ state = "open" /\ Updated.state # "open" =>
              /\ Updated.state = "half-open"
              /\ sinceFailure >= ResetTimeout
BY DEF Updated, TypeOK, States

(* The window of a breaker begins empty.                                   *)
LEMMA NoFailuresType == NoFailures \in [Ages -> Nat]
BY DEF NoFailures

(* Every variable keeps its type.                                          *)
THEOREM TypeCorrect == Spec => []TypeOK
<1>1. Init => TypeOK
  <2>1. ResetTimeout \in 0 .. ResetTimeout
    BY BreakerAssumption
  <2> QED
    BY <2>1, NoFailuresType, Zenon DEF Init, TypeOK, States
<1>2. TypeOK /\ [Next]_vars => TypeOK'
  <2> SUFFICES ASSUME TypeOK, [Next]_vars PROVE TypeOK'
    OBVIOUS
  <2> USE DEF TypeOK
  <2>1. ASSUME NEW c \in Calls, Execute(c) PROVE TypeOK'
    BY <2>1, UpdatedCases DEF Execute, Look
  <2>2. ASSUME NEW c \in Calls, Succeed(c) PROVE TypeOK'
    BY <2>2, NoFailuresType DEF Succeed, OnSuccess, breakerVars, States
  <2>3. ASSUME NEW c \in Calls, Fail(c) PROVE TypeOK'
    <3>1. failures' \in [Ages -> Nat]
      <4>1. 0 \in Ages
        BY BreakerAssumption DEF Ages
      <4> QED
        BY <2>3, <4>1 DEF Fail, OnFailure
    <3>2. sinceFailure' \in 0 .. ResetTimeout
      BY <2>3, BreakerAssumption DEF Fail, OnFailure
    <3> QED
      BY <2>3, <3>1, <3>2 DEF Fail, OnFailure, States
  <2>4. CASE GetState
    BY <2>4, UpdatedCases DEF GetState, Look
  <2>5. CASE Reset
    <3>1. ResetTimeout \in 0 .. ResetTimeout
      BY BreakerAssumption
    <3> QED
      BY <2>5, <3>1, NoFailuresType, Zenon DEF Reset, States
  <2>6. CASE Tick
    BY <2>6, BreakerAssumption DEF Tick, Ages
  <2>8. CASE UNCHANGED vars
    BY <2>8 DEF vars, breakerVars
  <2> QED
    BY <2>1, <2>2, <2>3, <2>4, <2>5, <2>6, <2>8 DEF Next
<1> QED
  BY <1>1, <1>2, PTL DEF Spec

(* As long as no getState() has returned "half-open", a half-open breaker  *)
(* waits for an operation in flight: it does not refuse calls for ever.    *)
THEOREM HalfOpenHasAProbe == Spec => []HalfOpenIsDecided
<1>1. Init => HalfOpenIsDecided
  BY DEF Init, HalfOpenIsDecided
<1>2. TypeOK /\ HalfOpenIsDecided /\ [Next]_vars => HalfOpenIsDecided'
  <2> SUFFICES ASSUME TypeOK, HalfOpenIsDecided, [Next]_vars
               PROVE  HalfOpenIsDecided'
    OBVIOUS
  <2> USE DEF HalfOpenIsDecided
  <2>1. ASSUME NEW c \in Calls, Execute(c) PROVE HalfOpenIsDecided'
    <3>1. CASE state = "half-open"
      BY <2>1, <3>1 DEF Execute, Look
    <3>2. CASE state = "open" /\ Updated.state = "half-open"
      <4>1. ~Rejects(Updated)
        BY <3>2 DEF Updated, Rejects
      <4> QED
        BY <2>1, <4>1 DEF Execute
    <3> QED
      BY <2>1, <3>1, <3>2, UpdatedCases DEF Execute, Look, TypeOK, States
  <2>2. ASSUME NEW c \in Calls, Succeed(c) PROVE HalfOpenIsDecided'
    BY <2>2 DEF Succeed, OnSuccess, breakerVars
  <2>3. ASSUME NEW c \in Calls, Fail(c) PROVE HalfOpenIsDecided'
    BY <2>3 DEF Fail, OnFailure
  <2>4. CASE GetState
    BY <2>4 DEF GetState, Look
  <2>5. CASE Reset
    BY <2>5 DEF Reset
  <2>6. CASE Tick \/ UNCHANGED vars
    BY <2>6 DEF Tick, vars, breakerVars
  <2> QED
    BY <2>1, <2>2, <2>3, <2>4, <2>5, <2>6 DEF Next
<1> QED
  BY <1>1, <1>2, TypeCorrect, PTL DEF Spec

(* The timeout counts from the youngest recorded failure, late ones        *)
(* included.                                                               *)
THEOREM TimeoutIsQuiet == Spec => []QuietBeforeProbe
<1>1. Init => QuietBeforeProbe
  BY DEF Init, QuietBeforeProbe, NoFailures
<1>2. TypeOK /\ QuietBeforeProbe /\ [Next]_vars => QuietBeforeProbe'
  <2> SUFFICES ASSUME TypeOK, QuietBeforeProbe, [Next]_vars
               PROVE  QuietBeforeProbe'
    OBVIOUS
  <2> USE DEF QuietBeforeProbe
  <2>1. CASE UNCHANGED <<failures, sinceFailure>>
    BY <2>1
  <2>2. ASSUME NEW c \in Calls, Succeed(c) PROVE QuietBeforeProbe'
    BY <2>2 DEF Succeed, OnSuccess, breakerVars, NoFailures
  <2>3. ASSUME NEW c \in Calls, Fail(c) PROVE QuietBeforeProbe'
    <3>1. sinceFailure' = 0
      BY <2>3 DEF Fail, OnFailure
    <3> QED
      BY <3>1 DEF Ages
  <2>4. CASE Reset
    BY <2>4 DEF Reset, NoFailures
  <2>5. CASE Tick
    <3> SUFFICES ASSUME NEW a \in Ages, failures'[a] > 0
                 PROVE  sinceFailure' <= a
      OBVIOUS
    <3>1. a # 0 /\ a - 1 \in Ages /\ failures[a - 1] > 0
      BY <2>5, BreakerAssumption DEF Tick, Ages, TypeOK
    <3>2. sinceFailure <= a - 1
      BY <3>1
    <3> QED
      BY <2>5, <3>2, BreakerAssumption DEF Tick, Ages, TypeOK
  <2> QED
    BY <2>1, <2>2, <2>3, <2>4, <2>5
       DEF Next, Execute, Look, GetState, vars, breakerVars
<1> QED
  BY <1>1, <1>2, TypeCorrect, PTL DEF Spec

(* The call that finds the timeout elapsed is the only probe of its        *)
(* recovery attempt.                                                       *)
THEOREM OneProbe == Spec => SingleProbe
<1>1. TypeOK /\ [Next]_vars =>
        [\A c \in Calls :
           c \notin running /\ c \in running' /\ state' = "half-open" => state = "open"]_vars
  <2> SUFFICES ASSUME TypeOK, Next, NEW c \in Calls,
                      c \notin running, c \in running', state' = "half-open"
               PROVE  state = "open"
    OBVIOUS
  <2>1. ASSUME NEW d \in Calls, Execute(d) PROVE state = "open"
    <3>1. ~Rejects(Updated) /\ Updated.state = "half-open"
      BY <2>1 DEF Execute, Look
    <3>2. state # "half-open"
      BY <3>1, UpdatedCases DEF Rejects
    <3> QED
      BY <3>1, <3>2, UpdatedCases DEF TypeOK, States
  <2>2. ASSUME NEW d \in Calls, Succeed(d) \/ Fail(d) PROVE FALSE
    BY <2>2 DEF Succeed, Fail
  <2> QED
    BY <2>1, <2>2 DEF Next, GetState, Reset, Tick
<1> QED
  BY <1>1, TypeCorrect, PTL DEF Spec, SingleProbe

-----------------------------------------------------------------------------
(* The calls of a tool.  A wrapping has entered the breaker exactly while  *)
(* the call is inside it, and what the cache keeps is as fresh as its      *)
(* entry as long as one run has wrapped the tool.                          *)
Carried == [kind : Tool!Kinds, age : Nat]

Entry == [key : Keys, value : Carried, age : Nat]

Fresh == {e \in Entry : e.value.age <= e.age}

Inside(c) == at[c] \in {"hooks", "approval", "body", "after", "onError"}

(* The wrappings of a call whose breakers wait for its outcome.            *)
Awaited(c) ==
  {j \in 1..MaxRuns :
     /\ Inside(c) /\ j <= depth[c]
     /\ j > layer[c] \/ (j = layer[c] /\ at[c] \in {"approval", "body"})}

ToolTypes ==
  /\ wrapped \in Nat /\ wrapped <= MaxRuns
  /\ at \in [Callers -> Tool!Places] /\ key \in [Callers -> Keys]
  /\ layer \in [Callers -> Nat] /\ depth \in [Callers -> Nat]
  /\ value \in [Callers -> Carried]
  /\ cache \in Seq(Entry)

LayersNest ==
  \A c \in Callers : Inside(c) =>
    /\ 1 <= layer[c] /\ layer[c] <= depth[c] /\ depth[c] <= wrapped
    /\ at[c] = "body" => layer[c] = 1

EnteredOnce == entered = {f \in Tool!Frames : f[2] \in Awaited(f[1])}

KeptFresh == wrapped < 2 => cache \in Seq(Fresh)

ToolInv == ToolTypes /\ LayersNest /\ EnteredOnce /\ KeptFresh

-----------------------------------------------------------------------------
(* The cache keeps its entries, or gives one up.                           *)
LEMMA OthersAreKept ==
  ASSUME NEW S, NEW s \in Seq(S), NEW k
  PROVE  Tool!Others(k, s) \in Seq(S)
<1>1. CASE \E i \in DOMAIN s : s[i].key = k
  <2> DEFINE i == CHOOSE i \in DOMAIN s : s[i].key = k
  <2>1. i \in DOMAIN s
    BY <1>1
  <2>2. Tool!Others(k, s) = SubSeq(s, 1, i - 1) \o SubSeq(s, i + 1, Len(s))
    BY <1>1 DEF Tool!Others, Tool!RemoveAt
  <2> HIDE DEF i
  <2>3. Len(s) \in Nat /\ DOMAIN s = 1..Len(s)
    BY LenProperties
  <2>4. /\ \A j \in 1..i - 1 : j \in 1..Len(s)
        /\ \A j \in i + 1..Len(s) : j \in 1..Len(s)
        /\ i - 1 \in Int /\ i + 1 \in Int /\ 1 \in Int /\ Len(s) \in Int
    BY ONLY <2>1, <2>3
  <2>5. SubSeq(s, 1, i - 1) \in Seq(S) /\ SubSeq(s, i + 1, Len(s)) \in Seq(S)
    BY <2>3, <2>4, SubSeqProperties
  <2> QED
    BY <2>2, <2>5, ConcatProperties
<1>2. CASE ~\E i \in DOMAIN s : s[i].key = k
  BY <1>2 DEF Tool!Others
<1> QED
  BY <1>1, <1>2

(* set() of the tool cache drops the oldest entry when it is full.         *)
LEMMA StoredIsKept ==
  ASSUME NEW S, cache \in Seq(S), NEW k, NEW o, [key |-> k, value |-> o, age |-> 0] \in S
  PROVE  Tool!Stored(k, o) \in Seq(S)
<1> DEFINE full == Len(cache) >= CacheSize /\ \A e \in Tool!Range(cache) : e.key # k
           rest == IF full THEN Tail(cache) ELSE cache
<1>1. rest \in Seq(S)
  <2>1. CASE full
    <3>1. Len(cache) \in Nat /\ (cache = <<>> <=> Len(cache) = 0)
      BY LenProperties, EmptySeq
    <3>2. cache # <<>>
      BY <2>1, <3>1, ResilienceAssumption
    <3> QED
      BY <2>1, <3>2, HeadTailProperties
  <2>2. CASE ~full
    BY <2>2
  <2> QED
    BY <2>1, <2>2
<1>2. Tool!Others(k, rest) \in Seq(S)
  BY <1>1, OthersAreKept
<1>3. Tool!Stored(k, o) = Append(Tool!Others(k, rest), [key |-> k, value |-> o, age |-> 0])
  BY DEF Tool!Stored
<1> QED
  BY <1>2, <1>3, AppendProperties

-----------------------------------------------------------------------------
(* A step of one call need be looked at for that call only.                *)
LEMMA OneCall ==
  ASSUME ToolInv, NEW c \in Callers, NEW place \in Tool!Places, NEW k \in Nat,
         Tool!Wait(c, place, k), UNCHANGED <<wrapped, key>>,
         depth' \in [Callers -> Nat], \A d \in Callers \ {c} : depth'[d] = depth[d],
         value' \in [Callers -> Carried], cache' \in Seq(Entry), KeptFresh',
         place \notin {"idle", "done"} => 1 <= k /\ k <= depth'[c] /\ depth'[c] <= wrapped,
         place = "body" => k = 1,
         entered' \subseteq Tool!Frames,
         \A f \in Tool!Frames : f[1] # c => (f \in entered' <=> f \in entered),
         \A j \in 1..MaxRuns : <<c, j>> \in entered' <=> j \in Awaited(c)'
  PROVE  ToolInv'
<1>1. /\ at' \in [Callers -> Tool!Places] /\ layer' \in [Callers -> Nat]
      /\ at'[c] = place /\ layer'[c] = k
      /\ \A d \in Callers \ {c} : at'[d] = at[d] /\ layer'[d] = layer[d]
  BY DEF Tool!Wait, ToolInv, ToolTypes
<1>2. ToolTypes'
  BY <1>1 DEF ToolInv, ToolTypes
<1>3. LayersNest'
  BY <1>1 DEF ToolInv, LayersNest, Inside
<1>4. \A d \in Callers \ {c} : Awaited(d)' = Awaited(d)
  BY <1>1 DEF Awaited, Inside
<1>5. \A f \in Tool!Frames : f[1] \in Callers /\ f[2] \in 1..MaxRuns /\ f = <<f[1], f[2]>>
  BY DEF Tool!Frames
<1>6. ASSUME NEW f \in Tool!Frames
      PROVE  f \in entered' <=> f[2] \in Awaited(f[1])'
  <2>1. CASE f[1] = c
    BY <1>5, <2>1
  <2>2. CASE f[1] # c
    BY <1>4, <1>5, <2>2 DEF ToolInv, EnteredOnce
  <2> QED
    BY <2>1, <2>2
<1>7. EnteredOnce'
  BY <1>6 DEF EnteredOnce
<1> QED
  BY <1>2, <1>3, <1>7 DEF ToolInv

(* What the invariant says of a call that is inside.                       *)
LEMMA InsideCall ==
  ASSUME ToolInv, NEW c \in Callers, Inside(c)
  PROVE  /\ layer[c] \in 1..MaxRuns /\ depth[c] \in 1..MaxRuns /\ layer[c] <= depth[c]
         /\ depth[c] <= wrapped /\ wrapped \in Nat /\ wrapped <= MaxRuns
         /\ at[c] = "body" => layer[c] = 1
         /\ entered \subseteq Tool!Frames
         /\ \A j \in 1..MaxRuns : <<c, j>> \in Tool!Frames /\ (<<c, j>> \in entered <=> j \in Awaited(c))
<1>1. layer[c] \in Nat /\ depth[c] \in Nat /\ wrapped \in Nat /\ wrapped <= MaxRuns /\ MaxRuns \in Nat
  BY ResilienceAssumption DEF ToolInv, ToolTypes
<1>2. /\ 1 <= layer[c] /\ layer[c] <= depth[c] /\ depth[c] <= wrapped
      /\ at[c] = "body" => layer[c] = 1
  BY DEF ToolInv, LayersNest
<1>3. layer[c] \in 1..MaxRuns /\ depth[c] \in 1..MaxRuns
  BY ONLY <1>1, <1>2
<1>4. \A j \in 1..MaxRuns : <<c, j>> \in Tool!Frames
  BY DEF Tool!Frames
<1>5. \A j \in 1..MaxRuns : <<c, j>>[1] = c /\ <<c, j>>[2] = j
  OBVIOUS
<1>6. entered \subseteq Tool!Frames /\ \A j \in 1..MaxRuns : <<c, j>> \in entered <=> j \in Awaited(c)
  BY <1>4, <1>5 DEF ToolInv, EnteredOnce
<1> QED
  BY <1>1, <1>2, <1>3, <1>4, <1>6

(* The breaker of wrapping k is told how what it admitted came out.        *)
LEMMA SettledIsOnce ==
  ASSUME ToolInv, NEW c \in Callers, NEW k, NEW o \in Carried, Inside(c),
         IF at[c] \in {"approval", "body"} THEN k = layer[c] ELSE k = layer[c] + 1 /\ k <= depth[c],
         wrapped < 2 => o.age = 0,
         Tool!Settled(c, k, o), UNCHANGED <<key, depth, auto, wrapped>>
  PROVE  ToolInv' /\ Tool!Breaker!Next
<1>1. k \in 1..MaxRuns /\ k \in Awaited(c)
  <2>1. layer[c] \in 1..MaxRuns /\ depth[c] \in 1..MaxRuns /\ layer[c] <= depth[c] /\ MaxRuns \in Nat
    BY InsideCall, ResilienceAssumption
  <2>2. CASE at[c] \in {"approval", "body"}
    BY <2>1, <2>2 DEF Awaited
  <2>3. CASE at[c] \notin {"approval", "body"}
    <3>1. k = layer[c] + 1 /\ k <= depth[c]
      BY <2>3
    <3>2. k \in 1..MaxRuns /\ k > layer[c]
      BY ONLY <2>1, <3>1
    <3> QED
      BY <3>1, <3>2 DEF Awaited
  <2> QED
    BY <2>2, <2>3
<1>2. <<c, k>> \in entered /\ <<c, k>> \in Tool!Frames
  BY <1>1, InsideCall
<1>3. entered' = entered \ {<<c, k>>}
  BY DEF Tool!Settled
<1>4. Tool!Breaker!Next
  <2>1. Tool!Breaker!Succeed(<<c, k>>) \/ Tool!Breaker!Fail(<<c, k>>)
    BY <1>2 DEF Tool!Settled, Tool!Breaker!Succeed, Tool!Breaker!Fail
  <2> QED
    BY <1>2, <2>1 DEF Tool!Breaker!Next
<1>5. PICK place \in {"onError", "after"} : Tool!Wait(c, place, k)
  BY DEF Tool!Settled
<1>6. cache' \in Seq(Entry) /\ KeptFresh'
  <2>1. CASE UNCHANGED cache
    BY <2>1 DEF ToolInv, ToolTypes, KeptFresh
  <2>2. CASE cache' = Tool!Stored(key[c], o)
    <3> DEFINE e == [key |-> key[c], value |-> o, age |-> 0]
    <3>1. e \in Entry /\ (wrapped < 2 => e \in Fresh)
      BY DEF ToolInv, ToolTypes, Entry, Fresh
    <3>2. cache' \in Seq(Entry)
      BY <2>2, <3>1, StoredIsKept DEF ToolInv, ToolTypes
    <3>3. wrapped < 2 => cache' \in Seq(Fresh)
      BY <2>2, <3>1, StoredIsKept DEF ToolInv, KeptFresh
    <3> QED
      BY <3>2, <3>3 DEF KeptFresh
  <2> QED
    BY <2>1, <2>2 DEF Tool!Settled
<1>7. value' \in [Callers -> Carried]
  BY DEF Tool!Settled, ToolInv, ToolTypes
<1>8. \A f \in Tool!Frames : f[1] # c => (f \in entered' <=> f \in entered)
  BY <1>3
<1>9. ASSUME NEW j \in 1..MaxRuns
      PROVE  <<c, j>> \in entered' <=> j \in Awaited(c)'
  <2>1. <<c, j>> \in entered' <=> j \in Awaited(c) /\ j # k
    BY <1>3, InsideCall
  <2>2. /\ at'[c] = place /\ layer'[c] = k /\ depth'[c] = depth[c]
    BY <1>5 DEF Tool!Wait, ToolInv, ToolTypes
  <2>3. j \in Awaited(c)' <=> j <= depth[c] /\ j > k
    BY <2>2 DEF Awaited, Inside
  <2>4. layer[c] \in Nat /\ k \in Nat /\ j \in Nat /\ depth[c] \in Nat
    BY <1>1, InsideCall
  <2>5. CASE at[c] \in {"approval", "body"}
    <3>1. k = layer[c] /\ (j \in Awaited(c) <=> j <= depth[c] /\ (j > layer[c] \/ j = layer[c]))
      BY <2>5 DEF Awaited
    <3> QED
      BY ONLY <2>1, <2>3, <2>4, <3>1
  <2>6. CASE at[c] \notin {"approval", "body"}
    <3>1. k = layer[c] + 1 /\ (j \in Awaited(c) <=> j <= depth[c] /\ j > layer[c])
      BY <2>6 DEF Awaited
    <3> QED
      BY ONLY <2>1, <2>3, <2>4, <3>1
  <2> QED
    BY <2>5, <2>6
<1>10. place \in Tool!Places /\ k \in Nat /\ place # "body"
  BY <1>1 DEF Tool!Places
<1>11. 1 <= k /\ k <= depth'[c] /\ depth'[c] <= wrapped /\ depth' \in [Callers -> Nat]
  BY <1>1, InsideCall DEF ToolInv, ToolTypes
<1>12. entered' \subseteq Tool!Frames
  BY <1>3, InsideCall
<1> QED
  BY <1>4, <1>5, <1>6, <1>7, <1>8, <1>9, <1>10, <1>11, <1>12, OneCall

(* A wrapping is left: for the caller, or for the one around it.           *)
LEMMA LeaveSettlesOnce ==
  ASSUME ToolInv, NEW c \in Callers, NEW o \in Carried, at[c] \in {"hooks", "after", "onError"},
         Tool!Leave(c, o), UNCHANGED <<key, depth, auto, wrapped>>
  PROVE  ToolInv' /\ [Tool!Breaker!Next]_Tool!Breaker!vars
<1>1. Inside(c)
  BY DEF Inside
<1>2. CASE layer[c] = depth[c]
  <2>1. /\ Tool!Wait(c, "done", 0) /\ value' = [value EXCEPT ![c] = o]
        /\ UNCHANGED <<circuit, failed, sinceFailed, testing, entered, polled, cache>>
    BY <1>2 DEF Tool!Leave, Tool!circuitVars
  <2>2. UNCHANGED Tool!Breaker!vars
    BY <2>1 DEF Tool!Breaker!vars, Tool!Breaker!breakerVars
  <2>3. ASSUME NEW j \in 1..MaxRuns
        PROVE  <<c, j>> \in entered' <=> j \in Awaited(c)'
    <3>1. j \notin Awaited(c)'
      <4>1. at'[c] = "done"
        BY <2>1 DEF Tool!Wait, ToolInv, ToolTypes
      <4> QED
        BY <4>1 DEF Awaited, Inside
    <3>2. j \notin Awaited(c)
      <4>1. layer[c] \in Nat /\ depth[c] \in Nat /\ j \in Nat
        BY <1>1, InsideCall
      <4>2. ~(j <= depth[c] /\ j > layer[c])
        BY ONLY <1>2, <4>1
      <4> QED
        BY <4>2 DEF Awaited
    <3> QED
      BY <1>1, <2>1, <3>1, <3>2, InsideCall
  <2>4. /\ value' \in [Callers -> Carried] /\ cache' \in Seq(Entry) /\ KeptFresh'
        /\ depth' \in [Callers -> Nat]
    BY <2>1 DEF ToolInv, ToolTypes, KeptFresh
  <2>5. entered' \subseteq Tool!Frames
    BY <1>1, <2>1, InsideCall
  <2>6. "done" \in Tool!Places /\ 0 \in Nat
    BY DEF Tool!Places
  <2>7. ToolInv'
    BY <2>1, <2>3, <2>4, <2>5, <2>6, OneCall
  <2> QED
    BY <2>2, <2>7
<1>3. CASE layer[c] # depth[c]
  <2>1. Tool!Settled(c, layer[c] + 1, o)
    BY <1>3 DEF Tool!Leave
  <2>2. layer[c] + 1 <= depth[c] /\ ~(wrapped < 2)
    <3>1. /\ layer[c] \in 1..MaxRuns /\ depth[c] \in 1..MaxRuns /\ layer[c] <= depth[c]
          /\ depth[c] <= wrapped /\ wrapped \in Nat
      BY <1>1, InsideCall
    <3> QED
      BY ONLY <1>3, <3>1
  <2>3. at[c] \notin {"approval", "body"}
    OBVIOUS
  <2> QED
    BY <1>1, <2>1, <2>2, <2>3, SettledIsOnce
<1> QED
  BY <1>2, <1>3

(* Past the gate: the call waits in the wrapping inside, or in the body.   *)
LEMMA DescendKeepsTool ==
  ASSUME ToolInv, NEW c \in Callers, at[c] \in {"hooks", "approval"},
         entered' = entered \cup {<<c, layer[c]>>},
         Tool!Descend(c, layer[c]), UNCHANGED <<key, depth, value, auto, wrapped>>,
         cache' \in Seq(Entry), KeptFresh'
  PROVE  ToolInv'
<1>1. Inside(c)
  BY DEF Inside
<1>2. /\ layer[c] \in 1..MaxRuns /\ depth[c] \in 1..MaxRuns /\ layer[c] <= depth[c]
      /\ depth[c] <= wrapped /\ wrapped \in Nat /\ MaxRuns \in Nat
  BY <1>1, InsideCall, ResilienceAssumption
<1>3. PICK place \in {"body", "hooks"}, k \in Nat :
        /\ Tool!Wait(c, place, k)
        /\ 1 <= k /\ k <= layer[c]
        /\ IF place = "body" THEN k = 1 /\ layer[c] = 1 ELSE k = layer[c] - 1
  <2>1. CASE layer[c] = 1
    BY <2>1 DEF Tool!Descend
  <2>2. CASE layer[c] # 1
    <3>1. layer[c] - 1 \in Nat /\ 1 <= layer[c] - 1 /\ layer[c] - 1 <= layer[c]
      BY ONLY <1>2, <2>2
    <3>2. Tool!Wait(c, "hooks", layer[c] - 1)
      BY <2>2 DEF Tool!Descend
    <3> QED
      BY <3>1, <3>2
  <2> QED
    BY <2>1, <2>2
<1>4. at'[c] = place /\ layer'[c] = k /\ depth'[c] = depth[c]
  BY <1>3 DEF Tool!Wait, ToolInv, ToolTypes
<1>5. ASSUME NEW j \in 1..MaxRuns
      PROVE  <<c, j>> \in entered' <=> j \in Awaited(c)'
  <2>1. <<c, j>> \in entered' <=> j \in Awaited(c) \/ j = layer[c]
    BY <1>1, InsideCall
  <2>2. j \in Awaited(c) \/ j = layer[c] <=> j <= depth[c] /\ (j > layer[c] \/ j = layer[c])
    <3>1. j \in Awaited(c) <=> j <= depth[c] /\ (j > layer[c] \/ (j = layer[c] /\ at[c] = "approval"))
      BY <1>1 DEF Awaited
    <3> QED
      BY ONLY <1>2, <3>1
  <2>3. CASE place = "body"
    <3>1. j \in Awaited(c)' <=> j <= depth[c] /\ (j > k \/ j = k)
      BY <1>4, <2>3 DEF Awaited, Inside
    <3>2. k = layer[c]
      BY <1>3, <2>3
    <3> QED
      BY ONLY <2>1, <2>2, <3>1, <3>2
  <2>4. CASE place = "hooks"
    <3>1. j \in Awaited(c)' <=> j <= depth[c] /\ j > k
      BY <1>4, <2>4 DEF Awaited, Inside
    <3>2. k = layer[c] - 1
      BY <1>3, <2>4
    <3> QED
      BY ONLY <1>2, <2>1, <2>2, <3>1, <3>2
  <2> QED
    BY <2>3, <2>4
<1>6. 1 <= k /\ k <= depth'[c] /\ depth'[c] <= wrapped /\ (place = "body" => k = 1)
  <2>1. 1 <= k /\ k <= layer[c] /\ (place = "body" => k = 1)
    BY <1>3
  <2>2. 1 <= k /\ k <= depth[c] /\ depth[c] <= wrapped
    BY ONLY <1>2, <2>1
  <2> QED
    BY <1>4, <2>1, <2>2
<1>7. /\ \A f \in Tool!Frames : f[1] # c => (f \in entered' <=> f \in entered)
      /\ entered' \subseteq Tool!Frames
  BY <1>1, <1>2, InsideCall
<1>8. value' \in [Callers -> Carried] /\ depth' \in [Callers -> Nat] /\ place \in Tool!Places
  BY DEF ToolInv, ToolTypes, Tool!Places
<1> QED
  BY <1>3, <1>5, <1>6, <1>7, <1>8, OneCall

(* Steps that leave the call where it is with its breakers.                *)
LEMMA StaysInWrapping ==
  ASSUME ToolInv, NEW c \in Callers, at[c] \in {"hooks", "after"},
         NEW place \in {"after", "onError"}, Tool!Wait(c, place, layer[c]),
         value' \in [Callers -> Carried], cache' \in Seq(Entry), KeptFresh',
         UNCHANGED <<key, depth, auto, wrapped, entered>>
  PROVE  ToolInv'
<1>1. Inside(c)
  BY DEF Inside
<1>2. at'[c] = place /\ layer'[c] = layer[c] /\ depth'[c] = depth[c]
  BY DEF Tool!Wait, ToolInv, ToolTypes
<1>3. Awaited(c)' = Awaited(c)
  BY <1>2 DEF Awaited, Inside
<1>4. \A j \in 1..MaxRuns : <<c, j>> \in entered' <=> j \in Awaited(c)'
  BY <1>1, <1>3, InsideCall
<1>5. /\ layer[c] \in Nat /\ 1 <= layer[c] /\ layer[c] <= depth'[c] /\ depth'[c] <= wrapped
      /\ depth' \in [Callers -> Nat] /\ place \in Tool!Places /\ place # "body"
      /\ entered' \subseteq Tool!Frames
  BY <1>1, InsideCall DEF ToolInv, ToolTypes, LayersNest, Tool!Places
<1> QED
  BY <1>4, <1>5, OneCall

(* Nothing is cached: the breaker is asked once.                           *)
LEMMA MissAsksOnce ==
  ASSUME ToolInv, NEW c \in Callers, Tool!Miss(c)
  PROVE  ToolInv' /\ Tool!Breaker!Next
<1> DEFINE f == <<c, layer[c]>>
<1>1. /\ at[c] = "hooks" /\ Inside(c) /\ Tool!Breaker!Execute(f)
      /\ cache' = Tool!Others(key[c], cache) /\ UNCHANGED <<key, depth, auto, wrapped>>
  BY DEF Tool!Miss, Inside
<1>2. layer[c] \in 1..MaxRuns /\ f \in Tool!Frames
  BY <1>1, InsideCall
<1>3. Tool!Breaker!Next
  BY <1>1, <1>2 DEF Tool!Breaker!Next
<1>4. cache' \in Seq(Entry) /\ KeptFresh'
  BY <1>1, OthersAreKept DEF ToolInv, ToolTypes, KeptFresh
<1>5. f \notin entered /\ (entered' = entered \/ entered' = entered \cup {f})
  BY <1>1 DEF Tool!Breaker!Execute
<1>6. CASE f \notin entered'
  <2>1. entered' = entered
    BY <1>5, <1>6
  <2>2. Tool!Wait(c, "onError", layer[c]) /\ value' = [value EXCEPT ![c] = Tool!Outcome("error")]
    BY <1>6 DEF Tool!Miss
  <2>3. value' \in [Callers -> Carried]
    BY <2>2 DEF ToolInv, ToolTypes, Carried, Tool!Kinds, Tool!Outcome
  <2>4. ToolInv'
    BY <1>1, <1>4, <2>1, <2>2, <2>3, StaysInWrapping
  <2> QED
    BY <1>3, <2>4
<1>7. CASE f \in entered'
  <2>1. entered' = entered \cup {f}
    BY <1>5, <1>7
  <2>2. UNCHANGED value /\ (Tool!Descend(c, layer[c]) \/ Tool!Wait(c, "approval", layer[c]))
    BY <1>7 DEF Tool!Miss
  <2>3. CASE Tool!Descend(c, layer[c])
    BY <1>1, <1>3, <1>4, <2>1, <2>2, <2>3, DescendKeepsTool
  <2>4. CASE Tool!Wait(c, "approval", layer[c])
    <3>1. at'[c] = "approval" /\ layer'[c] = layer[c] /\ depth'[c] = depth[c]
      BY <1>1, <2>4 DEF Tool!Wait, ToolInv, ToolTypes
    <3>2. ASSUME NEW j \in 1..MaxRuns
          PROVE  <<c, j>> \in entered' <=> j \in Awaited(c)'
      <4>1. <<c, j>> \in entered' <=> j \in Awaited(c) \/ j = layer[c]
        BY <1>1, <2>1, InsideCall
      <4>2. j \in Awaited(c) <=> j <= depth[c] /\ j > layer[c]
        BY <1>1 DEF Awaited
      <4>3. j \in Awaited(c)' <=> j <= depth[c] /\ (j > layer[c] \/ j = layer[c])
        BY <3>1 DEF Awaited, Inside
      <4>4. layer[c] \in 1..MaxRuns /\ depth[c] \in 1..MaxRuns /\ layer[c] <= depth[c] /\ MaxRuns \in Nat
        BY <1>1, InsideCall, ResilienceAssumption
      <4> QED
        BY ONLY <4>1, <4>2, <4>3, <4>4
    <3>3. /\ layer[c] \in Nat /\ 1 <= layer[c] /\ layer[c] <= depth'[c] /\ depth'[c] <= wrapped
          /\ depth' \in [Callers -> Nat] /\ "approval" \in Tool!Places
          /\ entered' \subseteq Tool!Frames
          /\ value' \in [Callers -> Carried]
      BY <1>1, <1>2, <2>1, <2>2, InsideCall DEF ToolInv, ToolTypes, LayersNest, Tool!Places
    <3>4. \A g \in Tool!Frames : g[1] # c => (g \in entered' <=> g \in entered)
      BY <2>1
    <3>5. ToolInv'
      BY <1>1, <1>4, <2>4, <3>2, <3>3, <3>4, OneCall
    <3> QED
      BY <1>3, <3>5
  <2> QED
    BY <2>2, <2>3, <2>4
<1> QED
  BY <1>6, <1>7

(* A hit answers with what the entry has; it may be gone at get().         *)
LEMMA HitIsFresh ==
  ASSUME ToolInv, NEW c \in Callers, Tool!Hit(c)
  PROVE  /\ ToolInv' /\ UNCHANGED Tool!Breaker!vars
         /\ value'[c].kind = "result" /\ wrapped < 2 => value'[c].age <= Ttl
<1>1. PICK e \in Tool!Cached(key[c]) :
        \/ cache' = Tool!Used(e) /\ value' = [value EXCEPT ![c] = e.value]
        \/ cache' = Tool!Others(e.key, cache) /\ value' = [value EXCEPT ![c] = Tool!Outcome("nothing")]
  BY DEF Tool!Hit
<1>2. /\ at[c] = "hooks" /\ Tool!Wait(c, "after", layer[c])
      /\ UNCHANGED <<circuit, failed, sinceFailed, testing, entered, polled, key, depth, auto, wrapped>>
  BY DEF Tool!Hit, Tool!circuitVars
<1>3. e \in Entry /\ (wrapped < 2 => e \in Fresh) /\ e.age <= Ttl
  <2>1. PICK i \in DOMAIN cache : e = cache[i] /\ e.age <= Ttl
    BY DEF Tool!Cached, Tool!Range
  <2>2. cache[i] \in Entry
    BY LenProperties DEF ToolInv, ToolTypes
  <2>3. wrapped < 2 => cache[i] \in Fresh
    BY LenProperties DEF ToolInv, KeptFresh
  <2> QED
    BY <2>1, <2>2, <2>3
<1>4. ASSUME NEW S, cache \in Seq(S), e \in S  PROVE cache' \in Seq(S)
  BY <1>1, <1>4, OthersAreKept, AppendProperties DEF Tool!Used
<1>5. cache' \in Seq(Entry) /\ KeptFresh'
  BY <1>2, <1>3, <1>4 DEF ToolInv, ToolTypes, KeptFresh
<1>6. value' \in [Callers -> Carried]
  <2>1. e.value \in Carried
    BY <1>3 DEF Entry
  <2>2. Tool!Outcome("nothing") \in Carried
    BY DEF Carried, Tool!Kinds, Tool!Outcome
  <2> QED
    BY <1>1, <2>1, <2>2 DEF ToolInv, ToolTypes
<1>7. ToolInv'
  BY <1>2, <1>5, <1>6, StaysInWrapping
<1>8. value'[c].kind = "result" /\ wrapped < 2 => value'[c].age <= Ttl
  <2> SUFFICES ASSUME value'[c].kind = "result", wrapped < 2  PROVE value'[c].age <= Ttl
    OBVIOUS
  <2>1. value'[c] = e.value
    BY <1>1 DEF ToolInv, ToolTypes, Tool!Outcome
  <2>2. e.value.age <= e.age /\ e.value.age \in Nat /\ e.age \in Nat
    BY <1>3 DEF Fresh, Entry, Carried
  <2>3. e.value.age <= Ttl
    BY ONLY <1>3, <2>2, ResilienceAssumption
  <2> QED
    BY <2>1, <2>3
<1>9. UNCHANGED Tool!Breaker!vars
  BY <1>2 DEF Tool!Breaker!vars, Tool!Breaker!breakerVars
<1> QED
  BY <1>7, <1>8, <1>9

(* Time passes for outcomes and entries alike.                             *)
LEMMA TickKeepsFresh ==
  ASSUME ToolInv, Tool!Tick
  PROVE  ToolInv' /\ Tool!Breaker!Next
<1>1. Tool!Breaker!Next /\ UNCHANGED <<entered, at, key, layer, depth, auto, wrapped>>
  BY DEF Tool!Tick, Tool!Breaker!Tick, Tool!Breaker!Next
<1>2. Tool!AgeCap = Ttl + 1 /\ Ttl \in Nat
  BY ResilienceAssumption DEF Tool!AgeCap
<1> DEFINE Later(n) == IF n < Tool!AgeCap THEN n + 1 ELSE n
<1>3. \A n \in Nat : Later(n) \in Nat
  BY <1>2
<1>4. \A m, n \in Nat : m <= n => Later(m) <= Later(n)
  BY <1>2
<1>5. ASSUME NEW o \in Carried
      PROVE  Tool!Older(o) \in Carried /\ Tool!Older(o).age = Later(o.age)
  <2>1. Tool!Older(o) = [o EXCEPT !.age = Later(o.age)] /\ o.age \in Nat
    BY DEF Tool!Older, Carried
  <2> QED
    BY <1>3, <2>1 DEF Carried
<1> DEFINE Aged(e) == [e EXCEPT !.age = Later(e.age), !.value = Tool!Older(e.value)]
<1>6. ASSUME NEW e \in Entry
      PROVE  Aged(e) \in Entry /\ (e \in Fresh => Aged(e) \in Fresh)
  <2>1. e.age \in Nat /\ e.value \in Carried /\ e.value.age \in Nat
    BY DEF Entry, Carried
  <2>2. /\ Aged(e) \in Entry /\ Aged(e).age = Later(e.age) /\ Aged(e).value.age = Later(e.value.age)
    BY <1>3, <1>5, <2>1 DEF Entry
  <2>3. e.value.age <= e.age => Later(e.value.age) <= Later(e.age)
    BY <1>4, <2>1
  <2> HIDE DEF Aged, Later
  <2> QED
    BY <2>2, <2>3 DEF Fresh
<1>7. cache' = [i \in DOMAIN cache |-> Aged(cache[i])]
  BY DEF Tool!Tick
<1> HIDE DEF Aged, Later
<1>8. ASSUME NEW S, cache \in Seq(S), \A e \in S : Aged(e) \in S  PROVE cache' \in Seq(S)
  <2>1. DOMAIN cache = 1..Len(cache) /\ Len(cache) \in Nat /\ \A i \in 1..Len(cache) : cache[i] \in S
    BY <1>8, LenProperties
  <2>2. cache' \in [1..Len(cache) -> S]
    BY <1>7, <1>8, <2>1
  <2> QED
    BY <2>1, <2>2
<1>9. cache' \in Seq(Entry) /\ KeptFresh'
  <2>1. \A e \in Entry : Aged(e) \in Entry
    BY <1>6
  <2>2. \A e \in Fresh : Aged(e) \in Fresh
    BY <1>6 DEF Fresh
  <2> QED
    BY <1>1, <1>8, <2>1, <2>2 DEF ToolInv, ToolTypes, KeptFresh
<1>10. value' \in [Callers -> Carried]
  <2>1. value' = [c \in Callers |-> IF at[c] \in {"idle", "done"} THEN value[c] ELSE Tool!Older(value[c])]
    BY DEF Tool!Tick
  <2> QED
    BY <1>5, <2>1 DEF ToolInv, ToolTypes
<1>11. ToolTypes' /\ LayersNest'
  BY <1>1, <1>9, <1>10 DEF ToolInv, ToolTypes, LayersNest, Inside
<1>12. EnteredOnce'
  BY <1>1 DEF ToolInv, EnteredOnce, Awaited, Inside
<1> QED
  BY <1>1, <1>9, <1>11, <1>12 DEF ToolInv

(* The invariant, and what it says of each step of a tool's calls.         *)
LEMMA ToolSteps ==
  ASSUME ToolInv, [Tool!Next]_toolVars
  PROVE  /\ ToolInv' /\ [Tool!Breaker!Next]_Tool!Breaker!vars
         /\ \A c \in Callers :
              at[c] = "hooks" /\ at'[c] = "after" /\ value'[c].kind = "result" /\ wrapped < 2
                => value'[c].age <= Ttl
<1> DEFINE Good == /\ ToolInv' /\ [Tool!Breaker!Next]_Tool!Breaker!vars
                   /\ \A c \in Callers :
                        at[c] = "hooks" /\ at'[c] = "after" /\ value'[c].kind = "result" /\ wrapped < 2
                          => value'[c].age <= Ttl
<1>1. \A kind \in Tool!Kinds : Tool!Outcome(kind) \in Carried /\ Tool!Outcome(kind).age = 0
  BY DEF Carried, Tool!Outcome
<1>2. \A c \in Callers : at'[c] = at[c] => ~(at[c] = "hooks" /\ at'[c] = "after")
  OBVIOUS
<1>3. \A c, d \in Callers : \A place, k : Tool!Wait(c, place, k) /\ d # c => at'[d] = at[d]
  BY DEF Tool!Wait, ToolInv, ToolTypes
<1>4. \A c \in Callers : \A place, k : Tool!Wait(c, place, k) => at'[c] = place
  BY DEF Tool!Wait, ToolInv, ToolTypes
<1>5. ASSUME UNCHANGED toolVars PROVE Good
  <2>1. UNCHANGED Tool!Breaker!vars
    BY <1>5 DEF toolVars, Tool!Breaker!vars, Tool!Breaker!breakerVars
  <2>2. ToolInv'
    BY <1>5 DEF toolVars, ToolInv, ToolTypes, LayersNest, EnteredOnce, KeptFresh, Awaited, Inside
  <2>3. UNCHANGED at
    BY <1>5 DEF toolVars
  <2> QED
    BY <1>2, <2>1, <2>2, <2>3
<1>6. ASSUME Tool!PrepareTools PROVE Good
  <2>1. /\ wrapped' = wrapped + 1 /\ wrapped < MaxRuns
        /\ UNCHANGED <<circuit, failed, sinceFailed, testing, entered, polled,
                        at, key, layer, depth, value, auto, cache>>
    BY <1>6 DEF Tool!PrepareTools, Tool!circuitVars, Tool!callVars
  <2>2. ToolTypes'
    BY <2>1, ResilienceAssumption DEF ToolInv, ToolTypes
  <2>3. LayersNest'
    BY <2>1 DEF ToolInv, ToolTypes, LayersNest, Inside
  <2>4. EnteredOnce'
    BY <2>1 DEF ToolInv, EnteredOnce, Awaited, Inside
  <2>5. KeptFresh'
    BY <2>1 DEF ToolInv, ToolTypes, KeptFresh
  <2>6. UNCHANGED Tool!Breaker!vars
    BY <2>1 DEF Tool!Breaker!vars, Tool!Breaker!breakerVars
  <2> QED
    BY <1>2, <2>1, <2>2, <2>3, <2>4, <2>5, <2>6 DEF ToolInv
<1>7. ASSUME Tool!Tick PROVE Good
  BY <1>2, <1>7, TickKeepsFresh DEF Tool!Tick
<1>8. ASSUME NEW c \in Callers, Tool!Call(c) PROVE Good
  <2>1. /\ at[c] = "idle" /\ wrapped > 0 /\ Tool!Wait(c, "hooks", wrapped)
        /\ depth' = [depth EXCEPT ![c] = wrapped]
        /\ UNCHANGED <<circuit, failed, sinceFailed, testing, entered, polled, key, value, auto, wrapped, cache>>
    BY <1>8 DEF Tool!Call, Tool!circuitVars
  <2>2. /\ depth' \in [Callers -> Nat] /\ depth'[c] = wrapped /\ wrapped \in Nat
        /\ \A d \in Callers \ {c} : depth'[d] = depth[d]
        /\ 1 <= wrapped /\ value' \in [Callers -> Carried] /\ cache' \in Seq(Entry)
    BY <2>1 DEF ToolInv, ToolTypes
  <2>3. ASSUME NEW j \in 1..MaxRuns
        PROVE  <<c, j>> \in entered' <=> j \in Awaited(c)'
    <3>1. at'[c] = "hooks" /\ layer'[c] = wrapped /\ depth'[c] = wrapped
      BY <2>1, <2>2 DEF Tool!Wait, ToolInv, ToolTypes
    <3>2. j \notin Awaited(c)'
      BY <2>2, <3>1 DEF Awaited
    <3>3. <<c, j>> \notin entered
      BY <2>1 DEF ToolInv, EnteredOnce, Awaited, Inside
    <3> QED
      BY <2>1, <3>2, <3>3
  <2>4. entered' \subseteq Tool!Frames /\ KeptFresh'
    BY <2>1 DEF ToolInv, EnteredOnce, KeptFresh
  <2>5. "hooks" \in Tool!Places
    BY DEF Tool!Places
  <2>6. ToolInv'
    BY <2>1, <2>2, <2>3, <2>4, <2>5, OneCall
  <2>7. UNCHANGED Tool!Breaker!vars
    BY <2>1 DEF Tool!Breaker!vars, Tool!Breaker!breakerVars
  <2> QED
    BY <1>2, <1>3, <1>4, <2>1, <2>6, <2>7
<1>9. ASSUME NEW c \in Callers, Tool!Hit(c) PROVE Good
  <2>1. Tool!Wait(c, "after", layer[c])
    BY <1>9 DEF Tool!Hit
  <2> QED
    BY <1>3, <1>9, <2>1, HitIsFresh
<1>10. ASSUME NEW c \in Callers, NEW o \in Carried, at[c] \in {"hooks", "after", "onError"},
              Tool!Leave(c, o), UNCHANGED <<key, depth, auto, wrapped>>
       PROVE  Good
  <2>1. ToolInv' /\ [Tool!Breaker!Next]_Tool!Breaker!vars
    BY <1>10, LeaveSettlesOnce
  <2>2. ASSUME NEW d \in Callers, at[d] = "hooks", at'[d] = "after", wrapped < 2
        PROVE  FALSE
    <3>1. \E place, k : Tool!Wait(c, place, k) /\ (layer[c] = depth[c] => place = "done")
      BY <1>10 DEF Tool!Leave, Tool!Settled
    <3>2. d = c /\ layer[c] # depth[c]
      BY <1>3, <1>4, <2>2, <3>1
    <3>3. Inside(c)
      BY <2>2, <3>2 DEF Inside
    <3>4. /\ layer[c] \in 1..MaxRuns /\ depth[c] \in 1..MaxRuns /\ layer[c] <= depth[c]
          /\ depth[c] <= wrapped /\ wrapped \in Nat
      BY <3>3, InsideCall
    <3> QED
      BY ONLY <2>2, <3>2, <3>4
  <2> QED
    BY <2>1, <2>2
<1>11. ASSUME NEW c \in Callers, Tool!Miss(c) PROVE Good
  <2>1. \A d \in Callers : ~(at[d] = "hooks" /\ at'[d] = "after")
    <3>1. \E place, k : Tool!Wait(c, place, k) /\ place \in {"onError", "approval", "body", "hooks"}
      BY <1>11 DEF Tool!Miss, Tool!Descend
    <3> QED
      BY <1>2, <1>3, <1>4, <3>1
  <2> QED
    BY <1>11, <2>1, MissAsksOnce
<1>12. ASSUME NEW c \in Callers, Tool!Approved(c) PROVE Good
  <2>1. /\ at[c] = "approval" /\ Tool!Descend(c, layer[c]) /\ Inside(c)
        /\ UNCHANGED <<circuit, failed, sinceFailed, testing, entered, polled,
                        key, depth, value, auto, wrapped, cache>>
    BY <1>12 DEF Tool!Approved, Tool!circuitVars, Inside
  <2>2. layer[c] \in Awaited(c) /\ layer[c] \in 1..MaxRuns
    BY <2>1, InsideCall DEF Awaited
  <2>3. entered' = entered \cup {<<c, layer[c]>>}
    BY <2>1, <2>2, InsideCall
  <2>4. cache' \in Seq(Entry) /\ KeptFresh'
    BY <2>1 DEF ToolInv, ToolTypes, KeptFresh
  <2>5. ToolInv'
    BY <2>1, <2>3, <2>4, DescendKeepsTool
  <2>6. UNCHANGED Tool!Breaker!vars
    BY <2>1 DEF Tool!Breaker!vars, Tool!Breaker!breakerVars
  <2>7. \A d \in Callers : ~(at[d] = "hooks" /\ at'[d] = "after")
    <3>1. \E place, k : Tool!Wait(c, place, k) /\ place \in {"body", "hooks"}
      BY <2>1 DEF Tool!Descend
    <3> QED
      BY <1>2, <1>3, <1>4, <3>1
  <2> QED
    BY <2>5, <2>6, <2>7
<1>13. ASSUME NEW c \in Callers, NEW o \in Carried, o.age = 0, at[c] \in {"approval", "body"},
              Tool!Settled(c, layer[c], o), UNCHANGED <<key, depth, auto, wrapped>>
       PROVE  Good
  <2>1. ToolInv' /\ Tool!Breaker!Next
    <3>1. Inside(c)
      BY <1>13 DEF Inside
    <3> QED
      BY <1>13, <3>1, SettledIsOnce
  <2>2. \A d \in Callers : ~(at[d] = "hooks" /\ at'[d] = "after")
    <3>1. \E place, k : Tool!Wait(c, place, k)
      BY <1>13 DEF Tool!Settled
    <3> QED
      BY <1>2, <1>3, <1>13, <3>1
  <2> QED
    BY <2>1, <2>2
<1>14. ASSUME NEW c \in Callers, Tool!AfterToolThrows(c) PROVE Good
  <2>1. /\ at[c] = "after" /\ Tool!Wait(c, "onError", layer[c])
        /\ value' = [value EXCEPT ![c] = Tool!Outcome("error")]
        /\ UNCHANGED <<circuit, failed, sinceFailed, testing, entered, polled, key, depth, auto, wrapped, cache>>
    BY <1>14 DEF Tool!AfterToolThrows, Tool!circuitVars
  <2>2. value' \in [Callers -> Carried] /\ cache' \in Seq(Entry) /\ KeptFresh'
    BY <1>1, <2>1 DEF ToolInv, ToolTypes, KeptFresh, Tool!Kinds
  <2>3. ToolInv'
    BY <2>1, <2>2, StaysInWrapping
  <2>4. UNCHANGED Tool!Breaker!vars
    BY <2>1 DEF Tool!Breaker!vars, Tool!Breaker!breakerVars
  <2> QED
    BY <1>2, <1>3, <1>4, <2>1, <2>3, <2>4
<1> HIDE DEF Good
<1>15. ASSUME NEW c \in Callers, Tool!CallStep(c) PROVE Good
  <2>1. \A kind \in {"result", "denied", "skipped", "nothing", "error"} : kind \in Tool!Kinds
    BY DEF Tool!Kinds
  <2>2. CASE Tool!BeforeToolEnds(c)
    BY <1>1, <1>10, <2>1, <2>2 DEF Tool!BeforeToolEnds
  <2>3. CASE Tool!NotApproved(c)
    BY <1>1, <1>13, <2>1, <2>3 DEF Tool!NotApproved
  <2>4. CASE Tool!BodySettles(c)
    <3>1. at[c] = "body" /\ Inside(c)
      BY <2>4 DEF Tool!BodySettles, Inside
    <3>2. layer[c] = 1
      BY <3>1, InsideCall
    <3> QED
      BY <1>1, <1>13, <2>1, <2>4, <3>2 DEF Tool!BodySettles
  <2>5. CASE Tool!AfterToolReturns(c)
    <3>1. value[c] \in Carried
      BY DEF ToolInv, ToolTypes
    <3> QED
      BY <1>10, <2>5, <3>1 DEF Tool!AfterToolReturns
  <2>6. CASE Tool!OnErrorReturns(c)
    BY <1>1, <1>10, <2>1, <2>6 DEF Tool!OnErrorReturns
  <2> QED
    BY <1>9, <1>11, <1>12, <1>14, <1>15, <2>2, <2>3, <2>4, <2>5, <2>6 DEF Tool!CallStep
<1>16. Good
  BY <1>5, <1>6, <1>7, <1>8, <1>15 DEF Tool!Next
<1> QED
  BY <1>16 DEF Good

(* The guards of a tool hold for any number of calls, keys and wrappings,  *)
(* any cache and any breaker: each wrapping uses its breaker as            *)
(* CircuitBreaker says, and no answer of a tool that is wrapped once is    *)
(* staler than the cache allows.                                           *)
THEOREM ToolsAreGuarded == Tool!Init /\ [][Tool!Next]_toolVars => GuardsHold
<1>1. Tool!Init => ToolInv /\ Tool!Breaker!Init
  <2> SUFFICES ASSUME Tool!Init PROVE ToolInv /\ Tool!Breaker!Init
    OBVIOUS
  <2> USE DEF Tool!Init
  <2>1. ToolTypes
    <3>1. Tool!Outcome("none") \in Carried
      BY DEF Carried, Tool!Kinds, Tool!Outcome
    <3>2. <<>> \in Seq(Entry)
      BY EmptySeq
    <3> QED
      BY <3>1, <3>2, ResilienceAssumption DEF ToolTypes, Tool!Places
  <2>2. LayersNest
    BY DEF LayersNest, Inside
  <2>3. EnteredOnce
    <3>1. entered = {}
      BY DEF Tool!Breaker!Init
    <3>2. \A f \in Tool!Frames : Awaited(f[1]) = {}
      BY DEF Awaited, Inside, Tool!Frames
    <3> QED
      BY <3>1, <3>2 DEF EnteredOnce
  <2>4. KeptFresh
    BY EmptySeq DEF KeptFresh
  <2> QED
    BY <2>1, <2>2, <2>3, <2>4 DEF ToolInv
<1>2. ToolInv /\ [Tool!Next]_toolVars => ToolInv' /\ [Tool!Breaker!Next]_Tool!Breaker!vars
  BY ToolSteps
<1>3. ToolInv /\ [Tool!Next]_toolVars =>
        [\A c \in Callers :
           at[c] = "hooks" /\ at'[c] = "after" /\ value'[c].kind = "result" /\ wrapped < 2
             => value'[c].age <= Ttl]_Tool!vars
  BY ToolSteps
<1> QED
  BY <1>1, <1>2, <1>3, PTL
     DEF GuardsHold, Tool!BreakerIsUsed, Tool!AnswersAreFresh, Tool!Breaker!Spec

-----------------------------------------------------------------------------
(* The conversation.  What the model computes by recursion is known from   *)
(* its equations: a place where two computations part would have a least.  *)

Spoken == [of : Nat, size : Nat \ {0}]

(* A set of numbers that is not empty has a least one.                     *)
LEMMA Least ==
  ASSUME NEW S \in SUBSET Nat, S # {}
  PROVE  \E m \in S : \A y \in S : m <= y
<1>1. PICK m \in S : \A y \in S : <<y, m>> \notin OpToRel(<, Nat)
  BY WFMin, NatLessThanWellFounded, Zenon
<1>2. \A y \in S : ~(y < m)
  BY <1>1, Zenon DEF OpToRel
<1> QED
  BY <1>2

IsSum(list, p) == p = [i \in 0 .. Len(list) |-> IF i = 0 THEN 0 ELSE p[i - 1] + list[Len(list) - i + 1].size]

(* The tokens of the newest messages can be added up.                      *)
LEMMA SumExists ==
  ASSUME NEW list, Len(list) \in Nat
  PROVE  \E p : IsSum(list, p)
<1> DEFINE Upto(n, p) == p = [i \in 0 .. n |-> IF i = 0 THEN 0 ELSE p[i - 1] + list[Len(list) - i + 1].size]
           S == {n \in Nat : ~ \E p : Upto(n, p)}
<1> HIDE DEF Upto
<1>1. SUFFICES ASSUME S # {} PROVE FALSE
  <2>1. Len(list) \notin S
    BY <1>1
  <2> QED
    BY <2>1 DEF Upto, IsSum
<1>2. PICK m \in S : \A y \in S : m <= y
  BY <1>1, Least
<1>3. m # 0
  <2> DEFINE g0 == [i \in 0 .. 0 |-> 0]
  <2>1. Upto(0, g0)
    BY DEF Upto
  <2> QED
    BY <2>1
<1>4. m - 1 \in Nat /\ m - 1 \notin S
  BY <1>2, <1>3
<1>5. PICK p : Upto(m - 1, p)
  BY <1>4
<1> DEFINE q == [i \in 0 .. m |-> IF i = m THEN p[m - 1] + list[Len(list) - m + 1].size ELSE p[i]]
<1>6. Upto(m, q)
  <2>1. \A i \in 0 .. m - 1 : p[i] = IF i = 0 THEN 0 ELSE p[i - 1] + list[Len(list) - i + 1].size
    BY <1>4, <1>5 DEF Upto
  <2>2. \A i \in 0 .. m : q[i] = IF i = 0 THEN 0 ELSE q[i - 1] + list[Len(list) - i + 1].size
    <3> SUFFICES ASSUME NEW i \in 0 .. m PROVE q[i] = IF i = 0 THEN 0 ELSE q[i - 1] + list[Len(list) - i + 1].size
      OBVIOUS
    <3>1. CASE i = m
      <4>1. m - 1 \in 0 .. m /\ m - 1 # m /\ m \in 0 .. m
        BY <1>3
      <4>2. q[m - 1] = p[m - 1] /\ q[m] = p[m - 1] + list[Len(list) - m + 1].size
        BY <4>1
      <4> QED
        BY <1>3, <3>1, <4>2
    <3>2. CASE i # m
      <4>1. i \in 0 .. m - 1
        BY <1>3, <3>2
      <4>2. i # 0 => i - 1 \in 0 .. m /\ i - 1 # m
        BY <4>1
      <4>3. q[i] = p[i] /\ (i # 0 => q[i - 1] = p[i - 1])
        BY <3>2, <4>2
      <4>4. p[i] = IF i = 0 THEN 0 ELSE p[i - 1] + list[Len(list) - i + 1].size
        BY <2>1, <4>1
      <4> QED
        BY <4>3, <4>4
    <3> QED
      BY <3>1, <3>2
  <2>3. q = [i \in 0 .. m |-> q[i]]
    OBVIOUS
  <2> HIDE DEF q
  <2> QED
    BY <2>2, <2>3 DEF Upto
<1> QED
  BY <1>2, <1>6

(* The tokens of one more message are its own and those of the newer ones. *)
LEMMA TokensGrow ==
  ASSUME NEW list, Len(list) \in Nat
  PROVE  /\ Talking!Tokens(list, 0) = 0
         /\ \A n \in 1 .. Len(list) :
              Talking!Tokens(list, n) = Talking!Tokens(list, n - 1) + list[Len(list) - n + 1].size
<1> DEFINE p == CHOOSE p : IsSum(list, p)
<1>1. IsSum(list, p)
  BY SumExists
<1>2. \A n : Talking!Tokens(list, n) = p[n]
  BY DEF Talking!Tokens, IsSum
<1> HIDE DEF p
<1>3. p[0] = 0 /\ \A n \in 1 .. Len(list) : p[n] = p[n - 1] + list[Len(list) - n + 1].size
  BY <1>1 DEF IsSum
<1> QED
  BY <1>2, <1>3

(* Tokens are counted, and no more of them are in fewer messages.          *)
LEMMA TokensAreNat ==
  ASSUME NEW list \in Seq(Spoken)
  PROVE  \A n \in 0 .. Len(list) : Talking!Tokens(list, n) \in Nat
<1> DEFINE S == {n \in 0 .. Len(list) : Talking!Tokens(list, n) \notin Nat}
<1> SUFFICES ASSUME S # {} PROVE FALSE
  OBVIOUS
<1>0. S \in SUBSET Nat /\ Len(list) \in Nat
  OBVIOUS
<1>1. PICK m \in S : \A y \in S : m <= y
  <2> HIDE DEF S
  <2> QED
    BY <1>0, Least
<1>2. m \in 1 .. Len(list)
  <2>1. m \in 0 .. Len(list) /\ Talking!Tokens(list, m) \notin Nat
    OBVIOUS
  <2>2. m # 0
    BY <1>0, <2>1, TokensGrow
  <2> QED
    BY <2>1, <2>2
<1>3. m - 1 \in 0 .. Len(list) /\ m - 1 \notin S
  BY <1>1, <1>2
<1>4. Talking!Tokens(list, m - 1) \in Nat
  BY <1>3
<1>5. list[Len(list) - m + 1].size \in Nat
  <2>1. list[Len(list) - m + 1] \in Spoken
    BY <1>0, <1>2
  <2> QED
    BY <2>1 DEF Spoken
<1>6. Talking!Tokens(list, m) = Talking!Tokens(list, m - 1) + list[Len(list) - m + 1].size
  BY <1>0, <1>2, TokensGrow
<1>7. Talking!Tokens(list, m) \notin Nat
  OBVIOUS
<1> HIDE DEF S
<1> QED
  BY <1>4, <1>5, <1>6, <1>7

(* The newest messages of a list are as they are in it.                    *)
LEMMA NewestAre ==
  ASSUME NEW list \in Seq(Spoken), NEW n \in 0 .. Len(list)
  PROVE  /\ Talking!Newest(list, n) \in Seq(Spoken) /\ Len(Talking!Newest(list, n)) = n
         /\ \A i \in 1 .. n : Talking!Newest(list, n)[i] = list[Len(list) - n + i]
BY DEF Talking!Newest

(* And they have the tokens that they have in it.                          *)
LEMMA NewestTokens ==
  ASSUME NEW list \in Seq(Spoken), NEW n \in 0 .. Len(list)
  PROVE  \A k \in 0 .. n : Talking!Tokens(Talking!Newest(list, n), k) = Talking!Tokens(list, k)
<1> DEFINE new == Talking!Newest(list, n)
           S == {k \in 0 .. n : Talking!Tokens(new, k) # Talking!Tokens(list, k)}
<1>0. new \in Seq(Spoken) /\ Len(new) = n /\ \A i \in 1 .. n : new[i] = list[Len(list) - n + i]
  BY NewestAre
<1> HIDE DEF new
<1> SUFFICES ASSUME S # {} PROVE FALSE
  BY DEF new
<1>1. S \in SUBSET Nat /\ Len(list) \in Nat /\ n \in Nat /\ n <= Len(list)
  OBVIOUS
<1>2. PICK m \in S : \A y \in S : m <= y
  <2> HIDE DEF S
  <2> QED
    BY <1>1, Least
<1>3. Talking!Tokens(new, m) # Talking!Tokens(list, m) /\ m \in 0 .. n
  OBVIOUS
<1>4. m # 0
  BY <1>0, <1>1, <1>3, TokensGrow
<1>5. m - 1 \in 0 .. n /\ m - 1 \notin S
  BY <1>2, <1>3, <1>4
<1>6. Talking!Tokens(new, m - 1) = Talking!Tokens(list, m - 1)
  BY <1>5
<1> HIDE DEF S
<1>7. new[n - m + 1] = list[Len(list) - m + 1]
  <2>1. n - m + 1 \in 1 .. n /\ Len(list) - n + (n - m + 1) = Len(list) - m + 1
    BY <1>1, <1>3, <1>4
  <2> QED
    BY <1>0, <2>1
<1>8. Talking!Tokens(new, m) = Talking!Tokens(new, m - 1) + new[n - m + 1].size
  <2>1. m \in 1 .. Len(new) /\ Len(new) \in Nat /\ Len(new) = n
    BY <1>0, <1>1, <1>3, <1>4
  <2>2. Talking!Tokens(new, m) = Talking!Tokens(new, m - 1) + new[Len(new) - m + 1].size
    BY ONLY <2>1, TokensGrow
  <2> QED
    BY <2>1, <2>2
<1>9. Talking!Tokens(list, m) = Talking!Tokens(list, m - 1) + list[Len(list) - m + 1].size
  <2>1. m \in 1 .. Len(list)
    BY <1>1, <1>3, <1>4
  <2> QED
    BY ONLY <1>1, <2>1, TokensGrow
<1> QED
  BY <1>3, <1>6, <1>7, <1>8, <1>9

(* The loop over the newest messages ends somewhere.                       *)
LEMMA LoopStops ==
  ASSUME NEW list \in Seq(Spoken), NEW remaining \in Int
  PROVE  \E n \in 0 .. Len(list) : Talking!Stops(list, remaining, n)
<1> DEFINE S == {n \in 0 .. Len(list) : n = Len(list) \/ Talking!Tokens(list, n + 1) > remaining}
<1>1. S \in SUBSET Nat /\ Len(list) \in Nat /\ Len(list) \in S
  OBVIOUS
<1>2. PICK m \in S : \A y \in S : m <= y
  <2> HIDE DEF S
  <2> QED
    BY <1>1, Least
<1>3. m \in 0 .. Len(list) /\ (m = Len(list) \/ Talking!Tokens(list, m + 1) > remaining)
  OBVIOUS
<1>4. ASSUME NEW k \in 1 .. m PROVE Talking!Tokens(list, k) <= remaining
  <2>0. k - 1 \in 0 .. Len(list) /\ k - 1 < m /\ k - 1 # Len(list) /\ (k - 1) + 1 = k /\ k \in 0 .. Len(list)
    BY <1>1, <1>3
  <2>1. k - 1 \notin S
    <3> HIDE DEF S
    <3> QED
      BY <1>1, <1>2, <1>3, <2>0
  <2>2. ~(Talking!Tokens(list, k) > remaining)
    BY <2>0, <2>1
  <2>3. Talking!Tokens(list, k) \in Nat
    BY <2>0, TokensAreNat
  <2> QED
    BY <2>2, <2>3
<1> QED
  BY <1>3, <1>4 DEF Talking!Stops

(* Truncation keeps the newest messages, as many as fit one after another. *)
LEMMA TruncatedIs ==
  ASSUME spoken \in Seq(Spoken), system \in Seq(Spoken)
  PROVE  \E n \in 0 .. Len(spoken) :
           /\ Talking!Truncated = Talking!Newest(spoken, n)
           /\ n = 0 \/ Talking!Count(system) + Talking!Tokens(spoken, n) <= TruncateAbove
           /\ n < Len(spoken) => Talking!Count(system) + Talking!Tokens(spoken, n + 1) > TruncateAbove
<1> USE ResilienceAssumption
<1> DEFINE remaining == TruncateAbove - Talking!Count(system)
<1>1. Talking!Count(system) \in Nat /\ TruncateAbove \in Nat /\ Len(spoken) \in Nat
  <2>1. Len(system) \in 0 .. Len(system)
    OBVIOUS
  <2> QED
    BY <2>1, TokensAreNat DEF Talking!Count
<1>2. \A k \in 0 .. Len(spoken) : Talking!Tokens(spoken, k) \in Nat
  BY TokensAreNat
<1>3. CASE remaining <= 0
  <2>1. Talking!Newest(spoken, 0) = <<>>
    BY DEF Talking!Newest
  <2>2. Talking!Truncated = Talking!Newest(spoken, 0)
    BY <1>3, <2>1 DEF Talking!Truncated
  <2>3. ASSUME 0 < Len(spoken) PROVE Talking!Count(system) + Talking!Tokens(spoken, 0 + 1) > TruncateAbove
    <3>1. Talking!Tokens(spoken, 1) = Talking!Tokens(spoken, 0) + spoken[Len(spoken)].size
      BY <1>1, <2>3, TokensGrow
    <3>2. Talking!Tokens(spoken, 0) = 0
      BY <1>1, TokensGrow
    <3>3. spoken[Len(spoken)] \in Spoken
      BY <1>1, <2>3
    <3> QED
      BY <1>1, <1>3, <3>1, <3>2, <3>3 DEF Spoken
  <2> QED
    BY <1>1, <2>2, <2>3
<1>4. CASE ~(remaining <= 0)
  <2> DEFINE n == CHOOSE n \in 0 .. Len(spoken) : Talking!Stops(spoken, remaining, n)
  <2>0. remaining \in Int
    BY <1>1
  <2>1. n \in 0 .. Len(spoken) /\ Talking!Stops(spoken, remaining, n)
    <3>1. \E k \in 0 .. Len(spoken) : Talking!Stops(spoken, remaining, k)
      <4> HIDE DEF remaining
      <4> QED
        BY <2>0, LoopStops
    <3> HIDE DEF remaining
    <3> QED
      BY <3>1, Zenon
  <2>2. Talking!Truncated = Talking!Newest(spoken, n)
    BY <1>4 DEF Talking!Truncated, Talking!Kept
  <2> HIDE DEF n
  <2>3. n = 0 \/ Talking!Tokens(spoken, n) <= remaining
    BY <1>1, <2>1 DEF Talking!Stops
  <2>4. n < Len(spoken) => Talking!Tokens(spoken, n + 1) > remaining
    BY <1>1, <2>1 DEF Talking!Stops
  <2>5. n < Len(spoken) => n + 1 \in 0 .. Len(spoken)
    BY <1>1, <2>1
  <2> QED
    BY <1>1, <1>2, <2>1, <2>2, <2>3, <2>4, <2>5
<1> QED
  BY <1>3, <1>4

-----------------------------------------------------------------------------
(* What was said first was summed up or left out, and the others follow.   *)
TalkInv ==
  /\ preserve \in Nat /\ said \in Nat
  /\ system \in Seq(Spoken) /\ spoken \in Seq(Spoken) /\ Len(spoken) <= said
  /\ \A i \in 1 .. Len(spoken) : spoken[i].of = said - Len(spoken) + i
  /\ summed \cup leftOut = 1 .. said - Len(spoken)

(* What one is told next follows what is in the list.                      *)
LEMMA SayKeeps ==
  ASSUME TalkInv, NEW size \in Sizes, Talking!Say(size)
  PROVE  TalkInv'
<1>1. Talking!Message(said + 1, Talking!Offloaded(size)) \in Spoken
  BY ResilienceAssumption DEF TalkInv, Spoken, Talking!Message, Talking!Offloaded
<1> DEFINE m == Talking!Message(said + 1, Talking!Offloaded(size))
<1>2. m.of = said + 1
  BY DEF Talking!Message
<1>3. spoken' = Append(spoken, m) /\ said' = said + 1 /\ UNCHANGED <<preserve, system, summed, leftOut>>
  BY DEF Talking!Say
<1> HIDE DEF m
<1>4. m \in Spoken
  BY <1>1 DEF m
<1>5. /\ spoken' \in Seq(Spoken) /\ Len(spoken') = Len(spoken) + 1 /\ Len(spoken) \in Nat
      /\ \A i \in 1 .. Len(spoken) : spoken'[i] = spoken[i]
      /\ spoken'[Len(spoken) + 1] = m
  BY <1>3, <1>4 DEF TalkInv
<1>6. \A i \in 1 .. Len(spoken') : spoken'[i].of = said' - Len(spoken') + i
  BY <1>2, <1>3, <1>5 DEF TalkInv
<1> QED
  BY <1>3, <1>5, <1>6 DEF TalkInv

(* The older messages of a list and the newest n of it.                    *)
LEMMA OlderIds ==
  ASSUME TalkInv, NEW n \in 0 .. Len(spoken)
  PROVE  /\ Talking!IdsOf(SubSeq(spoken, 1, Len(spoken) - n)) = said - Len(spoken) + 1 .. said - n
         /\ Talking!IdsOf(spoken) = said - Len(spoken) + 1 .. said
         /\ Talking!IdsOf(Talking!Newest(spoken, n)) = said - n + 1 .. said
         /\ Talking!Newest(spoken, n) \in Seq(Spoken) /\ Len(Talking!Newest(spoken, n)) = n
         /\ \A i \in 1 .. n : Talking!Newest(spoken, n)[i].of = said - n + i
<1> DEFINE old == SubSeq(spoken, 1, Len(spoken) - n)
           new == Talking!Newest(spoken, n)
<1>1. said \in Nat /\ Len(spoken) \in Nat /\ n \in Nat /\ n <= Len(spoken) /\ Len(spoken) <= said
  BY DEF TalkInv
<1>2. spoken \in Seq(Spoken) /\ \A i \in 1 .. Len(spoken) : spoken[i].of = said - Len(spoken) + i
  BY DEF TalkInv
<1>3. new \in Seq(Spoken) /\ Len(new) = n /\ \A i \in 1 .. n : new[i] = spoken[Len(spoken) - n + i]
  BY <1>2, NewestAre
<1>4. old \in Seq(Spoken) /\ Len(old) = Len(spoken) - n /\ \A i \in 1 .. Len(spoken) - n : old[i] = spoken[i]
  BY <1>1, <1>2
<1> HIDE DEF old, new
<1>5. \A i \in 1 .. n : new[i].of = said - n + i
  <2> SUFFICES ASSUME NEW i \in 1 .. n PROVE new[i].of = said - n + i
    OBVIOUS
  <2>1. Len(spoken) - n + i \in 1 .. Len(spoken)
    BY <1>1
  <2>2. spoken[Len(spoken) - n + i].of = said - Len(spoken) + (Len(spoken) - n + i)
    BY <1>2, <2>1
  <2>3. said - Len(spoken) + (Len(spoken) - n + i) = said - n + i
    BY <1>1, <2>1
  <2>4. new[i] = spoken[Len(spoken) - n + i]
    BY <1>3
  <2> QED
    BY ONLY <2>2, <2>3, <2>4
<1>6. \A i \in 1 .. Len(spoken) - n : old[i].of = said - Len(spoken) + i
  BY <1>1, <1>2, <1>4
<1>7. ASSUME NEW list \in Seq(Spoken), NEW first \in Int, \A i \in 1 .. Len(list) : list[i].of = first + i
      PROVE  Talking!IdsOf(list) = first + 1 .. first + Len(list)
  <2>1. DOMAIN list = 1 .. Len(list) /\ Len(list) \in Nat
    OBVIOUS
  <2>2. ASSUME NEW x \in first + 1 .. first + Len(list) PROVE x \in Talking!IdsOf(list)
    <3>1. x - first \in 1 .. Len(list) /\ list[x - first].of = x
      BY <1>7, <2>1
    <3> QED
      BY <2>1, <3>1 DEF Talking!IdsOf
  <2>3. ASSUME NEW x \in Talking!IdsOf(list) PROVE x \in first + 1 .. first + Len(list)
    <3>1. PICK i \in 1 .. Len(list) : x = list[i].of
      BY <2>1 DEF Talking!IdsOf
    <3> QED
      BY <1>7, <2>1, <3>1
  <2> QED
    BY <2>2, <2>3
<1>8. Talking!IdsOf(old) = said - Len(spoken) + 1 .. said - n
  <2>1. said - Len(spoken) \in Int /\ (said - Len(spoken)) + Len(old) = said - n
    BY <1>1, <1>4
  <2>2. Talking!IdsOf(old) = (said - Len(spoken)) + 1 .. (said - Len(spoken)) + Len(old)
    BY <1>4, <1>6, <1>7, <2>1
  <2> QED
    BY ONLY <2>1, <2>2
<1>9. Talking!IdsOf(spoken) = said - Len(spoken) + 1 .. said
  <2>1. said - Len(spoken) \in Int /\ (said - Len(spoken)) + Len(spoken) = said
    BY <1>1
  <2>2. Talking!IdsOf(spoken) = (said - Len(spoken)) + 1 .. (said - Len(spoken)) + Len(spoken)
    BY <1>2, <1>7, <2>1
  <2> QED
    BY ONLY <2>1, <2>2
<1>10. Talking!IdsOf(new) = said - n + 1 .. said
  <2>1. said - n \in Int /\ (said - n) + Len(new) = said
    BY <1>1, <1>3
  <2>2. Talking!IdsOf(new) = (said - n) + 1 .. (said - n) + Len(new)
    BY <1>3, <1>5, <1>7, <2>1
  <2> QED
    BY ONLY <2>1, <2>2
<1> QED
  BY <1>3, <1>5, <1>8, <1>9, <1>10 DEF old, new

(* The older messages are summed up, those to be preserved stay.           *)
LEMMA SummarizeKeeps ==
  ASSUME TalkInv, Talking!Summarize
  PROVE  TalkInv'
<1>1. /\ UNCHANGED <<preserve, said, leftOut>> /\ Len(spoken) > preserve
      /\ spoken' = Talking!LastOf(spoken, preserve)
      /\ summed' = summed \cup Talking!IdsOf(Talking!AllBut(spoken, preserve))
  BY DEF Talking!Summarize
<1>2. preserve \in Nat /\ said \in Nat /\ Len(spoken) \in Nat /\ Len(spoken) <= said
      /\ summed \cup leftOut = 1 .. said - Len(spoken)
  BY DEF TalkInv
<1>3. system' \in Seq(Spoken)
  <2>1. PICK size \in SummarySizes : system' = Append(system, Talking!System(size))
    BY DEF Talking!Summarize
  <2>2. Talking!System(size) \in Spoken
    BY <2>1, ResilienceAssumption DEF Talking!System, Spoken
  <2> QED
    BY <2>1, <2>2 DEF TalkInv
<1>4. CASE preserve = 0
  <2>1. spoken' = spoken /\ Talking!IdsOf(<<>>) = {} /\ summed' = summed
    BY <1>1, <1>4 DEF Talking!LastOf, Talking!AllBut, Talking!IdsOf
  <2> QED
    BY <1>1, <1>3, <2>1 DEF TalkInv
<1>5. CASE preserve # 0
  <2>1. preserve \in 0 .. Len(spoken)
    BY <1>1, <1>2
  <2>2. /\ spoken' = Talking!Newest(spoken, preserve)
        /\ summed' = summed \cup Talking!IdsOf(SubSeq(spoken, 1, Len(spoken) - preserve))
    BY <1>1, <1>5 DEF Talking!LastOf, Talking!AllBut
  <2>3. /\ Talking!IdsOf(SubSeq(spoken, 1, Len(spoken) - preserve)) = said - Len(spoken) + 1 .. said - preserve
        /\ spoken' \in Seq(Spoken) /\ Len(spoken') = preserve
        /\ \A i \in 1 .. preserve : spoken'[i].of = said - preserve + i
    BY <2>1, <2>2, OlderIds
  <2>4. summed' \cup leftOut' = 1 .. said - preserve
    <3>1. summed' \cup leftOut' = (1 .. said - Len(spoken)) \cup (said - Len(spoken) + 1 .. said - preserve)
      BY <1>1, <1>2, <2>2, <2>3
    <3> QED
      BY <1>1, <1>2, <3>1
  <2> QED
    BY <1>1, <1>2, <1>3, <2>3, <2>4 DEF TalkInv
<1> QED
  BY <1>4, <1>5

(* What does not fit is left out, from the oldest on.                      *)
LEMMA TruncateTalkKeeps ==
  ASSUME TalkInv, Talking!Truncate
  PROVE  TalkInv'
<1>1. /\ UNCHANGED <<preserve, said, system, summed>> /\ spoken' = Talking!Truncated
      /\ leftOut' = leftOut \cup (Talking!IdsOf(spoken) \ Talking!IdsOf(spoken'))
  BY DEF Talking!Truncate
<1>2. said \in Nat /\ Len(spoken) \in Nat /\ Len(spoken) <= said /\ summed \cup leftOut = 1 .. said - Len(spoken)
  BY DEF TalkInv
<1>3. PICK n \in 0 .. Len(spoken) : Talking!Truncated = Talking!Newest(spoken, n)
  BY TruncatedIs DEF TalkInv
<1>4. /\ spoken' \in Seq(Spoken) /\ Len(spoken') = n /\ Talking!IdsOf(spoken) = said - Len(spoken) + 1 .. said
      /\ Talking!IdsOf(spoken') = said - n + 1 .. said
      /\ \A i \in 1 .. n : spoken'[i].of = said - n + i
  BY <1>1, <1>3, OlderIds
<1>5. summed' \cup leftOut' = 1 .. said - n
  <2>1. (said - Len(spoken) + 1 .. said) \ (said - n + 1 .. said) = said - Len(spoken) + 1 .. said - n
    BY <1>2, <1>3
  <2>2. summed' \cup leftOut' = (1 .. said - Len(spoken)) \cup (said - Len(spoken) + 1 .. said - n)
    BY <1>1, <1>2, <1>4, <2>1
  <2> QED
    BY <1>2, <1>3, <2>2
<1>6. preserve \in Nat /\ system \in Seq(Spoken) /\ n <= said
  BY <1>2, <1>3 DEF TalkInv
<1>7. \A i \in 1 .. Len(spoken') : spoken'[i].of = said' - Len(spoken') + i
  BY ONLY <1>1, <1>4
<1> QED
  BY ONLY <1>1, <1>2, <1>4, <1>5, <1>6, <1>7 DEF TalkInv

(* The list's last messages are known, and so are those that went.         *)
THEOREM TalkInvariance == Talking!Init /\ [][Talking!Next]_talkVars => []TalkInv
<1>1. Talking!Init => TalkInv
  <2> SUFFICES ASSUME Talking!Init PROVE TalkInv
    OBVIOUS
  <2>1. PICK size \in Sizes : system = <<Talking!System(size)>>
    BY DEF Talking!Init
  <2>2. Talking!System(size) \in Spoken
    BY ResilienceAssumption DEF Talking!System, Spoken
  <2>3. system \in Seq(Spoken)
    BY <2>1, <2>2
  <2>4. spoken = <<>> /\ said = 0 /\ summed \cup leftOut = {} /\ preserve \in Nat
    BY ResilienceAssumption DEF Talking!Init
  <2> QED
    BY <2>3, <2>4 DEF TalkInv
<1>2. TalkInv /\ [Talking!Next]_talkVars => TalkInv'
  <2> SUFFICES ASSUME TalkInv, [Talking!Next]_talkVars PROVE TalkInv'
    OBVIOUS
  <2>1. CASE UNCHANGED talkVars
    BY <2>1 DEF talkVars, TalkInv
  <2> QED
    BY <2>1, SayKeeps, SummarizeKeeps, TruncateTalkKeeps DEF Talking!Next
<1> QED
  BY <1>1, <1>2, PTL

(* What the invariant says to the reader of the list.                      *)
LEMMA TalkShows ==
  ASSUME TalkInv
  PROVE  ConversationIsWhole
<1> DEFINE dropped == Len(spoken) - Len(Talking!Truncated)
           tokens == Talking!Count(system) + Talking!Count(Talking!Truncated)
<1>1. /\ spoken \in Seq(Spoken) /\ system \in Seq(Spoken) /\ Len(spoken) \in Nat /\ DOMAIN spoken = 1 .. Len(spoken)
      /\ \A i \in 1 .. Len(spoken) : spoken[i].of = said - Len(spoken) + i
      /\ summed \cup leftOut = 1 .. said - Len(spoken)
  BY DEF TalkInv
<1>2. PICK n \in 0 .. Len(spoken) :
           /\ Talking!Truncated = Talking!Newest(spoken, n)
           /\ n = 0 \/ Talking!Count(system) + Talking!Tokens(spoken, n) <= TruncateAbove
           /\ n < Len(spoken) => Talking!Count(system) + Talking!Tokens(spoken, n + 1) > TruncateAbove
  BY <1>1, TruncatedIs
<1>3. Len(Talking!Truncated) = n /\ (n = 0 => Talking!Truncated = <<>>)
  BY <1>1, <1>2, NewestAre
<1>4. Talking!Count(Talking!Truncated) = Talking!Tokens(spoken, n)
  <2>1. n \in 0 .. n
    BY <1>1, <1>2
  <2> QED
    BY <1>1, <1>2, <1>3, <2>1, NewestTokens DEF Talking!Count
<1>5. tokens <= TruncateAbove \/ Talking!Truncated = <<>>
  BY <1>2, <1>3, <1>4
<1>6. ASSUME dropped > 0 PROVE tokens + spoken[dropped].size > TruncateAbove
  <2>1. n < Len(spoken) /\ n + 1 \in 1 .. Len(spoken) /\ dropped = Len(spoken) - (n + 1) + 1 /\ (n + 1) - 1 = n
    BY <1>1, <1>2, <1>3, <1>6
  <2>2. Talking!Tokens(spoken, n + 1) = Talking!Tokens(spoken, n) + spoken[dropped].size
    BY <1>1, <2>1, TokensGrow
  <2>3. Talking!Tokens(spoken, n) \in Nat /\ Talking!Count(system) \in Nat
    <3>1. Len(system) \in 0 .. Len(system)
      BY <1>1
    <3> QED
      BY <1>1, <1>2, <3>1, TokensAreNat DEF Talking!Count
  <2>4. spoken[dropped] \in Spoken
    <3>1. dropped \in 1 .. Len(spoken)
      BY <1>1, <1>2, <1>3, <1>6
    <3> QED
      BY <1>1, <3>1
  <2>5. Talking!Count(system) + Talking!Tokens(spoken, n + 1) > TruncateAbove
    BY <1>2, <2>1
  <2>6. tokens = Talking!Count(system) + Talking!Tokens(spoken, n)
    BY <1>4
  <2>7. spoken[dropped].size \in Nat
    BY <2>4 DEF Spoken
  <2> HIDE DEF tokens, dropped
  <2> QED
    BY <2>2, <2>3, <2>5, <2>6, <2>7
<1> QED
  BY <1>1, <1>5, <1>6 DEF ConversationIsWhole, Talking!ConversationIsWhole

(* The model reads a conversation without gaps, whatever is said, however  *)
(* large it is and however large the window and the summaries are.         *)
THEOREM ConversationStaysWhole == Talking!Init /\ [][Talking!Next]_talkVars => []ConversationIsWhole
BY TalkInvariance, TalkShows, PTL

-----------------------------------------------------------------------------
(* The documents.  What is computed part after part is known from its      *)
(* equations, and holds of every part when no part is the first to fail.   *)

(* A number that is not the first to be bad, from 0 up to n, is not bad.   *)
LEMMA Upwards ==
  ASSUME NEW n \in Nat, NEW B \in SUBSET (0 .. n), 0 \notin B,
         \A k \in 1 .. n : k - 1 \notin B => k \notin B
  PROVE  B = {}
<1> SUFFICES ASSUME B # {} PROVE FALSE
  OBVIOUS
<1>1. B \in SUBSET Nat
  OBVIOUS
<1>2. PICK m \in B : \A y \in B : m <= y
  BY <1>1, Least
<1>3. m \in 1 .. n /\ m - 1 \notin B
  BY <1>2
<1> QED
  BY <1>2, <1>3

(* Steps of F, the k-th from the state before it.                          *)
IsRun(n, D, init, F, p) ==
  p \in [0 .. n -> D] /\ p[0] = init /\ \A k \in 1 .. n : p[k] = F[k][p[k - 1]]

(* Steps from one state of D to the next can be taken one after the other. *)
LEMMA Recursion ==
  ASSUME NEW n, NEW D, NEW init, NEW F, n \in Nat, init \in D, F \in [1 .. n -> [D -> D]]
  PROVE  \E p : IsRun(n, D, init, F, p)
<1> DEFINE Runs(m, p) == p \in [0 .. m -> D] /\ p[0] = init /\ \A k \in 1 .. m : p[k] = F[k][p[k - 1]]
           B == {m \in 0 .. n : ~ \E p : Runs(m, p)}
<1> HIDE DEF Runs
<1>1. 0 \notin B
  <2> DEFINE p == [k \in 0 .. 0 |-> init]
  <2>1. Runs(0, p)
    BY DEF Runs
  <2> QED
    BY <2>1
<1>2. ASSUME NEW m \in 1 .. n, m - 1 \notin B PROVE m \notin B
  <2>1. m - 1 \in 0 .. n
    OBVIOUS
  <2>2. PICK p : Runs(m - 1, p)
    BY <1>2, <2>1
  <2> DEFINE q == [k \in 0 .. m |-> IF k = m THEN F[m][p[m - 1]] ELSE p[k]]
  <2>3. p \in [0 .. m - 1 -> D] /\ p[0] = init /\ \A k \in 1 .. m - 1 : p[k] = F[k][p[k - 1]]
    BY <2>2 DEF Runs
  <2>4. F[m][p[m - 1]] \in D
    BY <2>3
  <2>5. q \in [0 .. m -> D]
    BY <2>3, <2>4
  <2>6. q[0] = init
    BY <2>3
  <2>7. ASSUME NEW k \in 1 .. m PROVE q[k] = F[k][q[k - 1]]
    <3>1. k - 1 \in 0 .. m /\ k - 1 # m /\ q[k - 1] = p[k - 1]
      OBVIOUS
    <3>2. CASE k = m
      BY <3>1, <3>2
    <3>3. CASE k # m
      <4>1. k \in 1 .. m - 1 /\ k \in 0 .. m
        BY <3>3
      <4>2. q[k] = p[k]
        BY <3>3, <4>1
      <4> QED
        BY <2>3, <3>1, <4>1, <4>2
    <3> QED
      BY <3>2, <3>3
  <2> HIDE DEF q
  <2>8. Runs(m, q)
    BY <2>5, <2>6, <2>7 DEF Runs
  <2> QED
    BY <2>8
<1>3. B \in SUBSET (0 .. n)
  OBVIOUS
<1> HIDE DEF B
<1>4. B = {}
  BY <1>1, <1>2, <1>3, Upwards
<1>5. \E p : Runs(n, p)
  BY <1>4 DEF B
<1> QED
  BY <1>5, Zenon DEF Runs, IsRun

(* The smaller and the larger of two numbers.                              *)
LEMMA OfTwo ==
  ASSUME NEW a \in Int, NEW b \in Int
  PROVE  /\ Knowing!Min({a, b}) = IF a <= b THEN a ELSE b
         /\ Knowing!Max({a, b}) = IF a <= b THEN b ELSE a
<1>1. \E x \in {a, b} : \A y \in {a, b} : x <= y
  OBVIOUS
<1>2. \E x \in {a, b} : \A y \in {a, b} : x >= y
  OBVIOUS
<1> QED
  BY <1>1, <1>2 DEF Knowing!Min, Knowing!Max

(* The least of one number.                                                *)
LEMMA OfOne == \A a \in Int : Knowing!Min({a}) = a
BY DEF Knowing!Min

(* As many parts of a size as it takes are not one too many.               *)
LEMMA RoundedUp ==
  ASSUME NEW w \in Nat \ {0}, NEW size \in Nat \ {0}
  PROVE  /\ (w + size - 1) \div size \in Nat \ {0}
         /\ ((w + size - 1) \div size - 1) * size < w
         /\ w <= ((w + size - 1) \div size) * size
<1> DEFINE n == (w + size - 1) \div size
           r == (w + size - 1) % size
<1>1. n \in Int /\ r \in 0 .. size - 1 /\ w + size - 1 = size * n + r
  OBVIOUS
<1> HIDE DEF n, r
<1>2. (n - 1) * size = size * n - size /\ n * size = size * n
  BY <1>1
<1>3. w <= size * n /\ size * n < w + size /\ w \in Nat \ {0}
  BY <1>1
<1>4. n > 0
  <2> SUFFICES ASSUME n <= 0 PROVE FALSE
    BY <1>1
  <2>1. size * n <= 0 /\ size * n \in Int
    BY <1>1
  <2> QED
    BY ONLY <1>3, <2>1
<1> QED
  BY <1>1, <1>2, <1>3, <1>4 DEF n

(* Fewer parts of a size are no larger together.                           *)
LEMMA TimesGrows ==
  ASSUME NEW a \in Nat, NEW b \in Nat, a <= b, NEW size \in Nat
  PROVE  a * size <= b * size /\ a * size \in Nat /\ (a + 1) * size = a * size + size
<1>1. (b - a) * size >= 0 /\ b - a \in Nat
  OBVIOUS
<1>2. (b - a) * size = b * size - a * size
  OBVIOUS
<1> QED
  BY <1>1, <1>2

-----------------------------------------------------------------------------
(* Ranges of words that follow each other.                                 *)

Pieces == [from : Int, to : Int, cut : BOOLEAN]

Row(cs, from, to) ==
  /\ cs \in Seq(Pieces)
  /\ \A k \in 1 .. Len(cs) : from <= cs[k].from /\ cs[k].from <= cs[k].to /\ cs[k].to <= to
  /\ \A k \in 1 .. Len(cs) - 1 : cs[k + 1].from = cs[k].to + 1
  /\ IF Len(cs) = 0 THEN to = from - 1 ELSE cs[1].from = from /\ cs[Len(cs)].to = to

Fit(cs, max) == \A k \in 1 .. Len(cs) : Knowing!WordCount(cs[k]) <= max

(* The parts of a row are ranges of words.                                 *)
LEMMA PiecesOf ==
  ASSUME NEW cs \in Seq(Pieces)
  PROVE  /\ Len(cs) \in Nat
         /\ \A k \in 1 .. Len(cs) :
              /\ cs[k] \in Pieces
              /\ cs[k].from \in Int /\ cs[k].to \in Int /\ cs[k].cut \in BOOLEAN
<1>1. Len(cs) \in Nat /\ \A k \in 1 .. Len(cs) : cs[k] \in Pieces
  BY ElementOfSeq, LenProperties
<1>2. \A p \in Pieces : p.from \in Int /\ p.to \in Int /\ p.cut \in BOOLEAN
  BY DEF Pieces
<1> QED
  BY <1>1, <1>2, Zenon

(* Two rows make a row.                                                    *)
LEMMA RowJoin ==
  ASSUME NEW a, NEW b, NEW from \in Int, NEW mid \in Int, NEW to \in Int,
         Row(a, from, mid), Row(b, mid + 1, to)
  PROVE  Row(a \o b, from, to)
<1> DEFINE c == a \o b
<1>1. a \in Seq(Pieces) /\ b \in Seq(Pieces)
  BY DEF Row
<1>2. /\ c \in Seq(Pieces) /\ Len(c) = Len(a) + Len(b)
      /\ \A i \in 1 .. Len(a) + Len(b) : c[i] = IF i <= Len(a) THEN a[i] ELSE b[i - Len(a)]
  BY <1>1, ConcatProperties
<1>3. /\ Len(a) \in Nat /\ \A k \in 1 .. Len(a) : a[k].from \in Int /\ a[k].to \in Int
      /\ Len(b) \in Nat /\ \A k \in 1 .. Len(b) : b[k].from \in Int /\ b[k].to \in Int
  BY <1>1, PiecesOf
<1>4. /\ \A k \in 1 .. Len(a) : from <= a[k].from /\ a[k].from <= a[k].to /\ a[k].to <= mid
      /\ \A k \in 1 .. Len(a) - 1 : a[k + 1].from = a[k].to + 1
      /\ IF Len(a) = 0 THEN mid = from - 1 ELSE a[1].from = from /\ a[Len(a)].to = mid
  BY DEF Row
<1>5. /\ \A k \in 1 .. Len(b) : mid + 1 <= b[k].from /\ b[k].from <= b[k].to /\ b[k].to <= to
      /\ \A k \in 1 .. Len(b) - 1 : b[k + 1].from = b[k].to + 1
      /\ IF Len(b) = 0 THEN to = mid ELSE b[1].from = mid + 1 /\ b[Len(b)].to = to
  BY DEF Row
<1> HIDE DEF c
<1>6. from - 1 <= mid /\ mid <= to
  <2>1. from - 1 <= mid
    BY <1>3, <1>4
  <2>2. mid <= to
    <3>1. CASE Len(b) = 0
      BY <1>5, <3>1
    <3>2. CASE Len(b) # 0
      <4>1. 1 \in 1 .. Len(b)
        BY <1>3, <3>2
      <4> QED
        BY <1>3, <1>5, <4>1
    <3> QED
      BY <3>1, <3>2
  <2> QED
    BY <2>1, <2>2
<1>7. ASSUME NEW k \in 1 .. Len(c)
      PROVE  from <= c[k].from /\ c[k].from <= c[k].to /\ c[k].to <= to
  <2>1. CASE k <= Len(a)
    <3>1. k \in 1 .. Len(a) /\ c[k] = a[k]
      BY <1>2, <1>3, <2>1
    <3> QED
      BY <1>3, <1>4, <1>6, <3>1
  <2>2. CASE k > Len(a)
    <3>0. k \in 1 .. Len(a) + Len(b) /\ ~(k <= Len(a)) /\ k - Len(a) \in 1 .. Len(b)
      BY <1>2, <1>3, <2>2
    <3>1. k - Len(a) \in 1 .. Len(b) /\ c[k] = b[k - Len(a)]
      BY <1>2, <3>0
    <3> QED
      BY <1>3, <1>5, <1>6, <3>1
  <2> QED
    BY <1>3, <2>1, <2>2
<1>8. ASSUME NEW k \in 1 .. Len(c) - 1 PROVE c[k + 1].from = c[k].to + 1
  <2>1. CASE k < Len(a)
    <3>1. k \in 1 .. Len(a) - 1 /\ c[k] = a[k] /\ c[k + 1] = a[k + 1]
      BY <1>2, <1>3, <2>1
    <3> QED
      BY <1>4, <3>1
  <2>2. CASE k = Len(a)
    <3>0. /\ k \in 1 .. Len(a) + Len(b) /\ k <= Len(a) /\ Len(a) # 0 /\ Len(b) # 0
          /\ k + 1 \in 1 .. Len(a) + Len(b) /\ ~(k + 1 <= Len(a)) /\ k + 1 - Len(a) = 1
      BY <1>2, <1>3, <2>2
    <3>1. Len(a) # 0 /\ Len(b) # 0 /\ c[k] = a[Len(a)] /\ c[k + 1] = b[1]
      BY <1>2, <2>2, <3>0
    <3> QED
      BY <1>4, <1>5, <3>1
  <2>3. CASE k > Len(a)
    <3>1. /\ k - Len(a) \in 1 .. Len(b) - 1 /\ (k - Len(a)) + 1 = k + 1 - Len(a)
          /\ c[k] = b[k - Len(a)] /\ c[k + 1] = b[k + 1 - Len(a)]
      BY <1>2, <1>3, <2>3
    <3> QED
      BY <1>5, <3>1
  <2> QED
    BY <1>3, <2>1, <2>2, <2>3
<1>9. IF Len(c) = 0 THEN to = from - 1 ELSE c[1].from = from /\ c[Len(c)].to = to
  <2>1. CASE Len(a) = 0 /\ Len(b) = 0
    BY <1>2, <1>4, <1>5, <2>1
  <2>2. CASE Len(a) = 0 /\ Len(b) # 0
    <3>1. Len(c) # 0 /\ c[1] = b[1] /\ c[Len(c)] = b[Len(b)]
      BY <1>2, <1>3, <2>2
    <3> QED
      BY <1>4, <1>5, <2>2, <3>1
  <2>3. CASE Len(a) # 0 /\ Len(b) = 0
    <3>1. Len(c) # 0 /\ c[1] = a[1] /\ c[Len(c)] = a[Len(a)]
      BY <1>2, <1>3, <2>3
    <3> QED
      BY <1>4, <1>5, <2>3, <3>1
  <2>4. CASE Len(a) # 0 /\ Len(b) # 0
    <3>1. Len(c) # 0 /\ c[1] = a[1] /\ c[Len(c)] = b[Len(b)]
      BY <1>2, <1>3, <2>4
    <3> QED
      BY <1>4, <1>5, <2>4, <3>1
  <2> QED
    BY <2>1, <2>2, <2>3, <2>4
<1> QED
  BY <1>2, <1>7, <1>8, <1>9 DEF Row, c

(* What fits twice fits together.                                          *)
LEMMA FitJoin ==
  ASSUME NEW a \in Seq(Pieces), NEW b \in Seq(Pieces), NEW max, Fit(a, max), Fit(b, max)
  PROVE  Fit(a \o b, max)
<1>1. /\ Len(a \o b) = Len(a) + Len(b) /\ Len(a) \in Nat /\ Len(b) \in Nat
      /\ \A i \in 1 .. Len(a) + Len(b) : (a \o b)[i] = IF i <= Len(a) THEN a[i] ELSE b[i - Len(a)]
  BY ConcatProperties, LenProperties
<1> SUFFICES ASSUME NEW k \in 1 .. Len(a) + Len(b) PROVE Knowing!WordCount((a \o b)[k]) <= max
  BY <1>1 DEF Fit
<1>2. CASE k <= Len(a)
  <2>1. k \in 1 .. Len(a) /\ (a \o b)[k] = a[k]
    BY <1>1, <1>2
  <2> QED
    BY <2>1, Zenon DEF Fit
<1>3. CASE k > Len(a)
  <2>1. k - Len(a) \in 1 .. Len(b) /\ (a \o b)[k] = b[k - Len(a)]
    BY <1>1, <1>3
  <2> QED
    BY <2>1, Zenon DEF Fit
<1> QED
  BY <1>1, <1>2, <1>3

(* A range of words is a row by itself.                                    *)
LEMMA RowOne ==
  ASSUME NEW p \in Pieces, p.from <= p.to
  PROVE  /\ Row(<<p>>, p.from, p.to) /\ <<p>> \in Seq(Pieces)
         /\ \A max : Knowing!WordCount(p) <= max => Fit(<<p>>, max)
<1>1. <<p>> \in Seq(Pieces) /\ Len(<<p>>) = 1 /\ <<p>>[1] = p
  OBVIOUS
<1>2. p.from \in Int /\ p.to \in Int
  BY DEF Pieces
<1> DEFINE s == <<p>>
<1> HIDE DEF s
<1>3. Row(s, p.from, p.to)
  BY <1>1, <1>2 DEF Row, s
<1>4. ASSUME NEW max, Knowing!WordCount(p) <= max PROVE Fit(s, max)
  <2>1. \A k \in 1 .. 1 : k = 1
    OBVIOUS
  <2> QED
    BY <1>1, <1>4, <2>1, Zenon DEF Fit, s
<1> QED
  BY <1>1, <1>3, <1>4 DEF s

(* A row grows by the range that follows it.                               *)
LEMMA RowAppend ==
  ASSUME NEW a, NEW from \in Int, NEW p \in Pieces, p.from <= p.to, Row(a, from, p.from - 1)
  PROVE  /\ Row(Append(a, p), from, p.to)
         /\ \A max : Fit(a, max) /\ Knowing!WordCount(p) <= max => Fit(Append(a, p), max)
<1>1. p.from \in Int /\ p.to \in Int /\ p.from - 1 \in Int /\ (p.from - 1) + 1 = p.from
  BY DEF Pieces
<1>2. a \in Seq(Pieces)
  BY DEF Row
<1>3. Append(a, p) = a \o <<p>>
  BY <1>2, AppendIsConcat
<1>4. Row(<<p>>, (p.from - 1) + 1, p.to)
  BY <1>1, RowOne
<1>5. Row(a \o <<p>>, from, p.to)
  BY <1>1, <1>4, RowJoin
<1>6. ASSUME NEW max, Fit(a, max), Knowing!WordCount(p) <= max PROVE Fit(a \o <<p>>, max)
  BY <1>2, <1>6, RowOne, FitJoin
<1> QED
  BY <1>3, <1>5, <1>6

(* Without its last range a row ends before it.                            *)
LEMMA RowFront ==
  ASSUME NEW a \in Seq(Pieces), NEW p \in Pieces, NEW from \in Int, NEW to \in Int,
         Row(Append(a, p), from, to)
  PROVE  /\ Row(a, from, p.from - 1) /\ p.from <= p.to /\ p.to = to
         /\ \A max : Fit(Append(a, p), max) => Fit(a, max) /\ Knowing!WordCount(p) <= max
<1> DEFINE c == Append(a, p)
<1>1. /\ Len(c) = Len(a) + 1 /\ \A i \in 1 .. Len(a) : c[i] = a[i]
      /\ c[Len(a) + 1] = p
  BY AppendProperties
<1>2. /\ Len(a) \in Nat /\ \A k \in 1 .. Len(a) : a[k].from \in Int /\ a[k].to \in Int
      /\ p.from \in Int /\ p.to \in Int
  BY PiecesOf DEF Pieces
<1>3. /\ \A k \in 1 .. Len(c) : from <= c[k].from /\ c[k].from <= c[k].to /\ c[k].to <= to
      /\ \A k \in 1 .. Len(c) - 1 : c[k + 1].from = c[k].to + 1
      /\ IF Len(c) = 0 THEN to = from - 1 ELSE c[1].from = from /\ c[Len(c)].to = to
  BY DEF Row
<1> HIDE DEF c
<1>4. p.from <= p.to /\ p.to = to
  BY <1>1, <1>2, <1>3
<1>5. \A k \in 1 .. Len(a) - 1 : a[k + 1].from = a[k].to + 1
  <2> SUFFICES ASSUME NEW k \in 1 .. Len(a) - 1 PROVE a[k + 1].from = a[k].to + 1
    OBVIOUS
  <2>1. k \in 1 .. Len(c) - 1 /\ c[k] = a[k] /\ c[k + 1] = a[k + 1]
    BY <1>1, <1>2
  <2> QED
    BY <1>3, <2>1
<1>6. IF Len(a) = 0 THEN p.from - 1 = from - 1 ELSE a[1].from = from /\ a[Len(a)].to = p.from - 1
  <2>1. CASE Len(a) = 0
    BY <1>1, <1>2, <1>3, <2>1
  <2>2. CASE Len(a) # 0
    <3>1. Len(a) \in 1 .. Len(c) - 1 /\ c[Len(a)] = a[Len(a)] /\ c[1] = a[1] /\ Len(c) # 0
      BY <1>1, <1>2, <2>2
    <3>2. p.from = a[Len(a)].to + 1 /\ a[1].from = from
      BY <1>1, <1>3, <3>1
    <3>3. Len(a) \in 1 .. Len(a)
      BY <1>2, <2>2
    <3> QED
      BY <1>2, <2>2, <3>2, <3>3
  <2> QED
    BY <2>1, <2>2
<1>7. \A k \in 1 .. Len(a) : from <= a[k].from /\ a[k].from <= a[k].to /\ a[k].to <= p.from - 1
  <2> DEFINE B == {i \in 0 .. Len(a) - 1 : ~ (a[Len(a) - i].to <= p.from - 1)}
  <2>1. \A k \in 1 .. Len(a) : from <= a[k].from /\ a[k].from <= a[k].to
    BY <1>1, <1>2, <1>3
  <2>2. CASE Len(a) = 0
    BY <2>2
  <2>3. CASE Len(a) # 0
    <3>1. 0 \notin B
      BY <1>2, <1>6, <2>3
    <3>2. ASSUME NEW i \in 1 .. Len(a) - 1, i - 1 \notin B PROVE i \notin B
      <4>1. /\ i - 1 \in 0 .. Len(a) - 1 /\ Len(a) - (i - 1) = (Len(a) - i) + 1
            /\ Len(a) - i \in 1 .. Len(a) - 1 /\ (Len(a) - i) + 1 \in 1 .. Len(a)
            /\ Len(a) - i \in 1 .. Len(a)
        BY <1>2
      <4>2. a[(Len(a) - i) + 1].to <= p.from - 1
        BY <3>2, <4>1
      <4>3. a[(Len(a) - i) + 1].from = a[Len(a) - i].to + 1
        BY <1>5, <4>1
      <4>4. a[(Len(a) - i) + 1].from <= a[(Len(a) - i) + 1].to
        BY <2>1, <4>1
      <4>5. a[Len(a) - i].to <= p.from - 1
        <5>1. /\ a[Len(a) - i].to \in Int /\ p.from \in Int
              /\ a[(Len(a) - i) + 1].from \in Int /\ a[(Len(a) - i) + 1].to \in Int
          BY <1>2, <4>1
        <5> QED
          BY ONLY <4>2, <4>3, <4>4, <5>1
      <4> QED
        BY <4>5
    <3>3. Len(a) - 1 \in Nat /\ B \in SUBSET (0 .. Len(a) - 1)
      BY <1>2, <2>3
    <3> HIDE DEF B
    <3>4. B = {}
      BY <3>1, <3>2, <3>3, Upwards
    <3>5. ASSUME NEW k \in 1 .. Len(a) PROVE a[k].to <= p.from - 1
      <4>1. Len(a) - k \in 0 .. Len(a) - 1 /\ Len(a) - (Len(a) - k) = k
        BY <1>2
      <4> QED
        BY <3>4, <4>1 DEF B
    <3> QED
      BY <2>1, <3>5
  <2> QED
    BY <2>2, <2>3
<1>8. ASSUME NEW max, Fit(c, max) PROVE Fit(a, max) /\ Knowing!WordCount(p) <= max
  <2>1. Len(a) + 1 \in 1 .. Len(c) /\ \A k \in 1 .. Len(a) : k \in 1 .. Len(c)
    BY <1>1, <1>2
  <2>2. \A k \in 1 .. Len(c) : Knowing!WordCount(c[k]) <= max
    BY <1>8 DEF Fit
  <2>3. Knowing!WordCount(p) <= max
    BY <1>1, <2>1, <2>2, Zenon
  <2>4. \A k \in 1 .. Len(a) : Knowing!WordCount(a[k]) <= max
    BY <1>1, <2>1, <2>2, Zenon
  <2> QED
    BY <2>3, <2>4 DEF Fit
<1>9. Row(a, from, p.from - 1)
  BY <1>5, <1>6, <1>7 DEF Row
<1> QED
  BY <1>4, <1>8, <1>9 DEF c

-----------------------------------------------------------------------------
(* The strategies.                                                         *)

(* Splitting by words leaves no word out and makes no part too large.      *)
LEMMA ByWordsFits ==
  ASSUME NEW p \in Pieces, p.from <= p.to, NEW max \in Nat \ {0}
  PROVE  Row(Knowing!ByWords(p, max), p.from, p.to) /\ Fit(Knowing!ByWords(p, max), max)
<1> DEFINE w == Knowing!WordCount(p)
           n == (w + max - 1) \div max
           At(k) == p.from + (k - 1) * max
           End(k) == Knowing!Min({At(k) + max - 1, p.to})
           cs == Knowing!ByWords(p, max)
<1>1. p.from \in Int /\ p.to \in Int /\ p.cut \in BOOLEAN
  BY DEF Pieces
<1>2. w \in Nat \ {0} /\ w = p.to - p.from + 1
  BY <1>1 DEF Knowing!WordCount
<1>3. n \in Nat \ {0} /\ (n - 1) * max < w /\ w <= n * max
  BY <1>2, RoundedUp
<1>4. cs = [k \in 1 .. n |-> [from |-> At(k), to |-> End(k), cut |-> p.cut /\ End(k) = p.to]]
  BY DEF Knowing!ByWords, Knowing!Piece
<1> HIDE DEF n, w, cs
<1>5. \A k \in 1 .. n : At(k) \in Int /\ At(k + 1) = At(k) + max
  <2> SUFFICES ASSUME NEW k \in 1 .. n PROVE At(k) \in Int /\ At(k + 1) = At(k) + max
    OBVIOUS
  <2>1. (k - 1) * max \in Nat /\ ((k - 1) + 1) * max = (k - 1) * max + max
    <3>1. k - 1 \in Nat /\ max \in Nat /\ k - 1 <= k - 1
      OBVIOUS
    <3> QED
      BY ONLY <3>1, TimesGrows
  <2> QED
    BY <1>1, <2>1
<1>6. \A k \in 1 .. n : (k - 1) * max \in Nat /\ (k - 1) * max <= (n - 1) * max
  <2> SUFFICES ASSUME NEW k \in 1 .. n PROVE (k - 1) * max \in Nat /\ (k - 1) * max <= (n - 1) * max
    OBVIOUS
  <2>1. k - 1 \in Nat /\ n - 1 \in Nat /\ k - 1 <= n - 1 /\ max \in Nat
    BY <1>3
  <2> QED
    BY ONLY <2>1, TimesGrows
<1>7. \A k \in 1 .. n : p.from <= At(k) /\ At(k) <= p.to
  BY <1>1, <1>2, <1>3, <1>6
<1>8. \A k \in 1 .. n - 1 : At(k) + max - 1 <= p.to /\ End(k) = At(k) + max - 1
  <2> SUFFICES ASSUME NEW k \in 1 .. n - 1 PROVE At(k) + max - 1 <= p.to /\ End(k) = At(k) + max - 1
    OBVIOUS
  <2>1. k \in 1 .. n /\ k + 1 \in 1 .. n
    BY <1>3
  <2>2. At(k) \in Int /\ At(k) + max <= p.to /\ At(k) + max - 1 \in Int
    BY <1>1, <1>5, <1>7, <2>1
  <2>3. At(k) + max - 1 <= p.to
    BY <1>1, <2>2
  <2> QED
    BY <1>1, <2>2, <2>3, OfTwo
<1>9. At(n) + max - 1 >= p.to /\ End(n) = p.to
  <2>1. n \in 1 .. n
    BY <1>3
  <2>2. n * max = (n - 1) * max + max
    BY <1>3
  <2>3. At(n) + max - 1 \in Int /\ At(n) + max - 1 >= p.to
    BY <1>1, <1>2, <1>3, <1>5, <1>6, <2>1, <2>2
  <2> QED
    BY <1>1, <2>3, OfTwo
<1>10. \A k \in 1 .. n :
         /\ End(k) \in Int /\ At(k) <= End(k) /\ End(k) <= p.to /\ End(k) - At(k) + 1 <= max
  <2> SUFFICES ASSUME NEW k \in 1 .. n
               PROVE End(k) \in Int /\ At(k) <= End(k) /\ End(k) <= p.to /\ End(k) - At(k) + 1 <= max
    OBVIOUS
  <2>1. CASE k = n
    BY <1>1, <1>5, <1>7, <1>9, <2>1
  <2>2. CASE k # n
    <3>1. k \in 1 .. n - 1
      BY <1>3, <2>2
    <3>2. End(k) = At(k) + max - 1 /\ At(k) + max - 1 <= p.to /\ At(k) \in Int
      BY <1>5, <1>8, <3>1
    <3> HIDE DEF At, End
    <3> QED
      BY <1>1, <3>2
  <2> QED
    BY <2>1, <2>2
<1> HIDE DEF At, End
<1>11. cs \in Seq(Pieces) /\ Len(cs) = n
  <2>1. \A k \in 1 .. n : [from |-> At(k), to |-> End(k), cut |-> p.cut /\ End(k) = p.to] \in Pieces
    BY <1>1, <1>5, <1>10 DEF Pieces
  <2> QED
    BY <1>3, <1>4, <2>1
<1>12. \A k \in 1 .. n : cs[k].from = At(k) /\ cs[k].to = End(k)
  BY <1>4
<1>13. \A k \in 1 .. Len(cs) - 1 : cs[k + 1].from = cs[k].to + 1
  <2> SUFFICES ASSUME NEW k \in 1 .. n - 1 PROVE cs[k + 1].from = cs[k].to + 1
    BY <1>11
  <2>1. k \in 1 .. n /\ k + 1 \in 1 .. n
    BY <1>3
  <2> QED
    BY <1>5, <1>8, <1>12, <2>1
<1>14. cs[1].from = p.from /\ cs[Len(cs)].to = p.to
  <2>1. 1 \in 1 .. n /\ n \in 1 .. n
    BY <1>3
  <2>2. At(1) = p.from
    BY <1>1 DEF At
  <2> QED
    BY <1>9, <1>11, <1>12, <2>1, <2>2
<1>15. \A k \in 1 .. Len(cs) : p.from <= cs[k].from /\ cs[k].from <= cs[k].to /\ cs[k].to <= p.to
  BY <1>7, <1>10, <1>11, <1>12
<1>16. \A k \in 1 .. Len(cs) : Knowing!WordCount(cs[k]) <= max
  BY <1>10, <1>11, <1>12 DEF Knowing!WordCount
<1> QED
  BY <1>3, <1>11, <1>13, <1>14, <1>15, <1>16 DEF Row, Fit, cs

(* What chunk() is given: ranges that cover the words, none too large, and *)
(* each begins behind the one before it and repeats as many words of it as *)
(* were asked for.                                                         *)
Tiles(cs, words, max, again) ==
  /\ cs \in Seq(Pieces) /\ Len(cs) # 0 /\ cs[1].from = 1 /\ cs[Len(cs)].to = words
  /\ \A k \in 1 .. Len(cs) :
       /\ 1 <= cs[k].from /\ cs[k].from <= cs[k].to /\ cs[k].to <= words
       /\ Knowing!WordCount(cs[k]) \in 1 .. max
  /\ \A k \in 1 .. Len(cs) - 1 :
       cs[k + 1].from = cs[k].to + 1 - again /\ cs[k].from < cs[k + 1].from

(* A row that fits is such a division, which repeats nothing.              *)
LEMMA RowTiles ==
  ASSUME NEW cs, NEW words \in Nat \ {0}, NEW max \in Nat \ {0}, Row(cs, 1, words), Fit(cs, max)
  PROVE  Tiles(cs, words, max, 0)
<1>1. /\ cs \in Seq(Pieces)
      /\ \A k \in 1 .. Len(cs) : 1 <= cs[k].from /\ cs[k].from <= cs[k].to /\ cs[k].to <= words
      /\ \A k \in 1 .. Len(cs) - 1 : cs[k + 1].from = cs[k].to + 1
      /\ IF Len(cs) = 0 THEN words = 1 - 1 ELSE cs[1].from = 1 /\ cs[Len(cs)].to = words
  BY DEF Row
<1>2. Len(cs) \in Nat /\ \A k \in 1 .. Len(cs) : cs[k].from \in Int /\ cs[k].to \in Int
  BY <1>1, PiecesOf
<1>3. Len(cs) # 0
  BY <1>1
<1>4. ASSUME NEW k \in 1 .. Len(cs) PROVE Knowing!WordCount(cs[k]) \in 1 .. max
  <2>1. Knowing!WordCount(cs[k]) <= max
    BY DEF Fit
  <2> QED
    BY <1>1, <1>2, <2>1 DEF Knowing!WordCount
<1>5. ASSUME NEW k \in 1 .. Len(cs) - 1
      PROVE  cs[k + 1].from = cs[k].to + 1 - 0 /\ cs[k].from < cs[k + 1].from
  <2>1. k \in 1 .. Len(cs) /\ k + 1 \in 1 .. Len(cs)
    BY <1>2
  <2> QED
    BY <1>1, <1>2, <2>1
<1> QED
  BY <1>1, <1>3, <1>4, <1>5 DEF Tiles

(* A sliding window comes over every word, and repeats what it is asked to *)
(* repeat.                                                                 *)
LEMMA SlidingTiles ==
  ASSUME NEW p \in Pieces, NEW words \in Nat \ {0}, p.from = 1, p.to = words,
         NEW max \in Nat \ {0}, NEW overlap \in Nat
  PROVE  Tiles(Knowing!ChunkSlidingWindow(p, max, overlap), words, max, Knowing!Min({overlap, max - 1}))
<1> DEFINE step == Knowing!Max({1, max - overlap})
           again == Knowing!Min({overlap, max - 1})
           turns == (words - max + step - 1) \div step
           n == IF words <= max THEN 1 ELSE turns + 1
           At(k) == 1 + (k - 1) * step
           End(k) == Knowing!Min({At(k) + max - 1, words})
           cs == Knowing!ChunkSlidingWindow(p, max, overlap)
<1>1. step \in 1 .. max /\ again = max - step
  <2>1. max - overlap \in Int /\ max - 1 \in Int
    OBVIOUS
  <2>2. /\ step = IF 1 <= max - overlap THEN max - overlap ELSE 1
        /\ again = IF overlap <= max - 1 THEN overlap ELSE max - 1
    <3>1. 1 \in Int /\ overlap \in Int
      OBVIOUS
    <3> QED
      BY <2>1, <3>1, OfTwo, Zenon
  <2> HIDE DEF step, again
  <2> QED
    BY <2>2
<1>2. Knowing!WordCount(p) = words
  BY DEF Knowing!WordCount
<1>3. cs = [k \in 1 .. n |-> [from |-> At(k), to |-> End(k), cut |-> FALSE]]
  BY <1>2 DEF Knowing!ChunkSlidingWindow, Knowing!Piece
<1> HIDE DEF step, again, cs
<1>4. words > max => turns \in Nat \ {0} /\ (turns - 1) * step < words - max /\ words - max <= turns * step
  <2> SUFFICES ASSUME words > max
               PROVE  turns \in Nat \ {0} /\ (turns - 1) * step < words - max /\ words - max <= turns * step
    OBVIOUS
  <2>1. words - max \in Nat \ {0} /\ step \in Nat \ {0}
    BY <1>1
  <2> HIDE DEF turns
  <2> QED
    BY <2>1, RoundedUp DEF turns
<1> HIDE DEF turns
<1>5. /\ n \in Nat \ {0} /\ (n - 1) * step \in Nat /\ (n - 1) * step < words
      /\ words - max <= (n - 1) * step
      /\ n > 1 => (n - 1) * step < words - max + step
  <2>1. CASE words <= max
    <3>1. n = 1 /\ (n - 1) * step = 0
      BY <1>1, <2>1
    <3> QED
      BY <2>1, <3>1
  <2>2. CASE words > max
    <3>1. n = turns + 1 /\ n - 1 = turns
      BY <1>4, <2>2
    <3>2. turns * step = (turns - 1) * step + step /\ (turns - 1) * step \in Nat
      <4>1. turns - 1 \in Nat /\ step \in Nat /\ turns - 1 <= turns - 1 /\ (turns - 1) + 1 = turns
        BY <1>1, <1>4, <2>2
      <4> QED
        BY ONLY <4>1, TimesGrows
    <3> QED
      BY <1>1, <1>4, <2>2, <3>1, <3>2
  <2> QED
    BY <2>1, <2>2
<1> HIDE DEF n
<1>6. \A k \in 1 .. n : /\ (k - 1) * step \in Nat /\ (k - 1) * step <= (n - 1) * step
                        /\ At(k) \in Int /\ At(k + 1) = At(k) + step
  <2> SUFFICES ASSUME NEW k \in 1 .. n
               PROVE  /\ (k - 1) * step \in Nat /\ (k - 1) * step <= (n - 1) * step
                      /\ At(k) \in Int /\ At(k + 1) = At(k) + step
    OBVIOUS
  <2>1. k - 1 \in Nat /\ n - 1 \in Nat /\ k - 1 <= n - 1 /\ step \in Nat /\ (k - 1) + 1 = (k + 1) - 1
    BY <1>1, <1>5
  <2>2. (k - 1) * step \in Nat /\ (k - 1) * step <= (n - 1) * step /\ ((k - 1) + 1) * step = (k - 1) * step + step
    BY ONLY <2>1, TimesGrows
  <2> QED
    BY <2>1, <2>2
<1>7. \A k \in 1 .. n : 1 <= At(k) /\ At(k) <= words
  <2> SUFFICES ASSUME NEW k \in 1 .. n PROVE 1 <= At(k) /\ At(k) <= words
    OBVIOUS
  <2>1. (k - 1) * step \in Nat /\ (k - 1) * step <= (n - 1) * step
    BY <1>6
  <2> QED
    BY ONLY <1>5, <2>1, words \in Nat \ {0}
<1>8. \A k \in 1 .. n - 1 : At(k) + max - 1 <= words /\ End(k) = At(k) + max - 1
  <2> SUFFICES ASSUME NEW k \in 1 .. n - 1 PROVE At(k) + max - 1 <= words /\ End(k) = At(k) + max - 1
    OBVIOUS
  <2>1. k \in 1 .. n /\ k + 1 \in 1 .. n /\ n > 1 /\ (k + 1) - 1 = k
    BY <1>5
  <2>2. (k + 1 - 1) * step <= (n - 1) * step /\ (k + 1 - 1) * step \in Nat
    BY <1>6, <2>1
  <2>3. At(k + 1) <= 1 + (n - 1) * step
    BY <1>5, <2>2
  <2>4. At(k) \in Int /\ At(k) + step < 1 + words - max + step
    BY <1>1, <1>5, <1>6, <2>1, <2>3
  <2>5. At(k) + max - 1 \in Int /\ At(k) + max - 1 <= words
    BY <1>1, <2>4
  <2> QED
    BY <2>5, OfTwo
<1>9. At(n) + max - 1 >= words /\ End(n) = words
  <2>1. n \in 1 .. n
    BY <1>5
  <2>2. At(n) + max - 1 \in Int /\ At(n) + max - 1 >= words
    BY <1>5, <1>6, <2>1
  <2> QED
    BY <2>2, OfTwo
<1>10. \A k \in 1 .. n :
         /\ End(k) \in Int /\ At(k) <= End(k) /\ End(k) <= words /\ End(k) - At(k) + 1 <= max
  <2> SUFFICES ASSUME NEW k \in 1 .. n
               PROVE End(k) \in Int /\ At(k) <= End(k) /\ End(k) <= words /\ End(k) - At(k) + 1 <= max
    OBVIOUS
  <2>0. At(k) \in Int /\ At(k) <= words
    BY <1>6, <1>7
  <2>1. CASE k = n
    BY <1>9, <2>0, <2>1
  <2>2. CASE k # n
    <3>1. k \in 1 .. n - 1
      BY <1>5, <2>2
    <3>2. End(k) = At(k) + max - 1 /\ At(k) + max - 1 <= words
      BY <1>8, <3>1
    <3> HIDE DEF At, End
    <3> QED
      BY <2>0, <3>2
  <2> QED
    BY <2>1, <2>2
<1>11. At(1) = 1
  BY <1>1
<1> HIDE DEF At, End
<1>12. cs \in Seq(Pieces) /\ Len(cs) = n
  <2>1. \A k \in 1 .. n : [from |-> At(k), to |-> End(k), cut |-> FALSE] \in Pieces
    BY <1>6, <1>10 DEF Pieces
  <2> QED
    BY <1>3, <1>5, <2>1
<1>13. \A k \in 1 .. n : cs[k].from = At(k) /\ cs[k].to = End(k)
  BY <1>3
<1>14. \A k \in 1 .. Len(cs) - 1 :
         cs[k + 1].from = cs[k].to + 1 - again /\ cs[k].from < cs[k + 1].from
  <2> SUFFICES ASSUME NEW k \in 1 .. n - 1
               PROVE  cs[k + 1].from = cs[k].to + 1 - again /\ cs[k].from < cs[k + 1].from
    BY <1>12
  <2>1. k \in 1 .. n /\ k + 1 \in 1 .. n
    BY <1>5
  <2>2. At(k + 1) = At(k) + step /\ End(k) = At(k) + max - 1 /\ At(k) \in Int
    BY <1>6, <1>8, <2>1
  <2> QED
    BY <1>1, <1>13, <2>1, <2>2
<1>15. cs[1].from = 1 /\ cs[Len(cs)].to = words
  BY <1>5, <1>9, <1>11, <1>12, <1>13
<1>16. \A k \in 1 .. Len(cs) : 1 <= cs[k].from /\ cs[k].from <= cs[k].to /\ cs[k].to <= words
  BY <1>7, <1>10, <1>12, <1>13
<1>17. \A k \in 1 .. Len(cs) : Knowing!WordCount(cs[k]) \in 1 .. max
  BY <1>6, <1>10, <1>12, <1>13 DEF Knowing!WordCount
<1> QED
  BY <1>5, <1>12, <1>14, <1>15, <1>16, <1>17 DEF Tiles, cs, again

(* The parts between separators follow each other and leave nothing out.   *)
LEMMA SplitIsRow ==
  ASSUME NEW text, NEW p \in Pieces, p.from <= p.to, NEW gap
  PROVE  Row(Knowing!Split(text, p, gap), p.from, p.to)
<1> DEFINE w == Knowing!WordCount(p)
           D == Seq(Pieces)
           F == [n \in 1 .. w |-> [b \in D |-> Knowing!Parted(text, p, gap, b, p.from + n - 1)]]
           IsSplit(s) == s = [n \in 0 .. w |-> IF n = 0 THEN <<>>
                                ELSE Knowing!Parted(text, p, gap, s[n - 1], p.from + n - 1)]
           End(b) == IF b = <<>> THEN p.from - 1 ELSE b[Len(b)].to
<1>1. p.from \in Int /\ p.to \in Int /\ p.cut \in BOOLEAN
  BY DEF Pieces
<1>2. w \in Nat \ {0} /\ w = p.to - p.from + 1
  BY <1>1 DEF Knowing!WordCount
<1> HIDE DEF w
<1>3. ASSUME NEW b \in D, NEW i \in Int
      PROVE  LET new == Knowing!Parted(text, p, gap, b, i)
             IN  \/ new = b /\ i # p.to
                 \/ \E c \in BOOLEAN : new = Append(b, [from |-> End(b) + 1, to |-> i, cut |-> c])
  <2>1. (IF b = <<>> THEN p.from ELSE b[Len(b)].to + 1) = End(b) + 1
    BY <1>1
  <2>2. \/ Knowing!Parted(text, p, gap, b, i) = b /\ i # p.to
        \/ Knowing!Parted(text, p, gap, b, i) = Append(b, [from |-> End(b) + 1, to |-> i, cut |-> p.cut])
        \/ Knowing!Parted(text, p, gap, b, i) = Append(b, [from |-> End(b) + 1, to |-> i, cut |-> gap = "sentence"])
    BY <2>1 DEF Knowing!Parted, Knowing!Last, Knowing!Piece
  <2>3. p.cut \in BOOLEAN /\ (gap = "sentence") \in BOOLEAN
    BY <1>1
  <2> QED
    BY <2>2, <2>3
<1>4. \A b \in D : End(b) \in Int
  <2> SUFFICES ASSUME NEW b \in D, b # <<>> PROVE b[Len(b)].to \in Int
    BY <1>1
  <2>1. Len(b) \in 1 .. Len(b)
    BY EmptySeq, LenProperties
  <2> QED
    BY <2>1, PiecesOf
<1> HIDE DEF End
<1>5. \A b \in D, i \in Int : Knowing!Parted(text, p, gap, b, i) \in D
  <2> SUFFICES ASSUME NEW b \in D, NEW i \in Int PROVE Knowing!Parted(text, p, gap, b, i) \in D
    OBVIOUS
  <2>1. \A c \in BOOLEAN : [from |-> End(b) + 1, to |-> i, cut |-> c] \in Pieces
    BY <1>4 DEF Pieces
  <2>2. \A c \in BOOLEAN : Append(b, [from |-> End(b) + 1, to |-> i, cut |-> c]) \in D
    BY <2>1, AppendProperties
  <2> QED
    BY <1>3, <2>2
<1>6. \E s \in [0 .. w -> D] : IsSplit(s)
  <2>1. \A n \in 1 .. w : p.from + n - 1 \in Int
    BY <1>1
  <2>2. F \in [1 .. w -> [D -> D]] /\ w \in Nat /\ <<>> \in D
    BY <1>2, <1>5, <2>1, EmptySeq
  <2>3. \A n \in 1 .. w : \A b \in D : F[n][b] = Knowing!Parted(text, p, gap, b, p.from + n - 1)
    OBVIOUS
  <2> HIDE DEF D, F
  <2>4. PICK s : IsRun(w, D, <<>>, F, s)
    BY ONLY <2>2, Recursion, Zenon
  <2>9. s \in [0 .. w -> D] /\ s[0] = <<>> /\ \A n \in 1 .. w : s[n] = F[n][s[n - 1]]
    BY <2>4, Zenon DEF IsRun
  <2>5. ASSUME NEW n \in 1 .. w PROVE s[n] = Knowing!Parted(text, p, gap, s[n - 1], p.from + n - 1)
    <3>1. s[n - 1] \in D
      BY <1>2, <2>9
    <3> QED
      BY <2>3, <2>9, <3>1
  <2>6. \A n \in 0 .. w : s[n] = IF n = 0 THEN <<>> ELSE Knowing!Parted(text, p, gap, s[n - 1], p.from + n - 1)
    BY <2>9, <2>5
  <2>7. s = [n \in 0 .. w |-> s[n]]
    BY <2>9
  <2>8. IsSplit(s)
    BY <2>6, <2>7
  <2> HIDE DEF IsSplit
  <2> QED
    BY <2>8, <2>9, Zenon
<1> DEFINE s == CHOOSE s : IsSplit(s)
<1>7. IsSplit(s)
  BY <1>6
<1>8. Knowing!Split(text, p, gap) = s[w]
  BY DEF Knowing!Split, w
<1> HIDE DEF s
<1>9. s[0] = <<>> /\ \A n \in 1 .. w : s[n] = Knowing!Parted(text, p, gap, s[n - 1], p.from + n - 1)
  <2>1. \A n \in 0 .. w : s[n] = IF n = 0 THEN <<>> ELSE Knowing!Parted(text, p, gap, s[n - 1], p.from + n - 1)
    BY <1>7, Zenon
  <2> QED
    BY <1>2, <2>1
<1> DEFINE Done(n) == /\ Row(s[n], p.from, End(s[n])) /\ End(s[n]) <= p.from + n - 1
                      /\ n = w => End(s[n]) = p.to
           B == {n \in 0 .. w : ~Done(n)}
<1>10. 0 \notin B
  <2>1. <<>> \in Seq(Pieces) /\ Len(<<>>) = 0 /\ End(<<>>) = p.from - 1
    BY DEF End
  <2>2. Row(<<>>, p.from, p.from - 1)
    BY <1>1, <2>1 DEF Row
  <2> QED
    BY <1>1, <1>2, <1>9, <2>1, <2>2
<1>11. ASSUME NEW n \in 1 .. w, n - 1 \notin B PROVE n \notin B
  <2> DEFINE b == s[n - 1]
             i == p.from + n - 1
  <2>1. n - 1 \in 0 .. w
    BY <1>2
  <2>2. Row(b, p.from, End(b)) /\ End(b) <= p.from + (n - 1) - 1
    BY <1>11, <2>1
  <2>3. b \in D /\ i \in Int /\ End(b) \in Int /\ (End(b) + 1) - 1 = End(b) /\ End(b) + 1 <= i /\ i <= p.to
        /\ (n = w => i = p.to)
    <3>1. b \in D
      BY <2>2 DEF Row
    <3>2. End(b) \in Int
      BY <1>4, <3>1
    <3> HIDE DEF b
    <3> QED
      BY <1>1, <1>2, <2>2, <3>1, <3>2
  <2>4. s[n] = Knowing!Parted(text, p, gap, b, i)
    BY <1>9
  <2> HIDE DEF b, i
  <2>5. CASE s[n] = b /\ i # p.to
    <3>1. End(s[n]) <= p.from + n - 1
      BY <1>1, <2>2, <2>3, <2>5
    <3>2. Done(n)
      BY <2>2, <2>3, <2>5, <3>1
    <3> QED
      BY <3>2
  <2>6. ASSUME NEW c \in BOOLEAN, s[n] = Append(b, [from |-> End(b) + 1, to |-> i, cut |-> c]) PROVE n \notin B
    <3> DEFINE q == [from |-> End(b) + 1, to |-> i, cut |-> c]
    <3>1. q \in Pieces /\ q.from = End(b) + 1 /\ q.to = i
      BY <2>3 DEF Pieces
    <3> HIDE DEF q
    <3>2. Row(Append(b, q), p.from, q.to)
      BY <1>1, <2>2, <2>3, <3>1, RowAppend
    <3>3. End(Append(b, q)) = i
      BY <2>3, <3>1, AppendProperties DEF End
    <3>4. s[n] = Append(b, q)
      BY <2>6 DEF q
    <3>5. Row(s[n], p.from, End(s[n])) /\ End(s[n]) = i
      BY <3>1, <3>2, <3>3, <3>4
    <3>6. Done(n)
      <4>1. i <= p.from + n - 1
        BY <1>1, <2>3 DEF i
      <4> QED
        BY <2>3, <3>5, <4>1
    <3> QED
      BY <3>6
  <2> QED
    BY <1>3, <2>3, <2>4, <2>5, <2>6
<1>12. B \in SUBSET (0 .. w) /\ w \in Nat
  BY <1>2
<1> HIDE DEF B, Done
<1>13. B = {}
  BY <1>10, <1>11, <1>12, Upwards
<1>14. Done(w)
  BY <1>2, <1>13 DEF B
<1> QED
  BY <1>8, <1>14 DEF Done

(* What is put out and what is left in the buffer, together.               *)
Packing == [out : Seq(Pieces), buffer : Pieces]

Good(b, from, to, max) ==
  b \in Packing /\ Row(Knowing!Flushed(b), from, to) /\ Fit(Knowing!Flushed(b), max)

(* The loop takes one more part and still leaves nothing out.              *)
LEMMA PackedIsGood ==
  ASSUME NEW b, NEW next \in Pieces, NEW max \in Nat \ {0}, NEW broken, b \in Packing,
         Knowing!WordCount(next) > max => broken[next] \in Packing
  PROVE  /\ Knowing!Packed(b, next, max, broken) \in Packing
         /\ \A from \in Int :
              /\ Good(b, from, next.from - 1, max) /\ next.from <= next.to
              /\ Knowing!WordCount(next) > max => Good(broken[next], next.from, next.to, max)
              => Good(Knowing!Packed(b, next, max, broken), from, next.to, max)
<1> DEFINE none == Knowing!Nothing
           new == Knowing!Packed(b, next, max, broken)
           more == [from |-> b.buffer.from, to |-> next.to, cut |-> next.cut]
           candidate == IF b.buffer = none THEN next ELSE more
           sum == Knowing!Flushed(b)
<1>1. /\ next.from \in Int /\ next.to \in Int /\ next.cut \in BOOLEAN
      /\ b.out \in Seq(Pieces) /\ b.buffer \in Pieces
      /\ b.buffer.from \in Int /\ b.buffer.to \in Int
  BY DEF Pieces, Packing
<1>2. none \in Pieces /\ none.from = 1 /\ none.to = 0
  BY DEF Pieces, Knowing!Nothing, Knowing!Piece
<1>3. sum = IF b.buffer = none THEN b.out ELSE Append(b.out, b.buffer)
  BY DEF Knowing!Flushed
<1>4. sum \in Seq(Pieces)
  BY <1>1, <1>3, AppendProperties
<1>5. more \in Pieces /\ candidate \in Pieces /\ candidate.to = next.to
  BY <1>1 DEF Pieces
<1>6. /\ Knowing!WordCount(candidate) \in Int /\ Knowing!WordCount(next) \in Int
  BY <1>1, <1>5 DEF Knowing!WordCount, Pieces
<1>7. \/ Knowing!WordCount(candidate) <= max /\ new = [b EXCEPT !.buffer = candidate]
      \/ Knowing!WordCount(next) <= max /\ new = [out |-> sum, buffer |-> next]
      \/ Knowing!WordCount(next) > max
         /\ new = [out |-> sum \o broken[next].out, buffer |-> broken[next].buffer]
  <2>1. \/ Knowing!WordCount(candidate) <= max /\ new = [b EXCEPT !.buffer = candidate]
        \/ Knowing!WordCount(next) <= max /\ new = [out |-> sum, buffer |-> next]
        \/ ~(Knowing!WordCount(next) <= max)
           /\ new = [out |-> sum \o broken[next].out, buffer |-> broken[next].buffer]
    BY Zenon DEF Knowing!Packed, Knowing!Piece
  <2>2. ~(Knowing!WordCount(next) <= max) => Knowing!WordCount(next) > max
    BY <1>6
  <2> QED
    BY <2>1, <2>2
<1> HIDE DEF more, candidate, sum, none, new
<1>8. CASE Knowing!WordCount(candidate) <= max /\ new = [b EXCEPT !.buffer = candidate]
  <2>1. new \in Packing /\ new.out = b.out /\ new.buffer = candidate
    BY <1>5, <1>8 DEF Packing
  <2>2. ASSUME NEW from \in Int, Good(b, from, next.from - 1, max), next.from <= next.to
        PROVE  Good(new, from, next.to, max)
    <3>1. Row(sum, from, next.from - 1) /\ Fit(sum, max)
      BY <2>2 DEF Good, sum
    <3>2. /\ Row(b.out, from, candidate.from - 1) /\ Fit(b.out, max) /\ candidate.from <= candidate.to
          /\ candidate # none
      <4>1. CASE b.buffer = none
        <5>1. candidate = next /\ sum = b.out
          BY <1>3, <4>1 DEF candidate
        <5>2. next # none
          BY <1>1, <1>2, <2>2
        <5> QED
          BY <2>2, <3>1, <5>1, <5>2
      <4>2. CASE b.buffer # none
        <5>1. candidate = more /\ sum = Append(b.out, b.buffer) /\ more.from = b.buffer.from /\ more.to = next.to
          BY <1>3, <4>2 DEF candidate, more
        <5>2. next.from - 1 \in Int /\ Row(Append(b.out, b.buffer), from, next.from - 1)
          BY <1>1, <3>1, <5>1
        <5> DEFINE last == next.from - 1
        <5> HIDE DEF last
        <5>7. last \in Int /\ Row(Append(b.out, b.buffer), from, last)
          BY <5>2 DEF last
        <5>8. Row(b.out, from, b.buffer.from - 1) /\ b.buffer.from <= b.buffer.to /\ b.buffer.to = last
          BY ONLY <1>1, <5>7, from \in Int, RowFront
        <5>3. Row(b.out, from, b.buffer.from - 1) /\ b.buffer.from <= b.buffer.to /\ b.buffer.to = next.from - 1
          BY <5>8 DEF last
        <5>4. Fit(b.out, max)
          <6>1. Fit(Append(b.out, b.buffer), max)
            BY <3>1, <5>1
          <6> QED
            BY ONLY <1>1, <5>7, <6>1, from \in Int, RowFront
        <5>5. b.buffer.from <= next.to
          BY <1>1, <2>2, <5>3
        <5>6. more # none
          BY <1>1, <1>2, <5>1, <5>5
        <5> QED
          BY <5>1, <5>3, <5>4, <5>5, <5>6
      <4> QED
        BY <4>1, <4>2
    <3>3. Knowing!Flushed(new) = Append(b.out, candidate)
      BY <2>1, <3>2 DEF Knowing!Flushed, none
    <3>4. Row(Append(b.out, candidate), from, candidate.to) /\ Fit(Append(b.out, candidate), max)
      BY <1>5, <1>8, <3>2, RowAppend
    <3> QED
      BY <1>5, <2>1, <3>3, <3>4 DEF Good
  <2> QED
    BY <2>1, <2>2 DEF new
<1>9. CASE Knowing!WordCount(next) <= max /\ new = [out |-> sum, buffer |-> next]
  <2>1. new \in Packing /\ new.out = sum /\ new.buffer = next
    BY <1>4, <1>9 DEF Packing
  <2>2. ASSUME NEW from \in Int, Good(b, from, next.from - 1, max), next.from <= next.to
        PROVE  Good(new, from, next.to, max)
    <3>1. Row(sum, from, next.from - 1) /\ Fit(sum, max)
      BY <2>2 DEF Good, sum
    <3>2. next # none
      BY <1>1, <1>2, <2>2
    <3>3. Knowing!Flushed(new) = Append(sum, next)
      BY <2>1, <3>2 DEF Knowing!Flushed, none
    <3>4. Row(Append(sum, next), from, next.to) /\ Fit(Append(sum, next), max)
      BY <1>9, <2>2, <3>1, RowAppend
    <3> QED
      BY <2>1, <3>3, <3>4 DEF Good
  <2> QED
    BY <2>1, <2>2 DEF new
<1>10. CASE /\ Knowing!WordCount(next) > max
            /\ new = [out |-> sum \o broken[next].out, buffer |-> broken[next].buffer]
  <2> DEFINE bits == broken[next]
  <2>1. bits.out \in Seq(Pieces) /\ bits.buffer \in Pieces
    BY <1>10 DEF Packing
  <2> HIDE DEF bits
  <2>2. sum \o bits.out \in Seq(Pieces)
    BY <1>4, <2>1, ConcatProperties
  <2>3. new \in Packing /\ new.out = sum \o bits.out /\ new.buffer = bits.buffer
    BY <1>10, <2>1, <2>2 DEF Packing, bits
  <2>4. ASSUME NEW from \in Int, Good(b, from, next.from - 1, max), next.from <= next.to,
               Good(bits, next.from, next.to, max)
        PROVE  Good(new, from, next.to, max)
    <3> DEFINE rest == Knowing!Flushed(bits)
    <3>1. Row(sum, from, next.from - 1) /\ Fit(sum, max)
      BY <2>4 DEF Good, sum
    <3>2. Row(rest, next.from, next.to) /\ Fit(rest, max)
      BY <2>4 DEF Good
    <3>3. rest = IF bits.buffer = none THEN bits.out ELSE Append(bits.out, bits.buffer)
      BY DEF Knowing!Flushed, none
    <3> HIDE DEF rest
    <3>4. Knowing!Flushed(new) = sum \o rest
      <4>1. CASE bits.buffer = none
        BY <2>3, <3>3, <4>1 DEF Knowing!Flushed, none
      <4>2. CASE bits.buffer # none
        <5>1. Knowing!Flushed(new) = Append(sum \o bits.out, bits.buffer)
          BY <2>3, <4>2 DEF Knowing!Flushed, none
        <5>2. Append(sum \o bits.out, bits.buffer) = (sum \o bits.out) \o <<bits.buffer>>
          BY <2>1, <2>2, AppendIsConcat
        <5>3. rest = bits.out \o <<bits.buffer>>
          BY <2>1, <3>3, <4>2, AppendIsConcat
        <5>4. <<bits.buffer>> \in Seq(Pieces)
          BY <2>1
        <5>5. (sum \o bits.out) \o <<bits.buffer>> = sum \o (bits.out \o <<bits.buffer>>)
          <6>1. \A x, y, z \in Seq(Pieces) : (x \o y) \o z = x \o (y \o z)
            BY ConcatAssociative
          <6> QED
            BY ONLY <1>4, <2>1, <5>4, <6>1
        <5> QED
          BY <5>1, <5>2, <5>3, <5>5
      <4> QED
        BY <4>1, <4>2
    <3>5. next.from - 1 \in Int /\ (next.from - 1) + 1 = next.from
      BY <1>1
    <3>6. Row(sum \o rest, from, next.to)
      BY <1>1, <3>1, <3>2, <3>5, RowJoin
    <3>7. Fit(sum \o rest, max)
      <4>1. rest \in Seq(Pieces)
        BY <3>2 DEF Row
      <4> QED
        BY <1>4, <3>1, <3>2, <4>1, FitJoin
    <3> QED
      BY <2>3, <3>4, <3>6, <3>7 DEF Good
  <2>5. Knowing!WordCount(next) > max
    BY <1>10
  <2> QED
    BY <2>3, <2>4, <2>5 DEF new, bits
<1> QED
  BY <1>7, <1>8, <1>9, <1>10

(* Gathering parts in a buffer leaves no word out either.                  *)
LEMMA PackIsGood ==
  ASSUME NEW parts, NEW from \in Int, NEW to \in Int, Row(parts, from, to),
         NEW max \in Nat \ {0}, NEW broken,
         \A k \in 1 .. Len(parts) :
           Knowing!WordCount(parts[k]) > max => Good(broken[parts[k]], parts[k].from, parts[k].to, max)
  PROVE  Good(Knowing!Pack(parts, max, broken), from, to, max)
<1> DEFINE w == Len(parts)
           none == Knowing!Nothing
           init == [out |-> <<>>, buffer |-> none]
           D == Packing
           Step(n, b) == Knowing!Packed(b, parts[n], max, broken)
           F == [n \in 1 .. w |-> [b \in D |-> Step(n, b)]]
           IsPacked(s) == s = [n \in 0 .. w |-> IF n = 0 THEN init ELSE Step(n, s[n - 1])]
           End(n) == IF n = 0 THEN from - 1 ELSE parts[n].to
<1>1. parts \in Seq(Pieces)
  BY DEF Row
<1>2. w \in Nat /\ \A k \in 1 .. w : parts[k] \in Pieces /\ parts[k].from \in Int /\ parts[k].to \in Int
  BY <1>1, PiecesOf
<1>3. init \in D /\ Knowing!Flushed(init) = <<>>
  <2>1. none \in Pieces /\ <<>> \in Seq(Pieces)
    BY EmptySeq DEF Pieces, Knowing!Nothing, Knowing!Piece
  <2>2. init.out = <<>> /\ init.buffer = none /\ init \in Packing
    BY <2>1 DEF Packing
  <2> QED
    BY <2>2 DEF Knowing!Flushed
<1>4. ASSUME NEW n \in 1 .. w PROVE \A b \in D : Step(n, b) \in D
  <2>1. parts[n] \in Pieces
    BY <1>2
  <2>2. Knowing!WordCount(parts[n]) > max => broken[parts[n]] \in Packing
    BY DEF Good
  <2> QED
    BY <2>1, <2>2, PackedIsGood
<1> HIDE DEF init, Step
<1>5. \E s : s \in [0 .. w -> D] /\ IsPacked(s)
  <2>1. F \in [1 .. w -> [D -> D]]
    BY <1>4
  <2>2. \A n \in 1 .. w : \A b \in D : F[n][b] = Step(n, b)
    OBVIOUS
  <2> HIDE DEF D, F
  <2>3. PICK s : IsRun(w, D, init, F, s)
    BY ONLY <1>2, <1>3, <2>1, Recursion, Zenon
  <2>4. s \in [0 .. w -> D] /\ s[0] = init /\ \A n \in 1 .. w : s[n] = F[n][s[n - 1]]
    BY <2>3, Zenon DEF IsRun
  <2>5. ASSUME NEW n \in 1 .. w PROVE s[n] = Step(n, s[n - 1])
    <3>1. s[n - 1] \in D
      BY <1>2, <2>4
    <3> QED
      BY <2>2, <2>4, <3>1
  <2>6. \A n \in 0 .. w : s[n] = IF n = 0 THEN init ELSE Step(n, s[n - 1])
    BY <1>2, <2>4, <2>5
  <2>7. s = [n \in 0 .. w |-> s[n]]
    BY <2>4
  <2>8. IsPacked(s)
    BY <2>6, <2>7
  <2> HIDE DEF IsPacked
  <2> QED
    BY <2>4, <2>8, Zenon
<1> DEFINE s == CHOOSE s : IsPacked(s)
<1>6. IsPacked(s)
  BY <1>5
<1>7. Knowing!Pack(parts, max, broken) = s[w]
  BY DEF Knowing!Pack, Step, init
<1> HIDE DEF s
<1>8. s[0] = init /\ \A n \in 1 .. w : s[n] = Step(n, s[n - 1])
  <2>1. \A n \in 0 .. w : s[n] = IF n = 0 THEN init ELSE Step(n, s[n - 1])
    BY <1>6, Zenon
  <2> QED
    BY <1>2, <2>1
<1> DEFINE B == {n \in 0 .. w : ~Good(s[n], from, End(n), max)}
<1>9. 0 \notin B
  <2>1. Row(<<>>, from, from - 1) /\ Fit(<<>>, max)
    BY EmptySeq DEF Row, Fit
  <2> QED
    BY <1>3, <1>8, <2>1 DEF Good
<1>10. ASSUME NEW n \in 1 .. w, n - 1 \notin B PROVE n \notin B
  <2>1. n - 1 \in 0 .. w
    BY <1>2
  <2>2. Good(s[n - 1], from, End(n - 1), max)
    BY <1>10, <2>1
  <2>3. End(n - 1) = parts[n].from - 1 /\ parts[n].from <= parts[n].to
    <3>1. CASE n = 1
      BY <1>2, <3>1 DEF Row
    <3>2. CASE n # 1
      <4>1. n - 1 \in 1 .. Len(parts) - 1 /\ (n - 1) + 1 = n
        BY <1>2, <3>2
      <4>2. parts[n].from = parts[n - 1].to + 1 /\ parts[n].from <= parts[n].to
        BY <4>1 DEF Row
      <4>3. parts[n - 1].to \in Int
        BY <1>2, <4>1
      <4> QED
        BY <4>1, <4>2, <4>3
    <3> QED
      BY <3>1, <3>2
  <2>4. s[n] = Knowing!Packed(s[n - 1], parts[n], max, broken)
    BY <1>8 DEF Step
  <2>5. /\ parts[n] \in Pieces /\ s[n - 1] \in Packing
        /\ Knowing!WordCount(parts[n]) > max => broken[parts[n]] \in Packing
        /\ Knowing!WordCount(parts[n]) > max => Good(broken[parts[n]], parts[n].from, parts[n].to, max)
    BY <1>2, <2>2 DEF Good
  <2>6. Good(s[n - 1], from, parts[n].from - 1, max)
    BY <2>2, <2>3
  <2>7. Good(s[n], from, parts[n].to, max)
    <3>1. \A f \in Int :
              /\ Good(s[n - 1], f, parts[n].from - 1, max) /\ parts[n].from <= parts[n].to
              /\ Knowing!WordCount(parts[n]) > max => Good(broken[parts[n]], parts[n].from, parts[n].to, max)
              => Good(Knowing!Packed(s[n - 1], parts[n], max, broken), f, parts[n].to, max)
      BY <2>5, PackedIsGood
    <3> QED
      BY <2>3, <2>4, <2>5, <2>6, <3>1
  <2> QED
    BY <2>7
<1>11. B \in SUBSET (0 .. w)
  OBVIOUS
<1> HIDE DEF B
<1>12. B = {}
  BY <1>2, <1>9, <1>10, <1>11, Upwards
<1>13. Good(s[w], from, End(w), max)
  BY <1>2, <1>12 DEF B
<1>14. End(w) = to
  BY <1>2 DEF Row
<1> QED
  BY <1>7, <1>13, <1>14

(* What is put out whole is good.                                          *)
LEMMA OutIsGood ==
  ASSUME NEW cs, NEW from, NEW to, NEW max, Row(cs, from, to), Fit(cs, max)
  PROVE  Good([out |-> cs, buffer |-> Knowing!Nothing], from, to, max)
<1> DEFINE b == [out |-> cs, buffer |-> Knowing!Nothing]
<1>1. Knowing!Nothing \in Pieces
  BY DEF Pieces, Knowing!Nothing, Knowing!Piece
<1>2. cs \in Seq(Pieces)
  BY DEF Row
<1>3. b \in Packing /\ b.out = cs /\ b.buffer = Knowing!Nothing
  BY <1>1, <1>2 DEF Packing
<1> HIDE DEF b
<1>4. Knowing!Flushed(b) = cs
  BY <1>3 DEF Knowing!Flushed
<1>5. Good(b, from, to, max)
  BY <1>3, <1>4 DEF Good
<1> QED
  BY <1>5 DEF b

(* Sentences lie where they lay without their full stops.                  *)
LEMMA RowUncut ==
  ASSUME NEW cs, NEW from, NEW to, Row(cs, from, to)
  PROVE  Row([k \in DOMAIN cs |-> [cs[k] EXCEPT !.cut = FALSE]], from, to)
<1> DEFINE us == [k \in DOMAIN cs |-> [cs[k] EXCEPT !.cut = FALSE]]
<1>1. cs \in Seq(Pieces) /\ Len(cs) \in Nat /\ DOMAIN cs = 1 .. Len(cs)
  BY LenProperties DEF Row
<1>2. ASSUME NEW k \in 1 .. Len(cs)
      PROVE  us[k] \in Pieces /\ us[k].from = cs[k].from /\ us[k].to = cs[k].to
  <2>1. cs[k] \in Pieces
    BY <1>1, PiecesOf
  <2> QED
    BY <1>1, <2>1 DEF Pieces
<1>3. us \in Seq(Pieces) /\ Len(us) = Len(cs)
  <2>1. us \in [1 .. Len(cs) -> Pieces]
    <3>1. us = [k \in 1 .. Len(cs) |-> us[k]]
      BY <1>1
    <3> HIDE DEF us
    <3> QED
      BY <1>2, <3>1
  <2> HIDE DEF us
  <2> QED
    BY <1>1, <2>1
<1> HIDE DEF us
<1>4. /\ \A k \in 1 .. Len(cs) : from <= cs[k].from /\ cs[k].from <= cs[k].to /\ cs[k].to <= to
      /\ \A k \in 1 .. Len(cs) - 1 : cs[k + 1].from = cs[k].to + 1
      /\ IF Len(cs) = 0 THEN to = from - 1 ELSE cs[1].from = from /\ cs[Len(cs)].to = to
  BY DEF Row
<1>5. \A k \in 1 .. Len(us) - 1 : us[k + 1].from = us[k].to + 1
  <2> SUFFICES ASSUME NEW k \in 1 .. Len(cs) - 1 PROVE us[k + 1].from = us[k].to + 1
    BY <1>3
  <2>1. k \in 1 .. Len(cs) /\ k + 1 \in 1 .. Len(cs)
    BY <1>1
  <2> QED
    BY <1>2, <1>4, <2>1
<1>6. IF Len(us) = 0 THEN to = from - 1 ELSE us[1].from = from /\ us[Len(us)].to = to
  <2>1. CASE Len(cs) = 0
    BY <1>3, <1>4, <2>1
  <2>2. CASE Len(cs) # 0
    <3>1. 1 \in 1 .. Len(cs) /\ Len(cs) \in 1 .. Len(cs)
      BY <1>1, <2>2
    <3> QED
      BY <1>2, <1>3, <1>4, <2>2, <3>1
  <2> QED
    BY <2>1, <2>2
<1>7. \A k \in 1 .. Len(us) : from <= us[k].from /\ us[k].from <= us[k].to /\ us[k].to <= to
  BY <1>2, <1>3, <1>4
<1>8. Row(us, from, to)
  BY <1>3, <1>5, <1>6, <1>7 DEF Row
<1> QED
  BY <1>8 DEF us

(* Paragraphs, sentences and words: nothing is left out.                   *)
LEMMA SemanticFits ==
  ASSUME NEW text, NEW p \in Pieces, p.from <= p.to, NEW max \in Nat \ {0}
  PROVE  /\ Row(Knowing!ChunkSemantic(text, p, max), p.from, p.to)
         /\ Fit(Knowing!ChunkSemantic(text, p, max), max)
<1> DEFINE parts(q) == Knowing!Split(text, q, "sentence")
           sentences(q) == [k \in DOMAIN parts(q) |-> [parts(q)[k] EXCEPT !.cut = FALSE]]
           words(q) == [s \in Knowing!ToSet(sentences(q)) |->
                          [out |-> Knowing!ByWords(s, max), buffer |-> Knowing!Nothing]]
           bySentence(q) == Knowing!Pack(sentences(q), max, words(q))
           paragraphs == Knowing!Split(text, p, "para")
           broken == [q \in Knowing!ToSet(paragraphs) |-> bySentence(q)]
<1>1. Knowing!ChunkSemantic(text, p, max) = Knowing!Flushed(Knowing!Pack(paragraphs, max, broken))
  BY DEF Knowing!ChunkSemantic
<1>2. ASSUME NEW q \in Pieces, q.from <= q.to PROVE Good(bySentence(q), q.from, q.to, max)
  <2>1. Row(parts(q), q.from, q.to)
    BY <1>2, SplitIsRow
  <2>2. Row(sentences(q), q.from, q.to)
    BY <2>1, RowUncut
  <2>3. q.from \in Int /\ q.to \in Int
    BY DEF Pieces
  <2> DEFINE ss == sentences(q)
             bw == words(q)
  <2> HIDE DEF sentences
  <2>4. ASSUME NEW k \in 1 .. Len(ss) PROVE Good(bw[ss[k]], ss[k].from, ss[k].to, max)
    <3>1. ss \in Seq(Pieces) /\ ss[k].from <= ss[k].to
      BY <2>2 DEF Row
    <3>2. ss[k] \in Pieces /\ k \in DOMAIN ss
      BY <3>1, PiecesOf, LenProperties
    <3>3. ss[k] \in Knowing!ToSet(ss)
      BY <3>2 DEF Knowing!ToSet
    <3>4. bw[ss[k]] = [out |-> Knowing!ByWords(ss[k], max), buffer |-> Knowing!Nothing]
      BY <3>3
    <3>5. Row(Knowing!ByWords(ss[k], max), ss[k].from, ss[k].to) /\ Fit(Knowing!ByWords(ss[k], max), max)
      BY <3>1, <3>2, ByWordsFits
    <3> QED
      BY <3>4, <3>5, OutIsGood
  <2>5. Row(ss, q.from, q.to)
    BY <2>2
  <2> HIDE DEF ss, bw
  <2>6. Good(Knowing!Pack(ss, max, bw), q.from, q.to, max)
    BY <2>3, <2>4, <2>5, PackIsGood
  <2> QED
    BY <2>6 DEF ss, bw
<1>3. Row(paragraphs, p.from, p.to) /\ paragraphs \in Seq(Pieces)
  <2>1. Row(paragraphs, p.from, p.to)
    BY SplitIsRow
  <2> HIDE DEF paragraphs
  <2> QED
    BY <2>1 DEF Row
<1>4. p.from \in Int /\ p.to \in Int
  BY DEF Pieces
<1> HIDE DEF bySentence, paragraphs
<1>5. ASSUME NEW k \in 1 .. Len(paragraphs)
      PROVE  Good(broken[paragraphs[k]], paragraphs[k].from, paragraphs[k].to, max)
  <2>1. paragraphs[k].from <= paragraphs[k].to
    BY <1>3 DEF Row
  <2>2. paragraphs[k] \in Pieces /\ k \in DOMAIN paragraphs
    BY <1>3, PiecesOf, LenProperties
  <2>3. paragraphs[k] \in Knowing!ToSet(paragraphs)
    BY <2>2 DEF Knowing!ToSet
  <2>4. broken[paragraphs[k]] = bySentence(paragraphs[k])
    BY <2>3
  <2> QED
    BY <1>2, <2>1, <2>2, <2>4
<1> HIDE DEF broken
<1>6. Good(Knowing!Pack(paragraphs, max, broken), p.from, p.to, max)
  BY <1>3, <1>4, <1>5, PackIsGood
<1> QED
  BY <1>1, <1>6 DEF Good

(* The ways to cut every range of words into a row that fits.              *)
CutWell(max, ranges) ==
  {f \in [ranges -> Seq(Pieces)] :
     \A q \in ranges : q.from <= q.to => Row(f[q], q.from, q.to) /\ Fit(f[q], max)}

(* One separator more cuts as well as those after it.                      *)
LEMMA ChunkedByFits ==
  ASSUME NEW text, NEW lo \in Int, NEW hi \in Int, NEW max \in Nat \ {0}, NEW separator,
         NEW chunked \in CutWell(max, [from : lo .. hi, to : lo .. hi, cut : BOOLEAN])
  PROVE  Knowing!ChunkedBy(text, [from : lo .. hi, to : lo .. hi, cut : BOOLEAN], max, separator, chunked)
           \in CutWell(max, [from : lo .. hi, to : lo .. hi, cut : BOOLEAN])
<1> DEFINE ranges == [from : lo .. hi, to : lo .. hi, cut : BOOLEAN]
           parts(q) == Knowing!Split(text, q, separator)
           broken(q) == [r \in Knowing!ToSet(parts(q)) |-> [out |-> chunked[r], buffer |-> Knowing!Nothing]]
           packed(q) == Knowing!Flushed(Knowing!Pack(parts(q), max, broken(q)))
           new == Knowing!ChunkedBy(text, ranges, max, separator, chunked)
<1>1. new = [q \in ranges |-> IF Knowing!WordCount(q) <= max THEN <<q>> ELSE packed(q)]
  BY DEF Knowing!ChunkedBy
<1>2. \A q \in ranges : q \in Pieces /\ q.from \in lo .. hi /\ q.to \in lo .. hi
  BY DEF Pieces
<1>3. \A q \in Pieces : q.from \in lo .. hi /\ q.to \in lo .. hi => q \in ranges
  BY DEF Pieces
<1>4. chunked \in CutWell(max, ranges)
  OBVIOUS
<1> HIDE DEF ranges, new
<1>5. ASSUME NEW q \in ranges, q.from <= q.to PROVE Row(packed(q), q.from, q.to) /\ Fit(packed(q), max)
  <2> DEFINE ps == parts(q)
             br == broken(q)
  <2>1. q \in Pieces /\ q.from \in Int /\ q.to \in Int /\ q.from \in lo .. hi /\ q.to \in lo .. hi
    BY <1>2
  <2>2. Row(ps, q.from, q.to) /\ ps \in Seq(Pieces)
    <3>1. Row(ps, q.from, q.to)
      BY <1>5, <2>1, SplitIsRow
    <3> HIDE DEF ps
    <3> QED
      BY <3>1 DEF Row
  <2> HIDE DEF ps
  <2>3. ASSUME NEW k \in 1 .. Len(ps) PROVE Good(br[ps[k]], ps[k].from, ps[k].to, max)
    <3>1. q.from <= ps[k].from /\ ps[k].from <= ps[k].to /\ ps[k].to <= q.to
      BY <2>2 DEF Row
    <3>2. ps[k] \in Pieces /\ k \in DOMAIN ps /\ ps[k].from \in Int /\ ps[k].to \in Int
      BY <2>2, PiecesOf, LenProperties
    <3>3. ps[k].from \in lo .. hi /\ ps[k].to \in lo .. hi
      BY ONLY <2>1, <3>1, <3>2, lo \in Int, hi \in Int
    <3>4. ps[k] \in ranges
      BY <1>3, <3>2, <3>3
    <3>5. Row(chunked[ps[k]], ps[k].from, ps[k].to) /\ Fit(chunked[ps[k]], max)
      BY <1>4, <3>1, <3>4 DEF CutWell
    <3>6. ps[k] \in Knowing!ToSet(ps)
      BY <3>2 DEF Knowing!ToSet
    <3>7. br[ps[k]] = [out |-> chunked[ps[k]], buffer |-> Knowing!Nothing]
      BY <3>6 DEF ps
    <3> QED
      BY <3>5, <3>7, OutIsGood
  <2> HIDE DEF br
  <2>4. Good(Knowing!Pack(ps, max, br), q.from, q.to, max)
    BY <2>1, <2>2, <2>3, PackIsGood
  <2> QED
    BY <2>4 DEF Good, ps, br
<1> HIDE DEF packed
<1>6. ASSUME NEW q \in ranges
      PROVE  /\ new[q] \in Seq(Pieces)
             /\ q.from <= q.to => Row(new[q], q.from, q.to) /\ Fit(new[q], max)
  <2>1. q \in Pieces /\ q.from \in Int /\ q.to \in Int
    BY <1>2
  <2>2. CASE Knowing!WordCount(q) <= max
    <3>1. new[q] = <<q>>
      BY <1>1, <2>2
    <3>2. <<q>> \in Seq(Pieces)
      BY <2>1
    <3> QED
      BY <2>1, <2>2, <3>1, <3>2, RowOne
  <2>3. CASE ~(Knowing!WordCount(q) <= max)
    <3>1. new[q] = packed(q)
      BY <1>1, <2>3
    <3>2. q.from <= q.to
      BY <2>1, <2>3 DEF Knowing!WordCount
    <3>3. Row(packed(q), q.from, q.to) /\ Fit(packed(q), max)
      BY <1>5, <3>2
    <3> QED
      BY <3>1, <3>3 DEF Row
  <2> QED
    BY <2>2, <2>3
<1>7. new \in [ranges -> Seq(Pieces)]
  <2>1. new = [q \in ranges |-> new[q]]
    BY <1>1
  <2> QED
    BY <1>6, <2>1
<1>8. new \in CutWell(max, ranges)
  BY <1>6, <1>7 DEF CutWell
<1> QED
  BY <1>8 DEF new, ranges

(* Whatever the separators, nothing is left out: every range of words is   *)
(* cut well by the last of them, and then by one more.                     *)
LEMMA RecursiveFits ==
  ASSUME NEW text, NEW p \in Pieces, p.from <= p.to, NEW max \in Nat \ {0},
         NEW separators, Len(separators) \in Nat
  PROVE  /\ Row(Knowing!ChunkRecursive(text, p, max, separators), p.from, p.to)
         /\ Fit(Knowing!ChunkRecursive(text, p, max, separators), max)
<1> DEFINE w == Len(separators)
           ranges == [from : p.from .. p.to, to : p.from .. p.to, cut : BOOLEAN]
           init == [q \in ranges |-> IF Knowing!WordCount(q) <= max THEN <<q>> ELSE Knowing!ByWords(q, max)]
           D == CutWell(max, ranges)
           Step(n, f) == Knowing!ChunkedBy(text, ranges, max, separators[Len(separators) - n + 1], f)
           F == [n \in 1 .. w |-> [f \in D |-> Step(n, f)]]
           IsChunked(s) == s = [n \in 0 .. w |-> IF n = 0 THEN init ELSE Step(n, s[n - 1])]
<1>1. p.from \in Int /\ p.to \in Int /\ p.cut \in BOOLEAN
  BY DEF Pieces
<1>2. \A q \in ranges : q \in Pieces /\ q.from \in Int /\ q.to \in Int
  BY <1>1 DEF Pieces
<1>3. p \in ranges
  BY <1>1 DEF Pieces
<1>4. \A n \in 1 .. w : \A f \in D : Step(n, f) \in D
  BY <1>1, ChunkedByFits
<1> HIDE DEF ranges
<1>5. init \in D
  <2>1. ASSUME NEW q \in ranges
        PROVE  /\ init[q] \in Seq(Pieces)
               /\ q.from <= q.to => Row(init[q], q.from, q.to) /\ Fit(init[q], max)
    <3>1. q \in Pieces /\ q.from \in Int /\ q.to \in Int
      BY <1>2
    <3>2. CASE Knowing!WordCount(q) <= max
      <4>1. init[q] = <<q>>
        BY <3>2
      <4>2. <<q>> \in Seq(Pieces)
        BY <3>1
      <4> HIDE DEF init
      <4> QED
        BY <3>1, <3>2, <4>1, <4>2, RowOne
    <3>3. CASE ~(Knowing!WordCount(q) <= max)
      <4>1. init[q] = Knowing!ByWords(q, max)
        BY <3>3
      <4>2. q.from <= q.to
        BY <3>1, <3>3 DEF Knowing!WordCount
      <4>3. Row(Knowing!ByWords(q, max), q.from, q.to) /\ Fit(Knowing!ByWords(q, max), max)
        BY <3>1, <4>2, ByWordsFits
      <4> HIDE DEF init
      <4> QED
        BY <4>1, <4>3 DEF Row
    <3> QED
      BY <3>2, <3>3
  <2>2. init = [q \in ranges |-> init[q]]
    OBVIOUS
  <2> HIDE DEF init
  <2>3. init \in [ranges -> Seq(Pieces)]
    BY <2>1, <2>2
  <2> QED
    BY <2>1, <2>3 DEF CutWell
<1> HIDE DEF init, Step
<1>6. \E s : s \in [0 .. w -> D] /\ IsChunked(s)
  <2>1. F \in [1 .. w -> [D -> D]]
    BY <1>4
  <2>2. \A n \in 1 .. w : \A b \in D : F[n][b] = Step(n, b)
    OBVIOUS
  <2>9. w \in Nat
    OBVIOUS
  <2> HIDE DEF D, F, w
  <2>3. PICK s : IsRun(w, D, init, F, s)
    BY ONLY <2>9, <1>5, <2>1, Recursion, Zenon
  <2>4. s \in [0 .. w -> D] /\ s[0] = init /\ \A n \in 1 .. w : s[n] = F[n][s[n - 1]]
    BY <2>3, Zenon DEF IsRun
  <2>5. ASSUME NEW n \in 1 .. w PROVE s[n] = Step(n, s[n - 1])
    <3>1. s[n - 1] \in D
      BY <2>9, <2>4
    <3> QED
      BY <2>2, <2>4, <3>1
  <2>6. \A n \in 0 .. w : s[n] = IF n = 0 THEN init ELSE Step(n, s[n - 1])
    BY <2>4, <2>5, <2>9
  <2>7. s = [n \in 0 .. w |-> s[n]]
    BY <2>4
  <2>8. IsChunked(s)
    BY <2>6, <2>7
  <2> HIDE DEF IsChunked
  <2> QED
    BY <2>4, <2>8, Zenon
<1> DEFINE s == CHOOSE s : IsChunked(s)
<1>7. IsChunked(s)
  BY <1>6
<1>8. Knowing!ChunkRecursive(text, p, max, separators) = s[w][p]
  BY DEF Knowing!ChunkRecursive, Step, init, ranges
<1> HIDE DEF s
<1>9. s[0] = init /\ \A n \in 1 .. w : s[n] = Step(n, s[n - 1])
  <2>1. \A n \in 0 .. w : s[n] = IF n = 0 THEN init ELSE Step(n, s[n - 1])
    BY <1>7, Zenon
  <2> QED
    BY <2>1
<1> DEFINE B == {n \in 0 .. w : s[n] \notin D}
<1>10. 0 \notin B
  BY <1>5, <1>9
<1>11. ASSUME NEW n \in 1 .. w, n - 1 \notin B PROVE n \notin B
  <2>1. n - 1 \in 0 .. w
    OBVIOUS
  <2>2. s[n - 1] \in D
    BY <1>11, <2>1
  <2> QED
    BY <1>4, <1>9, <2>2
<1>12. B \in SUBSET (0 .. w) /\ w \in Nat
  OBVIOUS
<1> HIDE DEF B, D, w
<1>13. B = {}
  BY <1>10, <1>11, <1>12, Upwards
<1>14. s[w] \in D
  BY <1>12, <1>13 DEF B
<1> QED
  BY <1>3, <1>8, <1>14 DEF D, CutWell

(* Every strategy divides a document as Tiles says.                        *)
LEMMA RawChunksTile ==
  ASSUME NEW text, Len(text) \in Nat \ {0}, NEW strategy \in Knowing!Strategies,
         NEW max \in Nat \ {0}, NEW overlap \in Nat
  PROVE  Tiles(Knowing!RawChunks(text, strategy, max, overlap), Len(text), max,
               IF strategy = "sliding-window" THEN Knowing!Min({overlap, max - 1}) ELSE 0)
<1> DEFINE whole == Knowing!Piece(1, Len(text), FALSE)
           raw == Knowing!RawChunks(text, strategy, max, overlap)
<1>1. whole \in Pieces /\ whole.from = 1 /\ whole.to = Len(text) /\ whole.from <= whole.to
  BY DEF Pieces, Knowing!Piece
<1>2. /\ strategy = "fixed" => raw = Knowing!ByWords(whole, max)
      /\ strategy = "sliding-window" => raw = Knowing!ChunkSlidingWindow(whole, max, overlap)
      /\ strategy = "semantic" => raw = Knowing!ChunkSemantic(text, whole, max)
      /\ strategy = "recursive" => raw = Knowing!ChunkRecursive(text, whole, max, Knowing!DefaultSeparators)
  BY DEF Knowing!RawChunks, Knowing!ChunkFixed
<1>3. Len(Knowing!DefaultSeparators) \in Nat
  BY DEF Knowing!DefaultSeparators
<1> HIDE DEF whole, raw
<1>4. CASE strategy = "sliding-window"
  BY <1>1, <1>2, <1>4, SlidingTiles DEF raw
<1>5. CASE strategy # "sliding-window"
  <2>1. Row(raw, 1, Len(text)) /\ Fit(raw, max)
    <3>1. CASE strategy = "fixed"
      BY <1>1, <1>2, <3>1, ByWordsFits
    <3>2. CASE strategy = "semantic"
      BY <1>1, <1>2, <3>2, SemanticFits
    <3>3. CASE strategy = "recursive"
      BY <1>1, <1>2, <1>3, <3>3, RecursiveFits
    <3> QED
      BY <1>5, <3>1, <3>2, <3>3 DEF Knowing!Strategies
  <2>2. Tiles(raw, Len(text), max, 0)
    BY <2>1, RowTiles
  <2> QED
    BY <1>5, <2>2 DEF raw
<1> QED
  BY <1>4, <1>5

-----------------------------------------------------------------------------
(* Where the chunks are said to lie.                                       *)

Places == [piece : Pieces, start : Int, end : Int]
Locating == [search : Nat, chunks : Seq(Places)]

(* Words that are all different, and a range that shows its first one.     *)
AllDiffer(text) == \A i, j \in DOMAIN text : text[i].word = text[j].word => i = j
Shows(p) == ~(p.cut /\ Knowing!WordCount(p) = 1)

(* A chunk is put behind those before it, and found where it was cut if it *)
(* was not looked for from too far behind.                                 *)
LEMMA LocatedIs ==
  ASSUME NEW text, Len(text) \in Nat, DOMAIN text = 1 .. Len(text),
         NEW acc \in Locating, NEW p \in Pieces
  PROVE  /\ Knowing!Located(text, acc, p) \in Locating
         /\ \E e \in Places :
              /\ Knowing!Located(text, acc, p).chunks = Append(acc.chunks, e)
              /\ e.piece = p
              /\ /\ AllDiffer(text) /\ Shows(p)
                 /\ 1 <= acc.search /\ acc.search <= p.from /\ p.from <= p.to /\ p.to <= Len(text)
                 => /\ Knowing!Located(text, acc, p).search = p.from + 1
                    /\ e.start = p.from /\ e.end = p.to
<1> DEFINE first == Knowing!Token(text, p.from, p.cut /\ p.from = p.to)
           found == {j \in acc.search .. Len(text) : Knowing!Token(text, j, FALSE) = first}
           match == IF found = {} THEN acc.search ELSE Knowing!Min(found)
           end == Knowing!Min({match + Knowing!WordCount(p) - 1, Len(text)})
           e == [piece |-> p, start |-> IF match <= Len(text) THEN match ELSE 0, end |-> end]
           new == Knowing!Located(text, acc, p)
<1>1. p.from \in Int /\ p.to \in Int /\ p.cut \in BOOLEAN /\ acc.search \in Nat /\ acc.chunks \in Seq(Places)
  BY DEF Pieces, Locating
<1>2. Knowing!WordCount(p) = p.to - p.from + 1
  BY DEF Knowing!WordCount
<1>3. new = [search |-> match + 1, chunks |-> Append(acc.chunks, e)]
  BY DEF Knowing!Located
<1>4. \A j \in found :
        /\ j \in acc.search .. Len(text) /\ j \in Nat
        /\ Knowing!Token(text, j, FALSE) = first
  <2> SUFFICES ASSUME NEW j \in acc.search .. Len(text), Knowing!Token(text, j, FALSE) = first
               PROVE  j \in Nat
    BY Zenon
  <2> QED
    BY <1>1
<1>5. match \in Nat
  <2> HIDE DEF found
  <2>1. CASE found = {}
    BY <1>1, <2>1
  <2>2. CASE found # {}
    <3>1. \E m \in found : \A y \in found : m <= y
      <4>1. found \in SUBSET Nat
        BY <1>4
      <4> QED
        BY <2>2, <4>1, Least
    <3>2. Knowing!Min(found) \in found
      BY <3>1 DEF Knowing!Min
    <3> QED
      BY <1>4, <2>2, <3>2
  <2> QED
    BY <2>1, <2>2
<1>6. /\ AllDiffer(text) /\ Shows(p)
      /\ 1 <= acc.search /\ acc.search <= p.from /\ p.from <= p.to /\ p.to <= Len(text)
      => match = p.from
  <2> SUFFICES ASSUME AllDiffer(text), Shows(p),
                      1 <= acc.search, acc.search <= p.from, p.from <= p.to, p.to <= Len(text)
               PROVE  match = p.from
    OBVIOUS
  <2>1. ~(p.cut /\ p.from = p.to)
    BY <1>1, <1>2 DEF Shows
  <2>2. first = Knowing!Token(text, p.from, FALSE)
    BY <2>1 DEF Knowing!Token
  <2> HIDE DEF first
  <2>3. p.from \in acc.search .. Len(text) /\ p.from \in 1 .. Len(text)
    BY <1>1
  <2>4. p.from \in found
    BY <2>2, <2>3
  <2>5. ASSUME NEW j \in found PROVE j = p.from
    <3>1. j \in 1 .. Len(text) /\ Knowing!Token(text, j, FALSE) = Knowing!Token(text, p.from, FALSE)
      <4>1. j \in acc.search .. Len(text) /\ Knowing!Token(text, j, FALSE) = first
        BY <1>4, Zenon
      <4>2. j \in 1 .. Len(text)
        BY ONLY <1>1, <4>1, 1 <= acc.search, Len(text) \in Nat
      <4> QED
        BY ONLY <2>2, <4>1, <4>2
    <3>2. text[j].word = text[p.from].word
      BY <3>1 DEF Knowing!Token
    <3> QED
      BY <2>3, <3>1, <3>2 DEF AllDiffer
  <2>6. found = {p.from}
    <3> HIDE DEF found
    <3> QED
      BY <2>4, <2>5
  <2> HIDE DEF found
  <2> QED
    BY <1>1, <2>6, OfOne
<1> HIDE DEF match
<1>7. end = IF match + Knowing!WordCount(p) - 1 <= Len(text) THEN match + Knowing!WordCount(p) - 1 ELSE Len(text)
  <2>1. match + Knowing!WordCount(p) - 1 \in Int /\ Len(text) \in Int
    BY <1>1, <1>2, <1>5
  <2> QED
    BY <2>1, OfTwo
<1>8. end \in Int
  BY <1>1, <1>2, <1>5, <1>7
<1>9. /\ AllDiffer(text) /\ Shows(p)
      /\ 1 <= acc.search /\ acc.search <= p.from /\ p.from <= p.to /\ p.to <= Len(text)
      => match = p.from /\ match <= Len(text) /\ end = p.to
  <2> SUFFICES ASSUME match = p.from, p.from <= p.to, p.to <= Len(text)
               PROVE  match <= Len(text) /\ end = p.to
    BY <1>6
  <2> HIDE DEF end
  <2>1. match + Knowing!WordCount(p) - 1 = p.to
    BY <1>1, <1>2
  <2>2. end = IF p.to <= Len(text) THEN p.to ELSE Len(text)
    BY <1>7, <2>1
  <2> QED
    BY <1>1, <2>2
<1> HIDE DEF end
<1>10. e \in Places
  BY <1>5, <1>8 DEF Places
<1>11. e.piece = p /\ e.end = end /\ (match <= Len(text) => e.start = match)
  OBVIOUS
<1> HIDE DEF e, new
<1>12. Append(acc.chunks, e) \in Seq(Places)
  BY <1>1, <1>10, AppendProperties
<1>13. new \in Locating /\ new.chunks = Append(acc.chunks, e) /\ new.search = match + 1
  BY <1>3, <1>5, <1>12 DEF Locating
<1>14. /\ AllDiffer(text) /\ Shows(p)
       /\ 1 <= acc.search /\ acc.search <= p.from /\ p.from <= p.to /\ p.to <= Len(text)
       => new.search = p.from + 1 /\ e.start = p.from /\ e.end = p.to
  BY <1>9, <1>11, <1>13
<1> QED
  BY <1>10, <1>11, <1>13, <1>14 DEF new

(* A document is covered by its chunks, and they are found in it.          *)
LEMMA ChunksCover ==
  ASSUME NEW text, Len(text) \in Nat \ {0}, DOMAIN text = 1 .. Len(text),
         NEW strategy \in Knowing!Strategies, NEW max \in Nat \ {0}, NEW overlap \in Nat
  PROVE  /\ Knowing!Chunk(text, strategy, max, overlap) \in Seq(Places)
         /\ Knowing!Covers(text, strategy, max, overlap)
         /\ Knowing!Finds(text, strategy, max, overlap)
<1> DEFINE raw == Knowing!RawChunks(text, strategy, max, overlap)
           again == IF strategy = "sliding-window" THEN Knowing!Min({overlap, max - 1}) ELSE 0
           cs == Knowing!Chunk(text, strategy, max, overlap)
           w == Len(raw)
           init == [search |-> 1, chunks |-> <<>>]
           D == Locating
           Step(n, acc) == Knowing!Located(text, acc, raw[n])
           F == [n \in 1 .. w |-> [acc \in D |-> Step(n, acc)]]
           IsLocated(s) == s = [n \in 0 .. w |-> IF n = 0 THEN init ELSE Step(n, s[n - 1])]
<1>1. Tiles(raw, Len(text), max, again)
  BY RawChunksTile
<1>2. text # <<>>
  OBVIOUS
<1>3. cs = (CHOOSE s : IsLocated(s))[w].chunks
  BY <1>2, Zenon DEF Knowing!Chunk
<1> HIDE DEF raw, again, cs
<1>4. /\ raw \in Seq(Pieces) /\ w \in Nat \ {0} /\ raw[1].from = 1 /\ raw[w].to = Len(text)
      /\ \A k \in 1 .. w :
           /\ raw[k] \in Pieces /\ raw[k].from \in Int /\ raw[k].to \in Int
           /\ 1 <= raw[k].from /\ raw[k].from <= raw[k].to /\ raw[k].to <= Len(text)
           /\ Knowing!WordCount(raw[k]) \in 1 .. max
      /\ \A k \in 1 .. w - 1 :
           raw[k + 1].from = raw[k].to + 1 - again /\ raw[k].from < raw[k + 1].from
  <2>1. raw \in Seq(Pieces)
    BY <1>1 DEF Tiles
  <2>2. w \in Nat /\ \A k \in 1 .. w : raw[k] \in Pieces /\ raw[k].from \in Int /\ raw[k].to \in Int
    BY <2>1, PiecesOf
  <2> QED
    BY <1>1, <2>1, <2>2 DEF Tiles
<1> HIDE DEF w
<1>5. init \in D
  <2>1. <<>> \in Seq(Places)
    BY EmptySeq
  <2> QED
    BY <2>1 DEF Locating
<1>6. \A n \in 1 .. w : \A acc \in D : Step(n, acc) \in D
  BY <1>4, LocatedIs
<1> HIDE DEF Step
<1>7. \E s : s \in [0 .. w -> D] /\ IsLocated(s)
  <2>1. F \in [1 .. w -> [D -> D]]
    BY <1>6
  <2>2. \A n \in 1 .. w : \A b \in D : F[n][b] = Step(n, b)
    OBVIOUS
  <2>9. w \in Nat
    BY <1>4
  <2> HIDE DEF D, F, init
  <2>3. PICK s : IsRun(w, D, init, F, s)
    BY ONLY <1>5, <2>1, <2>9, Recursion, Zenon
  <2>4. s \in [0 .. w -> D] /\ s[0] = init /\ \A n \in 1 .. w : s[n] = F[n][s[n - 1]]
    BY <2>3, Zenon DEF IsRun
  <2>5. ASSUME NEW n \in 1 .. w PROVE s[n] = Step(n, s[n - 1])
    <3>1. s[n - 1] \in D
      BY <2>9, <2>4
    <3> QED
      BY <2>2, <2>4, <3>1
  <2>6. \A n \in 0 .. w : s[n] = IF n = 0 THEN init ELSE Step(n, s[n - 1])
    BY <2>4, <2>5, <2>9
  <2>7. s = [n \in 0 .. w |-> s[n]]
    BY <2>4
  <2>8. IsLocated(s)
    BY <2>6, <2>7
  <2> HIDE DEF IsLocated
  <2> QED
    BY <2>4, <2>8, Zenon
<1> DEFINE s == CHOOSE s : IsLocated(s)
<1>8. IsLocated(s)
  BY <1>7
<1>9. cs = s[w].chunks
  BY <1>3
<1> HIDE DEF s
<1>10. s[0] = init /\ \A n \in 1 .. w : s[n] = Knowing!Located(text, s[n - 1], raw[n])
  <2>1. \A n \in 0 .. w : s[n] = IF n = 0 THEN init ELSE Step(n, s[n - 1])
    BY <1>8, Zenon
  <2> QED
    BY <1>4, <2>1 DEF Step
<1> DEFINE Easy == AllDiffer(text) /\ \A k \in 1 .. w : Shows(raw[k])
           Upto(n) == /\ s[n] \in Locating /\ Len(s[n].chunks) = n
                      /\ \A k \in 1 .. n : s[n].chunks[k].piece = raw[k]
           Right(n) == /\ s[n].search = IF n = 0 THEN 1 ELSE raw[n].from + 1
                       /\ \A k \in 1 .. n : /\ s[n].chunks[k].start = raw[k].from
                                            /\ s[n].chunks[k].end = raw[k].to
           B == {n \in 0 .. w : ~(Upto(n) /\ (Easy => Right(n)))}
<1> HIDE DEF Easy
<1>11. 0 \notin B
  <2>1. s[0] \in Locating /\ s[0].chunks = <<>> /\ s[0].search = 1
    BY <1>5, <1>10
  <2>2. Len(s[0].chunks) = 0
    BY <2>1
  <2> QED
    BY <2>1, <2>2
<1>12. ASSUME NEW n \in 1 .. w, n - 1 \notin B PROVE n \notin B
  <2> DEFINE acc == s[n - 1]
  <2>1. n - 1 \in 0 .. w
    BY <1>4
  <2>2. Upto(n - 1) /\ (Easy => Right(n - 1))
    BY <1>12, <2>1
  <2>3. /\ acc \in Locating /\ Len(acc.chunks) = n - 1
        /\ \A k \in 1 .. n - 1 : acc.chunks[k].piece = raw[k]
    BY <2>2
  <2>4. s[n] = Knowing!Located(text, acc, raw[n])
    BY <1>10
  <2>5. Easy => /\ acc.search = IF n - 1 = 0 THEN 1 ELSE raw[n - 1].from + 1
                /\ \A k \in 1 .. n - 1 : acc.chunks[k].start = raw[k].from /\ acc.chunks[k].end = raw[k].to
    BY <2>2
  <2> HIDE DEF acc
  <2>6. /\ s[n] \in Locating
        /\ \E e \in Places :
              /\ s[n].chunks = Append(acc.chunks, e)
              /\ e.piece = raw[n]
              /\ /\ AllDiffer(text) /\ Shows(raw[n])
                 /\ 1 <= acc.search /\ acc.search <= raw[n].from /\ raw[n].from <= raw[n].to /\ raw[n].to <= Len(text)
                 => s[n].search = raw[n].from + 1 /\ e.start = raw[n].from /\ e.end = raw[n].to
    <3>1. raw[n] \in Pieces /\ Len(text) \in Nat
      BY <1>4
    <3> DEFINE p == raw[n]
    <3>2. p \in Pieces
      BY <3>1
    <3> HIDE DEF p
    <3>3. /\ Knowing!Located(text, acc, p) \in Locating
          /\ \E e \in Places :
               /\ Knowing!Located(text, acc, p).chunks = Append(acc.chunks, e)
               /\ e.piece = p
               /\ /\ AllDiffer(text) /\ Shows(p)
                  /\ 1 <= acc.search /\ acc.search <= p.from /\ p.from <= p.to /\ p.to <= Len(text)
                  => /\ Knowing!Located(text, acc, p).search = p.from + 1
                     /\ e.start = p.from /\ e.end = p.to
      BY ONLY <2>3, <3>1, <3>2, DOMAIN text = 1 .. Len(text), LocatedIs
    <3> QED
      BY ONLY <2>4, <3>3, Zenon DEF p
  <2>7. PICK e \in Places :
              /\ s[n].chunks = Append(acc.chunks, e)
              /\ e.piece = raw[n]
              /\ /\ AllDiffer(text) /\ Shows(raw[n])
                 /\ 1 <= acc.search /\ acc.search <= raw[n].from /\ raw[n].from <= raw[n].to /\ raw[n].to <= Len(text)
                 => s[n].search = raw[n].from + 1 /\ e.start = raw[n].from /\ e.end = raw[n].to
    BY <2>6
  <2>8. acc.chunks \in Seq(Places)
    BY <2>3 DEF Locating
  <2>9. /\ Len(s[n].chunks) = n /\ s[n].chunks[n] = e
        /\ \A k \in 1 .. n - 1 : s[n].chunks[k] = acc.chunks[k]
    <3>1. /\ Len(Append(acc.chunks, e)) = Len(acc.chunks) + 1
          /\ \A k \in 1 .. Len(acc.chunks) : Append(acc.chunks, e)[k] = acc.chunks[k]
          /\ Append(acc.chunks, e)[Len(acc.chunks) + 1] = e
      BY <2>8, AppendProperties
    <3>2. (n - 1) + 1 = n
      OBVIOUS
    <3> QED
      BY ONLY <2>3, <2>7, <3>1, <3>2
  <2>10. \A k \in 1 .. n : k = n \/ k \in 1 .. n - 1
    OBVIOUS
  <2>11. Upto(n)
    BY ONLY <2>3, <2>6, <2>7, <2>9, <2>10, Zenon
  <2>12. ASSUME Easy PROVE Right(n)
    <3>1. AllDiffer(text) /\ Shows(raw[n])
      BY <2>12 DEF Easy
    <3>2. 1 <= acc.search /\ acc.search <= raw[n].from
      <4>1. CASE n = 1
        BY <1>4, <2>5, <2>12, <4>1
      <4>2. CASE n # 1
        <5>1. n - 1 \in 1 .. w - 1 /\ n - 1 \in 1 .. w /\ (n - 1) + 1 = n /\ n - 1 # 0
          BY <1>4, <4>2
        <5>2. raw[n - 1].from < raw[n].from /\ 1 <= raw[n - 1].from /\ raw[n - 1].from \in Int /\ raw[n].from \in Int
          BY <1>4, <5>1
        <5>3. acc.search = raw[n - 1].from + 1
          BY <2>5, <2>12, <5>1
        <5> QED
          BY <5>2, <5>3
      <4> QED
        BY <4>1, <4>2
    <3>3. raw[n].from <= raw[n].to /\ raw[n].to <= Len(text)
      BY <1>4
    <3>4. s[n].search = raw[n].from + 1 /\ e.start = raw[n].from /\ e.end = raw[n].to
      BY <2>7, <3>1, <3>2, <3>3
    <3>5. \A k \in 1 .. n : s[n].chunks[k].start = raw[k].from /\ s[n].chunks[k].end = raw[k].to
      BY ONLY <2>5, <2>9, <2>10, <2>12, <3>4, Zenon
    <3>6. n # 0
      OBVIOUS
    <3> QED
      BY <3>4, <3>5, <3>6
  <2> HIDE DEF Upto, Right
  <2> QED
    BY <2>11, <2>12
<1>13. B \in SUBSET (0 .. w) /\ w \in Nat
  BY <1>4
<1> HIDE DEF B, Upto, Right
<1>14. B = {}
  BY <1>11, <1>12, <1>13, Upwards
<1>15. Upto(w) /\ (Easy => Right(w))
  BY <1>4, <1>14 DEF B
<1>16. /\ cs \in Seq(Places) /\ Len(cs) = w /\ DOMAIN cs = 1 .. w
       /\ \A k \in 1 .. w : cs[k].piece = raw[k]
       /\ Easy => \A k \in 1 .. w : cs[k].start = raw[k].from /\ cs[k].end = raw[k].to
  <2>1. cs \in Seq(Places)
    BY <1>9, <1>15 DEF Upto, Locating
  <2>2. Len(cs) = w /\ \A k \in 1 .. w : cs[k].piece = raw[k]
    BY <1>9, <1>15 DEF Upto
  <2>3. Easy => \A k \in 1 .. w : cs[k].start = raw[k].from /\ cs[k].end = raw[k].to
    BY <1>9, <1>15 DEF Right
  <2> QED
    BY <2>1, <2>2, <2>3, LenProperties
<1>17. /\ cs # <<>> /\ cs[1].piece.from = 1 /\ cs[Len(cs)].piece.to = Len(text)
       /\ \A k \in DOMAIN cs : Knowing!WordCount(cs[k].piece) \in 1 .. max
       /\ \A k \in 1 .. Len(cs) - 1 : cs[k + 1].piece.from = cs[k].piece.to + 1 - again
  <2>1. cs # <<>>
    BY <1>4, <1>16
  <2>2. 1 \in 1 .. w /\ w \in 1 .. w
    BY <1>4
  <2>3. cs[1].piece.from = 1 /\ cs[Len(cs)].piece.to = Len(text)
    BY <1>4, <1>16, <2>2
  <2>4. \A k \in DOMAIN cs : Knowing!WordCount(cs[k].piece) \in 1 .. max
    BY <1>4, <1>16
  <2>5. \A k \in 1 .. Len(cs) - 1 : cs[k + 1].piece.from = cs[k].piece.to + 1 - again
    <3> SUFFICES ASSUME NEW k \in 1 .. w - 1 PROVE cs[k + 1].piece.from = cs[k].piece.to + 1 - again
      BY <1>16
    <3>1. k \in 1 .. w /\ k + 1 \in 1 .. w
      BY <1>4
    <3> QED
      BY <1>4, <1>16, <3>1
  <2> QED
    BY <2>1, <2>3, <2>4, <2>5
<1>18. Knowing!Covers(text, strategy, max, overlap)
  BY <1>17, Zenon DEF Knowing!Covers, cs, again
<1>19. Knowing!Finds(text, strategy, max, overlap)
  <2> SUFFICES ASSUME AllDiffer(text), \A k \in DOMAIN cs : Shows(cs[k].piece)
               PROVE  \A k \in DOMAIN cs : cs[k].start = cs[k].piece.from /\ cs[k].end = cs[k].piece.to
    BY Zenon DEF Knowing!Finds, AllDiffer, Shows, cs
  <2>1. Easy
    BY <1>16 DEF Easy
  <2> QED
    BY <1>16, <2>1
<1> QED
  BY <1>16, <1>18, <1>19 DEF cs

(* A text without words makes no chunks.                                   *)
LEMMA NoWordsNoChunks ==
  ASSUME NEW strategy, NEW max, NEW overlap
  PROVE  Knowing!Chunk(<<>>, strategy, max, overlap) = <<>>
<1> DEFINE none == <<>>
           init == [search |-> 1, chunks |-> <<>>]
           IsNone(s) == s = [n \in 0 .. Len(none) |-> IF n = 0 THEN init ELSE Knowing!Located(<<>>, s[n - 1], none[n])]
           s0 == [n \in 0 .. 0 |-> init]
<1>1. Len(none) = 0
  OBVIOUS
<1>2. \E s : IsNone(s)
  <2>1. IsNone(s0)
    BY <1>1
  <2> QED
    BY <2>1
<1>3. IsNone(CHOOSE s : IsNone(s))
  BY <1>2
<1>4. Knowing!Chunk(<<>>, strategy, max, overlap) = (CHOOSE s : IsNone(s))[Len(none)].chunks
  BY DEF Knowing!Chunk
<1>5. ASSUME NEW s, IsNone(s) PROVE s[0] = init
  <2>1. \A n \in 0 .. Len(none) : s[n] = IF n = 0 THEN init ELSE Knowing!Located(<<>>, s[n - 1], none[n])
    BY <1>5, Zenon
  <2>2. 0 \in 0 .. Len(none)
    BY <1>1
  <2> QED
    BY <2>1, <2>2
<1>6. (CHOOSE s : IsNone(s))[0] = init
  <2> HIDE DEF IsNone
  <2> QED
    BY <1>3, <1>5
<1> QED
  BY <1>1, <1>4, <1>6

-----------------------------------------------------------------------------
(* The knowledge: who is in it has had its answer, so that nobody enters   *)
(* twice, and what is kept of a document is kept of one with words.        *)

Requests == [at : {"idle", "library", "computing", "done"},
             does : {"none", "generate", "ingest", "query"}, seen : SUBSET Seq(Askers)]
Kept == [source : Askers, document : Documents, chunk : Places]

KnowInv ==
  /\ asking \in [Askers -> Requests]
  /\ chunks \in Seq(Kept)
  /\ \A i \in DOMAIN chunks : chunks[i].document.text # <<>>
  /\ knowledge \in SUBSET Seq(Askers)
  /\ knowledge = {} <=> learnt = {}
  /\ \A k \in knowledge : Knowing!ToSet(k) = learnt /\ Knowing!IsInjective(k)
  /\ \A c \in learnt : c \in Askers /\ asking[c].at = "done"

(* The knowledge that a call enters alone.                                 *)
LEMMA AloneIsWhole ==
  ASSUME NEW c \in Askers
  PROVE  /\ <<c>> \in Seq(Askers) /\ Knowing!ToSet(<<c>>) = {c} /\ Knowing!IsInjective(<<c>>)
<1>1. DOMAIN <<c>> = {1} /\ <<c>>[1] = c
  OBVIOUS
<1> DEFINE s == <<c>>
<1>2. s \in Seq(Askers)
  OBVIOUS
<1> HIDE DEF s
<1>3. DOMAIN s = {1} /\ s[1] = c
  BY <1>1 DEF s
<1>4. Knowing!ToSet(s) = {c}
  BY <1>3, Zenon DEF Knowing!ToSet
<1>5. Knowing!IsInjective(s)
  BY <1>3, Zenon DEF Knowing!IsInjective
<1> QED
  BY <1>2, <1>4, <1>5 DEF s

(* Somebody new enters the knowledge behind those who are in it.           *)
LEMMA JoinedIsWhole ==
  ASSUME NEW k \in Seq(Askers), Knowing!IsInjective(k), NEW c \in Askers, c \notin Knowing!ToSet(k)
  PROVE  /\ k \o <<c>> \in Seq(Askers) /\ Knowing!ToSet(k \o <<c>>) = Knowing!ToSet(k) \cup {c}
         /\ Knowing!IsInjective(k \o <<c>>)
<1> DEFINE j == Append(k, c)
<1>1. k \o <<c>> = j
  BY AppendIsConcat
<1>2. /\ j \in Seq(Askers) /\ Len(j) = Len(k) + 1 /\ \A i \in 1 .. Len(k) : j[i] = k[i]
      /\ j[Len(k) + 1] = c
  BY AppendProperties
<1>3. Len(k) \in Nat /\ DOMAIN k = 1 .. Len(k)
  BY LenProperties
<1> HIDE DEF j
<1>4. DOMAIN j = 1 .. Len(k) + 1
  BY <1>2, LenProperties
<1>5. Knowing!ToSet(j) = Knowing!ToSet(k) \cup {c}
  <2>1. ASSUME NEW i \in DOMAIN j PROVE j[i] \in Knowing!ToSet(k) \cup {c}
    <3>1. i \in DOMAIN k \/ i = Len(k) + 1
      BY <1>3, <1>4
    <3> QED
      BY <1>2, <1>3, <3>1 DEF Knowing!ToSet
  <2>2. ASSUME NEW i \in DOMAIN k PROVE k[i] \in Knowing!ToSet(j)
    <3>1. i \in DOMAIN j /\ j[i] = k[i]
      BY <1>2, <1>3, <1>4
    <3> QED
      BY <3>1, Zenon DEF Knowing!ToSet
  <2>3. c \in Knowing!ToSet(j)
    <3>1. Len(k) + 1 \in DOMAIN j
      BY <1>3, <1>4
    <3> QED
      BY <1>2, <3>1, Zenon DEF Knowing!ToSet
  <2> QED
    BY <2>1, <2>2, <2>3 DEF Knowing!ToSet
<1>6. ASSUME NEW a \in DOMAIN j, NEW b \in DOMAIN j, j[a] = j[b] PROVE a = b
  <2>1. (a \in DOMAIN k \/ a = Len(k) + 1) /\ (b \in DOMAIN k \/ b = Len(k) + 1)
    BY <1>3, <1>4
  <2>2. \A i \in DOMAIN k : j[i] = k[i] /\ k[i] # c
    BY <1>2, <1>3 DEF Knowing!ToSet
  <2> QED
    BY <1>2, <1>6, <2>1, <2>2, Zenon DEF Knowing!IsInjective
<1> QED
  BY <1>1, <1>2, <1>5, <1>6 DEF Knowing!IsInjective

(* What a request waits for.                                               *)
LEMMA WaitsKeeps ==
  ASSUME KnowInv, NEW c \in Askers, asking[c].at = "idle",
         NEW does \in {"generate", "ingest", "query"}, NEW place \in {"library", "done"},
         Knowing!Waits(c, does, place)
  PROVE  /\ asking' \in [Askers -> Requests]
         /\ \A d \in learnt : d \in Askers /\ asking'[d].at = "done"
<1>1. asking' = [asking EXCEPT ![c] = [at |-> place, does |-> does, seen |-> knowledge]]
  BY DEF Knowing!Waits
<1>2. [at |-> place, does |-> does, seen |-> knowledge] \in Requests
  BY DEF KnowInv, Requests
<1>3. asking' \in [Askers -> Requests]
  BY <1>1, <1>2 DEF KnowInv
<1>4. c \notin learnt
  BY DEF KnowInv
<1>5. \A d \in Askers : d # c => asking'[d] = asking[d]
  BY <1>1 DEF KnowInv
<1> QED
  BY <1>3, <1>4, <1>5 DEF KnowInv

(* A request ends, and is then done.                                       *)
LEMMA EndsKeeps ==
  ASSUME KnowInv, NEW c \in Askers, Knowing!Ends(c)
  PROVE  /\ asking' \in [Askers -> Requests] /\ asking'[c].at = "done"
         /\ \A d \in learnt : d \in Askers /\ asking'[d].at = "done"
<1>1. asking' = [asking EXCEPT ![c].at = "done"] /\ asking \in [Askers -> Requests]
  BY DEF Knowing!Ends, KnowInv
<1>2. [asking[c] EXCEPT !.at = "done"] \in Requests /\ [asking[c] EXCEPT !.at = "done"].at = "done"
  BY <1>1 DEF Requests
<1>3. asking' = [asking EXCEPT ![c] = [asking[c] EXCEPT !.at = "done"]]
  BY <1>1
<1>4. asking' \in [Askers -> Requests] /\ asking'[c].at = "done"
  BY <1>1, <1>2, <1>3
<1>5. \A d \in Askers : d # c => asking'[d] = asking[d]
  BY <1>1
<1> QED
  BY <1>4, <1>5 DEF KnowInv

(* Ingesting keeps chunks of documents with words only.                    *)
LEMMA IngestKeeps ==
  ASSUME KnowInv, NEW c \in Askers, NEW d \in Documents,
         LET cut == Knowing!Chunk(d.text, d.strategy, d.max, d.overlap)
         IN  chunks' = chunks \o [k \in DOMAIN cut |-> [source |-> c, document |-> d, chunk |-> cut[k]]]
  PROVE  chunks' \in Seq(Kept) /\ \A i \in DOMAIN chunks' : chunks'[i].document.text # <<>>
<1> DEFINE cut == Knowing!Chunk(d.text, d.strategy, d.max, d.overlap)
           new == [k \in DOMAIN cut |-> [source |-> c, document |-> d, chunk |-> cut[k]]]
<1>1. chunks' = chunks \o new /\ chunks \in Seq(Kept)
  BY DEF KnowInv
<1>2. /\ d.text \in Seq({d.text[i] : i \in DOMAIN d.text})
      /\ d.strategy \in Knowing!Strategies /\ d.max \in Nat \ {0} /\ d.overlap \in Nat
  BY KnowledgeAssumption
<1>3. Len(d.text) \in Nat /\ DOMAIN d.text = 1 .. Len(d.text) /\ (d.text # <<>> => Len(d.text) \in Nat \ {0})
  BY <1>2, LenProperties, EmptySeq
<1>4. cut \in Seq(Places) /\ (d.text = <<>> => cut = <<>>)
  <2>1. CASE d.text = <<>>
    <3>1. cut = <<>>
      BY <2>1, NoWordsNoChunks
    <3>2. <<>> \in Seq(Places)
      BY EmptySeq
    <3> QED
      BY <3>1, <3>2
  <2>2. CASE d.text # <<>>
    BY <1>2, <1>3, <2>2, ChunksCover
  <2> QED
    BY <2>1, <2>2
<1> HIDE DEF cut
<1>5. Len(cut) \in Nat /\ DOMAIN cut = 1 .. Len(cut) /\ \A k \in 1 .. Len(cut) : cut[k] \in Places
  BY <1>4, LenProperties, ElementOfSeq
<1>6. \A k \in 1 .. Len(cut) : new[k] \in Kept /\ new[k].document = d
  BY <1>5 DEF Kept
<1>7. new = [k \in 1 .. Len(cut) |-> new[k]]
  BY <1>5
<1> HIDE DEF new
<1>8. new \in Seq(Kept) /\ Len(new) = Len(cut)
  BY <1>5, <1>6, <1>7
<1>9. /\ chunks \o new \in Seq(Kept) /\ Len(chunks \o new) = Len(chunks) + Len(new)
      /\ \A i \in 1 .. Len(chunks) + Len(new) :
           (chunks \o new)[i] = IF i <= Len(chunks) THEN chunks[i] ELSE new[i - Len(chunks)]
  BY <1>1, <1>8, ConcatProperties
<1>10. Len(chunks) \in Nat /\ DOMAIN chunks = 1 .. Len(chunks)
  BY <1>1, LenProperties
<1>11. DOMAIN chunks' = 1 .. Len(chunks) + Len(new)
  BY <1>1, <1>9, LenProperties
<1>12. ASSUME NEW i \in DOMAIN chunks' PROVE chunks'[i].document.text # <<>>
  <2>1. CASE i <= Len(chunks)
    <3>1. i \in DOMAIN chunks /\ chunks'[i] = chunks[i]
      BY <1>1, <1>9, <1>10, <1>11, <1>8, <1>5, <2>1
    <3> QED
      BY <3>1 DEF KnowInv
  <2>2. CASE ~(i <= Len(chunks))
    <3>1. i - Len(chunks) \in 1 .. Len(cut) /\ i \in 1 .. Len(chunks) + Len(new)
      BY <1>5, <1>8, <1>10, <1>11, <2>2
    <3>2. chunks'[i] = new[i - Len(chunks)]
      BY <1>1, <1>9, <2>2, <3>1
    <3>3. chunks'[i].document = d
      BY <1>6, <3>1, <3>2
    <3>4. cut # <<>>
      BY <3>1
    <3> QED
      BY <1>4, <3>3, <3>4
  <2> QED
    BY <2>1, <2>2
<1> QED
  BY <1>1, <1>9, <1>12

(* Merging adds whoever was not in the knowledge.                          *)
LEMMA MergedIsWhole ==
  ASSUME KnowInv, NEW c \in Askers, c \notin learnt, NEW found \in {{}, {<<c>>}}
  PROVE  LET after == IF found = {} THEN learnt ELSE learnt \cup {c}
         IN  /\ Knowing!Merged(c, found) \in SUBSET Seq(Askers)
             /\ Knowing!Merged(c, found) = {} <=> after = {}
             /\ \A k \in Knowing!Merged(c, found) : Knowing!ToSet(k) = after /\ Knowing!IsInjective(k)
<1> DEFINE new == Knowing!Merged(c, found)
<1>0. /\ knowledge \in SUBSET Seq(Askers) /\ (knowledge = {} <=> learnt = {})
      /\ \A k \in knowledge : Knowing!ToSet(k) = learnt /\ Knowing!IsInjective(k)
  BY DEF KnowInv
<1>1. CASE found = {}
  <2>1. new = knowledge
    BY <1>1 DEF Knowing!Merged
  <2> HIDE DEF new
  <2> QED
    BY <1>0, <1>1, <2>1, Zenon DEF new
<1>2. CASE found = {<<c>>} /\ knowledge = {}
  <2>1. new = {<<c>>} /\ found # {} /\ learnt = {}
    BY <1>0, <1>2 DEF Knowing!Merged
  <2> HIDE DEF new
  <2>2. <<c>> \in Seq(Askers) /\ Knowing!ToSet(<<c>>) = {c} /\ Knowing!IsInjective(<<c>>)
    BY AloneIsWhole
  <2>3. learnt \cup {c} = {c} /\ {c} # {}
    BY <2>1
  <2>4. new \in SUBSET Seq(Askers) /\ new # {} /\ \A k \in new : Knowing!ToSet(k) = {c} /\ Knowing!IsInjective(k)
    BY <2>1, <2>2, Zenon
  <2> QED
    BY <2>1, <2>3, <2>4, Zenon DEF new
<1>3. CASE found = {<<c>>} /\ knowledge # {}
  <2>1. new = {a \o b : a \in knowledge, b \in {<<c>>}} /\ found # {}
    BY <1>3 DEF Knowing!Merged
  <2> HIDE DEF new
  <2>2. \A k \in new : \E a \in knowledge : k = a \o <<c>>
    BY <2>1
  <2>3. ASSUME NEW k \in new
        PROVE  k \in Seq(Askers) /\ Knowing!ToSet(k) = learnt \cup {c} /\ Knowing!IsInjective(k)
    <3>1. PICK a \in knowledge : k = a \o <<c>>
      BY <2>2
    <3>2. a \in Seq(Askers) /\ Knowing!ToSet(a) = learnt /\ Knowing!IsInjective(a)
      BY <1>0
    <3> QED
      BY <3>1, <3>2, JoinedIsWhole
  <2>4. new # {}
    <3>1. PICK a : a \in knowledge
      BY <1>3
    <3>2. a \o <<c>> \in new
      BY <2>1, <3>1
    <3> QED
      BY <3>2
  <2>5. learnt \cup {c} # {}
    OBVIOUS
  <2>6. new \in SUBSET Seq(Askers)
    BY <2>3
  <2> QED
    BY <2>1, <2>3, <2>4, <2>5, <2>6, Zenon DEF new
<1> QED
  BY <1>1, <1>2, <1>3

(* Every step keeps the knowledge whole.                                   *)
LEMMA KnowSteps == Knowing!Init /\ [][Knowing!Next]_knowVars => []KnowInv
<1>1. Knowing!Init => KnowInv
  <2> SUFFICES ASSUME Knowing!Init PROVE KnowInv
    OBVIOUS
  <2>1. knowledge = {} /\ chunks = <<>> /\ learnt = {}
        /\ asking = [c \in Askers |-> [at |-> "idle", does |-> "none", seen |-> {}]]
    BY DEF Knowing!Init
  <2>2. <<>> \in Seq(Kept) /\ DOMAIN <<>> = {}
    BY EmptySeq
  <2>3. asking \in [Askers -> Requests]
    BY <2>1 DEF Requests
  <2>4. \A i \in DOMAIN chunks : chunks[i].document.text # <<>>
    BY ONLY <2>1, <2>2, Zenon
  <2> QED
    BY <2>1, <2>2, <2>3, <2>4 DEF KnowInv
<1>2. KnowInv /\ [Knowing!Next]_knowVars => KnowInv'
  <2> SUFFICES ASSUME KnowInv, [Knowing!Next]_knowVars PROVE KnowInv'
    OBVIOUS
  <2>0. /\ asking \in [Askers -> Requests] /\ chunks \in Seq(Kept)
        /\ \A i \in DOMAIN chunks : chunks[i].document.text # <<>>
        /\ knowledge \in SUBSET Seq(Askers) /\ (knowledge = {} <=> learnt = {})
        /\ \A k \in knowledge : Knowing!ToSet(k) = learnt /\ Knowing!IsInjective(k)
        /\ \A c \in learnt : c \in Askers /\ asking[c].at = "done"
    BY DEF KnowInv
  <2>1. ASSUME NEW c \in Askers, Knowing!Generate(c) PROVE KnowInv'
    <3>1. asking[c].at = "idle" /\ Knowing!Waits(c, "generate", "library")
          /\ UNCHANGED <<knowledge, chunks, learnt>>
      BY <2>1 DEF Knowing!Generate
    <3>2. asking' \in [Askers -> Requests] /\ \A d \in learnt : d \in Askers /\ asking'[d].at = "done"
      BY <3>1, WaitsKeeps
    <3> QED
      BY <2>0, <3>1, <3>2 DEF KnowInv
  <2>2. ASSUME NEW c \in Askers, Knowing!Query(c) PROVE KnowInv'
    <3> DEFINE place == IF knowledge = {} THEN "done" ELSE "library"
    <3>1. asking[c].at = "idle" /\ Knowing!Waits(c, "query", place)
          /\ UNCHANGED <<knowledge, chunks, learnt>>
      BY <2>2 DEF Knowing!Query
    <3>2. place \in {"library", "done"}
      OBVIOUS
    <3> HIDE DEF place
    <3>3. asking' \in [Askers -> Requests] /\ \A d \in learnt : d \in Askers /\ asking'[d].at = "done"
      BY <3>1, <3>2, WaitsKeeps
    <3> QED
      BY <2>0, <3>1, <3>3 DEF KnowInv
  <2>3. ASSUME NEW c \in Askers, NEW d \in Documents, Knowing!Ingest(c, d) PROVE KnowInv'
    <3>1. asking[c].at = "idle" /\ Knowing!Waits(c, "ingest", "library")
          /\ UNCHANGED <<knowledge, learnt>>
          /\ LET cut == Knowing!Chunk(d.text, d.strategy, d.max, d.overlap)
             IN  chunks' = chunks \o [k \in DOMAIN cut |-> [source |-> c, document |-> d, chunk |-> cut[k]]]
      BY <2>3 DEF Knowing!Ingest
    <3>2. asking' \in [Askers -> Requests] /\ \A e \in learnt : e \in Askers /\ asking'[e].at = "done"
      BY <3>1, WaitsKeeps
    <3>3. chunks' \in Seq(Kept) /\ \A i \in DOMAIN chunks' : chunks'[i].document.text # <<>>
      BY <3>1, IngestKeeps
    <3>4. knowledge' = knowledge /\ learnt' = learnt
      BY <3>1
    <3> QED
      BY ONLY <2>0, <3>2, <3>3, <3>4 DEF KnowInv
  <2>4. ASSUME NEW c \in Askers, Knowing!LibraryCame(c) PROVE KnowInv'
    <3> DEFINE place == IF installed THEN "computing" ELSE "done"
    <3>1. /\ asking[c].at = "library" /\ asking' = [asking EXCEPT ![c].at = place]
          /\ UNCHANGED <<knowledge, chunks, learnt>>
      BY <2>4 DEF Knowing!LibraryCame
    <3>2. place \in {"computing", "done"}
      OBVIOUS
    <3> HIDE DEF place
    <3>3. asking' = [asking EXCEPT ![c] = [asking[c] EXCEPT !.at = place]]
      BY <2>0, <3>1
    <3>4. [asking[c] EXCEPT !.at = place] \in Requests
      BY <2>0, <3>2 DEF Requests
    <3>5. asking' \in [Askers -> Requests]
      BY <2>0, <3>3, <3>4
    <3>6. \A d \in learnt : d \in Askers /\ asking'[d].at = "done"
      <4>1. c \notin learnt
        BY <2>0, <3>1
      <4>2. \A d \in Askers : d # c => asking'[d] = asking[d]
        BY <2>0, <3>1
      <4> QED
        BY <2>0, <4>1, <4>2
    <3> QED
      BY <2>0, <3>1, <3>5, <3>6 DEF KnowInv
  <2>5. ASSUME NEW c \in Askers, Knowing!Generated(c) PROVE KnowInv'
    <3>1. asking' \in [Askers -> Requests] /\ asking'[c].at = "done" /\ \A d \in learnt : d \in Askers /\ asking'[d].at = "done"
      BY <2>5, EndsKeeps DEF Knowing!Generated
    <3>2. chunks' = chunks
      BY <2>5 DEF Knowing!Generated
    <3>3. CASE knowledge' = {<<c>>} /\ learnt' = {c}
      <4>1. <<c>> \in Seq(Askers) /\ Knowing!ToSet(<<c>>) = {c} /\ Knowing!IsInjective(<<c>>)
        BY AloneIsWhole
      <4>2. /\ knowledge' \in SUBSET Seq(Askers) /\ knowledge' # {} /\ learnt' # {}
            /\ \A k \in knowledge' : Knowing!ToSet(k) = learnt' /\ Knowing!IsInjective(k)
        BY <3>3, <4>1, Zenon
      <4>3. \A d \in learnt' : d \in Askers /\ asking'[d].at = "done"
        BY <3>1, <3>3
      <4> QED
        BY ONLY <2>0, <3>1, <3>2, <4>2, <4>3, Zenon DEF KnowInv
    <3>4. CASE knowledge' = {} /\ learnt' = {}
      BY <2>0, <3>1, <3>2, <3>4 DEF KnowInv
    <3>5. CASE UNCHANGED <<knowledge, learnt>>
      BY <2>0, <3>1, <3>2, <3>5 DEF KnowInv
    <3>6. \/ \E found \in {{}, {<<c>>}} : knowledge' = found /\ learnt' = IF found = {} THEN {} ELSE {c}
          \/ UNCHANGED <<knowledge, learnt>>
      BY <2>5 DEF Knowing!Generated
    <3>7. {<<c>>} # {}
      OBVIOUS
    <3> QED
      BY ONLY <3>3, <3>4, <3>5, <3>6, <3>7, Zenon
  <2>6. ASSUME NEW c \in Askers, Knowing!Extracted(c) PROVE KnowInv'
    <3>1. asking' \in [Askers -> Requests] /\ asking'[c].at = "done" /\ \A d \in learnt : d \in Askers /\ asking'[d].at = "done"
      BY <2>6, EndsKeeps DEF Knowing!Extracted
    <3>2. chunks' = chunks /\ c \notin learnt
      BY <2>0, <2>6 DEF Knowing!Extracted
    <3>3. PICK found \in {{}, {<<c>>}} :
            /\ knowledge' = Knowing!Merged(c, found)
            /\ learnt' = IF found = {} THEN learnt ELSE learnt \cup {c}
      BY <2>6 DEF Knowing!Extracted
    <3>4. /\ knowledge' \in SUBSET Seq(Askers) /\ (knowledge' = {} <=> learnt' = {})
          /\ \A k \in knowledge' : Knowing!ToSet(k) = learnt' /\ Knowing!IsInjective(k)
      BY <3>2, <3>3, MergedIsWhole, Zenon
    <3>5. \A d \in learnt' : d \in Askers /\ asking'[d].at = "done"
      BY <3>1, <3>3
    <3> QED
      BY ONLY <2>0, <3>1, <3>2, <3>4, <3>5, Zenon DEF KnowInv
  <2>7. ASSUME NEW c \in Askers, Knowing!Answered(c) PROVE KnowInv'
    <3>1. asking' \in [Askers -> Requests] /\ \A d \in learnt : d \in Askers /\ asking'[d].at = "done"
      BY <2>7, EndsKeeps DEF Knowing!Answered
    <3>2. UNCHANGED <<knowledge, chunks, learnt>>
      BY <2>7 DEF Knowing!Answered
    <3> QED
      BY <2>0, <3>1, <3>2 DEF KnowInv
  <2>8. CASE Knowing!Dispose
    <3>1. knowledge' = {} /\ chunks' = <<>> /\ learnt' = {} /\ asking' = asking
      BY <2>8 DEF Knowing!Dispose
    <3>2. <<>> \in Seq(Kept) /\ DOMAIN <<>> = {}
      BY EmptySeq
    <3>3. \A i \in DOMAIN chunks' : chunks'[i].document.text # <<>>
      BY ONLY <3>1, <3>2, Zenon
    <3> QED
      BY <2>0, <3>1, <3>2, <3>3 DEF KnowInv
  <2>9. CASE UNCHANGED knowVars
    BY <2>0, <2>9 DEF KnowInv, knowVars
  <2> QED
    BY <2>1, <2>2, <2>3, <2>4, <2>5, <2>6, <2>7, <2>8, <2>9 DEF Knowing!Next
<1> QED
  BY <1>1, <1>2, PTL

(* What is known is whole, and so is what is kept of the documents.        *)
LEMMA KnowShows == KnowInv => RetrievalIsWhole
<1> SUFFICES ASSUME KnowInv PROVE RetrievalIsWhole
  OBVIOUS
<1>1. Knowing!NothingIsOverwritten
  BY DEF KnowInv, Knowing!NothingIsOverwritten
<1>2. Knowing!ChunksAreWhole
  <2> SUFFICES ASSUME NEW i \in DOMAIN chunks
               PROVE  LET d == chunks[i].document
                      IN  /\ Knowing!Covers(d.text, d.strategy, d.max, d.overlap)
                          /\ Knowing!Finds(d.text, d.strategy, d.max, d.overlap)
    BY Zenon DEF Knowing!ChunksAreWhole, Knowing!ToSet
  <2> DEFINE d == chunks[i].document
  <2>1. chunks[i] \in Kept /\ d.text # <<>>
    <3>1. chunks \in Seq(Kept) /\ \A j \in DOMAIN chunks : chunks[j].document.text # <<>>
      BY DEF KnowInv
    <3> QED
      BY <3>1, LenProperties, ElementOfSeq
  <2>2. d \in Documents
    BY <2>1 DEF Kept
  <2> HIDE DEF d
  <2>3. /\ d.text \in Seq({d.text[j] : j \in DOMAIN d.text})
        /\ d.strategy \in Knowing!Strategies /\ d.max \in Nat \ {0} /\ d.overlap \in Nat
    BY <2>2, KnowledgeAssumption
  <2>4. Len(d.text) \in Nat \ {0} /\ DOMAIN d.text = 1 .. Len(d.text)
    BY <2>1, <2>3, LenProperties, EmptySeq
  <2>5. Knowing!Covers(d.text, d.strategy, d.max, d.overlap) /\ Knowing!Finds(d.text, d.strategy, d.max, d.overlap)
    BY <2>3, <2>4, ChunksCover
  <2> QED
    BY <2>5 DEF d
<1> QED
  BY <1>1, <1>2 DEF RetrievalIsWhole, Knowing!RetrievalIsWhole

(* Whatever documents are ingested, in whatever order the library answers: *)
(* no entity is lost or doubled in the knowledge, and the chunks that are  *)
(* kept of a document cover its words in order, none of them too large.    *)
THEOREM KnowledgeStaysWhole == Knowing!Init /\ [][Knowing!Next]_knowVars => []RetrievalIsWhole
BY KnowSteps, KnowShows, PTL
=============================================================================
