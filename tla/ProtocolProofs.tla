-------------------------- MODULE ProtocolProofs ---------------------------
(***************************************************************************)
(* What holds of the A2A task table for any ids, calls, capacity and       *)
(* horizon, of the two sides of MCP for any calls, sessions, callers,      *)
(* adapters and lines, and of the wire of A2A for any capacity and stream, *)
(* however it is cut.                                                      *)
(***************************************************************************)
EXTENDS MCProtocols, FiniteSetTheorems, SequenceTheorems, WellFoundedInduction, TLAPS


(* Entries only disappear: the table stays within its capacity.            *)
LEMMA FewerPresent ==
  ASSUME IInv, Present' \subseteq Present
  PROVE  WithinCapacity'
<1>1. Present \subseteq Ids /\ IsFiniteSet(Present)
  BY A2AAssumption, FS_Subset DEF Present
<1>2. IsFiniteSet(Present') /\ Cardinality(Present') <= Cardinality(Present)
  BY <1>1, FS_Subset
<1>3. Cardinality(Present) \in Nat /\ Cardinality(Present') \in Nat
  BY <1>1, <1>2, FS_CardinalityType
<1> QED
  BY <1>2, <1>3, A2AAssumption DEF IInv, WithinCapacity

(* Marking an entry, whoever does it, keeps the table's invariants.        *)
LEMMA MarkStep ==
  ASSUME IInv, NEW id \in Ids, NEW s \in Live \cup Settled, Mark(id, s),
         UNCHANGED <<now, target, listeners, lost>>,
         \A c \in Calls : stage'[c] \in InFlight => stage[c] \in InFlight
  PROVE  /\ status' \in [Ids -> Live \cup Settled \cup {"absent"}]
         /\ stamp' \in [Ids -> 0..Horizon \cup {Never}]
         /\ heard' \subseteq Streams /\ heard \subseteq heard'
         /\ WithinCapacity' /\ StampsFollowTasks' /\ RunsAreFollowed'
<1> USE DEF IInv, TypeOK
<1>1. CASE status[id] = "absent" /\ UNCHANGED <<status, stamp, heard>>
  <2>1. WithinCapacity' /\ StampsFollowTasks'
    BY <1>1 DEF WithinCapacity, Present, StampsFollowTasks
  <2>2. RunsAreFollowed'
    BY <1>1 DEF RunsAreFollowed
  <2> QED
    BY <1>1, <2>1, <2>2
<1>2. CASE /\ status[id] # "absent"
           /\ status' = [status EXCEPT ![id] = s]
           /\ stamp' = IF s \in Settled THEN [stamp EXCEPT ![id] = now] ELSE stamp
           /\ heard' = heard \cup {w \in listeners : target[w] = id /\ s \in Settled}
  <2>1. Present' \subseteq Present
    BY <1>2 DEF Present
  <2>2. WithinCapacity'
    BY <2>1, FewerPresent
  <2>3. now # Never
    <3>1. Horizon \in Nat /\ now \in 0..Horizon
      BY A2AAssumption
    <3> QED
      BY ONLY <3>1 DEF Never
  <2>4. s # "absent"
    BY DEF Live, Settled
  <2>5. StampsFollowTasks'
    BY <1>2, <2>3, <2>4 DEF StampsFollowTasks, Settled, Live
  <2>6. RunsAreFollowed'
    BY <1>2, <2>4 DEF RunsAreFollowed, Live, Settled
  <2>7. stamp' \in [Ids -> 0..Horizon \cup {Never}]
    BY <1>2
  <2>8. status' \in [Ids -> Live \cup Settled \cup {"absent"}]
    BY <1>2
  <2>9. heard' \subseteq Streams /\ heard \subseteq heard'
    BY <1>2
  <2> QED
    BY <2>2, <2>5, <2>6, <2>7, <2>8, <2>9
<1> QED
  BY <1>1, <1>2 DEF Mark

(* What was reported stays reported while no further call settles.         *)
LEMMA EndKept ==
  ASSUME IInv, UNCHANGED answer, heard \subseteq heard', lost \subseteq lost',
         \A c \in Calls : stage'[c] = "settled" =>
            stage[c] = "settled" /\ (c \in listeners' => c \in listeners)
  PROVE  EndIsReported'
BY DEF IInv, EndIsReported

(* The hook of a run that goes on keeps the invariant.                     *)
LEMMA HookStep ==
  ASSUME IInv, NEW c \in Calls, NEW s \in Live \cup Settled, Hook(c, s),
         NEW t \in InFlight, Moves(c, t), UNCHANGED answer, stage[c] \in InFlight
  PROVE  IInv'
<1>1. target[c] \in Ids
  BY DEF IInv, RunsAreFollowed
<1>2. Mark(target[c], s) \/ UNCHANGED <<status, stamp, heard>>
  BY DEF Hook
<1>3. \A d \in Calls : /\ stage'[d] \in InFlight => stage[d] \in InFlight
                       /\ stage'[d] = "settled" => stage[d] = "settled"
  BY DEF Moves, IInv, TypeOK, InFlight
<1>4. /\ status' \in [Ids -> Live \cup Settled \cup {"absent"}]
      /\ stamp' \in [Ids -> 0..Horizon \cup {Never}]
      /\ heard' \subseteq Streams /\ heard \subseteq heard'
      /\ WithinCapacity' /\ StampsFollowTasks' /\ RunsAreFollowed'
  <2>1. CASE Mark(target[c], s)
    BY <1>1, <1>3, <2>1, MarkStep DEF Moves
  <2>2. CASE UNCHANGED <<status, stamp, heard>>
    <3>1. WithinCapacity' /\ StampsFollowTasks'
      BY <2>2 DEF IInv, WithinCapacity, Present, StampsFollowTasks
    <3>2. RunsAreFollowed'
      BY <1>3, <2>2 DEF IInv, RunsAreFollowed, Moves
    <3> QED
      BY <2>2, <3>1, <3>2 DEF IInv, TypeOK
  <2> QED
    BY <1>2, <2>1, <2>2
<1>5. TypeOK'
  BY <1>4 DEF IInv, TypeOK, Moves
<1>6. EndIsReported'
  BY <1>3, <1>4, EndKept DEF Moves
<1> QED
  BY <1>4, <1>5, <1>6 DEF IInv

(* Evicting entries, by the timer or for a new call, keeps the invariants.  *)
LEMMA EvictStep ==
  ASSUME IInv, NEW gone \in SUBSET Ids, Forget(gone),
         status' \in [Ids -> Live \cup Settled \cup {"absent"}],
         \A i \in gone : status'[i] = "absent",
         \A i \in Ids \ gone : status'[i] = status[i],
         UNCHANGED <<target, stage, listeners, heard>>
  PROVE  WithinCapacity' /\ StampsFollowTasks' /\ RunsAreFollowed'
<1> USE DEF IInv, TypeOK, Forget
<1>1. Present' \subseteq Present
  BY DEF Present
<1>2. StampsFollowTasks'
  BY DEF StampsFollowTasks, Settled, Never
<1>3. RunsAreFollowed'
  BY DEF RunsAreFollowed
<1> QED
  BY <1>1, <1>2, <1>3, FewerPresent

(* A set with room for one element more.                                   *)
LEMMA RoomForOne ==
  ASSUME NEW P, IsFiniteSet(P), Cardinality(P) < Capacity, NEW x,
         NEW Q, Q \subseteq P \cup {x}
  PROVE  Cardinality(Q) <= Capacity
<1>1. /\ IsFiniteSet(P \cup {x})
      /\ Cardinality(P \cup {x}) = IF x \in P THEN Cardinality(P) ELSE Cardinality(P) + 1
  BY FS_AddElement
<1>2. IsFiniteSet(Q) /\ Cardinality(Q) <= Cardinality(P \cup {x})
  BY <1>1, FS_Subset
<1>3. Cardinality(P) \in Nat /\ Cardinality(P \cup {x}) \in Nat /\ Cardinality(Q) \in Nat
  BY <1>1, <1>2, FS_CardinalityType
<1>4. Capacity \in Nat
  BY A2AAssumption
<1> QED
  BY ONLY <1>1, <1>2, <1>3, <1>4, Cardinality(P) < Capacity

(* What a call evicts before it is admitted leaves room for its entry.     *)
LEMMA SendStep ==
  ASSUME IInv, NEW c \in Calls, NEW id \in Ids, Send(c, id)
  PROVE  IInv'
<1> USE DEF IInv, TypeOK, Send, Forget
<1> DEFINE gone == EvictedFor
<1>1. gone \subseteq Ids
  BY DEF EvictedFor, Stale, Orphans
<1>3. TypeOK'
  <2>1. stage' \in [Calls -> InFlight \cup {"idle", "refused", "settled"}]
    BY DEF InFlight
  <2>2. status' \in [Ids -> Live \cup Settled \cup {"absent"}]
    BY DEF Live
  <2>3. Horizon \in Nat
    BY A2AAssumption
  <2>4. created' \in [Ids -> 0..Horizon]
    <3>1. 0 \in 0..Horizon
      BY ONLY <2>3
    <3> QED
      BY <3>1
  <2> QED
    BY <2>1, <2>2, <2>4 DEF Calls
<1>4. WithinCapacity'
  <2>1. CASE Admits
    <3> DEFINE P == Present \ gone
    <3>1. Present' \subseteq P \cup {id}
      BY <2>1 DEF Present
    <3>2. P \subseteq Ids /\ IsFiniteSet(P)
      BY A2AAssumption, FS_Subset DEF Present
    <3>3. Cardinality(P) < Capacity
      BY <2>1 DEF Admits
    <3> HIDE DEF P
    <3>4. Cardinality(Present') <= Capacity
      BY <3>1, <3>2, <3>3, RoomForOne
    <3> QED
      BY ONLY <3>4 DEF WithinCapacity
  <2>2. CASE ~Admits
    <3>1. Present' \subseteq Present
      BY <2>2 DEF Present
    <3> QED
      BY <3>1, FewerPresent
  <2> QED
    BY <2>1, <2>2
<1>5. StampsFollowTasks'
  BY DEF StampsFollowTasks, Settled, Never
<1>6. RunsAreFollowed'
  <2> SUFFICES ASSUME NEW d \in Calls, stage'[d] \in InFlight
               PROVE  /\ target'[d] \in Ids
                      /\ d \notin lost' =>
                           /\ status'[target'[d]] # "absent"
                           /\ d \in (Streams \cap listeners') \ heard' =>
                                status'[target'[d]] \in Live
    BY DEF RunsAreFollowed
  <2>1. CASE d = c
    BY <2>1 DEF InFlight, Live
  <2>2. CASE d # c
    <3>1. stage[d] \in InFlight /\ target'[d] = target[d]
      BY <2>2
    <3>2. target[d] \in Ids
      BY <3>1 DEF RunsAreFollowed
    <3>3. d \notin lost' => d \notin lost /\ target[d] \notin gone
      BY <3>1
    <3>4. d \in listeners' => d \in listeners
      BY <2>2
    <3> QED
      BY <3>1, <3>2, <3>3, <3>4 DEF RunsAreFollowed, Live
  <2> QED
    BY <2>1, <2>2
<1>7. EndIsReported'
  <2>1. \A d \in Calls : stage'[d] = "settled" =>
           stage[d] = "settled" /\ (d \in listeners' => d \in listeners)
    OBVIOUS
  <2> QED
    BY <2>1, EndKept
<1> QED
  BY <1>3, <1>4, <1>5, <1>6, <1>7

(* The caller's result handler finds the entry live or settled, and leaves *)
(* it settled: the run's end reaches whoever waits for it.                 *)
LEMMA SettleStep ==
  ASSUME IInv, NEW c \in Calls, Settle(c)
  PROVE  IInv'
<1> USE DEF Settle, Moves
<1>1. stage[c] \in {"returned", "thrown"} /\ stage[c] \in InFlight
  BY DEF Record, InFlight
<1>2. target[c] \in Ids
  BY <1>1 DEF IInv, RunsAreFollowed
<1>3. \A d \in Calls : stage'[d] \in InFlight => stage[d] \in InFlight
  BY DEF IInv, TypeOK, InFlight
<1>4. \/ \E s \in Live \cup Settled : Mark(target[c], s)
      \/ UNCHANGED <<status, stamp, heard>>
  BY DEF Record, Settled
<1>5. /\ status' \in [Ids -> Live \cup Settled \cup {"absent"}]
      /\ stamp' \in [Ids -> 0..Horizon \cup {Never}]
      /\ heard' \subseteq Streams /\ heard \subseteq heard'
      /\ WithinCapacity' /\ StampsFollowTasks' /\ RunsAreFollowed'
  <2>1. CASE \E s \in Live \cup Settled : Mark(target[c], s)
    BY <1>2, <1>3, <2>1, MarkStep
  <2>2. CASE UNCHANGED <<status, stamp, heard>>
    <3>1. WithinCapacity' /\ StampsFollowTasks'
      BY <2>2 DEF IInv, WithinCapacity, Present, StampsFollowTasks
    <3>2. RunsAreFollowed'
      BY <1>3, <2>2 DEF IInv, RunsAreFollowed
    <3> QED
      BY <2>2, <3>1, <3>2 DEF IInv, TypeOK
  <2> QED
    BY <1>4, <2>1, <2>2
<1>6. TypeOK'
  <2>1. answer' \in [Senders -> Live \cup Settled \cup {"none", "not found"}]
    BY <1>2, <1>5 DEF IInv, TypeOK
  <2> QED
    BY <1>5, <2>1 DEF IInv, TypeOK
<1>7. EndIsReported'
  <2>1. ASSUME c \notin lost
        PROVE  /\ status'[target[c]] \in Settled
               /\ c \in Streams \cap listeners => c \in heard'
    <3>1. /\ status[target[c]] # "absent"
          /\ c \in (Streams \cap listeners) \ heard => status[target[c]] \in Live
      BY <1>1, <2>1 DEF IInv, RunsAreFollowed
    <3>2. CASE stage[c] = "returned" /\ status[target[c]] \in Live
      BY <1>2, <3>1, <3>2 DEF Record, Mark, Settled, Live, IInv, TypeOK
    <3>3. CASE stage[c] = "thrown" /\ status[target[c]] # "failed"
      BY <1>2, <3>1, <3>3 DEF Record, Mark, Settled, Live, IInv, TypeOK
    <3>4. CASE stage[c] = "returned" /\ status[target[c]] \notin Live
      BY <1>2, <3>1, <3>4 DEF Record, Mark, Settled, Live, IInv, TypeOK
    <3>5. CASE stage[c] = "thrown" /\ status[target[c]] = "failed"
      BY <1>2, <3>1, <3>5 DEF Record, Mark, Settled, Live, IInv, TypeOK
    <3> QED
      BY <1>1, <3>2, <3>3, <3>4, <3>5
  <2>2. ASSUME NEW d \in Calls, stage'[d] = "settled", d \notin lost', d # c
        PROVE  /\ d \in Senders => answer'[d] \in Settled
               /\ d \in Streams \cap listeners' => d \in heard'
    <3>1. stage[d] = "settled" /\ d \notin lost /\ heard \subseteq heard'
      BY <1>5, <2>2 DEF IInv, TypeOK
    <3>2. d \in Senders => answer'[d] = answer[d]
      BY <2>2
    <3> QED
      BY <3>1, <3>2 DEF IInv, EndIsReported
  <2>3. c \in Senders => answer'[c] = IF status'[target[c]] = "absent" THEN "not found"
                                      ELSE status'[target[c]]
    OBVIOUS
  <2>4. "absent" \notin Settled
    BY DEF Settled
  <2> QED
    BY <2>1, <2>2, <2>3, <2>4 DEF EndIsReported
<1> QED
  BY <1>5, <1>6, <1>7 DEF IInv

(* For all calls, ids and capacities: the table is bounded, every settled  *)
(* entry can be evicted, and every run's end is reported.                  *)
THEOREM Invariance == Spec => []IInv
<1>1. Init => IInv
  <2> SUFFICES ASSUME Init PROVE IInv
    OBVIOUS
  <2> USE DEF Init
  <2>1. Horizon \in Nat
    BY A2AAssumption
  <2>2. 0 \in 0..Horizon
    BY ONLY <2>1
  <2>3. TypeOK
    BY <2>2 DEF TypeOK, Settled
  <2>4. WithinCapacity
    <3>1. Present \subseteq Earlier
      BY DEF Present
    <3>2. IsFiniteSet(Earlier) /\ Cardinality(Earlier) <= Capacity
      BY A2AAssumption, FS_Subset
    <3>3. IsFiniteSet(Present) /\ Cardinality(Present) <= Cardinality(Earlier)
      BY <3>1, <3>2, FS_Subset
    <3>4. Cardinality(Present) \in Nat /\ Cardinality(Earlier) \in Nat
      BY <3>2, <3>3, FS_CardinalityType
    <3> QED
      BY <3>2, <3>3, <3>4, A2AAssumption DEF WithinCapacity
  <2>5. StampsFollowTasks
    BY DEF StampsFollowTasks, Settled, Never
  <2>6. EndIsReported /\ RunsAreFollowed
    BY DEF EndIsReported, RunsAreFollowed, InFlight
  <2> QED
    BY <2>3, <2>4, <2>5, <2>6 DEF IInv
<1>2. IInv /\ [Next]_vars => IInv'
  <2> SUFFICES ASSUME IInv, [Next]_vars PROVE IInv'
    OBVIOUS
  <2>1. ASSUME NEW c \in Calls, NEW id \in Uses[c], Send(c, id) PROVE IInv'
    <3>1. Uses[c] \subseteq Ids
      BY A2AAssumption DEF Calls
    <3> QED
      BY <2>1, <3>1, SendStep
  <2>2. ASSUME NEW c \in Calls, BeforeRun(c) PROVE IInv'
    BY <2>2, HookStep DEF BeforeRun, InFlight, Live
  <2>3. ASSUME NEW c \in Calls, AfterRun(c) PROVE IInv'
    BY <2>3, HookStep DEF AfterRun, InFlight, Settled
  <2>4. ASSUME NEW c \in Calls, OnError(c) PROVE IInv'
    BY <2>4, HookStep DEF OnError, InFlight, Settled
  <2>5. ASSUME NEW c \in Calls, Settle(c) PROVE IInv'
    BY <2>5, SettleStep
  <2>6. ASSUME NEW w \in Streams, EndStream(w) \/ Disconnect(w) PROVE IInv'
    <3> USE <2>6 DEF EndStream, Disconnect, taskVars, callVars
    <3>1. TypeOK'
      BY DEF IInv, TypeOK
    <3>2. WithinCapacity' /\ StampsFollowTasks'
      BY DEF IInv, WithinCapacity, Present, StampsFollowTasks
    <3>3. EndIsReported' /\ RunsAreFollowed'
      BY DEF IInv, EndIsReported, RunsAreFollowed
    <3> QED
      BY <3>1, <3>2, <3>3 DEF IInv
  <2>7. ASSUME NEW id \in Ids, CancelTask(id) PROVE IInv'
    <3> USE <2>7 DEF CancelTask, callVars
    <3>1. /\ status' \in [Ids -> Live \cup Settled \cup {"absent"}]
          /\ stamp' \in [Ids -> 0..Horizon \cup {Never}]
          /\ heard' \subseteq Streams /\ heard \subseteq heard'
          /\ WithinCapacity' /\ StampsFollowTasks' /\ RunsAreFollowed'
      BY MarkStep DEF Settled
    <3>2. EndIsReported'
      BY <3>1, EndKept
    <3>3. TypeOK'
      BY <3>1 DEF IInv, TypeOK
    <3> QED
      BY <3>1, <3>2, <3>3 DEF IInv
  <2>8. CASE EvictStaleTasks
    <3> USE <2>8 DEF EvictStaleTasks, callVars
    <3> DEFINE gone == Stale \cup Orphans
    <3>1. gone \subseteq Ids
      BY DEF Stale, Orphans
    <3>2. status' \in [Ids -> Live \cup Settled \cup {"absent"}]
      BY DEF IInv, TypeOK
    <3>3. WithinCapacity' /\ StampsFollowTasks' /\ RunsAreFollowed'
      BY <3>1, <3>2, EvictStep DEF IInv, TypeOK
    <3>4. EndIsReported'
      BY EndKept DEF Forget
    <3>5. TypeOK'
      <4>1. Horizon \in Nat
        BY A2AAssumption
      <4>2. 0 \in 0..Horizon
        BY ONLY <4>1
      <4> QED
        BY <3>2, <4>2 DEF IInv, TypeOK, Forget
    <3> QED
      BY <3>3, <3>4, <3>5 DEF IInv
  <2>9. CASE Tick
    <3> USE <2>9 DEF Tick, taskVars, callVars
    <3>1. Horizon \in Nat
      BY A2AAssumption
    <3>2. TypeOK'
      <4>1. now \in 0..Horizon /\ now < Horizon /\ now' = now + 1
        BY DEF IInv, TypeOK
      <4>2. now' \in 0..Horizon
        BY ONLY <3>1, <4>1
      <4> QED
        BY <4>2 DEF IInv, TypeOK
    <3>3. WithinCapacity' /\ StampsFollowTasks'
      BY DEF IInv, WithinCapacity, Present, StampsFollowTasks
    <3>4. EndIsReported' /\ RunsAreFollowed'
      BY DEF IInv, EndIsReported, RunsAreFollowed
    <3> QED
      BY <3>2, <3>3, <3>4 DEF IInv
  <2>10. CASE UNCHANGED vars
    <3> USE <2>10 DEF vars, taskVars, callVars
    <3>1. TypeOK' /\ EndIsReported' /\ RunsAreFollowed'
      BY DEF IInv, TypeOK, EndIsReported, RunsAreFollowed
    <3>2. WithinCapacity' /\ StampsFollowTasks'
      BY DEF IInv, WithinCapacity, Present, StampsFollowTasks
    <3> QED
      BY <3>1, <3>2 DEF IInv
  <2> QED
    BY <2>1, <2>2, <2>3, <2>4, <2>5, <2>6, <2>7, <2>8, <2>9, <2>10 DEF Next
<1> QED
  BY <1>1, <1>2, PTL DEF Spec

(* Whoever waits for a call learns of its run's end.                       *)
THEOREM EveryEndIsReported == Spec => []EndIsReported
<1>1. IInv => EndIsReported
  BY DEF IInv
<1> QED
  BY <1>1, Invariance, PTL

(* The table stays within its capacity, and settled entries are stamped.   *)
THEOREM TableIsBounded == Spec => [](WithinCapacity /\ StampsFollowTasks)
<1>1. IInv => WithinCapacity /\ StampsFollowTasks
  BY DEF IInv
<1> QED
  BY <1>1, Invariance, PTL

(* Without the hooks, no step completes a cancelled task.                  *)
THEOREM CancellationBeatsResults == Spec => CancelledIsNotCompleted
<1>1. ASSUME IInv, [Next]_vars, NEW id \in Ids, ~hooked, status[id] = "cancelled"
      PROVE  status'[id] # "completed"
  <2> USE <1>1 DEF IInv, TypeOK
  <2>1. ASSUME NEW c \in Calls, NEW i \in Uses[c], Send(c, i) PROVE status'[id] # "completed"
    BY <2>1 DEF Send
  <2>2. ASSUME NEW c \in Calls, BeforeRun(c) \/ AfterRun(c) \/ OnError(c)
        PROVE  status'[id] # "completed"
    BY <2>2 DEF BeforeRun, AfterRun, OnError, Hook
  <2>3. ASSUME NEW c \in Calls, Settle(c) PROVE status'[id] # "completed"
    BY <2>3 DEF Settle, Record, Mark, Live
  <2>4. ASSUME NEW w \in Streams, EndStream(w) \/ Disconnect(w)
        PROVE  status'[id] # "completed"
    BY <2>4 DEF EndStream, Disconnect, taskVars
  <2>5. ASSUME NEW i \in Ids, CancelTask(i) PROVE status'[id] # "completed"
    BY <2>5 DEF CancelTask, Mark
  <2>6. CASE EvictStaleTasks
    BY <2>6 DEF EvictStaleTasks
  <2>7. CASE Tick
    BY <2>7 DEF Tick, taskVars
  <2>8. CASE UNCHANGED vars
    BY <2>8 DEF vars, taskVars
  <2> QED
    BY <2>1, <2>2, <2>3, <2>4, <2>5, <2>6, <2>7, <2>8 DEF Next
<1>2. IInv /\ [Next]_vars =>
        [\A id \in Ids : (~hooked /\ status[id] = "cancelled") => status'[id] # "completed"]_vars
  BY <1>1
<1> QED
  BY <1>2, Invariance, PTL DEF Spec, CancelledIsNotCompleted

-----------------------------------------------------------------------------
(* The MCP link.                                                           *)

(* What a call of executeTool() has run by the time it is where it is.     *)
CallsRun ==
  \A c \in Executes :
    /\ phase[c] \in {"idle", "not connected", "refused", "error"} => ran[c] = 0
    /\ phase[c] = "tools/call" /\ mcpAnswer[c] \in {"none", "401", "unknown tool"} => ran[c] = 0
    /\ phase[c] = "tools/call" /\ mcpAnswer[c] \notin {"none", "401", "unknown tool"} =>
         mcpAnswer[c] \in {"result", "failed"} /\ ran[c] = 1
    /\ phase[c] \in {"running", "ok", "isError"} => ran[c] = 1
    /\ ran[c] \in {0, 1}

(* A session is one the server made, whatever became of it since.          *)
Known(s) == s # Link!NoSession /\ s \in sessions \cup sessionsEnded

ConnectsKnow ==
  /\ \A c \in Connects :
       /\ phase[c] \in {"idle", "initialize", "notification", "connected", "lost"}
       /\ phase[c] = "initialize" /\ mcpAnswer[c] # "none" => Known(session[c])
       /\ phase[c] \in {"notification", "connected"} => Known(session[c])
  /\ link # Link!NoSession =>
       \E c \in Connects : phase[c] = "connected" /\ session[c] = link

LinkPhases == {"idle", "initialize", "notification", "connected", "lost", "tools/call", "running",
               "not connected", "refused", "error", "isError", "ok"}
LinkAnswers == {"none", "initialized", "202", "401", "unknown tool", "result", "failed"}

LinkInv ==
  /\ phase \in [Link!Calls -> LinkPhases]
  /\ session \in [Link!Calls -> Nat]
  /\ mcpAnswer \in [Link!Calls -> LinkAnswers]
  /\ ran \in [Link!Calls -> Nat]
  /\ sessionsMade \in Nat
  /\ CallsRun
  /\ ConnectsKnow

(* connect(), and the server's part in it.                                 *)
LEMMA ConnectKeepsLink ==
  ASSUME LinkInv, NEW c \in Connects,
         \/ Link!Connect(c) \/ Link!Notify(c) \/ Link!Connected(c)
         \/ Link!Initialize(c) \/ Link!Accept(c)
  PROVE  LinkInv'
<1> USE DEF LinkInv, LinkPhases, LinkAnswers
<1>1. c \in Link!Calls /\ c \notin Executes
  BY McpAssumption DEF Link!Calls
<1>2. CallsRun'
  <2> SUFFICES ASSUME NEW d \in Executes
               PROVE  UNCHANGED <<phase[d], mcpAnswer[d], ran[d]>>
    BY DEF CallsRun
  <2>1. d \in Link!Calls /\ d # c
    BY <1>1 DEF Link!Calls
  <2> QED
    BY <1>1, <2>1 DEF Link!Connect, Link!Notify, Link!Connected, Link!Initialize, Link!Accept,
                      Link!Send, Link!End, Link!Reply
<1>3. CASE Link!Connect(c)
  BY <1>1, <1>2, <1>3 DEF Link!Connect, Link!Send, Link!server, ConnectsKnow, Known, Link!NoSession, Link!Calls
<1>4. CASE Link!Notify(c)
  BY <1>1, <1>2, <1>4 DEF Link!Notify, Link!Send, Link!server, ConnectsKnow, Known, Link!NoSession, Link!Calls
<1>5. CASE Link!Connected(c)
  BY <1>1, <1>2, <1>5 DEF Link!Connected, Link!End, Link!server, ConnectsKnow, Known, Link!NoSession, Link!Calls
<1>6. CASE Link!Initialize(c)
  <2>1. /\ phase[c] = "initialize"
        /\ sessionsMade' = sessionsMade + 1 /\ sessions' = sessions \cup {sessionsMade + 1}
        /\ session' = [session EXCEPT ![c] = sessionsMade + 1]
        /\ mcpAnswer' = [mcpAnswer EXCEPT ![c] = "initialized"]
        /\ UNCHANGED <<sessionsEnded, link, phase, ran>>
    BY <1>6 DEF Link!Initialize, Link!Reply
  <2>2. sessionsMade + 1 \in Nat /\ sessionsMade + 1 # Link!NoSession
    <3>1. sessionsMade \in Nat
      OBVIOUS
    <3> QED
      BY ONLY <3>1 DEF Link!NoSession
  <2>3. \A d \in Connects \ {c} : UNCHANGED <<phase[d], session[d], mcpAnswer[d]>>
    BY <2>1 DEF Link!Calls
  <2>4. \A s : Known(s) => Known(s)'
    BY <2>1 DEF Known
  <2>5. Known(session[c])'
    BY <1>1, <2>1, <2>2 DEF Known
  <2>6. ConnectsKnow'
    BY <1>1, <2>1, <2>2, <2>3, <2>4, <2>5 DEF ConnectsKnow, Known
  <2> QED
    BY <1>1, <1>2, <2>1, <2>2, <2>6
<1>7. CASE Link!Accept(c)
  BY <1>1, <1>2, <1>7 DEF Link!Accept, Link!Reply, Link!server, ConnectsKnow, Known, Link!NoSession, Link!Calls
<1> QED
  BY <1>3, <1>4, <1>5, <1>6, <1>7

(* executeTool(), and the server's part in it.                             *)
LEMMA ExecuteKeepsLink ==
  ASSUME LinkInv, NEW c \in Executes,
         \/ Link!Execute(c) \/ Link!Executed(c) \/ Link!Refuse(c) \/ Link!Run(c) \/ Link!Ran(c)
  PROVE  LinkInv'
<1> USE DEF LinkInv, LinkPhases, LinkAnswers
<1>1. c \in Link!Calls /\ c \notin Connects
  BY McpAssumption DEF Link!Calls
<1>2. ConnectsKnow'
  <2>1. \A d \in Connects : UNCHANGED <<phase[d], session[d], mcpAnswer[d]>>
    BY <1>1 DEF Link!Calls, Link!Execute, Link!Executed, Link!Refuse, Link!Run, Link!Ran,
                Link!Send, Link!End, Link!Reply
  <2>2. UNCHANGED <<sessions, sessionsMade, sessionsEnded, link>>
    BY DEF Link!Execute, Link!Executed, Link!Refuse, Link!Run, Link!Ran, Link!server
  <2> QED
    BY <2>1, <2>2 DEF ConnectsKnow, Known
<1>3. CASE Link!Execute(c)
  <2>1. link \in Nat
    <3>1. CASE link = Link!NoSession
      BY ONLY <3>1 DEF Link!NoSession
    <3>2. CASE link # Link!NoSession
      <4>1. PICK d \in Connects : session[d] = link
        BY <3>2 DEF ConnectsKnow
      <4> QED
        BY <4>1 DEF Link!Calls
    <3> QED
      BY <3>1, <3>2
  <2> QED
    BY <1>1, <1>2, <1>3, <2>1 DEF Link!Execute, Link!Send, Link!End, CallsRun, Link!Calls, Link!NoSession, Link!server
<1>4. CASE Link!Executed(c)
  <2>1. PICK how \in {"refused", "error", "isError", "ok"} :
          /\ phase' = [phase EXCEPT ![c] = how]
          /\ UNCHANGED <<session, mcpAnswer, ran, sessionsMade>>
          /\ how \in {"refused", "error"} => mcpAnswer[c] \in {"401", "unknown tool"}
          /\ how \in {"isError", "ok"} => mcpAnswer[c] \notin {"none", "401", "unknown tool"}
    <3>1. mcpAnswer[c] \in {"401", "unknown tool", "failed", "result"}
      BY <1>4 DEF Link!Executed, CallsRun
    <3> QED
      BY <1>4, <3>1 DEF Link!Executed, Link!End, Link!server
  <2> QED
    BY <1>1, <1>2, <1>4, <2>1 DEF Link!Executed, CallsRun, Link!Calls, Link!server
<1>5. CASE Link!Refuse(c)
  BY <1>1, <1>2, <1>5 DEF Link!Refuse, Link!Reply, CallsRun, Link!Calls, Link!server
<1>6. CASE Link!Run(c)
  <2>1. /\ phase[c] = "tools/call" /\ mcpAnswer[c] = "none"
        /\ phase' = [phase EXCEPT ![c] = "running"]
        /\ ran' = [ran EXCEPT ![c] = ran[c] + 1]
        /\ UNCHANGED <<session, mcpAnswer>>
    BY <1>6 DEF Link!Run
  <2>2. ran[c] = 0
    BY <2>1 DEF CallsRun
  <2>3. phase' \in [Link!Calls -> LinkPhases]
    BY <1>1, <2>1
  <2>6. ran' \in [Link!Calls -> Nat]
    <3>1. ran[c] + 1 \in Nat
      BY ONLY <2>2
    <3> QED
      BY <2>1, <3>1
  <2>4. phase'[c] = "running" /\ ran'[c] = 1
    <3>1. phase'[c] = "running"
      BY <1>1, <2>1
    <3>2. ran'[c] = ran[c] + 1
      BY ONLY <1>1, <2>1, LinkInv DEF LinkInv
    <3> QED
      BY ONLY <3>1, <3>2, <2>2
  <2>7. \A d \in Link!Calls \ {c} : UNCHANGED <<phase[d], ran[d]>>
    BY <1>1, <2>1
  <2>5. CallsRun'
    <3> SUFFICES ASSUME NEW d \in Executes
                 PROVE  /\ phase'[d] \in {"idle", "not connected", "refused", "error"} => ran'[d] = 0
                        /\ phase'[d] = "tools/call" /\ mcpAnswer'[d] \in {"none", "401", "unknown tool"} => ran'[d] = 0
                        /\ phase'[d] = "tools/call" /\ mcpAnswer'[d] \notin {"none", "401", "unknown tool"} =>
                             mcpAnswer'[d] \in {"result", "failed"} /\ ran'[d] = 1
                        /\ phase'[d] \in {"running", "ok", "isError"} => ran'[d] = 1
                        /\ ran'[d] \in {0, 1}
      BY DEF CallsRun
    <3>1. d \in Link!Calls
      BY DEF Link!Calls
    <3>2. CASE d = c
      BY ONLY <2>4, <3>2
    <3>3. CASE d # c
      BY <2>1, <2>7, <3>1, <3>3 DEF CallsRun
    <3> QED
      BY <3>2, <3>3
  <2> QED
    BY <1>2, <2>1, <2>3, <2>6, <2>5, <1>6 DEF Link!Run, Link!server
<1>7. CASE Link!Ran(c)
  BY <1>1, <1>2, <1>7 DEF Link!Ran, Link!Outcomes, Link!Reply, CallsRun, Link!Calls, Link!server
<1> QED
  BY <1>3, <1>4, <1>5, <1>6, <1>7

(* Losses, deletions and restarts, and disconnect().                       *)
LEMMA LossKeepsLink ==
  ASSUME LinkInv,
         \/ \E c \in Link!Calls : Link!Lost(c)
         \/ \E s \in 1 .. MaxSessions : Link!Delete(s)
         \/ Link!Disconnect \/ Link!Restart
  PROVE  LinkInv'
<1> USE DEF LinkInv, LinkPhases, LinkAnswers
<1>1. CASE \E c \in Link!Calls : Link!Lost(c)
  <2>1. PICK c \in Link!Calls : Link!Lost(c)
    BY <1>1
  <2>2. /\ phase[c] \in {"initialize", "notification", "tools/call", "running"}
        /\ phase' = [phase EXCEPT ![c] = "lost"]
        /\ UNCHANGED <<sessions, sessionsMade, sessionsEnded, link, session, mcpAnswer, ran>>
    BY <2>1 DEF Link!Lost, Link!Waiting, Link!End, Link!server
  <2> QED
    BY <2>2 DEF CallsRun, ConnectsKnow, Known, Link!Calls
<1>2. CASE \E s \in 1 .. MaxSessions : Link!Delete(s)
  <2>1. /\ sessions' \cup sessionsEnded' = sessions \cup sessionsEnded
        /\ UNCHANGED <<sessionsMade, link, phase, session, mcpAnswer, ran>>
    BY <1>2 DEF Link!Delete, Link!call
  <2> QED
    BY <2>1 DEF CallsRun, ConnectsKnow, Known
<1>3. CASE Link!Disconnect
  BY <1>3 DEF Link!Disconnect, Link!server, Link!call, CallsRun, ConnectsKnow, Known
<1>4. CASE Link!Restart
  <2>1. /\ sessions' \cup sessionsEnded' = sessions \cup sessionsEnded
        /\ UNCHANGED <<sessionsMade, link, session, mcpAnswer, ran>>
        /\ phase' = [c \in Link!Calls |->
             IF phase[c] \in {"initialize", "notification", "tools/call", "running"} /\ mcpAnswer[c] = "none"
             THEN "lost" ELSE phase[c]]
    BY <1>4 DEF Link!Restart, Link!Waiting
  <2> QED
    BY <2>1 DEF CallsRun, ConnectsKnow, Known, Link!Calls
<1> QED
  BY <1>1, <1>2, <1>3, <1>4

(* What the link knows, for any calls and any number of sessions.          *)
THEOREM LinkInvariance == Link!Init /\ [][Link!Next]_linkVars => []LinkInv
<1>1. Link!Init => LinkInv
  BY McpAssumption DEF Link!Init, LinkInv, LinkPhases, LinkAnswers, CallsRun, ConnectsKnow, Link!Calls, Link!NoSession
<1>2. LinkInv /\ [Link!Next]_linkVars => LinkInv'
  <2> SUFFICES ASSUME LinkInv, [Link!Next]_linkVars  PROVE LinkInv'
    OBVIOUS
  <2>1. CASE UNCHANGED linkVars
    BY <2>1 DEF linkVars, LinkInv, CallsRun, ConnectsKnow, Known
  <2> QED
    BY <2>1, ConnectKeepsLink, ExecuteKeepsLink, LossKeepsLink DEF Link!Next
<1> QED
  BY <1>1, <1>2, PTL

(* A call that ran nothing says so, whatever happened to its session.      *)
LEMMA LinkIsTrue == LinkInv => Link!CallsRunOnce
<1> SUFFICES ASSUME LinkInv  PROVE Link!CallsRunOnce
  OBVIOUS
<1>1. ASSUME NEW c \in Executes
      PROVE  /\ ran[c] <= 1
             /\ phase[c] \in {"ok", "isError"} => ran[c] = 1
             /\ phase[c] \in {"not connected", "refused", "error"} => ran[c] = 0
  <2>1. ran[c] \in {0, 1}
    BY DEF LinkInv, CallsRun
  <2>2. ran[c] <= 1
    BY ONLY <2>1
  <2> QED
    BY <2>2 DEF LinkInv, CallsRun
<1>2. link # Link!NoSession =>
        link \in sessions \cup sessionsEnded /\ \E c \in Connects : phase[c] = "connected" /\ session[c] = link
  BY DEF LinkInv, ConnectsKnow, Known
<1> QED
  BY <1>1, <1>2 DEF Link!CallsRunOnce

-----------------------------------------------------------------------------
(* The host of the server.                                                 *)

Lines == [by : Host!Adapters, line : Nat, whole : BOOLEAN]
Busy(c) == caller[c] # Host!Idle

HostTypes ==
  /\ made \in Nat /\ adapter \in 0 .. MaxAdapters
  /\ stdio \subseteq Host!Adapters
  /\ http \in [Host!Adapters -> {"none", "listening", "closing", "dead"}]
  /\ caller \in [Callers -> [does : {"nothing", "start", "stop", "listen"}, with : 0 .. MaxAdapters]]
  /\ overlapped \in BOOLEAN
  /\ piece \in Nat
  /\ buffer \in [Host!Adapters -> Seq(Nat)]
  /\ working \subseteq Lines /\ answers \in Seq(Lines)

Listening(x) == x \in stdio \/ http[x] = "listening"

(* Callers that do not overlap stop what there is before anything new.     *)
OneAtATime ==
  ~overlapped =>
    /\ \A x \in Host!Adapters : Listening(x) => x = adapter
    /\ \A c, d \in Callers : Busy(c) /\ Busy(d) => c = d
    /\ \A c \in Callers : Busy(c) =>
         caller[c].with = adapter /\ adapter \in Host!Adapters /\ ~Listening(adapter)

(* An adapter on stdin has the half of a line that has come, or less.      *)
HalfLines ==
  \A x \in Host!Adapters :
    buffer[x] = <<>> \/ (x \in stdio /\ piece % 2 = 1 /\ Len(buffer[x]) = 1)

(* Lines are taken up when they have come, and then answered.              *)
LinesHaveCome ==
  /\ \A w \in working : 2 * w.line <= piece
  /\ \A i \in DOMAIN answers : 2 * answers[i].line <= piece /\ answers[i] \notin working
  /\ \A i, j \in DOMAIN answers : i # j => answers[i] # answers[j]

OneTakesTheLine ==
  ~overlapped =>
    /\ \A v, w \in working : v # w => v.line # w.line
    /\ \A i \in DOMAIN answers : \A w \in working : answers[i].line # w.line
    /\ \A i, j \in DOMAIN answers : i # j => answers[i].line # answers[j].line

HostInv == HostTypes /\ OneAtATime /\ HalfLines /\ LinesHaveCome /\ OneTakesTheLine

(* What the calls of the tools leave to the lines.                         *)
LEMMA LinesStay ==
  ASSUME HostInv, UNCHANGED <<piece, working, answers>>, ~overlapped' => ~overlapped,
         HostTypes', OneAtATime', HalfLines'
  PROVE  HostInv'
BY DEF HostInv, LinesHaveCome, OneTakesTheLine

(* Stopping an adapter leaves no listener of it, nor half a line.          *)
LEMMA StoppingLeavesNothing ==
  ASSUME HostInv, NEW x \in Host!Adapters, Host!Stopping(x), UNCHANGED piece
  PROVE  /\ stdio' \subseteq Host!Adapters
         /\ http' \in [Host!Adapters -> {"none", "listening", "closing", "dead"}]
         /\ buffer' \in [Host!Adapters -> Seq(Nat)]
         /\ HalfLines'
         /\ ~Listening(x)'
         /\ \A y \in Host!Adapters : Listening(y)' => Listening(y)
<1> USE DEF HostInv, HostTypes
<1>1. stdio' = stdio \ {x}
  BY DEF Host!Stopping
<1>2. http' = [http EXCEPT ![x] = IF http[x] = "listening" THEN "closing" ELSE http[x]]
  BY DEF Host!Stopping
<1>3. http' \in [Host!Adapters -> {"none", "listening", "closing", "dead"}]
  BY <1>2
<1>4. \A y \in Host!Adapters : http'[y] = IF y = x /\ http[x] = "listening" THEN "closing" ELSE http[y]
  BY <1>2
<1>5. buffer' \in [Host!Adapters -> Seq(Nat)] /\ \A y \in Host!Adapters :
        buffer'[y] = IF y = x /\ x \in stdio THEN <<>> ELSE buffer[y]
  BY DEF Host!Stopping
<1>6. HalfLines'
  <2> SUFFICES ASSUME NEW y \in Host!Adapters, buffer'[y] # <<>>
               PROVE  y \in stdio' /\ piece % 2 = 1 /\ Len(buffer'[y]) = 1
    BY DEF HalfLines
  <2>1. buffer'[y] = buffer[y] /\ y \in stdio /\ piece % 2 = 1 /\ Len(buffer[y]) = 1
    BY <1>5 DEF HalfLines
  <2>2. y # x
    BY <1>5, <2>1
  <2> QED
    BY <1>1, <2>1, <2>2
<1>7. ~Listening(x)'
  BY <1>1, <1>4 DEF Listening
<1>8. \A y \in Host!Adapters : Listening(y)' => Listening(y)
  BY <1>1, <1>4 DEF Listening
<1> QED
  BY <1>1, <1>3, <1>5, <1>6, <1>7, <1>8

(* A caller's turn: what it goes on to await, and with which adapter.      *)
LEMMA BecomeTypes ==
  ASSUME HostInv, NEW c \in Callers, NEW what \in {"nothing", "start", "stop", "listen"},
         NEW x \in 0 .. MaxAdapters, Host!Become(c, what, x)
  PROVE  /\ caller' \in [Callers -> [does : {"nothing", "start", "stop", "listen"}, with : 0 .. MaxAdapters]]
         /\ overlapped' \in BOOLEAN
         /\ ~overlapped' => ~overlapped
         /\ caller'[c] = [does |-> what, with |-> x]
         /\ \A d \in Callers \ {c} : caller'[d] = caller[d]
         /\ ~overlapped' /\ what # "nothing" => \A d \in Callers \ {c} : ~Busy(d)
BY DEF HostInv, HostTypes, Host!Become, Busy

(* mcp:start-server and mcp:stop-server stop what there is.                *)
LEMMA BeginKeepsHost ==
  ASSUME HostInv, NEW c \in Callers, NEW what \in {"start", "stop"}, Host!Begin(c, what)
  PROVE  HostInv'
<1> USE DEF HostInv, HostTypes
<1>1. adapter \in Host!Adapters /\ 0 \in 0 .. MaxAdapters
  BY McpAssumption DEF Host!Begin, Host!NoAdapter, Host!Adapters
<1>2. Host!Stopping(adapter) /\ UNCHANGED <<adapter, made, piece, working, answers>>
  BY DEF Host!Begin
<1>3. PICK how \in {"nothing", "start", "stop"}, x \in {0, adapter} :
        /\ Host!Become(c, how, x)
        /\ (how = "nothing" /\ x = 0) \/ (how # "nothing" /\ x = adapter)
  <2>1. CASE Host!StopRejects(adapter)
    BY <2>1 DEF Host!Begin, Host!NoAdapter
  <2>2. CASE ~Host!StopRejects(adapter)
    BY <2>2 DEF Host!Begin
  <2> QED
    BY <2>1, <2>2
<1>4. x \in 0 .. MaxAdapters
  BY <1>1, <1>3
<1>5. /\ caller' \in [Callers -> [does : {"nothing", "start", "stop", "listen"}, with : 0 .. MaxAdapters]]
      /\ overlapped' \in BOOLEAN
      /\ ~overlapped' => ~overlapped
      /\ caller'[c] = [does |-> how, with |-> x]
      /\ \A d \in Callers \ {c} : caller'[d] = caller[d]
      /\ ~overlapped' /\ how # "nothing" => \A d \in Callers \ {c} : ~Busy(d)
  BY <1>3, <1>4, BecomeTypes
<1>6. /\ stdio' \subseteq Host!Adapters
      /\ http' \in [Host!Adapters -> {"none", "listening", "closing", "dead"}]
      /\ buffer' \in [Host!Adapters -> Seq(Nat)]
      /\ HalfLines'
      /\ ~Listening(adapter)'
      /\ \A y \in Host!Adapters : Listening(y)' => Listening(y)
  BY <1>1, <1>2, StoppingLeavesNothing
<1>7. HostTypes'
  BY <1>2, <1>5, <1>6
<1>8. OneAtATime'
  <2> SUFFICES ASSUME ~overlapped'
               PROVE  /\ \A y \in Host!Adapters : Listening(y)' => y = adapter'
                      /\ \A d, e \in Callers : Busy(d)' /\ Busy(e)' => d = e
                      /\ \A d \in Callers : Busy(d)' =>
                           caller'[d].with = adapter' /\ adapter' \in Host!Adapters /\ ~Listening(adapter)'
    BY <1>2 DEF OneAtATime
  <2>1. \A y \in Host!Adapters : Listening(y)' => y = adapter'
    BY <1>2, <1>5, <1>6 DEF OneAtATime
  <2>2. CASE how = "nothing"
    <3>1. ~Busy(c)' /\ \A d \in Callers \ {c} : Busy(d)' => Busy(d)
      BY <1>3, <1>5, <2>2 DEF Busy, Host!Idle, Host!NoAdapter
    <3> QED
      BY <1>1, <1>2, <1>5, <1>6, <2>1, <3>1 DEF OneAtATime
  <2>3. CASE how # "nothing"
    <3>1. \A d \in Callers \ {c} : ~Busy(d)'
      BY <1>5, <2>3 DEF Busy
    <3>2. caller'[c].with = adapter
      BY <1>3, <1>5, <2>3
    <3> QED
      BY <1>1, <1>2, <1>6, <2>1, <3>1, <3>2
  <2> QED
    BY <2>2, <2>3
<1> QED
  BY <1>2, <1>5, <1>6, <1>7, <1>8, LinesStay

(* The last step of a call: its caller is free, and nobody else is busy    *)
(* unless the callers overlap.                                             *)
LEMMA DoneKeepsOneAtATime ==
  ASSUME HostInv, NEW c \in Callers, Busy(c), Host!Become(c, "nothing", 0),
         ~overlapped' => \A x \in Host!Adapters : Listening(x)' => x = adapter'
  PROVE  OneAtATime'
<1>1. 0 \in 0 .. MaxAdapters
  BY McpAssumption
<1>2. /\ ~overlapped' => ~overlapped
      /\ caller'[c] = [does |-> "nothing", with |-> 0]
      /\ \A d \in Callers \ {c} : caller'[d] = caller[d]
  BY <1>1, BecomeTypes
<1>3. ~overlapped' => \A d \in Callers : ~Busy(d)'
  <2> SUFFICES ASSUME ~overlapped', NEW d \in Callers, d # c  PROVE ~Busy(d)'
    BY <1>2 DEF Busy, Host!Idle, Host!NoAdapter
  <2> QED
    BY <1>2 DEF Busy, HostInv, OneAtATime
<1> QED
  BY <1>3 DEF OneAtATime

(* mcp:stop-server, dispose() and the listening of a server come to their  *)
(* ends, and a port is closed.                                             *)
LEMMA EndsKeepHost ==
  ASSUME HostInv,
         \/ \E c \in Callers : Host!Stopped(c) \/ Host!Listen(c) \/ Host!ListenFails(c)
         \/ \E x \in Host!Adapters : Host!Closed(x)
  PROVE  HostInv'
<1> USE DEF HostInv, HostTypes
<1>0. 0 \in 0 .. MaxAdapters
  BY McpAssumption
<1>1. ASSUME NEW c \in Callers, Host!Stopped(c)  PROVE HostInv'
  <2>1. /\ caller[c].does = "stop" /\ adapter' = 0 /\ Host!Become(c, "nothing", 0)
        /\ UNCHANGED <<made, stdio, http, piece, buffer, working, answers>>
    BY <1>1 DEF Host!Stopped, Host!NoAdapter, Host!hosts, Host!lines
  <2>2. Busy(c)
    BY <2>1 DEF Busy, Host!Idle
  <2>3. /\ caller' \in [Callers -> [does : {"nothing", "start", "stop", "listen"}, with : 0 .. MaxAdapters]]
        /\ overlapped' \in BOOLEAN
        /\ ~overlapped' => ~overlapped
    BY <1>0, <2>1, BecomeTypes
  <2>4. ~overlapped' => \A x \in Host!Adapters : ~Listening(x)'
    BY <2>1, <2>2, <2>3 DEF OneAtATime, Listening
  <2>5. OneAtATime'
    BY <2>1, <2>2, <2>4, DoneKeepsOneAtATime
  <2>6. HalfLines'
    BY <2>1 DEF HalfLines
  <2> QED
    BY <1>0, <2>1, <2>3, <2>5, <2>6, LinesStay
<1>2. ASSUME NEW c \in Callers, Host!Listen(c) \/ Host!ListenFails(c)  PROVE HostInv'
  <2>1. /\ caller[c].does = "listen" /\ Host!Become(c, "nothing", 0)
        /\ UNCHANGED <<adapter, made, stdio, piece, buffer, working, answers>>
        /\ \/ UNCHANGED http
           \/ http' = [http EXCEPT ![caller[c].with] =
                          IF http[caller[c].with] = "dead" THEN "listening" ELSE http[caller[c].with]]
    BY <1>2 DEF Host!Listen, Host!ListenFails, Host!NoAdapter, Host!hosts, Host!lines
  <2>2. Busy(c)
    BY <2>1 DEF Busy, Host!Idle
  <2>3. /\ caller' \in [Callers -> [does : {"nothing", "start", "stop", "listen"}, with : 0 .. MaxAdapters]]
        /\ overlapped' \in BOOLEAN
        /\ ~overlapped' => ~overlapped
    BY <1>0, <2>1, BecomeTypes
  <2>4. http' \in [Host!Adapters -> {"none", "listening", "closing", "dead"}]
    BY <2>1
  <2>5. \A x \in Host!Adapters : Listening(x)' => Listening(x) \/ x = caller[c].with
    BY <2>1 DEF Listening
  <2>6. ~overlapped' => \A x \in Host!Adapters : Listening(x)' => x = adapter'
    BY <2>1, <2>2, <2>3, <2>5 DEF OneAtATime
  <2>7. OneAtATime'
    BY <2>1, <2>2, <2>6, DoneKeepsOneAtATime
  <2>8. HalfLines'
    BY <2>1 DEF HalfLines
  <2> QED
    BY <2>1, <2>3, <2>4, <2>7, <2>8, LinesStay
<1>3. ASSUME NEW x \in Host!Adapters, Host!Closed(x)  PROVE HostInv'
  <2>1. /\ http' = [http EXCEPT ![x] = "none"]
        /\ UNCHANGED <<adapter, made, caller, overlapped, stdio, piece, buffer, working, answers>>
    BY <1>3 DEF Host!Closed, Host!plugin, Host!lines
  <2>2. http' \in [Host!Adapters -> {"none", "listening", "closing", "dead"}]
    BY <2>1
  <2>3. \A y \in Host!Adapters : Listening(y)' => Listening(y)
    BY <2>1 DEF Listening
  <2>4. OneAtATime'
    BY <2>1, <2>3 DEF OneAtATime, Busy
  <2>5. HalfLines'
    BY <2>1 DEF HalfLines
  <2> QED
    BY <2>1, <2>2, <2>4, <2>5, LinesStay
<1> QED
  BY <1>1, <1>2, <1>3

(* A new adapter takes the place of one that has stopped.                  *)
LEMMA CreateKeepsHost ==
  ASSUME HostInv, NEW c \in Callers, Host!Create(c)
  PROVE  HostInv'
<1> USE DEF HostInv, HostTypes
<1>0. 0 \in 0 .. MaxAdapters
  BY McpAssumption
<1>9. PICK new \in Nat : new = made + 1
  OBVIOUS
<1>1. new \in Host!Adapters /\ new \in 0 .. MaxAdapters /\ made + 1 = new
  BY <1>9, McpAssumption DEF Host!Create, Host!Adapters
<1>2. /\ made' = new /\ adapter' = new
      /\ UNCHANGED <<piece, buffer, working, answers>>
      /\ caller[c] = Host!Idle => adapter = 0
  BY <1>1 DEF Host!Create, Host!lines, Host!NoAdapter
<1>3. ~overlapped => \A x \in Host!Adapters : ~Listening(x)
  <2> SUFFICES ASSUME ~overlapped, NEW x \in Host!Adapters, Listening(x)  PROVE FALSE
    OBVIOUS
  <2>1. x = adapter /\ adapter # 0
    BY DEF OneAtATime, Host!Adapters
  <2>2. Busy(c)
    BY <1>2, <2>1 DEF Busy
  <2> QED
    BY <2>1, <2>2 DEF OneAtATime
<1>4. ~overlapped => \A d \in Callers \ {c} : ~Busy(d)
  <2> SUFFICES ASSUME ~overlapped, NEW d \in Callers, d # c, Busy(d)  PROVE FALSE
    OBVIOUS
  <2>1. ~Busy(c) /\ adapter \in Host!Adapters
    BY DEF OneAtATime
  <2> QED
    BY <1>2, <2>1 DEF Busy, Host!Adapters
<1>5. HalfLines' /\ stdio' \subseteq Host!Adapters /\ http' \in [Host!Adapters -> {"none", "listening", "closing", "dead"}]
  BY <1>1, <1>2 DEF HalfLines, Host!Create
<1>6. \A x \in Host!Adapters : Listening(x)' => Listening(x) \/ x = new
  BY <1>1 DEF Listening, Host!Create
<1>7. CASE Host!Become(c, "nothing", 0)
  <2>1. /\ caller' \in [Callers -> [does : {"nothing", "start", "stop", "listen"}, with : 0 .. MaxAdapters]]
        /\ overlapped' \in BOOLEAN
        /\ ~overlapped' => ~overlapped
        /\ caller'[c] = [does |-> "nothing", with |-> 0]
        /\ \A d \in Callers \ {c} : caller'[d] = caller[d]
    BY <1>0, <1>7, BecomeTypes
  <2>2. ~overlapped' => \A d \in Callers : ~Busy(d)'
    BY <1>4, <2>1 DEF Busy, Host!Idle, Host!NoAdapter
  <2>3. OneAtATime'
    BY <1>2, <1>3, <1>6, <2>1, <2>2 DEF OneAtATime
  <2> QED
    BY <1>1, <1>2, <1>5, <2>1, <2>3, LinesStay
<1>8. CASE Host!Become(c, "listen", new) /\ UNCHANGED stdio /\ http' = [http EXCEPT ![new] = "dead"]
  <2>1. /\ caller' \in [Callers -> [does : {"nothing", "start", "stop", "listen"}, with : 0 .. MaxAdapters]]
        /\ overlapped' \in BOOLEAN
        /\ ~overlapped' => ~overlapped
        /\ caller'[c] = [does |-> "listen", with |-> new]
        /\ \A d \in Callers \ {c} : caller'[d] = caller[d]
    BY <1>1, <1>8, BecomeTypes
  <2>2. ~overlapped' => \A d \in Callers \ {c} : ~Busy(d)'
    BY <1>4, <2>1 DEF Busy
  <2>3. caller'[c].with = new
    BY <2>1
  <2>4. ~overlapped' => ~Listening(new)'
    BY <1>1, <1>3, <1>8, <2>1 DEF Listening
  <2>5. OneAtATime'
    BY <1>1, <1>2, <1>3, <1>6, <2>1, <2>2, <2>3, <2>4 DEF OneAtATime
  <2> QED
    BY <1>1, <1>2, <1>5, <2>1, <2>5, LinesStay
<1> QED
  BY <1>1, <1>7, <1>8 DEF Host!Create, Host!NoAdapter

(* Pieces come in pairs: the second ends the line it is numbered by.       *)
LEMMA PairsOfPieces ==
  ASSUME NEW p \in Nat
  PROVE  /\ (p + 1) % 2 # 0 => p % 2 = 0 /\ (p + 1) % 2 = 1
         /\ p % 2 = 0 => 2 * Host!LineOf(p) = p
         /\ Host!LineOf(p) \in Nat
BY DEF Host!LineOf

(* Lines that have come stay so.                                           *)
LEMMA WorkingHasCome ==
  ASSUME HostInv, NEW w \in working
  PROVE  w.line \in Nat /\ 2 * w.line <= piece /\ 2 * w.line <= piece + 1
<1>1. w.line \in Nat /\ piece \in Nat
  BY DEF HostInv, HostTypes, Lines
<1>2. 2 * w.line <= piece
  BY DEF HostInv, LinesHaveCome
<1> QED
  BY ONLY <1>1, <1>2

(* Both halves of a line have come before it is answered (stdio host).     *)
LEMMA AnswersHaveCome ==
  ASSUME HostInv, NEW i \in DOMAIN answers
  PROVE  answers[i].line \in Nat /\ 2 * answers[i].line <= piece /\ 2 * answers[i].line <= piece + 1
<1>1. answers[i].line \in Nat /\ piece \in Nat
  <2>1. answers \in Seq(Lines) /\ piece \in Nat
    BY DEF HostInv, HostTypes
  <2>2. answers[i] \in Lines
    BY <2>1
  <2> QED
    BY ONLY <2>1, <2>2 DEF Lines
<1>2. 2 * answers[i].line <= piece
  BY DEF HostInv, LinesHaveCome
<1> QED
  BY ONLY <1>1, <1>2

(* Whether a line is whole is a truth value.                               *)
LEMMA WholeOrNot == \A n : (n = 2) \in BOOLEAN
BY Zenon

(* A piece of a line: with its newline, who is on stdin takes it up.       *)
LEMMA ArriveKeepsHost ==
  ASSUME HostInv, Host!Arrive
  PROVE  HostInv'
<1> USE DEF HostInv, HostTypes
<1>1. /\ piece' = piece + 1 /\ piece' \in Nat /\ Host!LineOf(piece') \in Nat
      /\ UNCHANGED <<adapter, made, caller, overlapped, stdio, http, answers>>
  BY DEF Host!Arrive, Host!plugin, Host!hosts, Host!LineOf
<1>2. OneAtATime'
  BY <1>1 DEF OneAtATime, Busy, Listening
<1>3. CASE piece' % 2 = 0
  <2>1. /\ buffer' = [x \in Host!Adapters |-> IF x \notin stdio THEN buffer[x] ELSE <<>>]
        /\ working' = working \cup {[by |-> x, line |-> Host!LineOf(piece'),
                                     whole |-> Len(Append(buffer[x], piece')) = 2] : x \in stdio}
    BY <1>3 DEF Host!Arrive
  <2>2. HostTypes' /\ HalfLines'
    <3>1. buffer' \in [Host!Adapters -> Seq(Nat)]
      BY <2>1
    <3>2. working' \subseteq Lines
      <4> SUFFICES ASSUME NEW x \in stdio
                   PROVE  [by |-> x, line |-> Host!LineOf(piece'), whole |-> Len(Append(buffer[x], piece')) = 2] \in Lines
        BY <2>1
      <4>1. (Len(Append(buffer[x], piece')) = 2) \in BOOLEAN
        BY WholeOrNot
      <4> QED
        BY <1>1, <4>1 DEF Lines
    <3>3. HalfLines'
      BY <1>1, <2>1 DEF HalfLines
    <3> QED
      BY <1>1, <3>1, <3>2, <3>3
  <2>3. \A w \in working' : w \in working \/ (w.by \in stdio /\ 2 * w.line = piece')
    <3>1. 2 * Host!LineOf(piece') = piece'
      BY <1>1, <1>3, PairsOfPieces
    <3> SUFFICES ASSUME NEW w \in working', w \notin working
                 PROVE  w.by \in stdio /\ 2 * w.line = piece'
      OBVIOUS
    <3>2. PICK x \in stdio : w = [by |-> x, line |-> Host!LineOf(piece'),
                                 whole |-> Len(Append(buffer[x], piece')) = 2]
      BY <2>1
    <3>3. w.by = x /\ w.line = Host!LineOf(piece')
      BY <3>2
    <3> QED
      BY <3>1, <3>3
  <2>4. \A w \in working' : w \in working => 2 * w.line < piece'
    <3> SUFFICES ASSUME NEW w \in working  PROVE 2 * w.line < piece'
      OBVIOUS
    <3>1. w.line \in Nat /\ 2 * w.line <= piece /\ piece \in Nat
      BY WorkingHasCome
    <3> QED
      BY ONLY <1>1, <3>1
  <2>5. \A i \in DOMAIN answers : 2 * answers[i].line < piece'
    <3> SUFFICES ASSUME NEW i \in DOMAIN answers  PROVE 2 * answers[i].line < piece'
      OBVIOUS
    <3>1. answers[i].line \in Nat /\ 2 * answers[i].line <= piece /\ piece \in Nat
      BY AnswersHaveCome
    <3> QED
      BY ONLY <1>1, <3>1
  <2>6. piece' \in Nat /\ \A w \in working' : w.line \in Nat
    BY <1>1, <2>2 DEF Lines
  <2>7. \A w \in working' : 2 * w.line <= piece'
    BY <2>3, <2>4, <2>6
  <2>8. LinesHaveCome'
    <3>1. \A i \in DOMAIN answers : answers[i] \notin working'
      <4> SUFFICES ASSUME NEW i \in DOMAIN answers, answers[i] \in working'  PROVE FALSE
        OBVIOUS
      <4>1. answers[i] \notin working
        BY DEF LinesHaveCome
      <4>2. 2 * answers[i].line = piece'
        BY <2>3, <4>1
      <4> QED
        BY <2>5, <2>6, <4>2
    <3>2. \A i \in DOMAIN answers : 2 * answers[i].line <= piece'
      BY AnswersHaveCome, <1>1
    <3> QED
      BY <1>1, <2>7, <3>1, <3>2 DEF LinesHaveCome
  <2>9. OneTakesTheLine'
    <3> SUFFICES ASSUME ~overlapped
                 PROVE  /\ \A v, w \in working' : v # w => v.line # w.line
                        /\ \A i \in DOMAIN answers : \A w \in working' : answers[i].line # w.line
      BY <1>1 DEF OneTakesTheLine
    <3>1. ASSUME NEW v \in working', NEW w \in working', v # w  PROVE v.line # w.line
      <4>1. CASE v \in working /\ w \in working
        BY <3>1, <4>1 DEF OneTakesTheLine
      <4>2. CASE v \in working /\ w \notin working
        BY <2>3, <2>4, <2>6, <4>2
      <4>3. CASE v \notin working /\ w \in working
        BY <2>3, <2>4, <2>6, <4>3
      <4>4. CASE v \notin working /\ w \notin working
        <5>1. v.by \in stdio /\ w.by \in stdio
          BY <2>3, <4>4
        <5>2. v.by = w.by
          BY <5>1 DEF OneAtATime, Listening
        <5>3. PICK x \in stdio, y \in stdio :
                /\ v = [by |-> x, line |-> Host!LineOf(piece'), whole |-> Len(Append(buffer[x], piece')) = 2]
                /\ w = [by |-> y, line |-> Host!LineOf(piece'), whole |-> Len(Append(buffer[y], piece')) = 2]
          BY <2>1, <4>4
        <5>4. x = y
          BY <5>2, <5>3
        <5> QED
          BY <3>1, <5>3, <5>4
      <4> QED
        BY <4>1, <4>2, <4>3, <4>4
    <3>2. ASSUME NEW i \in DOMAIN answers, NEW w \in working'  PROVE answers[i].line # w.line
      <4>1. CASE w \in working
        BY <4>1 DEF OneTakesTheLine
      <4>2. CASE w \notin working
        BY <2>3, <2>5, <2>6, <4>2
      <4> QED
        BY <4>1, <4>2
    <3> QED
      BY <3>1, <3>2
  <2> QED
    BY <1>1, <1>2, <2>2, <2>8, <2>9
<1>4. CASE piece' % 2 # 0
  <2>1. /\ buffer' = [x \in Host!Adapters |-> IF x \notin stdio THEN buffer[x] ELSE Append(buffer[x], piece')]
        /\ working' = working
    BY <1>4 DEF Host!Arrive
  <2>2. buffer' \in [Host!Adapters -> Seq(Nat)]
    BY <1>1, <2>1
  <2>3. HalfLines'
    <3> SUFFICES ASSUME NEW x \in Host!Adapters, x \in stdio
                 PROVE  piece' % 2 = 1 /\ Len(Append(buffer[x], piece')) = 1
      BY <1>1, <2>1 DEF HalfLines
    <3>1. piece % 2 = 0 /\ piece' % 2 = 1
      BY <1>1, <1>4, PairsOfPieces
    <3>2. buffer[x] = <<>>
      BY <3>1 DEF HalfLines
    <3> QED
      BY <3>1, <3>2
  <2>4. LinesHaveCome'
    <3>1. \A w \in working : 2 * w.line <= piece'
      BY <1>1, WorkingHasCome
    <3>2. \A i \in DOMAIN answers : 2 * answers[i].line <= piece'
      BY <1>1, AnswersHaveCome
    <3> QED
      BY <1>1, <2>1, <3>1, <3>2 DEF LinesHaveCome
  <2>5. OneTakesTheLine'
    BY <1>1, <2>1 DEF OneTakesTheLine
  <2> QED
    BY <1>1, <1>2, <2>1, <2>2, <2>3, <2>4, <2>5
<1> QED
  BY <1>3, <1>4

(* An answer: of a line that is taken up, and then is no longer.           *)
LEMMA AnswerKeepsHost ==
  ASSUME HostInv, NEW w \in working, Host!Answer(w)
  PROVE  HostInv'
<1> USE DEF HostInv, HostTypes
<1>1. /\ working' = working \ {w} /\ answers' = Append(answers, w)
      /\ UNCHANGED <<adapter, made, caller, overlapped, stdio, http, piece, buffer>>
  BY DEF Host!Answer, Host!plugin, Host!hosts
<1>2. answers \in Seq(Lines) /\ w \in Lines
  OBVIOUS
<1>8. answers' \in Seq(Lines) /\ working' \subseteq Lines
  BY <1>1
<1>9. PICK n \in Nat : /\ DOMAIN answers = 1 .. n /\ DOMAIN answers' = 1 .. (n + 1)
                      /\ answers'[n + 1] = w
                      /\ \A i \in 1 .. n : answers'[i] = answers[i]
  <2>1. Len(answers) \in Nat /\ DOMAIN answers = 1 .. Len(answers)
    BY ONLY <1>2, LenProperties
  <2>2. /\ DOMAIN Append(answers, w) = 1 .. (Len(answers) + 1)
        /\ \A i \in 1 .. Len(answers) : Append(answers, w)[i] = answers[i]
        /\ Append(answers, w)[Len(answers) + 1] = w
    BY ONLY <1>2, <2>1, AppendProperties, LenProperties
  <2> QED
    BY <1>1, <2>1, <2>2
<1>10. \A i \in 1 .. (n + 1) : i \in 1 .. n \/ i = n + 1
  OBVIOUS
<1>3. \A i \in DOMAIN answers' : answers'[i] = w \/ (i \in DOMAIN answers /\ answers'[i] = answers[i])
  BY <1>9, <1>10
<1>4. ASSUME NEW i \in DOMAIN answers', NEW j \in DOMAIN answers', i # j
      PROVE  \/ i \in DOMAIN answers /\ answers'[i] = answers[i]
             \/ j \in DOMAIN answers /\ answers'[j] = answers[j]
  <2>1. i \in 1 .. n \/ j \in 1 .. n
    BY <1>4, <1>9, <1>10
  <2> QED
    BY <1>9, <2>1
<1>5. OneAtATime' /\ HalfLines'
  BY <1>1 DEF OneAtATime, Busy, Listening, HalfLines
<1>6. LinesHaveCome'
  BY <1>1, <1>3, <1>4 DEF LinesHaveCome
<1>7. OneTakesTheLine'
  BY <1>1, <1>3, <1>4 DEF OneTakesTheLine
<1> QED
  BY <1>1, <1>8, <1>5, <1>6, <1>7

(* One server answers, for any callers, adapters and lines.                *)
THEOREM HostInvariance == Host!Init /\ [][Host!Next]_hostVars => []HostInv
<1>1. Host!Init => HostInv
  <2> SUFFICES ASSUME Host!Init  PROVE HostInv
    OBVIOUS
  <2> USE DEF Host!Init
  <2>1. HostTypes
    <3>1. 0 \in 0 .. MaxAdapters
      BY McpAssumption
    <3>2. http \in [Host!Adapters -> {"none", "listening", "closing", "dead"}]
      OBVIOUS
    <3>3. caller \in [Callers -> [does : {"nothing", "start", "stop", "listen"}, with : 0 .. MaxAdapters]]
      BY <3>1 DEF Host!Idle, Host!NoAdapter
    <3>4. buffer \in [Host!Adapters -> Seq(Nat)]
      OBVIOUS
    <3>5. answers \in Seq(Lines)
      BY EmptySeq
    <3> QED
      BY <3>1, <3>2, <3>3, <3>4, <3>5 DEF HostTypes, Host!NoAdapter
  <2>2. OneAtATime
    <3>1. \A x \in Host!Adapters : ~Listening(x)
      BY DEF Listening
    <3>2. \A c \in Callers : ~Busy(c)
      BY DEF Busy
    <3> QED
      BY <3>1, <3>2 DEF OneAtATime
  <2>3. HalfLines
    BY DEF HalfLines
  <2>4. LinesHaveCome /\ OneTakesTheLine
    BY DEF LinesHaveCome, OneTakesTheLine
  <2> QED
    BY <2>1, <2>2, <2>3, <2>4 DEF HostInv
<1>2. HostInv /\ [Host!Next]_hostVars => HostInv'
  <2> SUFFICES ASSUME HostInv, [Host!Next]_hostVars  PROVE HostInv'
    OBVIOUS
  <2>1. CASE UNCHANGED hostVars
    BY <2>1 DEF hostVars, HostInv, HostTypes, OneAtATime, HalfLines, LinesHaveCome, OneTakesTheLine, Busy, Listening
  <2>2. CASE Host!Next
    BY <2>2, BeginKeepsHost, EndsKeepHost, CreateKeepsHost, ArriveKeepsHost, AnswerKeepsHost DEF Host!Next
  <2> QED
    BY <2>1, <2>2
<1> QED
  BY <1>1, <1>2, PTL

(* What the invariant says of listeners and answers.                       *)
LEMMA HostIsTrue == HostInv => Host!OneServerAnswers
<1> SUFFICES ASSUME HostInv  PROVE Host!OneServerAnswers
  OBVIOUS
<1>1. ~overlapped => stdio \cup {x \in Host!Adapters : http[x] = "listening"} \subseteq {adapter}
  BY DEF HostInv, HostTypes, OneAtATime, Listening
<1>2. \A x \in stdio : Len(buffer[x]) <= 1
  <2> SUFFICES ASSUME NEW x \in stdio  PROVE Len(buffer[x]) <= 1
    OBVIOUS
  <2>1. x \in Host!Adapters
    BY DEF HostInv, HostTypes
  <2>2. buffer[x] = <<>> \/ Len(buffer[x]) = 1
    BY <2>1 DEF HostInv, HalfLines
  <2>3. CASE buffer[x] = <<>>
    BY <2>3
  <2>4. CASE Len(buffer[x]) = 1
    BY ONLY <2>4
  <2> QED
    BY <2>2, <2>3, <2>4
<1> QED
  BY <1>1, <1>2 DEF HostInv, LinesHaveCome, OneTakesTheLine, Host!OneServerAnswers

(* MCP serves what it is asked, for any calls, sessions, callers of the    *)
(* two tools, adapters and lines: a call runs its tool once and is told    *)
(* the truth, and a line has one answer at most.                           *)
THEOREM McpIsServed ==
  Link!Init /\ [][Link!Next]_linkVars /\ Host!Init /\ [][Host!Next]_hostVars
    => []McpServes
<1>1. LinkInv /\ HostInv => McpServes
  BY LinkIsTrue, HostIsTrue DEF McpServes
<1> QED
  BY <1>1, LinkInvariance, HostInvariance, PTL

-----------------------------------------------------------------------------
(* A set of numbers that is not empty has a least one.                     *)
LEMMA Least ==
  ASSUME NEW S \in SUBSET Nat, S # {}
  PROVE  \E m \in S : \A y \in S : m <= y
<1>1. PICK m \in S : \A y \in S : <<y, m>> \notin OpToRel(<, Nat)
  BY WFMin, NatLessThanWellFounded, Zenon
<1>2. \A y \in S : ~(y < m)
  BY <1>1, Zenon DEF OpToRel
<1> QED
  BY <1>2

(* The data of some tokens, found line after line.                         *)
IsSearch(tokens, d, n) ==
  d = [k \in 0 .. n |-> IF k = 0 THEN <<>>
                        ELSE IF Wire!DataEnds(tokens, k) THEN Append(d[k - 1], tokens[k - 2].data) ELSE d[k - 1]]

(* There is such a search of any tokens.                                   *)
LEMMA SearchExists ==
  ASSUME NEW tokens, NEW n \in Nat
  PROVE  \E d : IsSearch(tokens, d, n)
<1> DEFINE S == {m \in Nat : ~ \E d : IsSearch(tokens, d, m)}
<1> SUFFICES ASSUME S # {} PROVE FALSE
  OBVIOUS
<1>1. PICK m \in S : \A y \in S : m <= y
  BY Least
<1>2. m # 0
  <2> DEFINE g0 == [k \in 0 .. 0 |-> <<>>]
  <2>1. IsSearch(tokens, g0, 0)
    BY DEF IsSearch
  <2> QED
    BY <2>1
<1>3. m - 1 \in Nat /\ m - 1 \notin S
  BY <1>1, <1>2
<1>4. PICK p : IsSearch(tokens, p, m - 1)
  BY <1>3
<1> DEFINE q == [k \in 0 .. m |-> IF k # m THEN p[k]
                                  ELSE IF Wire!DataEnds(tokens, m) THEN Append(p[m - 1], tokens[m - 2].data) ELSE p[m - 1]]
<1>5. IsSearch(tokens, q, m)
  <2>1. \A k \in 0 .. m - 1 : p[k] = IF k = 0 THEN <<>>
            ELSE IF Wire!DataEnds(tokens, k) THEN Append(p[k - 1], tokens[k - 2].data) ELSE p[k - 1]
    BY <1>3, <1>4 DEF IsSearch
  <2>2. \A k \in 0 .. m : q[k] = IF k = 0 THEN <<>>
            ELSE IF Wire!DataEnds(tokens, k) THEN Append(q[k - 1], tokens[k - 2].data) ELSE q[k - 1]
    BY <1>2, <2>1
  <2>3. q = [k \in 0 .. m |-> q[k]]
    OBVIOUS
  <2> HIDE DEF q
  <2> QED
    BY <2>2, <2>3 DEF IsSearch
<1> QED
  BY <1>1, <1>5

(* What the model calls the data of some tokens is the end of one.         *)
LEMMA DataIsSearch ==
  ASSUME NEW tokens, Len(tokens) \in Nat
  PROVE  \E d : IsSearch(tokens, d, Len(tokens)) /\ Wire!Data(tokens) = d[Len(tokens)]
<1> DEFINE d == CHOOSE d : IsSearch(tokens, d, Len(tokens))
<1>1. IsSearch(tokens, d, Len(tokens))
  BY SearchExists
<1>2. Wire!Data(tokens) = d[Len(tokens)]
  BY DEF Wire!Data, IsSearch
<1> QED
  BY <1>1, <1>2

(* The tokens of the i-th event.                                           *)
LEMMA TokensOf ==
  ASSUME NEW C, NEW s \in Seq(C)
  PROVE  /\ Wire!Tokens(s) \in Seq([data : Nat, half : Nat]) /\ Len(Wire!Tokens(s)) = 6 * Len(s)
         /\ \A i \in 1 .. Len(s) :
              /\ Wire!Tokens(s)[6 * i - 5] = [data |-> 0, half |-> 1]
              /\ Wire!Tokens(s)[6 * i - 4] = Wire!Newline
              /\ Wire!Tokens(s)[6 * i - 3] = [data |-> i, half |-> 1]
              /\ Wire!Tokens(s)[6 * i - 2] = [data |-> i, half |-> 2]
              /\ Wire!Tokens(s)[6 * i - 1] = Wire!Newline
              /\ Wire!Tokens(s)[6 * i] = Wire!Newline
<1> DEFINE T == Wire!Tokens(s)
<1>1. Len(s) \in Nat
  OBVIOUS
<1>2. \A k \in 1 .. 6 * Len(s) : T[k] = Wire!Lines(((k - 1) \div 6) + 1)[((k - 1) % 6) + 1]
  BY DEF Wire!Tokens
<1>3. ASSUME NEW k \in 1 .. 6 * Len(s)
      PROVE  \E i \in 1 .. Len(s), r \in 1 .. 6 : k = 6 * (i - 1) + r /\ T[k] = Wire!Lines(i)[r]
  <2>1. PICK i \in Int : i = ((k - 1) \div 6) + 1
    BY <1>1
  <2>2. PICK r \in 1 .. 6 : r = ((k - 1) % 6) + 1
    BY <1>1
  <2>3. k = 6 * (i - 1) + r /\ i \in 1 .. Len(s)
    BY <1>1, <2>1, <2>2
  <2> QED
    BY <1>2, <2>1, <2>2, <2>3
<1>4. ASSUME NEW i \in 1 .. Len(s), NEW r \in 1 .. 6
      PROVE  T[6 * (i - 1) + r] = Wire!Lines(i)[r]
  <2>1. PICK k \in 1 .. 6 * Len(s) : k = 6 * (i - 1) + r
    BY <1>1
  <2>2. ((k - 1) \div 6) + 1 = i /\ ((k - 1) % 6) + 1 = r
    BY <1>1, <2>1
  <2> QED
    BY <1>2, <2>1, <2>2
<1>5. \A i : i \in Nat => \A r \in 1 .. 6 : Wire!Lines(i)[r] \in [data : Nat, half : Nat]
  BY DEF Wire!Lines, Wire!Newline
<1>6. T \in [1 .. 6 * Len(s) -> [data : Nat, half : Nat]]
  <2>1. \A k \in 1 .. 6 * Len(s) : T[k] \in [data : Nat, half : Nat]
    <3> TAKE k \in 1 .. 6 * Len(s)
    <3>1. PICK i \in 1 .. Len(s), r \in 1 .. 6 : T[k] = Wire!Lines(i)[r]
      BY <1>3
    <3>2. i \in Nat
      BY <1>1
    <3> QED
      BY <1>5, <3>1, <3>2
  <2>2. T = [k \in 1 .. 6 * Len(s) |-> T[k]]
    BY DEF Wire!Tokens
  <2> HIDE DEF T
  <2> QED
    BY <2>1, <2>2
<1>7. T \in Seq([data : Nat, half : Nat]) /\ Len(T) = 6 * Len(s)
  <2>1. PICK n \in Nat : n = 6 * Len(s)
    BY <1>1
  <2> DEFINE R == [data : Nat, half : Nat]
  <2>2. T \in [1 .. n -> R]
    BY <1>6, <2>1
  <2> HIDE DEF T, R
  <2>3. T \in Seq(R) /\ Len(T) = n
    BY <2>2, IsASeq
  <2> QED
    BY <2>1, <2>3 DEF R
<1>8. ASSUME NEW i \in 1 .. Len(s)
      PROVE  /\ T[6 * i - 5] = [data |-> 0, half |-> 1] /\ T[6 * i - 4] = Wire!Newline
             /\ T[6 * i - 3] = [data |-> i, half |-> 1] /\ T[6 * i - 2] = [data |-> i, half |-> 2]
             /\ T[6 * i - 1] = Wire!Newline /\ T[6 * i] = Wire!Newline
  <2>1. /\ 6 * (i - 1) + 1 = 6 * i - 5 /\ 6 * (i - 1) + 2 = 6 * i - 4 /\ 6 * (i - 1) + 3 = 6 * i - 3
        /\ 6 * (i - 1) + 4 = 6 * i - 2 /\ 6 * (i - 1) + 5 = 6 * i - 1 /\ 6 * (i - 1) + 6 = 6 * i
    BY <1>1
  <2> HIDE DEF T
  <2>2. /\ T[6 * (i - 1) + 1] = Wire!Lines(i)[1] /\ T[6 * (i - 1) + 2] = Wire!Lines(i)[2]
        /\ T[6 * (i - 1) + 3] = Wire!Lines(i)[3] /\ T[6 * (i - 1) + 4] = Wire!Lines(i)[4]
        /\ T[6 * (i - 1) + 5] = Wire!Lines(i)[5] /\ T[6 * (i - 1) + 6] = Wire!Lines(i)[6]
    BY <1>4
  <2> QED
    BY <2>1, <2>2 DEF Wire!Lines
<1> QED
  BY <1>7, <1>8

(* How many events are whole in so many tokens.                            *)
Whole(n) == (n + 1) \div 6

(* An event is whole with its fifth token.                                 *)
LEMMA WholeAt ==
  ASSUME NEW i \in Nat \ {0}, NEW r \in 1 .. 6
  PROVE  /\ Whole(6 * (i - 1) + r) = IF r >= 5 THEN i ELSE i - 1
         /\ Whole(6 * (i - 1) + r - 1) = IF r = 6 THEN i ELSE i - 1
<1>1. Whole(6 * (i - 1) + r) = IF r >= 5 THEN i ELSE i - 1
  <2>1. PICK n \in Int : n = 6 * (i - 1) + r + 1
    OBVIOUS
  <2>2. IF r >= 5 THEN 6 * i <= n /\ n < 6 * i + 6 ELSE 6 * (i - 1) <= n /\ n < 6 * (i - 1) + 6
    BY <2>1
  <2>3. n \div 6 = IF r >= 5 THEN i ELSE i - 1
    BY <2>1, <2>2
  <2> QED
    BY <2>1, <2>3 DEF Whole
<1>2. Whole(6 * (i - 1) + r - 1) = IF r = 6 THEN i ELSE i - 1
  <2>1. PICK n \in Int : n = 6 * (i - 1) + r
    OBVIOUS
  <2>2. n \div 6 = IF r = 6 THEN i ELSE i - 1
    BY <2>1
  <2>3. (6 * (i - 1) + r - 1) + 1 = n
    BY <2>1
  <2> QED
    BY <2>2, <2>3 DEF Whole
<1> QED
  BY <1>1, <1>2

(* Every place among the tokens is one of the six of an event.             *)
LEMMA PlaceOf ==
  ASSUME NEW l \in Nat, NEW k \in 1 .. 6 * l
  PROVE  \E i \in 1 .. l, r \in 1 .. 6 : k = 6 * (i - 1) + r
<1>1. PICK i \in Int : i = ((k - 1) \div 6) + 1
  OBVIOUS
<1>2. PICK r \in 1 .. 6 : r = ((k - 1) % 6) + 1
  OBVIOUS
<1>3. k = 6 * (i - 1) + r /\ i \in 1 .. l
  BY <1>1, <1>2
<1> QED
  BY <1>3

(* Some tokens are those of T from after place m up to place q; a line may *)
(* begin after place m.                                                    *)
Cut(tokens, T, m, q) == Len(tokens) = q - m /\ \A k \in 1 .. q - m : tokens[k] = T[m + k]
LineStart(T, m) == m = 0 \/ T[m] = Wire!Newline

(* What the data of such tokens are.                                       *)
IsData(d, m, q) ==
  /\ d \in Seq(Nat) /\ Len(d) = Whole(q) - Whole(m)
  /\ \A j \in 1 .. Whole(q) - Whole(m) : d[j] = Whole(m) + j

(* They are those of the events that become whole, in their order.         *)
LEMMA DataOfCut ==
  ASSUME NEW C, NEW s \in Seq(C), NEW q \in 0 .. 6 * Len(s), NEW m \in 0 .. q, NEW tokens,
         Cut(tokens, Wire!Tokens(s), m, q), LineStart(Wire!Tokens(s), m)
  PROVE  IsData(Wire!Data(tokens), m, q)
<1> DEFINE T == Wire!Tokens(s)
<1>0. PICK l \in Nat : l = Len(s)
  OBVIOUS
<1>1. PICK n \in Nat : n = q - m /\ Len(tokens) = n
  BY <1>0 DEF Cut
<1>2. PICK d : IsSearch(tokens, d, n) /\ Wire!Data(tokens) = d[n]
  BY <1>1, DataIsSearch
<1>3. \A k \in 0 .. n : d[k] = IF k = 0 THEN <<>>
          ELSE IF Wire!DataEnds(tokens, k) THEN Append(d[k - 1], tokens[k - 2].data) ELSE d[k - 1]
  BY <1>2 DEF IsSearch
<1>4. \A i \in 1 .. l :
        /\ T[6 * i - 5] = [data |-> 0, half |-> 1] /\ T[6 * i - 4] = Wire!Newline
        /\ T[6 * i - 3] = [data |-> i, half |-> 1] /\ T[6 * i - 2] = [data |-> i, half |-> 2]
        /\ T[6 * i - 1] = Wire!Newline /\ T[6 * i] = Wire!Newline
  BY <1>0, TokensOf
<1> HIDE DEF T
<1>5. \A k \in 1 .. n : tokens[k] = T[m + k]
  BY <1>1 DEF Cut, T
<1> DEFINE S == {k \in 0 .. n : ~IsData(d[k], m, m + k)}
<1>6. S = {}
  <2> SUFFICES ASSUME S # {} PROVE FALSE
    OBVIOUS
  <2>1. PICK x \in S : \A y \in S : x <= y
    <3>1. S \in SUBSET Nat
      OBVIOUS
    <3> HIDE DEF S
    <3> QED
      BY <3>1, Least
  <2>2. x \in 0 .. n /\ ~IsData(d[x], m, m + x)
    OBVIOUS
  <2>3. x # 0
    <3>1. SUFFICES ASSUME x = 0 PROVE IsData(d[x], m, m + x)
      BY <2>2
    <3>2. d[x] = <<>> /\ m + x = m
      BY <1>3, <3>1
    <3>3. Whole(m) \in Int /\ Whole(m) - Whole(m) = 0
      BY DEF Whole
    <3>4. <<>> \in Seq(Nat) /\ Len(<<>>) = 0
      OBVIOUS
    <3> QED
      BY <3>2, <3>3, <3>4 DEF IsData
  <2>4. x \in 1 .. n /\ x - 1 \in 0 .. n /\ x - 1 \notin S
    BY <2>1, <2>2, <2>3
  <2>5. IsData(d[x - 1], m, m + (x - 1))
    BY <2>4
  <2> HIDE DEF S
  <2>6. PICK i \in 1 .. l, r \in 1 .. 6 : m + x = 6 * (i - 1) + r
    <3>1. m + x \in 1 .. 6 * l
      BY <1>0, <1>1, <2>4
    <3> QED
      BY <3>1, PlaceOf
  <2>7. /\ Whole(m + x) = IF r >= 5 THEN i ELSE i - 1
        /\ Whole(m + (x - 1)) = IF r = 6 THEN i ELSE i - 1
    <3>1. i \in Nat \ {0}
      BY <1>0
    <3>2. /\ Whole(6 * (i - 1) + r) = IF r >= 5 THEN i ELSE i - 1
          /\ Whole(6 * (i - 1) + r - 1) = IF r = 6 THEN i ELSE i - 1
      BY <3>1, WholeAt
    <3>3. m + (x - 1) = 6 * (i - 1) + r - 1
      BY <2>6, <2>4, <1>0
    <3> QED
      BY <2>6, <3>2, <3>3
  <2>8. tokens[x] = T[m + x] /\ (x > 1 => tokens[x - 1] = T[m + x - 1]) /\ (x > 2 => tokens[x - 2] = T[m + x - 2])
    <3>1. tokens[x] = T[m + x]
      BY <1>5, <2>4
    <3>2. ASSUME x > 1 PROVE tokens[x - 1] = T[m + x - 1]
      <4>1. x - 1 \in 1 .. n /\ m + (x - 1) = m + x - 1
        BY <2>4, <3>2
      <4> QED
        BY <1>5, <4>1
    <3>3. ASSUME x > 2 PROVE tokens[x - 2] = T[m + x - 2]
      <4>1. x - 2 \in 1 .. n /\ m + (x - 2) = m + x - 2
        BY <2>4, <3>3
      <4> QED
        BY <1>5, <4>1
    <3> QED
      BY <3>1, <3>2, <3>3
  <2>9. m \in Int /\ x \in Int /\ i \in Int /\ i >= 1 /\ r \in Int
    BY <1>0, <1>1, <2>4
  <2>10. /\ T[6 * i - 5] = [data |-> 0, half |-> 1] /\ T[6 * i - 4] = Wire!Newline
         /\ T[6 * i - 3] = [data |-> i, half |-> 1] /\ T[6 * i - 2] = [data |-> i, half |-> 2]
         /\ T[6 * i - 1] = Wire!Newline /\ T[6 * i] = Wire!Newline
    BY <1>4
  <2>10a. /\ T[6 * i - 5].half = 1 /\ T[6 * i - 3].half = 1 /\ T[6 * i - 3].data = i
          /\ T[6 * i - 2].half = 2 /\ T[6 * i - 1].half = 0 /\ Wire!Newline.half = 0
    BY <2>10 DEF Wire!Newline
  <2>11. Wire!DataEnds(tokens, x) <=> r = 5
    <3>1. CASE r \in {1, 3, 4}
      <4>1. T[m + x] # Wire!Newline
        <5>1. m + x = 6 * i - 5 \/ m + x = 6 * i - 3 \/ m + x = 6 * i - 2
          BY <2>6, <2>9, <3>1
        <5>2. T[m + x] = T[6 * i - 5] \/ T[m + x] = T[6 * i - 3] \/ T[m + x] = T[6 * i - 2]
          BY ONLY <5>1, Zenon
        <5>3. T[m + x].half # 0
          BY ONLY <2>10a, <5>2
        <5> QED
          BY ONLY <2>10a, <5>3, Zenon
      <4> QED
        BY <2>8, <3>1, <4>1 DEF Wire!DataEnds
    <3>2. CASE r \in {2, 6}
      <4>1. T[m + x - 1].half # 2
        <5>1. m + x - 1 = 6 * i - 5 \/ m + x - 1 = 6 * i - 1
          BY <2>6, <2>9, <3>2
        <5>2. T[m + x - 1] = T[6 * i - 5] \/ T[m + x - 1] = T[6 * i - 1]
          BY ONLY <5>1, Zenon
        <5> QED
          BY ONLY <2>10a, <5>2
      <4> QED
        BY <2>4, <2>8, <3>2, <4>1 DEF Wire!DataEnds
    <3>3. CASE r = 5
      <4>1. x > 2
        <5> SUFFICES ASSUME ~(x > 2) PROVE FALSE
          OBVIOUS
        <5>1. m = 6 * i - 2 \/ m = 6 * i - 3
          BY <2>4, <2>6, <2>9, <3>3
        <5>2. T[m] # Wire!Newline /\ m # 0
          BY <2>9, <2>10a, <5>1
        <5> QED
          BY <5>2 DEF LineStart, T
      <4>2. m + x = 6 * i - 1 /\ m + x - 1 = 6 * i - 2 /\ m + x - 2 = 6 * i - 3
        BY <2>6, <2>9, <3>3
      <4>3. tokens[x] = Wire!Newline /\ tokens[x - 1].half = 2 /\ tokens[x - 2].half = 1 /\ tokens[x - 2].data = i
        <5>1. x > 1
          BY <2>9, <4>1
        <5>2. tokens[x] = T[m + x] /\ tokens[x - 1] = T[m + x - 1] /\ tokens[x - 2] = T[m + x - 2]
          BY <2>8, <4>1, <5>1, Zenon
        <5>3. tokens[x] = T[6 * i - 1] /\ tokens[x - 1] = T[6 * i - 2] /\ tokens[x - 2] = T[6 * i - 3]
          BY <4>2, <5>2, Zenon
        <5> QED
          BY <2>10, <2>10a, <5>3, Zenon
      <4> QED
        BY <3>3, <4>1, <4>3 DEF Wire!DataEnds
    <3> QED
      BY <3>1, <3>2, <3>3
  <2>12. CASE r # 5
    <3>1. d[x] = d[x - 1]
      BY <1>3, <2>2, <2>3, <2>11, <2>12
    <3>2. Whole(m + x) = Whole(m + (x - 1))
      BY <2>7, <2>12
    <3> QED
      BY <2>2, <2>5, <3>1, <3>2 DEF IsData
  <2>13. CASE r = 5
    <3>1. x > 2
      BY <2>11, <2>13 DEF Wire!DataEnds
    <3>2. tokens[x - 2].data = i
      <4>1. m + x - 2 = 6 * i - 3
        BY <2>6, <2>13, <2>9
      <4> QED
        BY <2>8, <2>10, <3>1, <4>1
    <3>3. d[x] = Append(d[x - 1], i)
      BY <1>3, <2>2, <2>3, <2>11, <2>13, <3>2
    <3>4. Whole(m + x) = i /\ Whole(m + (x - 1)) = i - 1 /\ Whole(m) \in Int /\ i \in Nat
      BY <2>7, <2>13 DEF Whole
    <3>5. PICK e \in Seq(Nat) : /\ e = d[x - 1] /\ Len(e) = i - 1 - Whole(m)
                                /\ \A j \in 1 .. i - 1 - Whole(m) : e[j] = Whole(m) + j
      BY <2>5, <3>4 DEF IsData
    <3>6. /\ Append(e, i) \in Seq(Nat) /\ Len(Append(e, i)) = i - Whole(m)
          /\ \A j \in 1 .. i - Whole(m) : Append(e, i)[j] = Whole(m) + j
      <4>1. Append(e, i) \in Seq(Nat) /\ Len(Append(e, i)) = Len(e) + 1 /\ Len(e) \in Nat
            /\ Append(e, i)[Len(e) + 1] = i /\ \A j \in 1 .. Len(e) : Append(e, i)[j] = e[j]
        BY <3>4
      <4>2. Len(e) + 1 = i - Whole(m)
        BY <3>4, <3>5
      <4>3. ASSUME NEW j \in 1 .. i - Whole(m) PROVE Append(e, i)[j] = Whole(m) + j
        <5>1. CASE j = Len(e) + 1
          BY <3>4, <4>1, <4>2, <5>1
        <5>2. CASE j # Len(e) + 1
          <6>1. j \in 1 .. Len(e) /\ j \in 1 .. i - 1 - Whole(m)
            BY <3>4, <3>5, <4>1, <4>2, <5>2
          <6> QED
            BY <3>5, <4>1, <6>1
        <5> QED
          BY <5>1, <5>2
      <4> QED
        BY <4>1, <4>2, <4>3
    <3>7. IsData(d[x], m, m + x)
      BY <3>3, <3>4, <3>5, <3>6 DEF IsData
    <3> QED
      BY <2>2, <3>7
  <2> QED
    BY <2>12, <2>13
<1>7. IsData(d[n], m, m + n)
  BY <1>1, <1>6
<1>8. m + n = q
  BY <1>0, <1>1
<1> QED
  BY <1>2, <1>7, <1>8

(* No event becomes whole where no line ends.                              *)
LEMMA NothingWhole ==
  ASSUME NEW C, NEW s \in Seq(C), NEW q \in 0 .. 6 * Len(s), NEW m \in 0 .. q,
         \A k \in m + 1 .. q : Wire!Tokens(s)[k] # Wire!Newline
  PROVE  Whole(q) = Whole(m)
<1>1. PICK l \in Nat : l = Len(s)
  OBVIOUS
<1>2. PICK i \in Int : i = Whole(q) /\ 6 * i <= q + 1 /\ q + 1 < 6 * i + 6
  BY <1>1 DEF Whole
<1>3. PICK j \in Int : j = Whole(m) /\ 6 * j <= m + 1 /\ m + 1 < 6 * j + 6
  BY <1>1 DEF Whole
<1>4. j <= i /\ i <= l /\ j >= 0
  BY <1>1, <1>2, <1>3
<1>5. CASE j < i
  <2>1. 6 * i - 1 \in m + 1 .. q /\ i \in 1 .. l
    BY <1>1, <1>2, <1>3, <1>4, <1>5
  <2>2. Wire!Tokens(s)[6 * i - 1] = Wire!Newline
    BY <1>1, <2>1, TokensOf
  <2> QED
    BY <2>1, <2>2
<1> QED
  BY <1>2, <1>3, <1>4, <1>5

(* What the client keeps of some tokens begins after the last line.        *)
LEMMA RestOfCut ==
  ASSUME NEW R, NEW T \in Seq(R), NEW q \in 0 .. Len(T), NEW m \in 0 .. q, NEW tokens \in Seq(R),
         Cut(tokens, T, m, q), LineStart(T, m)
  PROVE  /\ Wire!Rest(tokens) \in Seq(R)
         /\ \E e \in m .. q : /\ Cut(Wire!Rest(tokens), T, e, q) /\ LineStart(T, e)
                              /\ \A k \in e + 1 .. q : T[k] # Wire!Newline
<1>0. PICK l \in Nat : l = Len(T)
  OBVIOUS
<1>1. PICK n \in Nat : n = q - m /\ Len(tokens) = n /\ \A k \in 1 .. n : tokens[k] = T[m + k]
  BY <1>0 DEF Cut
<1> DEFINE N == {0} \cup {i \in DOMAIN tokens : tokens[i] = Wire!Newline}
<1>2. N \subseteq 0 .. n /\ 0 \in N /\ DOMAIN tokens = 1 .. n
  BY <1>1
<1>3. \E x \in N : \A y \in N : x >= y
  <2> DEFINE S == {n - x : x \in N}
  <2>1. S \in SUBSET Nat /\ S # {}
    BY <1>2
  <2>2. PICK z \in S : \A y \in S : z <= y
    <3> HIDE DEF S
    <3> QED
      BY <2>1, Least
  <2>3. PICK x \in N : z = n - x
    OBVIOUS
  <2>4. ASSUME NEW y \in N PROVE x >= y
    <3>1. n - x <= n - y
      BY <2>2, <2>3
    <3> QED
      BY <1>2, <3>1
  <2> QED
    BY <2>4
<1>4. PICK x : x = Wire!Max(N) /\ x \in N /\ \A y \in N : x >= y
  <2> HIDE DEF N
  <2> QED
    BY <1>3 DEF Wire!Max
<1>5. Wire!Rest(tokens) = SubSeq(tokens, x + 1, n)
  BY <1>1, <1>4 DEF Wire!Rest
<1>6. x \in 0 .. n
  BY <1>2, <1>4
<1>7. PICK rest : /\ rest = SubSeq(tokens, x + 1, n) /\ rest \in Seq(R) /\ Len(rest) = n - x
                  /\ \A k \in 1 .. n - x : rest[k] = tokens[x + k]
  <2>1. PICK y \in Nat : y = x + 1
    BY <1>6
  <2> DEFINE rest == SubSeq(tokens, y, n)
  <2>2. rest \in Seq(R) /\ Len(rest) = n + 1 - y /\ \A k \in 1 .. n + 1 - y : rest[k] = tokens[y + k - 1]
    BY <1>1, <1>6, <2>1, SubSeqProperties
  <2> HIDE DEF rest
  <2>3. n + 1 - y = n - x /\ \A k \in 1 .. n - x : y + k - 1 = x + k
    BY <1>6, <2>1
  <2>4. rest \in Seq(R) /\ Len(rest) = n - x /\ \A k \in 1 .. n - x : rest[k] = tokens[x + k]
    BY <2>2, <2>3
  <2>5. rest = SubSeq(tokens, x + 1, n)
    BY <2>1 DEF rest
  <2> QED
    BY <2>4, <2>5, Zenon
<1>8. PICK e \in m .. q : e = m + x
  BY <1>0, <1>1, <1>6
<1>9. Cut(rest, T, e, q)
  <2>1. q - e = n - x
    BY <1>0, <1>1, <1>6, <1>8
  <2>2. ASSUME NEW k \in 1 .. n - x PROVE rest[k] = T[e + k]
    <3>1. x + k \in 1 .. n /\ m + (x + k) = e + k
      BY <1>0, <1>6, <1>8
    <3> QED
      BY <1>1, <1>7, <3>1
  <2> QED
    BY <1>7, <2>1, <2>2 DEF Cut
<1>10. LineStart(T, e)
  <2>1. CASE x = 0
    BY <1>0, <1>8, <2>1
  <2>2. CASE x # 0
    <3>1. x \in 1 .. n /\ tokens[x] = Wire!Newline
      BY <1>4, <1>2, <2>2
    <3> QED
      BY <1>1, <1>8, <3>1 DEF LineStart
  <2> QED
    BY <2>1, <2>2
<1>11. ASSUME NEW k \in e + 1 .. q PROVE T[k] # Wire!Newline
  <2>1. k - m \in 1 .. n /\ m + (k - m) = k /\ k - m > x
    BY <1>0, <1>1, <1>6, <1>8
  <2>2. tokens[k - m] = T[k]
    BY <1>1, <2>1
  <2>3. k - m \notin N
    BY <1>4, <1>6, <2>1
  <2> QED
    BY <1>2, <2>1, <2>2, <2>3
<1> QED
  BY <1>5, <1>7, <1>8, <1>9, <1>10, <1>11
-----------------------------------------------------------------------------
(* The two ends of the wire.  The client has heard the events whose lines  *)
(* have arrived, and keeps what has arrived of the next line.              *)
Events == {"progress", "terminal", "error"}
Token == [data : Nat, half : Nat]

WireTypes ==
  /\ sent \in Seq(Events) /\ wireOpen \in BOOLEAN
  /\ position \in 0 .. 6 * Len(sent) /\ wireBuffer \in Seq(Token)
  /\ wirePhase \in {"idle", "sent"} => position = 0
  /\ wirePhase = "reading" => tool = "subscribe"

HeardSoFar == wireHeard = [k \in 1 .. Whole(position) |-> sent[k]]
KeptSoFar(m) ==
  /\ Cut(wireBuffer, Wire!Tokens(sent), m, position) /\ LineStart(Wire!Tokens(sent), m)
  /\ \A k \in m + 1 .. position : Wire!Tokens(sent)[k] # Wire!Newline
HeardToTheEnd ==
  /\ wirePhase = "reading" => ~Wire!Ends(wireHeard)
  /\ tool = "subscribe" /\ wirePhase = "done" => Wire!Ends(wireHeard) \/ (~wireOpen /\ position = 6 * Len(sent))

WireInv ==
  /\ WireTypes /\ HeardSoFar /\ (\E m \in 0 .. position : KeptSoFar(m)) /\ HeardToTheEnd
  /\ Wire!RefusedHasNoEffect

(* Nothing has arrived when a stream begins.                               *)
LEMMA StreamBegins ==
  ASSUME WireInv, position = 0, sent' \in Seq(Events), UNCHANGED <<position, wireBuffer, wireHeard>>
  PROVE  HeardSoFar' /\ \E m \in 0 .. position' : KeptSoFar(m)'
<1>1. Whole(0) = 0 /\ Whole(position) = 0 /\ Whole(position') = 0
  BY DEF Whole
<1>2. wireHeard = [k \in 1 .. 0 |-> sent[k]]
  BY <1>1 DEF WireInv, HeardSoFar
<1>3. wireHeard' = [k \in 1 .. 0 |-> sent'[k]]
  BY <1>2
<1>4. PICK m \in 0 .. 0 : KeptSoFar(m)
  BY DEF WireInv
<1>5. Len(wireBuffer) = 0
  <2>1. Len(wireBuffer) = position - m /\ m = 0
    BY <1>4 DEF KeptSoFar, Cut
  <2> QED
    BY <2>1
<1>6. KeptSoFar(0)'
  BY <1>5 DEF KeptSoFar, Cut, LineStart
<1> QED
  BY <1>1, <1>3, <1>6 DEF HeardSoFar

(* So it is when the stream is what it was.                                *)
LEMMA StreamStays ==
  ASSUME WireInv, UNCHANGED <<sent, position, wireBuffer, wireHeard>>
  PROVE  HeardSoFar' /\ \E m \in 0 .. position' : KeptSoFar(m)'
BY DEF WireInv, HeardSoFar, KeptSoFar, Cut, LineStart

(* So it is when it is one event longer.                                   *)
LEMMA StreamGrows ==
  ASSUME WireInv, NEW e \in Events, sent' = Append(sent, e), UNCHANGED <<position, wireBuffer, wireHeard>>
  PROVE  HeardSoFar' /\ (\E m \in 0 .. position' : KeptSoFar(m)') /\ sent' \in Seq(Events) /\ position' \in 0 .. 6 * Len(sent')
<1>1. PICK l \in Nat : l = Len(sent)
  BY DEF WireInv, WireTypes
<1>2. position \in 0 .. 6 * l /\ sent \in Seq(Events)
  BY <1>1 DEF WireInv, WireTypes
<1>3. sent' \in Seq(Events) /\ Len(sent') = l + 1 /\ \A k \in 1 .. l : sent'[k] = sent[k]
  BY <1>1, <1>2
<1>4. \A k \in 1 .. 6 * l : Wire!Tokens(sent)'[k] = Wire!Tokens(sent)[k]
  <2>1. \A k \in 1 .. 6 * l : k \in 1 .. 6 * (l + 1)
    BY <1>1
  <2> QED
    BY <1>1, <1>3, <2>1 DEF Wire!Tokens
<1>5. Whole(position) \in Nat /\ Whole(position) <= l
  BY <1>1, <1>2 DEF Whole
<1>6. HeardSoFar'
  <2>1. \A k \in 1 .. Whole(position) : sent'[k] = sent[k]
    BY <1>1, <1>3, <1>5
  <2>2. [k \in 1 .. Whole(position) |-> sent'[k]] = [k \in 1 .. Whole(position) |-> sent[k]]
    BY <2>1
  <2> QED
    BY <2>2 DEF WireInv, HeardSoFar
<1>7. PICK m \in 0 .. position : KeptSoFar(m)
  BY DEF WireInv
<1>8. KeptSoFar(m)'
  <2>1. \A k \in m + 1 .. position : k \in 1 .. 6 * l
    BY <1>1, <1>2
  <2>2. m = 0 \/ m \in 1 .. 6 * l
    BY <1>1, <1>2
  <2>3. \A k \in 1 .. position - m : m + k \in 1 .. 6 * l
    BY <1>1, <1>2
  <2>4. PICK T : T = Wire!Tokens(sent)
    OBVIOUS
  <2>5. Cut(wireBuffer, T, m, position) /\ LineStart(T, m) /\ \A k \in m + 1 .. position : T[k] # Wire!Newline
    BY <1>7, <2>4 DEF KeptSoFar
  <2>6. \A k \in 1 .. 6 * l : Wire!Tokens(sent)'[k] = T[k]
    BY <1>4, <2>4
  <2>7. Cut(wireBuffer, Wire!Tokens(sent), m, position)'
    BY <2>3, <2>5, <2>6 DEF Cut
  <2>8. LineStart(Wire!Tokens(sent), m)'
    BY <2>2, <2>5, <2>6 DEF LineStart, Wire!Newline
  <2>9. \A k \in m + 1 .. position : Wire!Tokens(sent)'[k] # Wire!Newline
    BY <2>1, <2>5, <2>6
  <2> QED
    BY <2>7, <2>8, <2>9 DEF KeptSoFar, Wire!Newline
<1> QED
  BY <1>1, <1>2, <1>3, <1>6, <1>8
(* The server: what it answers says whether it has started something.      *)
LEMMA ServerKeepsWire ==
  ASSUME WireInv, Wire!ServeDiscovery \/ Wire!Refuse \/ Wire!ServeSubscription \/ Wire!ServeRpc
  PROVE  WireInv'
<1>1. wirePhase = "sent" /\ UNCHANGED <<tool, wireRequest, wirePhase, position, wireBuffer, wireHeard>> /\ position = 0
  BY DEF Wire!ServeDiscovery, Wire!Refuse, Wire!ServeSubscription, Wire!ServeRpc, Wire!Does, WireInv, WireTypes
<1>2. HeardToTheEnd'
  BY <1>1 DEF HeardToTheEnd
<1>3. sent' \in Seq(Events) /\ wireOpen' \in BOOLEAN
  <2>1. <<"progress">> \in Seq(Events) /\ <<"error">> \in Seq(Events)
    BY DEF Events
  <2>2. (tasks < MaxTasks) \in BOOLEAN
    OBVIOUS
  <2>3. CASE Wire!ServeSubscription /\ wireRequest.params \notin {"none", "lacking"}
    BY <2>1, <2>2, <2>3 DEF Wire!ServeSubscription
  <2>4. CASE Wire!ServeSubscription /\ wireRequest.params \in {"none", "lacking"}
    BY <2>4 DEF Wire!ServeSubscription, WireInv, WireTypes
  <2>5. CASE Wire!ServeDiscovery \/ Wire!Refuse \/ Wire!ServeRpc
    <3>1. UNCHANGED <<sent, wireOpen>>
      <4>1. CASE Wire!ServeDiscovery
        BY <4>1 DEF Wire!ServeDiscovery
      <4>2. CASE Wire!Refuse
        BY <4>2 DEF Wire!Refuse
      <4>3. CASE Wire!ServeRpc
        BY <4>3 DEF Wire!ServeRpc
      <4> QED
        BY <2>5, <4>1, <4>2, <4>3
    <3> QED
      BY <3>1 DEF WireInv, WireTypes
  <2> QED
    BY <2>3, <2>4, <2>5
<1>4. HeardSoFar' /\ \E m \in 0 .. position' : KeptSoFar(m)'
  BY <1>1, <1>3, StreamBegins
<1>5. WireTypes'
  <2>1. Len(sent') \in Nat
    BY <1>3
  <2> QED
    BY <1>1, <1>3, <2>1 DEF WireInv, WireTypes
<1>6. Wire!RefusedHasNoEffect'
  <2>1. CASE Wire!ServeDiscovery \/ Wire!Refuse
    BY <2>1 DEF Wire!ServeDiscovery, Wire!Refuse, Wire!Does, Wire!RefusedHasNoEffect
  <2>2. CASE Wire!ServeSubscription
    <3>1. started' = FALSE \/ response'.status = 200
      BY <2>2 DEF Wire!ServeSubscription, Wire!Does
    <3> QED
      BY <3>1 DEF Wire!RefusedHasNoEffect
  <2>3. CASE Wire!ServeRpc
    <3>1. PICK code \in Wire!Outcomes(wireRequest) :
            IF wireRequest.id THEN Wire!Answer(IF code = 0 THEN 200 ELSE 400, code) ELSE Wire!Answer(202, 0)
      BY <2>3 DEF Wire!ServeRpc
    <3>2. started' = Wire!Starts(wireRequest)
      BY <2>3 DEF Wire!ServeRpc, Wire!Does
    <3>3. Wire!Starts(wireRequest) => code \in {0, -32603}
      <4> SUFFICES ASSUME Wire!Starts(wireRequest) PROVE code \in {0, -32603}
        OBVIOUS
      <4>1. /\ wireRequest.version /\ ~Wire!Invalid(wireRequest) /\ wireRequest.method = "tasks/send" /\ tasks < MaxTasks
            /\ ~Wire!Unsupported(wireRequest)
        BY DEF Wire!Starts, Wire!Unsupported, Wire!Optional
      <4>2. Wire!Outcomes(wireRequest) = {0, -32603}
        BY <4>1 DEF Wire!Outcomes
      <4> QED
        BY <4>2
    <3> QED
      BY <3>1, <3>2, <3>3 DEF Wire!Answer, Wire!RefusedHasNoEffect
  <2> QED
    BY <2>1, <2>2, <2>3
<1> QED
  BY <1>2, <1>4, <1>5, <1>6 DEF WireInv

(* The stream of the server goes on, or ends.                              *)
LEMMA EmitKeepsWire ==
  ASSUME WireInv, Wire!Emit \/ Wire!Close
  PROVE  WireInv'
<1>1. UNCHANGED <<features, tasks, started, tool, wireRequest, wirePhase, response, position, wireBuffer, wireHeard>> /\ wireOpen
  BY DEF Wire!Emit, Wire!Close, Wire!server
<1>2. Wire!RefusedHasNoEffect'
  BY <1>1 DEF WireInv, Wire!RefusedHasNoEffect
<1>3. HeardToTheEnd'
  <2>1. tool = "subscribe" /\ wirePhase = "done" => Wire!Ends(wireHeard)
    BY <1>1 DEF WireInv, HeardToTheEnd
  <2>2. Wire!Ends(wireHeard)' <=> Wire!Ends(wireHeard)
    BY <1>1 DEF Wire!Ends
  <2> QED
    BY <1>1, <2>1, <2>2 DEF WireInv, HeardToTheEnd
<1>4. CASE Wire!Emit
  <2>1. PICK e \in Events : sent' = Append(sent, e) /\ UNCHANGED wireOpen
    BY <1>4 DEF Wire!Emit, Events
  <2>2. HeardSoFar' /\ (\E m \in 0 .. position' : KeptSoFar(m)') /\ sent' \in Seq(Events) /\ position' \in 0 .. 6 * Len(sent')
    BY <1>1, <2>1, StreamGrows
  <2> QED
    BY <1>1, <1>2, <1>3, <2>1, <2>2 DEF WireInv, WireTypes
<1>5. CASE Wire!Close
  <2>1. UNCHANGED sent /\ wireOpen' = FALSE
    BY <1>5 DEF Wire!Close
  <2>2. HeardSoFar' /\ \E m \in 0 .. position' : KeptSoFar(m)'
    BY <1>1, <2>1, StreamStays
  <2> QED
    BY <1>1, <1>2, <1>3, <2>1, <2>2 DEF WireInv, WireTypes
<1> QED
  BY <1>4, <1>5

(* The client's tool begins, gets its answer or fails.                     *)
LEMMA ClientKeepsWire ==
  ASSUME WireInv, (\E r : Wire!Probe(r)) \/ (\E t, r : Wire!Call(t, r)) \/ Wire!Receive \/ Wire!Abort \/ Wire!ReadEnd
  PROVE  WireInv'
<1>1. UNCHANGED <<sent, wireOpen, position, wireBuffer, wireHeard>>
  BY DEF Wire!Probe, Wire!Call, Wire!Receive, Wire!Abort, Wire!ReadEnd, Wire!Fails, Wire!FallBack, Wire!Finish, Wire!stream
<1>2. HeardSoFar' /\ \E m \in 0 .. position' : KeptSoFar(m)'
  BY <1>1, StreamStays
<1>3. Wire!Ends(wireHeard)' <=> Wire!Ends(wireHeard)
  BY <1>1 DEF Wire!Ends
<1>4. CASE (\E r : Wire!Probe(r)) \/ (\E t, r : Wire!Call(t, r))
  <2>1. wirePhase = "idle" /\ wirePhase' = "sent" /\ UNCHANGED <<features, tasks, started, response>>
    BY <1>4 DEF Wire!Probe, Wire!Call, Wire!server
  <2> QED
    BY <1>1, <1>2, <2>1 DEF WireInv, WireTypes, HeardToTheEnd, Wire!RefusedHasNoEffect
<1>5. ASSUME NEW how \in {"done", "failed", "reading"}, Wire!Finish(how),
             wirePhase \in {"sent", "reading"}, how = "reading" => wirePhase = "sent" /\ tool = "subscribe",
             how = "done" => tool # "subscribe" \/ (~wireOpen /\ position = 6 * Len(sent))
      PROVE  WireInv'
  <2>1. wirePhase' = how /\ UNCHANGED <<features, tasks, started, tool, wireRequest, response>>
    BY <1>5 DEF Wire!Finish, Wire!server
  <2>2. how = "reading" => ~Wire!Ends(wireHeard)
    <3> SUFFICES ASSUME how = "reading" PROVE ~Wire!Ends(wireHeard)
      OBVIOUS
    <3>1. position = 0
      BY <1>5 DEF WireInv, WireTypes
    <3>2. Whole(position) = 0
      BY <3>1 DEF Whole
    <3>3. wireHeard = [k \in 1 .. 0 |-> sent[k]]
      BY <3>2 DEF WireInv, HeardSoFar
    <3> QED
      BY <3>3 DEF Wire!Ends
  <2>3. HeardToTheEnd'
    BY <1>1, <1>3, <1>5, <2>1, <2>2 DEF HeardToTheEnd
  <2>4. WireTypes' /\ Wire!RefusedHasNoEffect'
    BY <1>1, <1>5, <2>1 DEF WireInv, WireTypes, Wire!RefusedHasNoEffect
  <2> QED
    BY <1>2, <2>3, <2>4 DEF WireInv
<1>6. ASSUME wirePhase \in {"sent", "reading"}, Wire!Fails PROVE WireInv'
  <2>1. CASE Wire!FallBack
    <3>1. tool = "discover" /\ response' = Wire!Nothing /\ UNCHANGED <<tool, wirePhase>>
      BY <2>1 DEF Wire!FallBack
    <3>2. HeardToTheEnd' /\ WireTypes'
      BY <1>1, <1>3, <3>1 DEF WireInv, WireTypes, HeardToTheEnd
    <3>3. Wire!RefusedHasNoEffect'
      BY <3>1 DEF Wire!RefusedHasNoEffect, Wire!Nothing
    <3> QED
      BY <1>2, <3>2, <3>3 DEF WireInv
  <2>2. CASE Wire!Finish("failed")
    BY <1>5, <1>6, <2>2
  <2> QED
    BY <1>6, <2>1, <2>2 DEF Wire!Fails
<1>7. CASE Wire!Receive
  <2>1. wirePhase = "sent"
    BY <1>7 DEF Wire!Receive
  <2>2. Wire!Fails \/ (tool = "subscribe" /\ Wire!Finish("reading")) \/ (tool # "subscribe" /\ Wire!Finish("done"))
    BY <1>7 DEF Wire!Receive
  <2> QED
    BY <1>5, <1>6, <2>1, <2>2
<1>8. CASE Wire!Abort
  BY <1>6, <1>8 DEF Wire!Abort
<1>9. CASE Wire!ReadEnd
  <2>1. Wire!Finish("done") /\ wirePhase = "reading" /\ ~wireOpen /\ position = 6 * Len(sent)
    BY <1>9, TokensOf DEF Wire!ReadEnd, WireInv, WireTypes
  <2> QED
    BY <1>5, <2>1
<1> QED
  BY <1>4, <1>7, <1>8, <1>9

(* More of the stream arrives, cut wherever it is.                         *)
LEMMA ReadKeepsWire ==
  ASSUME WireInv, NEW n \in Nat, Wire!Read(n)
  PROVE  WireInv'
<1>1. /\ sent \in Seq(Events) /\ position \in 0 .. 6 * Len(sent) /\ wireBuffer \in Seq(Token)
      /\ wirePhase = "reading" /\ tool = "subscribe" /\ ~Wire!Ends(wireHeard)
      /\ UNCHANGED <<features, tasks, started, tool, wireRequest, response, sent, wireOpen>>
  BY DEF WireInv, WireTypes, HeardToTheEnd, Wire!Read, Wire!server
<1>2. PICK l \in Nat : l = Len(sent)
  BY <1>1
<1>3. PICK T \in Seq(Token) : T = Wire!Tokens(sent) /\ Len(T) = 6 * l
  <2>1. Wire!Tokens(sent) \in Seq(Token) /\ Len(Wire!Tokens(sent)) = 6 * l
    BY <1>1, <1>2, TokensOf DEF Token
  <2> QED
    BY <2>1, Zenon
<1>4. PICK q \in position .. 6 * l : q = position + n /\ position' = q
  BY <1>1, <1>2, <1>3 DEF Wire!Read
<1>5. PICK m \in 0 .. position : KeptSoFar(m)
  BY DEF WireInv
<1>6. PICK piece0 : /\ piece0 = SubSeq(T, position + 1, q) /\ piece0 \in Seq(Token) /\ Len(piece0) = q - position
                    /\ \A k \in 1 .. q - position : piece0[k] = T[position + k]
  <2>1. PICK y \in Nat : y = position + 1
    BY <1>1, <1>2
  <2> DEFINE cut == SubSeq(T, y, q)
  <2>2. cut \in Seq(Token) /\ Len(cut) = q + 1 - y /\ \A k \in 1 .. q + 1 - y : cut[k] = T[y + k - 1]
    BY <1>1, <1>2, <1>3, <1>4, <2>1, SubSeqProperties
  <2> HIDE DEF cut
  <2>3. q + 1 - y = q - position /\ \A k \in 1 .. q - position : y + k - 1 = position + k
    BY <1>1, <1>2, <1>4, <2>1
  <2>4. cut \in Seq(Token) /\ Len(cut) = q - position /\ \A k \in 1 .. q - position : cut[k] = T[position + k]
    BY <2>2, <2>3
  <2>5. cut = SubSeq(T, position + 1, q)
    BY <2>1 DEF cut
  <2> QED
    BY <2>4, <2>5, Zenon
<1>7. PICK tokens : tokens = wireBuffer \o piece0
  OBVIOUS
<1>8. tokens \in Seq(Token) /\ Cut(tokens, T, m, q) /\ LineStart(T, m)
  <2>1. Len(wireBuffer) = position - m /\ (\A k \in 1 .. position - m : wireBuffer[k] = T[m + k]) /\ LineStart(T, m)
    BY <1>3, <1>5 DEF KeptSoFar, Cut
  <2>2. /\ tokens \in Seq(Token) /\ Len(tokens) = (position - m) + (q - position)
        /\ \A k \in 1 .. position - m : tokens[k] = wireBuffer[k]
        /\ \A k \in 1 .. q - position : tokens[(position - m) + k] = piece0[k]
    <3>1. PICK a \in Nat, b \in Nat : a = position - m /\ b = q - position
      BY <1>1, <1>2
    <3>2. wireBuffer \in Seq(Token) /\ piece0 \in Seq(Token) /\ Len(wireBuffer) = a /\ Len(piece0) = b
      BY <3>1, <1>1, <1>6, <2>1
    <3>3. PICK both : both = wireBuffer \o piece0
      OBVIOUS
    <3>4. /\ both \in Seq(Token) /\ Len(both) = a + b
          /\ \A i \in 1 .. a + b : both[i] = IF i <= a THEN wireBuffer[i] ELSE piece0[i - a]
      BY <3>2, <3>3, ConcatProperties
    <3>5. \A k \in 1 .. a : k \in 1 .. a + b /\ k <= a
      OBVIOUS
    <3>6. \A k \in 1 .. b : a + k \in 1 .. a + b /\ ~(a + k <= a) /\ a + k - a = k
      OBVIOUS
    <3>7. /\ \A k \in 1 .. a : both[k] = wireBuffer[k]
          /\ \A k \in 1 .. b : both[a + k] = piece0[k]
      BY <3>4, <3>5, <3>6
    <3> QED
      BY <3>1, <3>3, <3>4, <3>7, <1>7
  <2>3. ASSUME NEW k \in 1 .. q - m PROVE tokens[k] = T[m + k]
    <3>1. CASE k <= position - m
      BY <1>1, <1>2, <2>1, <2>2, <3>1
    <3>2. CASE ~(k <= position - m)
      <4>1. k - (position - m) \in 1 .. q - position /\ (position - m) + (k - (position - m)) = k
            /\ position + (k - (position - m)) = m + k
        BY <1>1, <1>2, <3>2
      <4> QED
        BY <1>6, <2>2, <4>1
    <3> QED
      BY <3>1, <3>2
  <2>4. (position - m) + (q - position) = q - m
    BY <1>1, <1>2
  <2> QED
    BY <2>1, <2>2, <2>3, <2>4 DEF Cut
<1>9. PICK d : d = Wire!Data(tokens) /\ IsData(d, m, q)
  <2>1. q \in 0 .. 6 * Len(sent) /\ m \in 0 .. q
    BY <1>1, <1>2
  <2>2. IsData(Wire!Data(tokens), m, q)
    BY <1>1, <1>3, <1>8, <2>1, DataOfCut
  <2> QED
    BY <2>2, Zenon
<1>10. PICK p0 \in Nat : p0 = Whole(position) /\ Whole(m) = p0
  <2>1. \A k \in m + 1 .. position : Wire!Tokens(sent)[k] # Wire!Newline
    BY <1>5 DEF KeptSoFar
  <2>2. Whole(position) = Whole(m) /\ Whole(position) \in Nat
    BY <1>1, <1>2, <2>1, NothingWhole DEF Whole
  <2> QED
    BY <2>2, Zenon
<1>11. PICK p1 \in Nat : p1 = Whole(q) /\ p1 >= p0 /\ p1 <= l
  <2>1. Whole(q) \in Nat /\ Whole(q) >= Whole(position) /\ Whole(q) <= l
    BY <1>1, <1>2 DEF Whole
  <2> QED
    BY <1>10, <2>1
<1>12. PICK events : events = [k \in DOMAIN d |-> sent[d[k]]]
  OBVIOUS
<1>13. /\ wireHeard' = wireHeard \o events /\ wireBuffer' = Wire!Rest(tokens)
       /\ wirePhase' = IF Wire!Ends(events) THEN "done" ELSE wirePhase
  <2>1. position + n = q
    BY <1>4
  <2> QED
    BY <1>3, <1>6, <1>7, <1>9, <1>12, <2>1 DEF Wire!Read
<1>14. /\ events \in Seq(Events) /\ Len(events) = p1 - p0 /\ \A k \in 1 .. p1 - p0 : events[k] = sent[p0 + k]
  <2>1. d \in Seq(Nat) /\ Len(d) = p1 - p0 /\ \A k \in 1 .. p1 - p0 : d[k] = p0 + k
    BY <1>9, <1>10, <1>11 DEF IsData
  <2>2. PICK w \in Nat : w = p1 - p0
    BY <1>11
  <2>3. DOMAIN d = 1 .. w
    BY <2>1, <2>2
  <2>4. \A k \in 1 .. w : p0 + k \in 1 .. l /\ sent[p0 + k] \in Events
    <3>1. \A k \in 1 .. w : p0 + k \in 1 .. Len(sent)
      BY <1>2, <1>11, <2>2
    <3> QED
      BY <1>1, <1>2, <3>1, ElementOfSeq
  <2>5. events \in [1 .. w -> Events] /\ \A k \in 1 .. w : events[k] = sent[p0 + k]
    BY <1>12, <2>1, <2>2, <2>3, <2>4
  <2>6. events \in Seq(Events) /\ Len(events) = w
    BY <2>5, IsASeq
  <2> QED
    BY <2>2, <2>5, <2>6
<1>15. wireHeard \in Seq(Events) /\ Len(wireHeard) = p0 /\ \A k \in 1 .. p0 : wireHeard[k] = sent[k]
  <2>1. wireHeard = [k \in 1 .. p0 |-> sent[k]]
    BY <1>10 DEF WireInv, HeardSoFar
  <2>2. \A k \in 1 .. p0 : sent[k] \in Events
    <3>1. \A k \in 1 .. p0 : k \in 1 .. Len(sent)
      BY <1>2, <1>11
    <3> QED
      BY <1>1, <3>1, ElementOfSeq
  <2>3. wireHeard \in [1 .. p0 -> Events]
    BY <2>1, <2>2
  <2>4. wireHeard \in Seq(Events) /\ Len(wireHeard) = p0
    BY <2>3, IsASeq
  <2> QED
    BY <2>1, <2>4
<1>16. /\ wireHeard' \in Seq(Events) /\ Len(wireHeard') = p1 /\ \A k \in 1 .. p1 : wireHeard'[k] = sent[k]
       /\ Wire!Ends(wireHeard \o events) => Wire!Ends(wireHeard) \/ Wire!Ends(events)
       /\ Wire!Ends(events) => Wire!Ends(wireHeard \o events)
  <2>1. /\ wireHeard \o events \in Seq(Events) /\ Len(wireHeard \o events) = p0 + (p1 - p0)
        /\ \A k \in 1 .. p0 : (wireHeard \o events)[k] = wireHeard[k]
        /\ \A k \in 1 .. p1 - p0 : (wireHeard \o events)[p0 + k] = events[k]
    <3>1. PICK a \in Nat, b \in Nat : a = p0 /\ b = p1 - p0
      <4>1. p0 \in Nat /\ p1 - p0 \in Nat
        BY <1>11
      <4> QED
        BY <4>1
    <3>2. wireHeard \in Seq(Events) /\ events \in Seq(Events) /\ Len(wireHeard) = a /\ Len(events) = b
      BY <3>1, <1>14, <1>15
    <3>3. PICK both : both = wireHeard \o events
      OBVIOUS
    <3>4. /\ both \in Seq(Events) /\ Len(both) = a + b
          /\ \A i \in 1 .. a + b : both[i] = IF i <= a THEN wireHeard[i] ELSE events[i - a]
      BY <3>2, <3>3, ConcatProperties
    <3>5. \A k \in 1 .. a : k \in 1 .. a + b /\ k <= a
      OBVIOUS
    <3>6. \A k \in 1 .. b : a + k \in 1 .. a + b /\ ~(a + k <= a) /\ a + k - a = k
      OBVIOUS
    <3>7. /\ \A k \in 1 .. a : both[k] = wireHeard[k]
          /\ \A k \in 1 .. b : both[a + k] = events[k]
      BY <3>4, <3>5, <3>6
    <3> QED
      BY <3>1, <3>3, <3>4, <3>7
  <2>2. p0 + (p1 - p0) = p1
    BY <1>11
  <2>3. PICK all : all = wireHeard \o events
    OBVIOUS
  <2>4. \A k \in 1 .. p1 : k \in 1 .. p0 \/ (k - p0 \in 1 .. p1 - p0 /\ p0 + (k - p0) = k)
    BY <1>11
  <2>5. \A k \in 1 .. p1 : all[k] = sent[k]
    <3> TAKE k \in 1 .. p1
    <3>1. CASE k \in 1 .. p0
      BY <1>15, <2>1, <2>3, <3>1
    <3>2. CASE k \notin 1 .. p0
      <4>1. k - p0 \in 1 .. p1 - p0 /\ p0 + (k - p0) = k
        BY <2>4, <3>2
      <4>2. all[p0 + (k - p0)] = events[k - p0] /\ events[k - p0] = sent[p0 + (k - p0)]
        BY <1>14, <2>1, <2>3, <4>1
      <4> QED
        BY <4>1, <4>2
    <3> QED
      BY <3>1, <3>2
  <2>6. DOMAIN all = 1 .. p1 /\ DOMAIN events = 1 .. p1 - p0 /\ DOMAIN wireHeard = 1 .. p0
    BY <1>14, <1>15, <2>1, <2>2, <2>3
  <2>7. Wire!Ends(all) => Wire!Ends(wireHeard) \/ Wire!Ends(events)
    <3> SUFFICES ASSUME Wire!Ends(all) PROVE Wire!Ends(wireHeard) \/ Wire!Ends(events)
      OBVIOUS
    <3>1. PICK k \in 1 .. p1 : all[k] = "terminal"
      BY <2>6 DEF Wire!Ends
    <3>2. CASE k \in 1 .. p0
      BY <2>1, <2>3, <2>6, <3>1, <3>2 DEF Wire!Ends
    <3>3. CASE k \notin 1 .. p0
      <4>1. k - p0 \in 1 .. p1 - p0 /\ p0 + (k - p0) = k
        BY <2>4, <3>3
      <4>2. events[k - p0] = "terminal"
        BY <2>1, <2>3, <3>1, <4>1
      <4> QED
        BY <2>6, <4>1, <4>2 DEF Wire!Ends
    <3> QED
      BY <3>2, <3>3
  <2>8. Wire!Ends(events) => Wire!Ends(all)
    <3> SUFFICES ASSUME Wire!Ends(events) PROVE Wire!Ends(all)
      OBVIOUS
    <3>1. PICK k \in 1 .. p1 - p0 : events[k] = "terminal"
      BY <2>6 DEF Wire!Ends
    <3>2. p0 + k \in 1 .. p1
      BY <1>11
    <3> QED
      BY <2>1, <2>3, <2>6, <3>1, <3>2 DEF Wire!Ends
  <2> QED
    BY <1>13, <2>1, <2>2, <2>3, <2>5, <2>7, <2>8
<1>17. HeardSoFar'
  <2>1. wireHeard' = [k \in 1 .. p1 |-> sent[k]]
    BY <1>16
  <2> QED
    BY <1>1, <1>4, <1>11, <2>1 DEF HeardSoFar
<1>18. wireBuffer' \in Seq(Token) /\ \E e \in 0 .. position' : KeptSoFar(e)'
  <2>1. q \in 0 .. Len(T) /\ m \in 0 .. q
    BY <1>1, <1>2, <1>3
  <2>2. /\ Wire!Rest(tokens) \in Seq(Token)
        /\ \E e \in m .. q : /\ Cut(Wire!Rest(tokens), T, e, q) /\ LineStart(T, e)
                             /\ \A k \in e + 1 .. q : T[k] # Wire!Newline
    BY <1>8, <2>1, RestOfCut
  <2>3. PICK e \in m .. q : /\ Cut(Wire!Rest(tokens), T, e, q) /\ LineStart(T, e)
                            /\ \A k \in e + 1 .. q : T[k] # Wire!Newline
    BY <2>2
  <2>4. Wire!Tokens(sent)' = T
    BY <1>1, <1>3
  <2>5. KeptSoFar(e)'
    BY <1>4, <1>13, <2>3, <2>4 DEF KeptSoFar, Cut, LineStart, Wire!Newline
  <2>6. e \in 0 .. position'
    BY <1>1, <1>2, <1>4
  <2> QED
    BY <1>13, <2>2, <2>5, <2>6
<1>19. HeardToTheEnd'
  <2>1. Wire!Ends(wireHeard') <=> Wire!Ends(events)
    BY <1>1, <1>13, <1>16
  <2> QED
    BY <1>1, <1>13, <2>1 DEF HeardToTheEnd, Wire!Ends
<1>20. WireTypes' /\ Wire!RefusedHasNoEffect'
  <2>1. position' \in 0 .. 6 * Len(sent')
    BY <1>1, <1>2, <1>4
  <2> QED
    BY <1>1, <1>13, <1>18, <2>1 DEF WireInv, WireTypes, Wire!RefusedHasNoEffect
<1> QED
  BY <1>17, <1>18, <1>19, <1>20 DEF WireInv

(* Before anything is sent.                                                *)
LEMMA WireStart ==
  ASSUME Wire!Init
  PROVE  WireInv
<1>1. /\ sent = <<>> /\ wireOpen = FALSE /\ position = 0 /\ wireBuffer = <<>> /\ wireHeard = <<>>
      /\ wirePhase = "idle" /\ started = FALSE /\ tool = "none"
  BY DEF Wire!Init
<1>2. <<>> \in Seq(Events) /\ <<>> \in Seq(Token) /\ Len(sent) = 0 /\ Len(wireBuffer) = 0
  BY <1>1
<1>3. Whole(position) = 0
  BY <1>1 DEF Whole
<1>4. HeardSoFar
  <2>1. <<>> = [k \in 1 .. 0 |-> sent[k]]
    OBVIOUS
  <2> QED
    BY <1>1, <1>3, <2>1 DEF HeardSoFar
<1>5. KeptSoFar(0)
  BY <1>1, <1>2 DEF KeptSoFar, Cut, LineStart
<1>6. WireTypes /\ HeardToTheEnd
  <2>1. position \in 0 .. 6 * Len(sent)
    BY <1>1, <1>2
  <2>2. sent \in Seq(Events) /\ wireBuffer \in Seq(Token)
    BY <1>1, <1>2
  <2> QED
    BY <1>1, <2>1, <2>2 DEF WireTypes, HeardToTheEnd
<1>7. Wire!RefusedHasNoEffect
  BY <1>1 DEF Wire!RefusedHasNoEffect
<1> QED
  BY <1>1, <1>4, <1>5, <1>6, <1>7 DEF WireInv

(* Every step of either end.                                               *)
LEMMA WireStep ==
  ASSUME WireInv, [Wire!Next]_wireVars
  PROVE  WireInv'
<1>1. CASE UNCHANGED wireVars
  <2>1. HeardSoFar' /\ \E m \in 0 .. position' : KeptSoFar(m)'
    BY <1>1, StreamStays DEF wireVars
  <2>2. WireTypes' /\ HeardToTheEnd' /\ Wire!RefusedHasNoEffect'
    BY <1>1 DEF wireVars, WireInv, WireTypes, HeardToTheEnd, Wire!Ends, Wire!RefusedHasNoEffect
  <2> QED
    BY <2>1, <2>2 DEF WireInv
<1>2. CASE (\E r : Wire!Probe(r)) \/ (\E t, r : Wire!Call(t, r)) \/ Wire!Receive \/ Wire!Abort \/ Wire!ReadEnd
  BY <1>2, ClientKeepsWire
<1>3. CASE Wire!ServeDiscovery \/ Wire!Refuse \/ Wire!ServeSubscription \/ Wire!ServeRpc
  BY <1>3, ServerKeepsWire
<1>4. CASE Wire!Emit \/ Wire!Close
  BY <1>4, EmitKeepsWire
<1>5. ASSUME NEW n \in 1 .. Len(Wire!Tokens(sent)), Wire!Read(n)  PROVE WireInv'
  <2>1. Len(Wire!Tokens(sent)) \in Nat
    BY TokensOf DEF WireInv, WireTypes
  <2> QED
    BY <1>5, <2>1, ReadKeepsWire
<1>6. CASE Wire!Next
  <2> USE <1>6 DEF Wire!Next
  <2>1. CASE \E m \in Wire!Methods, p \in Wire!Params, v, i \in BOOLEAN :
               Wire!Probe([Wire!Rpc(m, p) EXCEPT !.version = v, !.id = i])
    BY <1>2, <2>1
  <2>2. CASE \E v \in {"GET", "POST"}, b \in Wire!Bodies :
               Wire!Probe([Wire!Rpc("tasks/send", "right") EXCEPT !.verb = v, !.body = b])
    BY <1>2, <2>2
  <2>3. CASE \E m \in Wire!Methods \ {"tasks/sendSubscribe", "unknown"}, p \in {"lacking", "right"} :
               Wire!Call("call", Wire!Rpc(m, p))
    BY <1>2, <2>3
  <2>4. CASE \/ Wire!Call("delegate", Wire!Rpc("tasks/send", "right"))
             \/ Wire!Call("subscribe", Wire!Rpc("tasks/sendSubscribe", "right"))
    BY <1>2, <2>4
  <2>5. CASE Wire!Discover
    BY <1>2, <2>5 DEF Wire!Discover
  <2> QED
    BY <1>2, <1>3, <1>4, <1>5, <2>1, <2>2, <2>3, <2>4, <2>5
<1> QED
  BY <1>1, <1>6

(* What the invariant says of the two ends.                                *)
LEMMA WireShows ==
  ASSUME WireInv
  PROVE  PeersAgree
<1>1. PICK l \in Nat : l = Len(sent)
  BY DEF WireInv, WireTypes
<1>2. sent \in Seq(Events) /\ position \in 0 .. 6 * l
  BY <1>1 DEF WireInv, WireTypes
<1>3. PICK T \in Seq(Token) : T = Wire!Tokens(sent) /\ Len(T) = 6 * l
  <2>1. Wire!Tokens(sent) \in Seq(Token) /\ Len(Wire!Tokens(sent)) = 6 * l
    BY <1>1, <1>2, TokensOf DEF Token
  <2> QED
    BY <2>1, Zenon
<1>4. PICK arrived : arrived = SubSeq(T, 1, position)
  OBVIOUS
<1>5. Cut(arrived, T, 0, position) /\ LineStart(T, 0)
  <2>1. Len(arrived) = position /\ \A k \in 1 .. position : arrived[k] = T[k]
    <3>1. /\ Len(SubSeq(T, 1, position)) = position + 1 - 1
          /\ \A k \in 1 .. position + 1 - 1 : SubSeq(T, 1, position)[k] = T[1 + k - 1]
      BY <1>1, <1>2, <1>3, SubSeqProperties
    <3>2. position + 1 - 1 = position /\ \A k \in 1 .. position : 1 + k - 1 = k
      BY <1>1, <1>2
    <3> QED
      BY <1>4, <3>1, <3>2
  <2> QED
    BY <1>1, <1>2, <2>1 DEF Cut, LineStart
<1>6. PICK d : d = Wire!Data(arrived) /\ IsData(d, 0, position)
  <2>1. IsData(Wire!Data(arrived), 0, position)
    BY <1>1, <1>2, <1>3, <1>5, DataOfCut
  <2> QED
    BY <2>1, Zenon
<1>7. PICK w \in Nat : w = Whole(position) /\ Whole(0) = 0 /\ w <= l /\ (position = 6 * l => w = l)
  <2>1. Whole(position) \in Nat /\ Whole(0) = 0 /\ Whole(position) <= l /\ (position = 6 * l => Whole(position) = l)
    BY <1>1, <1>2 DEF Whole
  <2> QED
    BY <2>1
<1>8. DOMAIN d = 1 .. w /\ \A k \in 1 .. w : d[k] = k
  <2>1. w - 0 = w /\ \A k \in 1 .. w : 0 + k = k
    BY <1>7
  <2>2. d \in Seq(Nat) /\ Len(d) = w /\ \A k \in 1 .. w : d[k] = k
    BY <1>6, <1>7, <2>1 DEF IsData
  <2> QED
    BY <2>2
<1>9. wireHeard = [k \in 1 .. w |-> sent[k]]
  BY <1>7 DEF WireInv, HeardSoFar
<1>10. wireHeard = [k \in DOMAIN d |-> sent[d[k]]]
  BY <1>8, <1>9
<1>11. position = 6 * l => wireHeard = sent
  <2>1. sent = [k \in 1 .. l |-> sent[k]]
    BY <1>1, <1>2
  <2> QED
    BY <1>7, <1>9, <2>1
<1>12. Wire!SubscriberHears
  BY <1>1, <1>3, <1>4, <1>6, <1>10, <1>11 DEF WireInv, HeardToTheEnd, Wire!SubscriberHears
<1> QED
  BY <1>12 DEF WireInv, PeersAgree, Wire!PeersAgree

(* The two ends of the wire keep their invariant, for any capacity of the  *)
(* server's table and any stream.                                          *)
THEOREM WireInvariance == Wire!Init /\ [][Wire!Next]_wireVars => []WireInv
<1>1. Wire!Init => WireInv
  BY WireStart
<1>2. WireInv /\ [Wire!Next]_wireVars => WireInv'
  BY WireStep
<1> QED
  BY <1>1, <1>2, PTL

(* A refused request has started nothing, and a subscriber hears the       *)
(* events of its stream whole, in their order, once, up to the end,        *)
(* however the wire cuts them.                                             *)
THEOREM PeersDoAgree == Wire!Init /\ [][Wire!Next]_wireVars => []PeersAgree
<1>1. WireInv => PeersAgree
  BY WireShows
<1> QED
  BY <1>1, WireInvariance, PTL
=============================================================================
