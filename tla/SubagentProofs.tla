--------------------------- MODULE SubagentProofs ---------------------------
(***************************************************************************)
(* Machine-checked proofs about SubagentScheduler, for every finite set of *)
(* tasks, every shape of the parent relation and every value of the limits.*)
(***************************************************************************)
EXTENDS SubagentScheduler, FiniteSetTheorems, TLAPS

USE DEF IsTerminal, TerminalStates, Statuses, ExecStates

-----------------------------------------------------------------------------
(* transition() returns a status table, and what it does to one handle.    *)
LEMMA TransitionAt ==
  ASSUME NEW st \in [Tasks -> Statuses], NEW hs, NEW ts, NEW new \in Statuses
  PROVE  /\ Transition(st, hs, ts, new) \in [Tasks -> Statuses]
         /\ \A t \in Tasks :
              /\ ~(t \in ts /\ t \in hs) => Transition(st, hs, ts, new)[t] = st[t]
              /\ st[t] \in TerminalStates \cup {"none"} => Transition(st, hs, ts, new)[t] = st[t]
              /\ st[t] = "queued" /\ t \in ts /\ t \in hs /\ new \in {"running", "cancelled"}
                   => Transition(st, hs, ts, new)[t] = new
              /\ st[t] = "queued" /\ new \notin {"running", "cancelled"}
                   => Transition(st, hs, ts, new)[t] = "queued"
              /\ st[t] = "running" /\ t \in ts /\ t \in hs /\ new \in TerminalStates
                   => Transition(st, hs, ts, new)[t] = new
              /\ Transition(st, hs, ts, new)[t] \in {st[t], new}
BY DEF Transition, ValidTransitions

(* cancel() reaches live handles only, and all of the roots.               *)
LEMMA CascadeLive ==
  ASSUME NEW roots, roots \subseteq Live
  PROVE  Cascade(roots) \subseteq Live /\ roots \subseteq Cascade(roots)
BY DEF Cascade, CancelClosed, Live

(* The live children of what cancel() reaches are reached too.             *)
LEMMA CascadeClosed ==
  ASSUME NEW roots, NEW c \in Live, ParentOf[c] \in Cascade(roots)
  PROVE  c \in Cascade(roots)
BY DEF Cascade, CancelClosed, Live

-----------------------------------------------------------------------------
(* The inductive invariant.                                                *)

(* How the status of a handle, its presence in the Map, its abort signal,  *)
(* its place in the queue, its generate() call and its timer go together.  *)
Consistent(st, hs, ab, q, ex, tm) ==
  \A t \in Tasks :
    /\ st[t] # "streaming"
    /\ st[t] = "none" => t \notin hs /\ t \notin ab /\ t \notin q /\ ex[t] = "idle"
    /\ st[t] \in {"queued", "running"} => t \in hs /\ t \notin ab
    /\ st[t] = "queued" => ex[t] = "idle"
    /\ st[t] = "running" => ex[t] = "generating"
    /\ t \in tm <=> st[t] = "running"
    /\ t \in q => ex[t] = "idle" /\ (st[t] = "queued" \/ t \in ab)

BusyIn(ex) == {t \in Tasks : ex[t] # "idle"}

IInv ==
  /\ TypeOK
  /\ Consistent(status, handles, aborted, queue, exec, timer)
  /\ SlotAccounting
  /\ WorkConserving
  /\ NoLostWakeup

-----------------------------------------------------------------------------
(* What each shared effect does to the tables.                             *)

(* cancel() and its cascade keep the tables consistent.                    *)
LEMMA CancelKeeps ==
  ASSUME TypeOK, Consistent(status, handles, aborted, queue, exec, timer), NoLostWakeup,
         NEW S, S \subseteq Live, CancelEffects(S)
  PROVE  /\ status' \in [Tasks -> Statuses]
         /\ aborted' \subseteq Tasks /\ timer' \subseteq Tasks
         /\ awaiting' \in [Waiters -> Tasks \cup {NoTask}]
         /\ Consistent(status', handles, aborted', queue, exec, timer')
         /\ \A t \in Tasks : t \notin Live => status'[t] = status[t]
         /\ \A t \in S : status'[t] = "cancelled"
         /\ \A w \in Waiters : awaiting'[w] # NoTask
              => awaiting'[w] \in handles /\ ~IsTerminal(status'[awaiting'[w]])
<1>1. S \subseteq Tasks /\ S \subseteq handles /\ handles \subseteq Tasks
  BY DEF Live, TypeOK
<1>2. \A t \in S : status[t] \in {"queued", "running"}
  BY <1>1 DEF Live, TypeOK, Consistent
<1>3. status' = Transition(status, handles, S, "cancelled")
  BY DEF CancelEffects
<1>4. /\ status' \in [Tasks -> Statuses]
      /\ \A t \in Tasks : t \notin S => status'[t] = status[t]
      /\ \A t \in S : status'[t] = "cancelled"
  <2>1. status \in [Tasks -> Statuses] BY DEF TypeOK
  <2> QED BY <1>1, <1>2, <1>3, <2>1, TransitionAt
<1>5. Completed(status, status') = S
  BY <1>1, <1>2, <1>4 DEF Completed, TypeOK
<1>6. timer' = timer \ S /\ aborted' = aborted \cup S
  BY <1>5 DEF CancelEffects, CompletionEffects
<1>7. awaiting' \in [Waiters -> Tasks \cup {NoTask}]
  BY DEF CancelEffects, CompletionEffects, TypeOK
<1>8. Consistent(status', handles, aborted', queue, exec, timer')
  BY <1>1, <1>2, <1>4, <1>6 DEF Consistent, TypeOK
<1>9. \A w \in Waiters : awaiting'[w] # NoTask
        => awaiting'[w] \in handles /\ ~IsTerminal(status'[awaiting'[w]])
  <2> SUFFICES ASSUME NEW w \in Waiters, awaiting'[w] # NoTask
               PROVE  awaiting'[w] \in handles /\ ~IsTerminal(status'[awaiting'[w]])
    OBVIOUS
  <2>1. awaiting'[w] = awaiting[w] /\ awaiting[w] \notin S
    BY <1>5 DEF CancelEffects, CompletionEffects
  <2>2. awaiting[w] \in Live BY <2>1 DEF NoLostWakeup
  <2> QED BY <1>1, <1>4, <2>1, <2>2 DEF Live
<1> QED BY <1>1, <1>4, <1>6, <1>7, <1>8, <1>9 DEF TypeOK, Live

(* drain() on consistent tables with the slots counted leaves consistent   *)
(* tables with the slots counted, and a queue only in front of full slots. *)
LEMMA DrainKeeps ==
  ASSUME TypeOK, NoLostWakeup, handles \subseteq handles',
         NEW st \in [Tasks -> Statuses], NEW hs \in SUBSET Tasks, NEW q \in SUBSET Tasks,
         NEW ex \in [Tasks -> ExecStates], NEW busy \in Nat, NEW size \in MinWorkers..MaxWorkers,
         Consistent(st, hs, aborted, q, ex, timer),
         \A t \in Tasks : st[t] = status[t] \/ st[t] = "queued",
         busy = Cardinality(BusyIn(ex)), busy <= size,
         Drain(st, hs, q, ex, busy, size), handles' = hs, aborted' = aborted,
         failures' = failures, cooled' = cooled
  PROVE  /\ IInv'
         /\ \A t \in Tasks : status'[t] = st[t] \/ (t \in q /\ status'[t] = "running")
         /\ \A t \in Tasks : st[t] \in TerminalStates => status'[t] = st[t]
         /\ \A t \in Tasks : exec'[t] = ex[t] \/ (t \in q /\ t \notin queue')
         /\ queue' \subseteq q
<1> PICK taken \in SUBSET q :
      LET dropped == taken \cap aborted
          refused == {t \in taken \ aborted : Refuses(TypeOf[t])}
          started == taken \ (dropped \cup refused)
          probing == {TypeOf[t] : t \in started}
      IN /\ DrainTakes(q, busy, size, taken, started)
         /\ status' = Transition(
                        Transition(
                          Transition(st, hs, dropped, "cancelled"),
                          hs, refused, "failed"),
                        hs, started, "running")
         /\ CompletionEffects(status', started)
         /\ queue' = q \ taken
         /\ exec' = [t \in Tasks |-> IF t \in started THEN "generating" ELSE ex[t]]
         /\ activeWorkers' = busy + Cardinality(started)
         /\ poolSize' = size
         /\ breaker' = [y \in Types |-> IF y \in probing /\ breaker[y] = "open"
                                        THEN "half-open" ELSE breaker[y]]
  BY DEF Drain
<1> DEFINE dropped == taken \cap aborted
           refused == {t \in taken \ aborted : Refuses(TypeOf[t])}
           started == taken \ (dropped \cup refused)
           probing == {TypeOf[t] : t \in started}
           s1 == Transition(st, hs, dropped, "cancelled")
           s2 == Transition(s1, hs, refused, "failed")
<1>1. /\ DrainTakes(q, busy, size, taken, started)
      /\ status' = Transition(s2, hs, started, "running")
      /\ CompletionEffects(status', started)
      /\ queue' = q \ taken
      /\ exec' = [t \in Tasks |-> IF t \in started THEN "generating" ELSE ex[t]]
      /\ activeWorkers' = busy + Cardinality(started)
      /\ poolSize' = size
      /\ breaker' = [y \in Types |-> IF y \in probing /\ breaker[y] = "open"
                                     THEN "half-open" ELSE breaker[y]]
  OBVIOUS
<1>2. started \subseteq q /\ started \subseteq Tasks /\ taken \subseteq Tasks
  OBVIOUS
<1>3. \A t \in started : st[t] = "queued" /\ t \in hs /\ t \notin aborted /\ ex[t] = "idle"
  BY <1>2 DEF Consistent
<1>4. \A t \in dropped : st[t] \in TerminalStates
  BY <1>2 DEF Consistent
<1>5. \A t \in refused : st[t] = "queued"
  BY <1>2 DEF Consistent
<1> HIDE DEF started, refused, dropped, probing
<1>6. s1 \in [Tasks -> Statuses] /\ \A t \in Tasks : s1[t] = st[t]
  BY <1>4 DEF Transition, ValidTransitions
<1> HIDE DEF s1
<1>7. s2 \in [Tasks -> Statuses] /\ \A t \in Tasks : s2[t] = st[t]
  BY <1>5, <1>6, TransitionAt
<1> HIDE DEF s2
<1>8. /\ status' \in [Tasks -> Statuses]
      /\ \A t \in Tasks : status'[t] = IF t \in started THEN "running" ELSE st[t]
  <2>1. status' = Transition(s2, hs, started, "running") BY <1>1
  <2> QED BY <2>1, <1>2, <1>3, <1>7 DEF Transition, ValidTransitions
<1>9. Completed(status, status') = {}
  BY <1>8 DEF Completed
<1>10. timer' = timer \cup started
  BY <1>1, <1>9 DEF CompletionEffects
<1>11. awaiting' \in [Waiters -> Tasks \cup {NoTask}]
  BY <1>1 DEF CompletionEffects, TypeOK
<1>12. breaker' \in [Types -> {"closed", "open", "half-open"}]
  BY <1>1 DEF TypeOK
<1>13. exec' \in [Tasks -> ExecStates]
  BY <1>1
<1>14. Consistent(status', handles', aborted', queue', exec', timer')
  <2>1. \A t \in Tasks : exec'[t] = IF t \in started THEN "generating" ELSE ex[t]
    BY <1>1
  <2>2. \A t \in Tasks : t \in queue' => t \in q /\ t \notin started
    BY <1>1 DEF started
  <2> QED BY <2>1, <2>2, <1>2, <1>3, <1>8, <1>10 DEF Consistent
<1>15. /\ IsFiniteSet(started) /\ IsFiniteSet(BusyIn(ex))
       /\ Cardinality(started) \in Nat
  BY <1>2, RegistryAssumption, FS_Subset, FS_CardinalityType DEF BusyIn
<1>16. Busy' = BusyIn(ex) \cup started /\ BusyIn(ex) \cap started = {}
  BY <1>1, <1>2, <1>3 DEF Busy, BusyIn
<1>17. Cardinality(Busy') = busy + Cardinality(started)
  <2>1. Cardinality(BusyIn(ex) \cap started) = 0 BY <1>16, FS_EmptySet
  <2>2. Cardinality(BusyIn(ex) \cup started)
          = Cardinality(BusyIn(ex)) + Cardinality(started) - Cardinality(BusyIn(ex) \cap started)
    BY <1>15, FS_Union
  <2> QED BY <1>15, <1>16, <2>1, <2>2
<1>18. activeWorkers' \in Nat /\ activeWorkers' <= poolSize'
  <2>1. CASE started = {}
    <3>1. Cardinality(started) = 0 BY <2>1, FS_EmptySet
    <3> QED BY <1>1, <3>1
  <2>2. CASE started # {}
    BY <1>1, <1>15, <2>2, SchedulerAssumption DEF DrainTakes
  <2> QED BY <2>1, <2>2
<1>19. SlotAccounting'
  BY <1>1, <1>17, <1>18 DEF SlotAccounting
<1>20. WorkConserving'
  <2> SUFFICES ASSUME queue' # {} PROVE activeWorkers' = poolSize'
    BY DEF WorkConserving
  <2>1. taken # q BY <1>1
  <2>2. busy + Cardinality(started) >= size BY <1>1, <2>1 DEF DrainTakes
  <2> QED BY <1>1, <1>15, <1>18, <2>2, SchedulerAssumption
<1>21. TypeOK'
  <2>1. handles' \subseteq Tasks /\ aborted' \subseteq Tasks /\ timer' \subseteq Tasks
        /\ queue' \subseteq Tasks
    BY <1>1, <1>2, <1>10 DEF TypeOK
  <2>2. poolSize' \in MinWorkers..MaxWorkers /\ activeWorkers' \in Nat
    BY <1>1, <1>18
  <2>3. failures' \in [Types -> 0..FailureThreshold] /\ cooled' \subseteq Types
    BY DEF TypeOK
  <2> QED BY <1>8, <1>11, <1>12, <1>13, <2>1, <2>2, <2>3 DEF TypeOK
<1>22. NoLostWakeup'
  <2> SUFFICES ASSUME NEW w \in Waiters, awaiting'[w] # NoTask
               PROVE  awaiting'[w] \in Live'
    BY DEF NoLostWakeup
  <2>1. awaiting'[w] = awaiting[w]
    BY <1>1, <1>9 DEF CompletionEffects
  <2>2. awaiting[w] \in Live BY <2>1 DEF NoLostWakeup
  <2> QED BY <1>8, <2>1, <2>2 DEF Live, TypeOK
<1>23. \A t \in started : t \in q /\ t \notin queue'
  BY <1>1, <1>2 DEF started
<1> QED BY <1>1, <1>3, <1>8, <1>14, <1>19, <1>20, <1>21, <1>22, <1>23 DEF IInv

(* maybeResize() stays within the pool's bounds and never shrinks the pool *)
(* below the workers that are busy.                                        *)
LEMMA ResizedBounds ==
  ASSUME poolSize \in MinWorkers..MaxWorkers, NEW n \in Nat, n <= poolSize
  PROVE  Resized(n) \in MinWorkers..MaxWorkers /\ n <= Resized(n)
<1>1. CASE 10 * n > ScaleUp * poolSize
  BY <1>1, SchedulerAssumption DEF Resized, Least
<1>2. CASE ~(10 * n > ScaleUp * poolSize) /\ 10 * n < ScaleDown * poolSize
  <2>1. ScaleDown * poolSize <= 7 * poolSize
    BY SchedulerAssumption
  <2>2. 10 * n < 7 * poolSize
    BY <1>2, <2>1, SchedulerAssumption
  <2>3. n <= (3 * poolSize) \div 4
    BY <2>2, SchedulerAssumption
  <2> QED BY <1>2, <2>3, SchedulerAssumption DEF Resized, Greatest
<1>3. CASE ~(10 * n > ScaleUp * poolSize) /\ ~(10 * n < ScaleDown * poolSize)
  BY <1>3 DEF Resized
<1> QED BY <1>1, <1>2, <1>3

-----------------------------------------------------------------------------
(* The three facts about the inductive invariant.                          *)

(* Initially no task is there and no slot is taken.                        *)
LEMMA InitIInv == Init => IInv
<1> SUFFICES ASSUME Init PROVE IInv
  OBVIOUS
<1>1. Busy = {} /\ Cardinality({}) = 0
  BY FS_EmptySet DEF Init, Busy
<1> QED BY <1>1, SchedulerAssumption, RegistryAssumption
      DEF Init, RegistryInit, IInv, TypeOK, Consistent, SlotAccounting, WorkConserving,
          NoLostWakeup

(* A call that touches the registry only.                                  *)
LEMMA RegistryCallKeepsIInv ==
  ASSUME IInv, RegistryCall
  PROVE  IInv'
<1> USE DEF IInv
<1>0. UNCHANGED schedulerVars
  BY DEF RegistryCall
<1>1. SlotAccounting' /\ WorkConserving'
  BY <1>0 DEF SlotAccounting, WorkConserving, Busy, schedulerVars
<1>2. ASSUME NEW S, S \subseteq Live, CancelEffects(S),
             handles' \subseteq handles,
             \A t \in handles \ handles' : IsTerminal(status'[t])
      PROVE  IInv'
  <2>1. /\ status' \in [Tasks -> Statuses]
        /\ aborted' \subseteq Tasks /\ timer' \subseteq Tasks
        /\ awaiting' \in [Waiters -> Tasks \cup {NoTask}]
        /\ Consistent(status', handles, aborted', queue, exec, timer')
        /\ \A w \in Waiters : awaiting'[w] # NoTask
             => awaiting'[w] \in handles /\ ~IsTerminal(status'[awaiting'[w]])
    BY <1>2, CancelKeeps
  <2>2. Consistent(status', handles', aborted', queue', exec', timer')
    BY <1>0, <1>2, <2>1 DEF Consistent, schedulerVars
  <2>3. NoLostWakeup'
    BY <1>2, <2>1 DEF NoLostWakeup, Live
  <2>4. TypeOK'
    BY <1>0, <1>2, <2>1 DEF TypeOK, schedulerVars
  <2> QED BY <1>1, <2>2, <2>3, <2>4
<1>3. ASSUME NEW t \in Tasks, Cancel(t) PROVE IInv'
  <2>1. {t} \subseteq Live BY <1>3 DEF Cancel
  <2> QED BY <1>2, <1>3, <2>1, CascadeLive DEF Cancel
<1>4. ASSUME NEW p, CancelAll(p) PROVE IInv'
  <2>1. ActiveChildren(p) \subseteq Live BY DEF ActiveChildren
  <2> QED BY <1>2, <1>4, <2>1, CascadeLive DEF CancelAll
<1>5. ASSUME NEW t \in Tasks, Timeout(t) PROVE IInv'
  <2>1. status[t] = "running" /\ t \in handles
    BY <1>5 DEF Timeout, Consistent
  <2>2. /\ status' \in [Tasks -> Statuses]
        /\ status'[t] = "timeout"
        /\ \A u \in Tasks \ {t} : status'[u] = status[u]
    BY <1>5, <2>1 DEF Timeout, TypeOK, Transition, ValidTransitions
  <2>3. Completed(status, status') = {t}
    BY <2>1, <2>2 DEF Completed
  <2>4. Consistent(status', handles', aborted', queue', exec', timer')
    <3>1. timer' = timer \ {t} BY <1>5, <2>3 DEF Timeout, CompletionEffects
    <3> QED BY <1>0, <1>5, <2>1, <2>2, <3>1 DEF Timeout, Consistent, schedulerVars
  <2>5. NoLostWakeup'
    BY <1>5, <2>2, <2>3 DEF Timeout, CompletionEffects, NoLostWakeup, Live, TypeOK
  <2>6. TypeOK'
    BY <1>0, <1>5, <2>2 DEF Timeout, CompletionEffects, TypeOK, schedulerVars
  <2> QED BY <1>1, <2>4, <2>5, <2>6
<1>6. ASSUME NEW w \in Waiters, WaitTimeout(w) PROVE IInv'
  <2>1. TypeOK' BY <1>0, <1>6 DEF WaitTimeout, TypeOK, schedulerVars
  <2>2. Consistent(status', handles', aborted', queue', exec', timer')
    BY <1>0, <1>6 DEF WaitTimeout, Consistent, schedulerVars
  <2>3. NoLostWakeup' BY <1>6 DEF WaitTimeout, NoLostWakeup, Live, TypeOK
  <2> QED BY <1>1, <2>1, <2>2, <2>3
<1>7. ASSUME NEW w \in Waiters, NEW t \in Tasks, WaitForCompletion(w, t) PROVE IInv'
  <2>1. TypeOK' BY <1>0, <1>7 DEF WaitForCompletion, TypeOK, schedulerVars
  <2>2. Consistent(status', handles', aborted', queue', exec', timer')
    BY <1>0, <1>7 DEF WaitForCompletion, Consistent, schedulerVars
  <2>3. NoLostWakeup' BY <1>7 DEF WaitForCompletion, NoLostWakeup, Live, TypeOK
  <2> QED BY <1>1, <2>1, <2>2, <2>3
<1>8. ASSUME NEW expired \in SUBSET handles, NEW stuck \in SUBSET handles, Gc(expired, stuck)
      PROVE  IInv'
  <2>1. stuck \subseteq Live /\ expired \cap Live = {}
    BY <1>8 DEF Gc
  <2>2. Cascade(stuck) \subseteq Live /\ CancelEffects(Cascade(stuck))
    BY <1>8, <2>1, CascadeLive DEF Gc
  <2>3. \A t \in Tasks : t \notin Live => status'[t] = status[t]
    BY <2>2, CancelKeeps
  <2>4. handles' \subseteq handles /\ \A t \in handles \ handles' : IsTerminal(status'[t])
    BY <1>8, <2>1, <2>3 DEF Gc, Live, TypeOK
  <2> QED BY <1>2, <2>2, <2>4
<1>9. ASSUME Shutdown PROVE IInv'
  <2>1. \A t \in Live : status[t] \in {"queued", "running"} /\ t \in handles
    BY DEF Live, Consistent, TypeOK
  <2>2. /\ status' \in [Tasks -> Statuses]
        /\ \A t \in Live : status'[t] = "cancelled"
        /\ \A t \in Tasks \ Live : status'[t] = status[t]
    BY <1>9, <2>1 DEF Shutdown, TypeOK, Transition, ValidTransitions
  <2>3. \A t \in Tasks : status[t] \in {"queued", "running"} => t \in Live
    BY DEF Live, Consistent
  <2>4. Completed(status, status') = Live
    BY <2>1, <2>2 DEF Completed, TypeOK, Live
  <2>5. Consistent(status', handles', aborted', queue', exec', timer')
    BY <1>0, <1>9, <2>1, <2>2, <2>3, <2>4 DEF Shutdown, Consistent, TypeOK, schedulerVars
  <2>6. TypeOK' /\ NoLostWakeup'
    BY <1>0, <1>9, <2>2 DEF Shutdown, TypeOK, NoLostWakeup, schedulerVars, Live
  <2> QED BY <1>1, <2>5, <2>6
<1> QED BY <1>3, <1>4, <1>5, <1>6, <1>7, <1>8, <1>9 DEF RegistryCall

(* What no step of the composed system does to a handle.                   *)
StepFacts ==
  \A t \in Tasks :
    /\ IsTerminal(status[t]) => status'[t] = status[t]
    /\ status[t] # "none" => status'[t] # "none"
    /\ t \in queue' => t \in queue \/ status[t] = "none"
    /\ exec[t] = "idle" /\ exec'[t] # "idle"
         => (t \in queue \/ status[t] = "none") /\ t \notin queue'

NoneCancelled == \A t \in Live : status'[t] # "cancelled"

(* A step of the scheduler: the three that drain reduce to DrainKeeps, the *)
(* others only touch one handle.                                           *)
LEMMA SchedulerStepKeepsIInv ==
  ASSUME IInv, SchedulerStep
  PROVE  IInv' /\ StepFacts /\ NoneCancelled
<1> USE DEF IInv
<1>0. /\ status \in [Tasks -> Statuses] /\ exec \in [Tasks -> ExecStates]
      /\ activeWorkers \in Nat /\ poolSize \in MinWorkers..MaxWorkers
      /\ activeWorkers <= poolSize /\ activeWorkers = Cardinality(BusyIn(exec))
      /\ \A t \in Live : status[t] \in {"queued", "running"}
  BY DEF TypeOK, SlotAccounting, Busy, BusyIn, Live, Consistent
<1>1. CASE DrainTick
  <2>1. /\ IInv'
        /\ \A t \in Tasks : status'[t] = status[t] \/ (t \in queue /\ status'[t] = "running")
        /\ \A t \in Tasks : status[t] \in TerminalStates => status'[t] = status[t]
        /\ \A t \in Tasks : exec'[t] = exec[t] \/ (t \in queue /\ t \notin queue')
        /\ queue' \subseteq queue
    BY <1>0, <1>1, DrainKeeps DEF DrainTick, TypeOK
  <2> QED BY <1>0, <2>1 DEF StepFacts, NoneCancelled, Live, TypeOK
<1>2. ASSUME NEW t \in Tasks, Dispatch(t)
      PROVE  IInv' /\ StepFacts /\ NoneCancelled
  <2> DEFINE st == [status EXCEPT ![t] = "queued"]
             hs == handles \cup {t}
             q  == queue \cup {t}
  <2>1. /\ status[t] = "none"
        /\ handles' = hs /\ aborted' = aborted /\ failures' = failures /\ cooled' = cooled
        /\ Drain(st, hs, q, exec, activeWorkers, poolSize)
    BY <1>2 DEF Dispatch
  <2>2. /\ st \in [Tasks -> Statuses] /\ hs \in SUBSET Tasks /\ q \in SUBSET Tasks
        /\ \A u \in Tasks : st[u] = status[u] \/ st[u] = "queued"
        /\ \A u \in Tasks : u # t => st[u] = status[u]
        /\ handles \subseteq handles'
    BY <1>0, <2>1 DEF TypeOK
  <2>3. Consistent(st, hs, aborted, q, exec, timer)
    BY <1>0, <2>1 DEF Consistent
  <2> HIDE DEF st, hs, q
  <2>4. /\ IInv'
        /\ \A u \in Tasks : status'[u] = st[u] \/ (u \in q /\ status'[u] = "running")
        /\ \A u \in Tasks : st[u] \in TerminalStates => status'[u] = st[u]
        /\ \A u \in Tasks : exec'[u] = exec[u] \/ (u \in q /\ u \notin queue')
        /\ queue' \subseteq q
    BY <1>0, <2>1, <2>2, <2>3, DrainKeeps
  <2>5. StepFacts
    BY <2>1, <2>2, <2>4 DEF StepFacts, q, st
  <2>6. NoneCancelled
    BY <1>0, <2>1, <2>2, <2>4 DEF NoneCancelled, Live, st, TypeOK
  <2> QED BY <2>4, <2>5, <2>6
<1>3. ASSUME NEW t \in Tasks, WorkerFreed(t)
      PROVE  IInv' /\ StepFacts /\ NoneCancelled
  <2> DEFINE ex == [exec EXCEPT ![t] = "idle"]
  <2>1. PICK size \in {poolSize, Resized(activeWorkers - 1)} :
          Drain(status, handles, queue, ex, activeWorkers - 1, size)
    BY <1>3 DEF WorkerFreed
  <2>2. exec[t] = "returned" /\ t \in BusyIn(exec)
    BY <1>3 DEF WorkerFreed, BusyIn
  <2>3. /\ ex \in [Tasks -> ExecStates] /\ ex[t] = "idle"
        /\ \A u \in Tasks : u # t => ex[u] = exec[u]
    BY <1>0
  <2>4. BusyIn(ex) = BusyIn(exec) \ {t}
    BY <2>3 DEF BusyIn
  <2>5. IsFiniteSet(BusyIn(exec))
    BY RegistryAssumption, FS_Subset DEF BusyIn
  <2>6. activeWorkers - 1 \in Nat /\ Cardinality(BusyIn(ex)) = activeWorkers - 1
    <3>1. Cardinality(BusyIn(ex)) = activeWorkers - 1
      BY <1>0, <2>2, <2>4, <2>5, FS_RemoveElement
    <3>2. Cardinality(BusyIn(ex)) \in Nat
      BY <2>4, <2>5, FS_RemoveElement, FS_CardinalityType
    <3> QED BY <3>1, <3>2
  <2>7. size \in MinWorkers..MaxWorkers /\ activeWorkers - 1 <= size
    <3>1. activeWorkers - 1 <= poolSize BY <1>0, SchedulerAssumption
    <3> QED BY <1>0, <2>1, <2>6, <3>1, ResizedBounds
  <2>8. Consistent(status, handles, aborted, queue, ex, timer)
    BY <2>2, <2>3 DEF Consistent
  <2>9. handles' = handles /\ aborted' = aborted /\ failures' = failures /\ cooled' = cooled
    BY <1>3 DEF WorkerFreed
  <2> HIDE DEF ex
  <2>10. /\ IInv'
         /\ \A u \in Tasks : status'[u] = status[u] \/ (u \in queue /\ status'[u] = "running")
         /\ \A u \in Tasks : status[u] \in TerminalStates => status'[u] = status[u]
         /\ \A u \in Tasks : exec'[u] = ex[u] \/ (u \in queue /\ u \notin queue')
         /\ queue' \subseteq queue
    <3>1. handles \in SUBSET Tasks /\ queue \in SUBSET Tasks /\ handles \subseteq handles'
      BY <2>9 DEF TypeOK
    <3>2. \A u \in Tasks : status[u] = status[u] \/ status[u] = "queued"
      OBVIOUS
    <3> QED BY <1>0, <2>1, <2>3, <2>6, <2>7, <2>8, <2>9, <3>1, <3>2, DrainKeeps
  <2> QED BY <1>0, <2>2, <2>3, <2>10 DEF StepFacts, NoneCancelled, Live, TypeOK
<1>4. ASSUME NEW t \in Tasks, exec[t] = "generating", NEW new \in {"completed", "failed"},
             exec' = [exec EXCEPT ![t] = "returned"],
             status' = Transition(status, handles, {t}, new),
             CompletionEffects(status', {}),
             UNCHANGED <<handles, aborted, queue, activeWorkers, poolSize>>,
             breaker' \in [Types -> {"closed", "open", "half-open"}],
             failures' \in [Types -> 0..FailureThreshold], cooled' \subseteq Types
      PROVE  IInv' /\ StepFacts /\ NoneCancelled
  <2>1. /\ status' \in [Tasks -> Statuses]
        /\ status[t] = "running" => status'[t] = new
        /\ \A u \in Tasks : status'[u] # status[u] => u = t /\ status[t] = "running"
    <3>1. status[t] # "queued" BY <1>4 DEF Consistent
    <3>2. status[t] # "streaming" BY <1>4 DEF Consistent
    <3>3. status[t] = "running" => t \in handles BY <1>4 DEF Consistent
    <3> QED BY <1>0, <1>4, <3>1, <3>2, <3>3 DEF Transition, ValidTransitions
  <2>2. Completed(status, status') = IF status[t] = "running" THEN {t} ELSE {}
    BY <1>4, <2>1 DEF Completed
  <2>3. timer' = timer \ Completed(status, status')
    BY <1>4 DEF CompletionEffects
  <2>4. exec' \in [Tasks -> ExecStates] /\ exec'[t] = "returned"
        /\ \A u \in Tasks : u # t => exec'[u] = exec[u]
    BY <1>0, <1>4
  <2>5. Consistent(status', handles', aborted', queue', exec', timer')
    BY <1>4, <2>1, <2>2, <2>3, <2>4 DEF Consistent
  <2>6. TypeOK'
    <3>1. awaiting' \in [Waiters -> Tasks \cup {NoTask}]
      BY <1>4 DEF CompletionEffects, TypeOK
    <3> QED BY <1>4, <2>1, <2>3, <2>4, <3>1 DEF TypeOK
  <2>7. Busy' = Busy
    BY <1>4, <2>4 DEF Busy
  <2>8. SlotAccounting' /\ WorkConserving'
    BY <1>4, <2>7 DEF SlotAccounting, WorkConserving
  <2>9. NoLostWakeup'
    <3> SUFFICES ASSUME NEW w \in Waiters, awaiting'[w] # NoTask PROVE awaiting'[w] \in Live'
      BY DEF NoLostWakeup
    <3>1. awaiting'[w] = awaiting[w] /\ awaiting[w] \notin Completed(status, status')
      BY <1>4 DEF CompletionEffects
    <3>2. awaiting[w] \in Live BY <3>1 DEF NoLostWakeup
    <3> QED BY <1>4, <2>1, <2>2, <3>1, <3>2 DEF Live, TypeOK
  <2>10. StepFacts /\ NoneCancelled
    BY <1>4, <2>1, <2>4, <1>0 DEF StepFacts, NoneCancelled, Live, TypeOK
  <2> QED BY <2>5, <2>6, <2>8, <2>9, <2>10
<1>5. ASSUME NEW t \in Tasks, GenerateReturns(t)
      PROVE  IInv' /\ StepFacts /\ NoneCancelled
  <2>1. /\ breaker' \in [Types -> {"closed", "open", "half-open"}]
        /\ failures' \in [Types -> 0..FailureThreshold] /\ cooled' \subseteq Types
    <3>1. RecordSuccess(TypeOf[t]) BY <1>5 DEF GenerateReturns
    <3>2. breaker \in [Types -> {"closed", "open", "half-open"}]
          /\ failures \in [Types -> 0..FailureThreshold] /\ cooled \subseteq Types
      BY DEF TypeOK
    <3>3. 0 \in 0..FailureThreshold BY SchedulerAssumption
    <3> QED BY <3>1, <3>2, <3>3 DEF RecordSuccess
  <2> QED BY <1>4, <1>5, <2>1 DEF GenerateReturns
<1>6. ASSUME NEW t \in Tasks, GenerateFails(t)
      PROVE  IInv' /\ StepFacts /\ NoneCancelled
  <2>1. /\ breaker' \in [Types -> {"closed", "open", "half-open"}]
        /\ failures' \in [Types -> 0..FailureThreshold] /\ cooled' \subseteq Types
    <3>1. RecordFailure(TypeOf[t]) BY <1>6 DEF GenerateFails
    <3>2. breaker \in [Types -> {"closed", "open", "half-open"}]
          /\ failures \in [Types -> 0..FailureThreshold] /\ cooled \subseteq Types
      BY DEF TypeOK
    <3>3. TypeOf[t] \in Types BY SchedulerAssumption
    <3>4. PICK inWindow \in 0..failures[TypeOf[t]] :
            LET n == Least(inWindow + 1, FailureThreshold) IN
            /\ failures' = [failures EXCEPT ![TypeOf[t]] = n]
            /\ breaker' = IF n >= FailureThreshold
                          THEN [breaker EXCEPT ![TypeOf[t]] = "open"] ELSE breaker
      BY <3>1 DEF RecordFailure
    <3>5. inWindow \in Nat BY <3>2, <3>3
    <3>6. Least(inWindow + 1, FailureThreshold) \in 0..FailureThreshold
      BY <3>5, SchedulerAssumption DEF Least
    <3>7. cooled' \subseteq Types BY <3>1, <3>2 DEF RecordFailure
    <3> QED BY <3>2, <3>4, <3>6, <3>7
  <2> QED BY <1>4, <1>6, <2>1 DEF GenerateFails
<1>7. ASSUME NEW t \in Tasks, GenerateThrowsAborted(t)
      PROVE  IInv' /\ StepFacts /\ NoneCancelled
  <2>1. /\ exec' \in [Tasks -> ExecStates] /\ exec'[t] = "returned" /\ exec[t] = "generating"
        /\ \A u \in Tasks : u # t => exec'[u] = exec[u]
        /\ UNCHANGED <<status, handles, aborted, timer, awaiting, queue, activeWorkers,
                       poolSize, breaker, failures, cooled>>
    BY <1>0, <1>7 DEF GenerateThrowsAborted, registryVars
  <2>2. t \in aborted BY <1>7 DEF GenerateThrowsAborted
  <2>3. TypeOK' BY <2>1 DEF TypeOK
  <2>4. Consistent(status', handles', aborted', queue', exec', timer')
    BY <2>1, <2>2 DEF Consistent
  <2>5. Busy' = Busy BY <2>1 DEF Busy
  <2>6. SlotAccounting' /\ WorkConserving' /\ NoLostWakeup'
    BY <2>1, <2>5 DEF SlotAccounting, WorkConserving, NoLostWakeup, Live
  <2>7. StepFacts /\ NoneCancelled
    BY <1>0, <2>1 DEF StepFacts, NoneCancelled
  <2> QED BY <2>3, <2>4, <2>6, <2>7
<1>8. ASSUME NEW y \in Types, CoolDown(y)
      PROVE  IInv' /\ StepFacts /\ NoneCancelled
  <2>1. /\ UNCHANGED <<status, handles, aborted, timer, awaiting, queue, exec, activeWorkers,
                       poolSize, breaker, failures>>
        /\ cooled' = cooled \cup {y}
    BY <1>8 DEF CoolDown, registryVars
  <2>2. TypeOK' BY <2>1 DEF TypeOK
  <2>3. Consistent(status', handles', aborted', queue', exec', timer')
    BY <2>1 DEF Consistent
  <2>4. SlotAccounting' /\ WorkConserving' /\ NoLostWakeup'
    BY <2>1 DEF SlotAccounting, WorkConserving, NoLostWakeup, Live, Busy
  <2>5. StepFacts /\ NoneCancelled
    BY <1>0, <2>1 DEF StepFacts, NoneCancelled
  <2> QED BY <2>2, <2>3, <2>4, <2>5
<1> QED BY <1>1, <1>2, <1>3, <1>5, <1>6, <1>7, <1>8 DEF SchedulerStep

(* A call that touches the registry leaves settled handles settled and     *)
(* takes nothing in or out of the queue and the worker slots.              *)
LEMMA RegistryCallFacts ==
  ASSUME IInv, RegistryCall
  PROVE  StepFacts
<1>1. queue' = queue /\ exec' = exec
  BY DEF RegistryCall, schedulerVars
<1>2. status \in [Tasks -> Statuses]
  BY DEF IInv, TypeOK
<1>3. \/ status' = status
      \/ \E S, new : new \in TerminalStates /\ status' = Transition(status, handles, S, new)
  BY DEF RegistryCall, Cancel, CancelAll, Timeout, WaitForCompletion, WaitTimeout, Gc,
         Shutdown, CancelEffects
<1>4. \A t \in Tasks : /\ IsTerminal(status[t]) => status'[t] = status[t]
                       /\ status[t] # "none" => status'[t] # "none"
  BY <1>2, <1>3 DEF Transition, ValidTransitions
<1>5. \A t \in Tasks : /\ t \in queue' => t \in queue
                       /\ exec'[t] = exec[t]
  BY <1>1
<1> QED BY <1>4, <1>5 DEF StepFacts

(* Every step keeps IInv, and moves a task only forward (StepFacts).       *)
LEMMA NextKeepsIInv == IInv /\ [Next]_vars => IInv' /\ [StepFacts]_vars
<1> SUFFICES ASSUME IInv, [Next]_vars PROVE IInv' /\ [StepFacts]_vars
  OBVIOUS
<1>1. CASE RegistryCall
  BY <1>1, RegistryCallKeepsIInv, RegistryCallFacts
<1>2. CASE SchedulerStep
  BY <1>2, SchedulerStepKeepsIInv
<1>3. CASE UNCHANGED vars
  BY <1>3 DEF vars, registryVars, schedulerVars, IInv, TypeOK, Consistent, SlotAccounting,
              WorkConserving, NoLostWakeup, Busy, Live
<1> QED BY <1>1, <1>2, <1>3 DEF Next

-----------------------------------------------------------------------------
(* The theorems.                                                           *)

(* The inductive invariant holds throughout.                               *)
THEOREM Invariance == Spec => []IInv
<1>1. IInv /\ [Next]_vars => IInv' BY NextKeepsIInv
<1> QED BY <1>1, InitIInv, PTL DEF Spec

(* Every variable of the registry and the scheduler stays in its type.     *)
THEOREM TypeCorrect == Spec => []TypeOK
<1>1. IInv => TypeOK BY DEF IInv
<1> QED BY <1>1, Invariance, PTL

(* The worker counter of the scheduler is the number of executions holding *)
(* a slot, and never exceeds the pool, across dispatch, abort, collection, *)
(* shutdown and resizing.                                                  *)
THEOREM SlotsCounted == Spec => []SlotAccounting
<1>1. IInv => SlotAccounting BY DEF IInv
<1> QED BY <1>1, Invariance, PTL

(* Handles wait in the scheduler's queue only in front of a full pool.     *)
THEOREM NoIdleWorker == Spec => []WorkConserving
<1>1. IInv => WorkConserving BY DEF IInv
<1> QED BY <1>1, Invariance, PTL

(* The handles drain() may start are registered and were never started.    *)
THEOREM OnlyQueuedStarts == Spec => []QueuedIsStartable
<1>1. IInv => QueuedIsStartable BY DEF IInv, TypeOK, Consistent, QueuedIsStartable
<1> QED BY <1>1, Invariance, PTL

(* Every running handle has its timer, its generate() call and a live      *)
(* signal, and no other handle has a timer.                                *)
THEOREM RunningGuarded == Spec => []RunningIsGuarded
<1>1. IInv => RunningIsGuarded BY DEF IInv, TypeOK, Consistent, RunningIsGuarded
<1> QED BY <1>1, Invariance, PTL

(* waitForCompletion() never listens to a settled or collected handle.     *)
THEOREM WaitersAwaken == Spec => []NoLostWakeup
<1>1. IInv => NoLostWakeup BY DEF IInv
<1> QED BY <1>1, Invariance, PTL

(* The status a handle settled with is its last: no late result, timer,    *)
(* cancellation or drop changes it.                                        *)
THEOREM SettledForever == Spec => ResultIsFinal
<1>1. IInv /\ [Next]_vars => [\A t \in Tasks : IsTerminal(status[t]) => status'[t] = status[t]]_vars
  BY NextKeepsIInv DEF StepFacts
<1> QED BY <1>1, Invariance, PTL DEF Spec, ResultIsFinal

(* The scheduler is a bounded pool: each handle is served at most once,    *)
(* never after it was dropped, at most MaxWorkers at a time, and pending   *)
(* ones wait only while at least MinWorkers are served.                    *)
THEOREM ImplementsBoundedPool == Spec => ServedAtMostOnce
<1>1. Init => Pool!Init
  BY DEF Init, RegistryInit, Pool!Init, PhaseOf
<1>2. IInv /\ IInv' /\ [Next]_vars => [Pool!Advance]_([t \in Tasks |-> PhaseOf(t)])
  <2> SUFFICES ASSUME IInv, IInv', [Next]_vars
               PROVE  [Pool!Advance]_([t \in Tasks |-> PhaseOf(t)])
    OBVIOUS
  <2> DEFINE ph == [t \in Tasks |-> PhaseOf(t)]
  <2>1. CASE UNCHANGED vars
    BY <2>1 DEF vars, registryVars, schedulerVars, PhaseOf
  <2>2. CASE StepFacts
    <3>1. \A t \in Tasks : PhaseOf(t)' = PhaseOf(t) \/ PhaseOf(t)' \in Pool!Later[PhaseOf(t)]
      BY <2>2 DEF StepFacts, IInv, Consistent, PhaseOf, Pool!Later, TypeOK
    <3>2. {t \in Tasks : PhaseOf(t)' = "serving"} = Busy'
      BY DEF IInv, Consistent, PhaseOf, Busy
    <3>3. {t \in Tasks : PhaseOf(t)' = "pending"} = queue'
      BY DEF IInv, TypeOK, PhaseOf
    <3>4. Cardinality(Busy') = activeWorkers' /\ activeWorkers' <= poolSize'
          /\ poolSize' \in MinWorkers..MaxWorkers /\ activeWorkers' \in Nat
      BY DEF IInv, SlotAccounting, TypeOK
    <3>5. queue' # {} => activeWorkers' = poolSize'
      BY DEF IInv, WorkConserving
    <3>6. Cardinality(Busy') <= MaxWorkers /\ (queue' # {} => Cardinality(Busy') >= MinWorkers)
      BY <3>4, <3>5, SchedulerAssumption
    <3>7. ph' \in [Tasks -> Pool!Phases]
      BY DEF PhaseOf, Pool!Phases
    <3>8. /\ \A t \in Tasks : ph'[t] = PhaseOf(t)' /\ ph[t] = PhaseOf(t)
      OBVIOUS
    <3>9. Pool!In("serving")' = Busy' /\ Pool!In("pending")' = queue'
      BY <3>2, <3>3 DEF Pool!In
    <3>10. \A t \in Tasks : ph'[t] = ph[t] \/ ph'[t] \in Pool!Later[ph[t]]
      BY <3>1, <3>8
    <3>11. /\ Cardinality(Pool!In("serving")') <= MaxWorkers
           /\ Pool!In("pending")' # {} => Cardinality(Pool!In("serving")') >= MinWorkers
      BY <3>6, <3>9
    <3>12. Pool!Advance
      <4>1. \A S : Pool!Cardinality(S) = Cardinality(S)
        BY Zenon DEF Pool!Cardinality, Cardinality
      <4>2. /\ Pool!Cardinality(Pool!In("serving")') <= MaxWorkers
            /\ Pool!In("pending")' # {} => Pool!Cardinality(Pool!In("serving")') >= MinWorkers
        BY <3>11, <4>1
      <4> QED BY <3>7, <3>10, <4>2 DEF Pool!Advance
    <3> QED BY <3>12
  <2> QED BY <2>1, <2>2, NextKeepsIInv
<1> QED BY <1>1, <1>2, Invariance, PTL DEF Spec, ServedAtMostOnce, Pool!Spec

(* The call that cancels a handle leaves none of its children alive.       *)
THEOREM CascadeLeavesNoChild == Spec => CancelCascades
<1> DEFINE Cascades == \A t, c \in Tasks :
             t \in Live /\ status'[t] = "cancelled" /\ ParentOf[c] = t => c \notin Live'
<1>1. ASSUME IInv, NEW roots, roots \subseteq Live, CancelEffects(Cascade(roots)),
             handles' \subseteq handles
      PROVE  Cascades
  <2>1. Cascade(roots) \subseteq Live
    BY <1>1, CascadeLive
  <2>2. /\ status' = Transition(status, handles, Cascade(roots), "cancelled")
        /\ \A t \in Cascade(roots) : status'[t] = "cancelled"
    BY <1>1, <2>1, CancelKeeps DEF IInv, CancelEffects
  <2>3. \A t \in Live : status[t] # "cancelled"
    BY DEF Live
  <2>4. \A t \in Tasks : t \notin Cascade(roots) => status'[t] = status[t]
    BY <2>2 DEF Transition
  <2> SUFFICES ASSUME NEW t \in Tasks, NEW c \in Tasks, t \in Live,
                      status'[t] = "cancelled", ParentOf[c] = t, c \in Live'
               PROVE  FALSE
    OBVIOUS
  <2>5. t \in Cascade(roots)
    BY <2>3, <2>4
  <2>6. c \notin Cascade(roots)
    BY <2>2 DEF Live
  <2>7. c \in Live
    BY <1>1, <2>4, <2>6 DEF Live
  <2> QED BY <2>5, <2>6, <2>7, CascadeClosed
<1>2. ASSUME IInv, RegistryCall PROVE Cascades
  <2>1. ASSUME NEW t \in Tasks, Cancel(t) PROVE Cascades
    <3>1. {t} \subseteq Live /\ CancelEffects(Cascade({t})) /\ handles' \subseteq handles
      BY <2>1 DEF Cancel
    <3> QED BY <1>1, <1>2, <3>1
  <2>2. ASSUME NEW p, CancelAll(p) PROVE Cascades
    <3>1. /\ ActiveChildren(p) \subseteq Live /\ CancelEffects(Cascade(ActiveChildren(p)))
          /\ handles' \subseteq handles
      BY <2>2 DEF CancelAll, ActiveChildren
    <3> QED BY <1>1, <1>2, <3>1
  <2>3. ASSUME NEW expired, NEW stuck, Gc(expired, stuck) PROVE Cascades
    <3>1. /\ stuck \subseteq Live /\ CancelEffects(Cascade(stuck))
          /\ handles' \subseteq handles
      BY <2>3 DEF Gc
    <3> QED BY <1>1, <1>2, <3>1
  <2>4. CASE Shutdown
    BY <2>4 DEF Shutdown, Live
  <2>5. ASSUME NEW u \in Tasks, Timeout(u) PROVE Cascades
    BY <2>5, <1>2 DEF Timeout, Transition, Live, IInv, TypeOK
  <2>6. ASSUME status' = status PROVE Cascades
    BY <2>6 DEF Live
  <2> QED BY <1>2, <2>1, <2>2, <2>3, <2>4, <2>5, <2>6
        DEF RegistryCall, WaitForCompletion, WaitTimeout
<1>3. ASSUME IInv, SchedulerStep PROVE Cascades
  BY <1>3, SchedulerStepKeepsIInv DEF NoneCancelled
<1>4. IInv /\ [Next]_vars => [Cascades]_vars
  BY <1>2, <1>3 DEF Next
<1> QED BY <1>4, Invariance, PTL DEF Spec, CancelCascades

(* With at most five initial workers and a scale-up threshold of 0.8 or    *)
(* more, the default configuration, the pool never grows: utilization is   *)
(* only ever measured with one slot just given back, so it is at most 4/5. *)
THEOREM DefaultPoolIsFixed ==
  ASSUME MinWorkers <= 5, ScaleUp >= 8
  PROVE  Spec => []PoolStaysMinimal
<1>1. Init => PoolStaysMinimal
  BY DEF Init, PoolStaysMinimal
<1>2. IInv /\ PoolStaysMinimal /\ [Next]_vars => PoolStaysMinimal'
  <2> SUFFICES ASSUME IInv, poolSize = MinWorkers, [Next]_vars PROVE poolSize' = MinWorkers
    BY DEF PoolStaysMinimal
  <2>1. ASSUME NEW t \in Tasks, WorkerFreed(t) PROVE poolSize' = MinWorkers
    <3>1. poolSize' \in {poolSize, Resized(activeWorkers - 1)}
      BY <2>1 DEF WorkerFreed, Drain
    <3>2. activeWorkers \in Nat /\ activeWorkers <= MinWorkers
      BY DEF IInv, TypeOK, SlotAccounting
    <3>3. ScaleUp * MinWorkers >= 8 * MinWorkers
      BY SchedulerAssumption
    <3>4. ~(10 * (activeWorkers - 1) > ScaleUp * MinWorkers)
      BY <3>2, <3>3, SchedulerAssumption
    <3>5. Greatest((3 * MinWorkers) \div 4, MinWorkers) = MinWorkers
      BY SchedulerAssumption DEF Greatest
    <3> QED BY <3>1, <3>4, <3>5 DEF Resized
  <2>2. CASE ~\E t \in Tasks : WorkerFreed(t)
    BY <2>2 DEF Next, RegistryCall, SchedulerStep, schedulerVars, vars, DrainTick, Dispatch,
                Drain, GenerateReturns, GenerateThrowsAborted, GenerateFails, CoolDown
  <2> QED BY <2>1, <2>2
<1> QED BY <1>1, <1>2, Invariance, PTL DEF Spec
=============================================================================
