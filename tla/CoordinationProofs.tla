------------------------- MODULE CoordinationProofs -------------------------
(***************************************************************************)
(* What holds where several parties wait for one another: of               *)
(* AgentSupervisor for any number of children, walks, pings and any        *)
(* intensity, under each of the three strategies; of ForkRun for any nodes *)
(* and rounds; of the confirmations of CliTools for any calls, paths and   *)
(* words; and of the sessions of Repl for any processes, servers, models   *)
(* and histories.                                                          *)
(***************************************************************************)
EXTENDS MCCoordination, FiniteSetTheorems, SequenceTheorems, WellFoundedInduction, TLAPS

(* What the assumption on the constants says of their types.               *)
LEMMA Bounds == Size \in Nat \ {0} /\ MaxRestarts \in Nat /\ MaxPings \in Nat
BY SupervisorAssumption

(* The children a strategy restarts with a child, and that child.          *)
LEMMA FirstAndLast ==
  ASSUME NEW c \in Children
  PROVE  /\ First(c) \in Children /\ Last(c) \in Children
         /\ strategy = "one-for-one" => First(c) = c /\ Last(c) = c
BY Bounds DEF First, Last, Children

(* A walk that is not going on is behind its end.                          *)
LEMMA IdleType == Idle \in [at : Children, to : 0 .. Size, starts : BOOLEAN] /\ ~(Idle.at <= Idle.to)
BY Bounds DEF Idle, Children

(* The order of the children.                                              *)
LEMMA Beyond ==
  ASSUME NEW c \in Children, NEW d \in Children
  PROVE  /\ d > c + 1 => d # c /\ d > c /\ d # c + 1
         /\ c < d <=> d > c
BY Bounds DEF Children

(* A walk going on behind its child keeps the invariant, provided that the *)
(* child is watched when it is said to run.                                *)
LEMMA AdvanceStep ==
  ASSUME IInv, NEW p \in Walks, Walking(p),
         NEW s \in {"running", "crashed"}, Advance(p, walk[p].at, s),
         node \subseteq node', heartbeat \subseteq heartbeat',
         s = "running" => walk[p].at \in node' \cap heartbeat',
         UNCHANGED <<strategy, phase, fallback>>
  PROVE  /\ status' \in [Children -> Statuses]
         /\ walk' \in [Walks -> [at : Children, to : 0 .. Size, starts : BOOLEAN]]
         /\ RestartingIsAwaited' /\ RunningIsWatched'
         /\ OneFactoryPerChild' /\ MarkedWhileAwaited'
<1> DEFINE c == walk[p].at
           next == c + 1
           goesOn == next <= walk[p].to /\ (walk[p].starts \/ next \in Known)
<1> USE DEF IInv, TypeOK, Walking
<1>1. /\ c \in Children /\ walk[p].to \in 0 .. Size
      /\ goesOn => next \in Children /\ next <= walk[p].to
      /\ next # c
  BY Bounds DEF Children
<1>2. /\ walk' = [walk EXCEPT ![p] = IF goesOn THEN [walk[p] EXCEPT !.at = next] ELSE Idle]
      /\ status' = [d \in Children |-> IF d = c THEN s
                                       ELSE IF d = next /\ goesOn THEN "restarting"
                                       ELSE status[d]]
  BY DEF Advance
<1>3. walk' \in [Walks -> [at : Children, to : 0 .. Size, starts : BOOLEAN]]
  <2>1. goesOn => [walk[p] EXCEPT !.at = next] \in [at : Children, to : 0 .. Size, starts : BOOLEAN]
    BY <1>1
  <2> QED
    BY <1>2, <2>1, IdleType
<1>4. status' \in [Children -> Statuses]
  BY <1>2 DEF Statuses
<1>5. \A q \in Walks : q # p => walk'[q] = walk[q]
  BY <1>2
<1>6. goesOn => walk'[p].at = next /\ walk'[p].to = walk[p].to /\ walk'[p].starts = walk[p].starts
  BY <1>2
<1>7. ~goesOn => ~(walk'[p].at <= walk'[p].to)
  BY <1>2 DEF Idle
<1> HIDE DEF goesOn
<1>8. RestartingIsAwaited'
  <2> SUFFICES ASSUME NEW d \in Children, status'[d] = "restarting"
               PROVE  \E q \in Walks : walk'[q].at <= walk'[q].to /\ walk'[q].at = d
    BY DEF RestartingIsAwaited, Awaited
  <2>1. CASE goesOn /\ d = next
    BY <1>1, <1>6, <2>1
  <2>2. CASE ~(goesOn /\ d = next)
    <3>1. d # c /\ status[d] = "restarting"
      BY <1>2, <2>2
    <3>2. PICK q \in Walks : walk[q].at <= walk[q].to /\ walk[q].at = d
      BY <3>1 DEF RestartingIsAwaited, Awaited
    <3> QED
      BY <1>5, <3>1, <3>2
  <2> QED
    BY <2>1, <2>2
<1>9. RunningIsWatched'
  BY <1>1, <1>2 DEF RunningIsWatched
<1>10. ASSUME strategy = "one-for-one", phase # "down"
       PROVE  /\ walk[p].starts \/ ~goesOn
              /\ goesOn => status[next] = "absent"
              /\ \A q \in Walks : q # p /\ Walking(q) => walk[q].at # c /\ ~(goesOn /\ walk[q].at = next)
  <2>1. walk[p].starts \/ ~goesOn
    BY <1>1, <1>10, Bounds DEF MarkedWhileAwaited, Children, goesOn
  <2>2. goesOn => status[next] = "absent"
    BY <1>1, <1>10, <2>1, Bounds DEF MarkedWhileAwaited, Children
  <2>3. \A q \in Walks : q # p /\ Walking(q) => walk[q].at # c
    BY <1>10 DEF OneFactoryPerChild
  <2>4. \A q \in Walks : Walking(q) => status[walk[q].at] = "restarting"
    BY <1>10 DEF MarkedWhileAwaited
  <2> QED
    BY <2>1, <2>2, <2>3, <2>4
<1>11. OneFactoryPerChild'
  <2> SUFFICES ASSUME strategy = "one-for-one", phase # "down",
                      NEW q \in Walks, NEW r \in Walks, q # r,
                      walk'[q].at <= walk'[q].to, walk'[r].at <= walk'[r].to
               PROVE  walk'[q].at # walk'[r].at
    BY DEF OneFactoryPerChild
  <2>1. CASE q # p /\ r # p
    BY <1>5, <2>1 DEF OneFactoryPerChild
  <2>2. CASE q = p
    BY <1>5, <1>6, <1>7, <1>10, <2>2
  <2>3. CASE r = p
    BY <1>5, <1>6, <1>7, <1>10, <2>3
  <2> QED
    BY <2>1, <2>2, <2>3
<1>12. MarkedWhileAwaited'
  <2> SUFFICES ASSUME strategy = "one-for-one", phase # "down"
               PROVE  MarkedWhileAwaited'
    BY DEF MarkedWhileAwaited
  <2>1. phase = "started"
    BY DEF MarkedWhileAwaited
  <2>2. \A d \in fallback : status'[d] = "crashed"
    <3>1. \A d \in fallback : status[d] = "crashed" /\ status[c] = "restarting"
      BY DEF MarkedWhileAwaited
    <3> QED
      BY <1>2, <1>10, <3>1
  <2>3. ASSUME NEW q \in Walks, walk'[q].at <= walk'[q].to
        PROVE  /\ status'[walk'[q].at] = "restarting"
               /\ IF walk'[q].starts THEN \A d \in Children : d > walk'[q].at => status'[d] = "absent"
                                     ELSE walk'[q].at = walk'[q].to
    <3>1. CASE q = p
      <4>1. goesOn /\ walk[p].starts
        BY <1>7, <1>10, <2>3, <3>1
      <4>2. \A d \in Children : d > next => d # c /\ d > c
        BY <1>1, Beyond
      <4>3. \A d \in Children : d > c => status[d] = "absent"
        BY <4>1 DEF MarkedWhileAwaited
      <4>4. \A d \in Children : d > next => d # next
        BY <1>1, Beyond
      <4> QED
        BY <1>1, <1>2, <1>6, <3>1, <4>1, <4>2, <4>3, <4>4
    <3>2. CASE q # p
      <4>1. walk'[q] = walk[q] /\ Walking(q)
        BY <1>5, <2>3, <3>2
      <4>2. /\ status[walk[q].at] = "restarting"
            /\ IF walk[q].starts THEN \A d \in Children : d > walk[q].at => status[d] = "absent"
                                 ELSE walk[q].at = walk[q].to
        BY <4>1 DEF MarkedWhileAwaited
      <4>3. walk[q].at # c /\ ~(goesOn /\ walk[q].at = next) /\ walk[q].at \in Children
        BY <1>10, <3>2, <4>1
      <4>4. status[c] = "restarting" /\ c \in Children
        BY <1>1 DEF MarkedWhileAwaited
      <4>5. walk[q].starts => c < walk[q].at
        BY <4>2, <4>3, <4>4, Bounds DEF Children
      <4>6. walk[q].starts => ~goesOn
        <5>1. walk[p].starts => \A d \in Children : d > c => status[d] = "absent"
          BY DEF MarkedWhileAwaited
        <5>2. walk[p].starts /\ c < walk[q].at => status[walk[q].at] = "absent"
          BY <4>3, <5>1, Beyond
        <5> QED
          BY <1>10, <4>2, <4>5, <5>2
      <4> QED
        BY <1>2, <4>1, <4>2, <4>3, <4>4, <4>5, <4>6
    <3> QED
      BY <3>1, <3>2
  <2> QED
    BY <2>1, <2>2, <2>3 DEF MarkedWhileAwaited
<1> QED
  BY <1>3, <1>4, <1>8, <1>9, <1>11, <1>12

(* A child taken out of the game is no longer running and not awaited.      *)
LEMMA GiveUpStep ==
  ASSUME IInv, NEW c \in Children, GiveUp(c), ~Ignores(c),
         UNCHANGED <<strategy, temporary, escalation, phase>>,
         pings' \in [Children -> 0 .. MaxPings]
  PROVE  IInv'
<1> USE DEF IInv, TypeOK, GiveUp, Ignores
<1> DEFINE s == IF c \in temporary \/ escalation = "none" THEN "stopped" ELSE "crashed"
<1>1. status' = [status EXCEPT ![c] = s] /\ s \in {"stopped", "crashed"}
  OBVIOUS
<1>2. TypeOK'
  BY <1>1 DEF Statuses
<1>3. RestartingIsAwaited' /\ RunningIsWatched'
  BY <1>1 DEF RestartingIsAwaited, Awaited, Walking, RunningIsWatched
<1>4. OneFactoryPerChild'
  BY DEF OneFactoryPerChild, Walking
<1>5. MarkedWhileAwaited'
  <2> SUFFICES ASSUME strategy = "one-for-one", phase # "down" PROVE MarkedWhileAwaited'
    BY DEF MarkedWhileAwaited
  <2>1. phase # "new"
    BY DEF MarkedWhileAwaited, Known
  <2>2. \A d \in fallback' : status'[d] = "crashed"
    BY <1>1 DEF MarkedWhileAwaited
  <2>3. ASSUME NEW q \in Walks, Walking(q)'
        PROVE  /\ phase = "started" /\ status'[walk[q].at] = "restarting"
               /\ IF walk[q].starts
                    THEN \A d \in Children : d > walk[q].at => status'[d] = "absent"
                    ELSE walk[q].at = walk[q].to
    BY <1>1, <2>3 DEF MarkedWhileAwaited, Walking
  <2> QED
    BY <2>1, <2>2, <2>3 DEF MarkedWhileAwaited, Walking
<1> QED
  BY <1>2, <1>3, <1>4, <1>5

(* A restart stops the children concerned and awaits the first of them; a  *)
(* child that is awaited already is not restarted.                         *)
LEMMA RestartStep ==
  ASSUME IInv, NEW c \in Children, NEW p \in Walks, Restart(p, c), ~Ignores(c), ~Exceeded(c),
         UNCHANGED <<strategy, temporary, escalation, phase>>,
         pings' \in [Children -> 0 .. MaxPings]
  PROVE  IInv'
<1> DEFINE affected == Known \cap (First(c) .. Last(c))
           new == [at |-> First(c), to |-> Last(c), starts |-> FALSE]
<1> USE DEF IInv, TypeOK, Walking
<1>1. /\ ~Walking(p)
      /\ restarts' = [restarts EXCEPT ![c] = @ + 1]
      /\ status' = [d \in Children |-> IF d = First(c) THEN "restarting"
                                       ELSE IF d \in affected THEN "stopped"
                                       ELSE status[d]]
      /\ node' = IF strategy = "one-for-one" THEN node ELSE node \ affected
      /\ heartbeat' = heartbeat \ affected
      /\ walk' = [walk EXCEPT ![p] = new]
      /\ UNCHANGED fallback
  BY DEF Restart
<1>2. /\ First(c) \in Children /\ Last(c) \in Children
      /\ strategy = "one-for-one" => First(c) = c /\ Last(c) = c
  BY FirstAndLast
<1>3. First(c) <= Last(c)
  BY Bounds DEF First, Last, Children
<1>4. status[c] \notin {"absent", "crashed", "restarting"}
  BY DEF Ignores
<1>5. TypeOK'
  <2>1. restarts' \in [Children -> 0 .. MaxRestarts]
    <3>1. restarts[c] + 1 \in 0 .. MaxRestarts
      BY Bounds DEF Exceeded
    <3> QED
      BY <1>1, <3>1
  <2>2. new \in [at : Children, to : 0 .. Size, starts : BOOLEAN]
    BY <1>2, Bounds DEF Children
  <2>3. status' \in [Children -> Statuses]
    BY <1>1 DEF Statuses
  <2> QED
    BY <1>1, <2>1, <2>2, <2>3
<1> HIDE DEF affected
<1>6. \A q \in Walks : q # p => walk'[q] = walk[q]
  BY <1>1
<1>7. walk'[p] = new
  BY <1>1
<1>8. RestartingIsAwaited'
  <2> SUFFICES ASSUME NEW d \in Children, status'[d] = "restarting"
               PROVE  \E q \in Walks : walk'[q].at <= walk'[q].to /\ walk'[q].at = d
    BY DEF RestartingIsAwaited, Awaited
  <2>1. CASE d = First(c)
    BY <1>3, <1>7, <2>1
  <2>2. CASE d # First(c)
    <3>1. status[d] = "restarting"
      BY <1>1, <2>2
    <3>2. PICK q \in Walks : walk[q].at <= walk[q].to /\ walk[q].at = d
      BY <3>1 DEF RestartingIsAwaited, Awaited
    <3> QED
      BY <1>1, <1>6, <3>2
  <2> QED
    BY <2>1, <2>2
<1>9. RunningIsWatched'
  <2> SUFFICES ASSUME NEW d \in Children, status'[d] = "running"
               PROVE  d \in node' \cap heartbeat'
    BY DEF RunningIsWatched
  <2>1. d \notin affected /\ status[d] = "running"
    BY <1>1
  <2> QED
    BY <1>1, <2>1 DEF RunningIsWatched
<1>10. ASSUME strategy = "one-for-one", phase # "down"
       PROVE  \A q \in Walks : Walking(q) => walk[q].at # c
  BY <1>4, <1>10 DEF MarkedWhileAwaited
<1>11. OneFactoryPerChild'
  <2> SUFFICES ASSUME strategy = "one-for-one", phase # "down",
                      NEW q \in Walks, NEW r \in Walks, q # r,
                      walk'[q].at <= walk'[q].to, walk'[r].at <= walk'[r].to
               PROVE  walk'[q].at # walk'[r].at
    BY DEF OneFactoryPerChild
  <2>1. CASE q # p /\ r # p
    BY <1>6, <2>1 DEF OneFactoryPerChild
  <2>2. CASE q = p
    BY <1>2, <1>6, <1>7, <1>10, <2>2
  <2>3. CASE r = p
    BY <1>2, <1>6, <1>7, <1>10, <2>3
  <2> QED
    BY <2>1, <2>2, <2>3
<1>12. MarkedWhileAwaited'
  <2> SUFFICES ASSUME strategy = "one-for-one", phase # "down" PROVE MarkedWhileAwaited'
    BY DEF MarkedWhileAwaited
  <2>1. phase = "started"
    BY <1>4 DEF MarkedWhileAwaited, Known
  <2>2. \A d \in Children : status'[d] = IF d = c THEN "restarting"
                                         ELSE IF d \in affected THEN "stopped" ELSE status[d]
    BY <1>1, <1>2
  <2>3. affected \subseteq {c}
    BY <1>2, Bounds DEF affected, Children
  <2>4. \A d \in fallback : status'[d] = "crashed"
    BY <1>1, <1>4, <2>2, <2>3 DEF MarkedWhileAwaited
  <2>5. ASSUME NEW q \in Walks, walk'[q].at <= walk'[q].to
        PROVE  /\ status'[walk'[q].at] = "restarting"
               /\ IF walk'[q].starts
                    THEN \A d \in Children : d > walk'[q].at => status'[d] = "absent"
                    ELSE walk'[q].at = walk'[q].to
    <3>1. CASE q = p
      BY <1>2, <1>7, <2>2, <3>1
    <3>2. CASE q # p
      <4>1. walk'[q] = walk[q] /\ Walking(q) /\ walk[q].at # c /\ walk[q].at \in Children
        BY <1>6, <1>10, <2>5, <3>2
      <4>2. /\ status[walk[q].at] = "restarting"
            /\ IF walk[q].starts
                 THEN \A d \in Children : d > walk[q].at => status[d] = "absent"
                 ELSE walk[q].at = walk[q].to
        BY <4>1 DEF MarkedWhileAwaited
      <4> QED
        BY <1>4, <2>2, <2>3, <4>1, <4>2
    <3> QED
      BY <3>1, <3>2
  <2> QED
    BY <1>1, <2>1, <2>4, <2>5 DEF MarkedWhileAwaited
<1> QED
  BY <1>5, <1>8, <1>9, <1>11, <1>12

(* handleChildCrash(): ignored, escalated or the start of a walk.          *)
LEMMA CrashStep ==
  ASSUME IInv, NEW c \in Children, HandleChildCrash(c),
         UNCHANGED <<strategy, temporary, escalation, phase>>,
         pings' \in [Children -> 0 .. MaxPings]
  PROVE  IInv'
<1>1. CASE Ignores(c) /\ UNCHANGED <<status, node, heartbeat, restarts, fallback, walk>>
  BY <1>1 DEF IInv, TypeOK, RestartingIsAwaited, Awaited, Walking, RunningIsWatched,
              OneFactoryPerChild, MarkedWhileAwaited, Known
<1>2. CASE ~Ignores(c) /\ (c \in temporary \/ Exceeded(c)) /\ GiveUp(c)
  BY <1>2, GiveUpStep
<1>3. CASE ~Ignores(c) /\ ~Exceeded(c) /\ \E p \in Walks : Restart(p, c)
  BY <1>3, RestartStep
<1> QED
  BY <1>1, <1>2, <1>3 DEF HandleChildCrash

(* The end of a fallback stops its child: under one-for-one it was crashed *)
(* until then, as crash reports of crashed children are ignored.           *)
LEMMA FallbackStep ==
  ASSUME IInv, NEW c \in Children, FallbackReturns(c), UNCHANGED config
  PROVE  IInv'
<1> USE DEF IInv, TypeOK, FallbackReturns, config, Walking
<1>1. TypeOK'
  BY DEF Statuses
<1>2. RestartingIsAwaited' /\ RunningIsWatched'
  BY DEF RestartingIsAwaited, Awaited, RunningIsWatched
<1>3. OneFactoryPerChild'
  BY DEF OneFactoryPerChild
<1>4. MarkedWhileAwaited'
  <2> SUFFICES ASSUME strategy = "one-for-one", phase # "down" PROVE MarkedWhileAwaited'
    BY DEF MarkedWhileAwaited
  <2>1. status[c] = "crashed" /\ phase # "new"
    BY DEF MarkedWhileAwaited, Known
  <2>2. \A d \in fallback' : status'[d] = "crashed"
    BY DEF MarkedWhileAwaited
  <2>3. ASSUME NEW q \in Walks, Walking(q)
        PROVE  /\ phase = "started" /\ status'[walk[q].at] = "restarting"
               /\ IF walk[q].starts
                    THEN \A d \in Children : d > walk[q].at => status'[d] = "absent"
                    ELSE walk[q].at = walk[q].to
    BY <2>1, <2>3 DEF MarkedWhileAwaited
  <2> QED
    BY <2>1, <2>2, <2>3 DEF MarkedWhileAwaited
<1> QED
  BY <1>1, <1>2, <1>3, <1>4

(* The factory of a child returns or throws.                               *)
LEMMA FactoryStep ==
  ASSUME IInv, NEW p \in Walks, FactoryReturns(p) \/ FactoryFails(p), UNCHANGED config
  PROVE  IInv'
<1>1. CASE FactoryReturns(p)
  <2>1. /\ status' \in [Children -> Statuses]
        /\ walk' \in [Walks -> [at : Children, to : 0 .. Size, starts : BOOLEAN]]
        /\ RestartingIsAwaited' /\ RunningIsWatched'
        /\ OneFactoryPerChild' /\ MarkedWhileAwaited'
    BY <1>1, AdvanceStep DEF FactoryReturns, config
  <2>2. walk[p].at \in Children
    BY DEF IInv, TypeOK
  <2> QED
    BY <1>1, <2>1, <2>2 DEF FactoryReturns, config, IInv, TypeOK
<1>2. CASE FactoryFails(p) /\ ~walk[p].starts
  <2>1. /\ status' \in [Children -> Statuses]
        /\ walk' \in [Walks -> [at : Children, to : 0 .. Size, starts : BOOLEAN]]
        /\ RestartingIsAwaited' /\ RunningIsWatched'
        /\ OneFactoryPerChild' /\ MarkedWhileAwaited'
    BY <1>2, AdvanceStep DEF FactoryFails, config
  <2> QED
    BY <1>2, <2>1 DEF FactoryFails, config, IInv, TypeOK
<1>3. CASE FactoryFails(p) /\ walk[p].starts
  <2> USE <1>3 DEF FactoryFails, config, IInv, TypeOK, Walking
  <2>1. /\ status' = [status EXCEPT ![walk[p].at] = "crashed"]
        /\ walk' = [walk EXCEPT ![p] = Idle] /\ walk[p].at \in Children
        /\ UNCHANGED <<node, heartbeat, restarts, pings, fallback, phase>>
    OBVIOUS
  <2>2. TypeOK'
    BY <2>1, IdleType DEF Statuses
  <2>3. \A q \in Walks : IF q = p THEN ~(walk'[q].at <= walk'[q].to) ELSE walk'[q] = walk[q]
    BY <2>1, IdleType
  <2>4. RestartingIsAwaited'
    BY <2>1, <2>3 DEF RestartingIsAwaited, Awaited
  <2>5. RunningIsWatched'
    BY <2>1 DEF RunningIsWatched
  <2>6. OneFactoryPerChild'
    BY <2>1, <2>3 DEF OneFactoryPerChild
  <2>7. MarkedWhileAwaited'
    <3> SUFFICES ASSUME strategy = "one-for-one", phase # "down" PROVE MarkedWhileAwaited'
      BY DEF MarkedWhileAwaited
    <3>1. phase = "started" /\ status[walk[p].at] = "restarting"
      BY DEF MarkedWhileAwaited
    <3>2. \A d \in fallback' : status'[d] = "crashed"
      BY <2>1 DEF MarkedWhileAwaited
    <3>3. ASSUME NEW q \in Walks, walk'[q].at <= walk'[q].to
          PROVE  /\ status'[walk'[q].at] = "restarting"
                 /\ IF walk'[q].starts
                      THEN \A d \in Children : d > walk'[q].at => status'[d] = "absent"
                      ELSE walk'[q].at = walk'[q].to
      <4>1. q # p /\ walk'[q] = walk[q] /\ walk[q].at # walk[p].at
        BY <2>3, <3>3 DEF OneFactoryPerChild
      <4>2. /\ status[walk[q].at] = "restarting"
            /\ IF walk[q].starts
                 THEN \A d \in Children : d > walk[q].at => status[d] = "absent"
                 ELSE walk[q].at = walk[q].to
        BY <3>3, <4>1 DEF MarkedWhileAwaited
      <4> QED
        BY <2>1, <3>1, <4>1, <4>2
    <3> QED
      BY <2>1, <3>1, <3>2, <3>3 DEF MarkedWhileAwaited
  <2> QED
    BY <2>2, <2>4, <2>5, <2>6, <2>7
<1> QED
  BY <1>1, <1>2, <1>3

(* start(): the walk over all the children.                                *)
LEMMA StartStep ==
  ASSUME IInv, NEW p \in Walks, Start(p), UNCHANGED config
  PROVE  IInv'
<1> USE DEF IInv, TypeOK, Start, config, Walking
<1>1. 1 \in Children /\ Size \in 0 .. Size /\ 1 <= Size
  BY Bounds DEF Children
<1>2. TypeOK'
  BY <1>1 DEF Statuses
<1>3. \A q \in Walks : walk'[q] = IF q = p THEN [at |-> 1, to |-> Size, starts |-> TRUE] ELSE walk[q]
  OBVIOUS
<1>4. RestartingIsAwaited' /\ RunningIsWatched'
  BY <1>1, <1>3 DEF RestartingIsAwaited, Awaited, RunningIsWatched
<1>5. strategy = "one-for-one" => Known = {} /\ \A q \in Walks : ~Walking(q)
  BY DEF MarkedWhileAwaited
<1>6. OneFactoryPerChild'
  BY <1>3, <1>5 DEF OneFactoryPerChild
<1>7. MarkedWhileAwaited'
  <2>1. \A d \in Children : d > 1 => d # 1
    BY Bounds DEF Children
  <2>2. strategy = "one-for-one" => \A d \in Children : d # 1 => status'[d] = "absent"
    BY <1>5 DEF Known
  <2>3. status'[1] = "restarting"
    BY <1>1
  <2>4. strategy = "one-for-one" => fallback' = {}
    BY <1>5 DEF MarkedWhileAwaited, Known
  <2> QED
    BY <1>3, <1>5, <2>1, <2>2, <2>3, <2>4 DEF MarkedWhileAwaited
<1> QED
  BY <1>2, <1>4, <1>6, <1>7

(* For any number of children and overlapping walks.                       *)
THEOREM Invariance == Spec => []IInv
<1>1. Init => IInv
  <2> SUFFICES ASSUME Init PROVE IInv
    OBVIOUS
  <2> USE DEF Init
  <2>1. TypeOK
    <3>1. 0 \in 0 .. MaxRestarts /\ 0 \in 0 .. MaxPings
      BY Bounds
    <3> QED
      BY <3>1, IdleType DEF TypeOK, Statuses
  <2>2. \A p \in Walks : ~Walking(p)
    BY IdleType DEF Walking
  <2> QED
    BY <2>1, <2>2 DEF IInv, RestartingIsAwaited, RunningIsWatched, OneFactoryPerChild,
                      MarkedWhileAwaited, Known
<1>2. IInv /\ [Next]_vars => IInv'
  <2> SUFFICES ASSUME IInv, [Next]_vars PROVE IInv'
    OBVIOUS
  <2>1. ASSUME NEW p \in Walks, Start(p), UNCHANGED config PROVE IInv'
    BY <2>1, StartStep
  <2>2. ASSUME NEW p \in Walks, FactoryReturns(p) \/ FactoryFails(p), UNCHANGED config PROVE IInv'
    BY <2>2, FactoryStep
  <2>3. ASSUME NEW c \in Children, Report(c), UNCHANGED config PROVE IInv'
    BY <2>3, CrashStep DEF Report, config, IInv, TypeOK
  <2>4. ASSUME NEW c \in Children, FallbackReturns(c), UNCHANGED config PROVE IInv'
    BY <2>4, FallbackStep
  <2>5. ASSUME NEW c \in Children, Expire(c) \/ Ping(c) \/ Pong(c), UNCHANGED config PROVE IInv'
    <3> USE <2>5 DEF Expire, Ping, Pong, config, IInv
    <3>1. restarts' \in [Children -> 0 .. MaxRestarts] /\ pings' \in [Children -> 0 .. MaxPings]
      BY Bounds DEF TypeOK
    <3>2. TypeOK'
      BY <3>1 DEF TypeOK
    <3> QED
      BY <3>2 DEF RestartingIsAwaited, Awaited, Walking, RunningIsWatched,
                  OneFactoryPerChild, MarkedWhileAwaited, Known
  <2>6. ASSUME NEW c \in Children, PingFails(c), UNCHANGED config PROVE IInv'
    <3>1. pings' \in [Children -> 0 .. MaxPings]
      BY <2>6, Bounds DEF PingFails, IInv, TypeOK
    <3> QED
      BY <2>6, <3>1, CrashStep DEF PingFails, config
  <2>7. ASSUME Shutdown, UNCHANGED config PROVE IInv'
    <3> USE <2>7 DEF Shutdown, config, IInv
    <3>1. TypeOK'
      BY DEF TypeOK, Statuses
    <3> QED
      BY <3>1 DEF RestartingIsAwaited, RunningIsWatched, OneFactoryPerChild, MarkedWhileAwaited
  <2>8. CASE UNCHANGED vars
    BY <2>8 DEF vars, IInv, TypeOK, RestartingIsAwaited, Awaited, Walking, RunningIsWatched,
                OneFactoryPerChild, MarkedWhileAwaited, Known
  <2> QED
    BY <2>1, <2>2, <2>3, <2>4, <2>5, <2>6, <2>7, <2>8 DEF Next, Step
<1> QED
  BY <1>1, <1>2, PTL DEF Spec

(* A restarting child always has a factory in flight, and a running child  *)
(* a node and a heartbeat.                                                 *)
THEOREM NoChildIsForgotten == Spec => [](RestartingIsAwaited /\ RunningIsWatched)
<1>1. IInv => RestartingIsAwaited /\ RunningIsWatched
  BY DEF IInv
<1> QED
  BY <1>1, Invariance, PTL

(* Until shutdown, one-for-one never restarts a child twice at a time.     *)
THEOREM OneFactoryAtATime == Spec => []OneFactoryPerChild
<1>1. IInv => OneFactoryPerChild
  BY DEF IInv
<1> QED
  BY <1>1, Invariance, PTL

-----------------------------------------------------------------------------
(* A fork of agents.                                                       *)
Heard(s) == Fork!Range(s)

(* A fork, its coordinator, and what follows.                              *)
ForkTypes ==
  /\ consensus \in {"none", "vote", "judge", "debate"}
  /\ agent \in [Nodes -> {"running", "written", "done", "failed"}]
  /\ output \in [Nodes -> Texts]
  /\ results \in Seq(Nodes) /\ errors \in SUBSET Nodes
  /\ outcome \in {"open", "resolved", "rejected"} /\ taken \in Seq(Nodes)
  /\ stage \in {"waiting", "thrown", "evaluating", "returned"}
  /\ said \in Seq(Texts)

(* The coordinator heard of a node what happened to it, and heard it once. *)
Reports ==
  /\ \A n \in Heard(results) : agent[n] = "done"
  /\ \A n \in errors : agent[n] = "failed"
  /\ Cardinality(Heard(results)) = Len(results)

(* It settles on what it heard until then.                                 *)
Settled ==
  /\ outcome = "resolved" => Len(results) >= Fork!MinResults /\ taken = results
  /\ outcome = "rejected" => Len(results) < Fork!MinResults

(* Nothing follows before the fork is settled and its nodes have ended.    *)
Staged ==
  /\ stage # "waiting" => outcome # "open" /\ Fork!NoneRunning
  /\ stage \in {"evaluating", "returned"} => outcome = "resolved"
  /\ stage = "evaluating" => consensus \in {"judge", "debate"}
  /\ stage = "waiting" \/ (stage = "evaluating" /\ consensus = "judge") => said = <<>>

(* The answer is one of those given, or what the model made of them.       *)
Answered ==
  stage = "returned" =>
    /\ consensus = "vote" =>
         \A t \in Texts : Fork!Cardinality(Fork!Saying(t)) <= Fork!Cardinality(Fork!Saying(answer))
    /\ answer \in {output[n] : n \in Heard(taken)} \cup Fork!Range(said)
    /\ consensus = "debate" /\ said # <<>> =>
         answer = Fork!Last(said) \/ (Fork!Last(said) = Empty /\ answer = output[taken[1]])

ForkInv == ForkTypes /\ Reports /\ Settled /\ Staged /\ Answered

(* Cardinality is the same operator in the instance.                       *)
LEMMA SameCount == \A S : Fork!Cardinality(S) = Cardinality(S)
BY Zenon DEF Fork!Cardinality, Cardinality

(* A fork never settles for less than one result.                          *)
LEMMA Needed ==
  /\ Fork!Total \in Nat /\ Fork!Total = Cardinality(Nodes)
  /\ Fork!MinResults \in Nat \ {0}
<1>1. Fork!Total = Cardinality(Nodes) /\ Cardinality(Nodes) \in Nat
  BY ForkAssumption, SameCount, FS_CardinalityType DEF Fork!Total
<1> DEFINE half == (Fork!Total + 1) \div 2
<1>2. half \in Nat
  BY <1>1
<1>3. \E x \in {1, half} : \A y \in {1, half} : x >= y
  <2> HIDE DEF half
  <2>1. CASE half >= 1 BY <1>2, <2>1
  <2>2. CASE half < 1 BY <1>2, <2>2
  <2> QED BY <2>1, <2>2, <1>2
<1>4. Fork!Max({1, half}) \in {1, half} /\ Fork!Max({1, half}) >= 1
  <2> HIDE DEF half
  <2> QED BY <1>3 DEF Fork!Max
<1> QED
  BY <1>1, <1>2, <1>4 DEF Fork!MinResults

(* onNodeComplete() adds one node to the results.                          *)
LEMMA HeardAppend ==
  ASSUME NEW s \in Seq(Nodes), NEW n \in Nodes
  PROVE  Heard(Append(s, n)) = Heard(s) \cup {n} /\ Append(s, n) \in Seq(Nodes) /\ Len(Append(s, n)) = Len(s) + 1
<1>1. /\ Append(s, n) \in Seq(Nodes) /\ Len(Append(s, n)) = Len(s) + 1
      /\ \A i \in 1 .. Len(s) : Append(s, n)[i] = s[i]
      /\ Append(s, n)[Len(s) + 1] = n
  BY AppendProperties
<1>2. Len(s) \in Nat /\ DOMAIN s = 1 .. Len(s) /\ DOMAIN Append(s, n) = 1 .. Len(s) + 1
  BY <1>1, LenProperties
<1>3. 1 .. Len(s) + 1 = 1 .. Len(s) \cup {Len(s) + 1}
  BY <1>2
<1>4. Heard(Append(s, n)) = Heard(s) \cup {n}
  BY <1>1, <1>2, <1>3, Zenon DEF Heard, Fork!Range
<1> QED
  BY <1>1, <1>4

(* A node is among the results when it is at some place of them.           *)
LEMMA HeardIn ==
  ASSUME NEW s \in Seq(Nodes)
  PROVE  /\ Heard(s) \in SUBSET Nodes /\ Len(s) \in Nat
         /\ \A i \in 1 .. Len(s) : s[i] \in Heard(s)
         /\ \A x \in Heard(s) : \E i \in 1 .. Len(s) : s[i] = x
BY LenProperties, ElementOfSeq DEF Heard, Fork!Range

(* A set of numbers has a least one.                                       *)
LEMMA Smallest ==
  ASSUME NEW S \in SUBSET Nat, S # {}
  PROVE  \E x \in S : \A y \in S : x <= y
<1>1. PICK x \in S : \A y \in S : <<y, x>> \notin OpToRel(<, Nat)
  BY WFMin, NatLessThanWellFounded, Zenon
<1>2. \A y \in S : ~(y < x)
  BY <1>1, Zenon DEF OpToRel
<1> QED
  BY <1>2

(* What Min returns is in the set.                                         *)
LEMMA MinIsLeast ==
  ASSUME NEW S \in SUBSET Nat, S # {}
  PROVE  Fork!Min(S) \in S
BY Smallest DEF Fork!Min

(* What resolveConsensus() counts most often is an answer it was given,    *)
(* and no text was given more often.                                       *)
LEMMA MajorityIsLargest ==
  ASSUME taken \in Seq(Nodes), Len(taken) >= 1, output \in [Nodes -> Texts]
  PROVE  \E i \in 1 .. Len(taken) :
           /\ Fork!Majority = output[taken[i]]
           /\ \A t \in Texts : Fork!Cardinality(Fork!Saying(t)) <= Fork!Cardinality(Fork!Saying(Fork!Majority))
<1> DEFINE size(i) == Fork!Cardinality(Fork!Saying(output[taken[i]]))
           N == Cardinality(Nodes)
           best == {i \in DOMAIN taken : \A j \in DOMAIN taken : size(j) <= size(i)}
           gaps == {N - size(i) : i \in DOMAIN taken}
<1>1. /\ DOMAIN taken = 1 .. Len(taken) /\ Len(taken) \in Nat
      /\ \A i \in 1 .. Len(taken) : taken[i] \in Heard(taken)
      /\ Heard(taken) \in SUBSET Nodes
      /\ \A x \in Heard(taken) : \E i \in 1 .. Len(taken) : taken[i] = x
  BY HeardIn, LenProperties
<1>2. \A t : /\ Fork!Cardinality(Fork!Saying(t)) \in Nat
             /\ Fork!Cardinality(Fork!Saying(t)) <= N
  <2> TAKE t
  <2>1. Fork!Saying(t) \in SUBSET Nodes
    BY <1>1 DEF Fork!Saying, Heard
  <2> QED
    BY ForkAssumption, <2>1, SameCount, FS_Subset, FS_CardinalityType
<1>3. N \in Nat
  BY ForkAssumption, FS_CardinalityType
<1> HIDE DEF N
<1>4. \A i \in DOMAIN taken : size(i) \in Nat /\ size(i) <= N
  BY <1>2
<1> HIDE DEF size
<1>5. gaps \in SUBSET Nat /\ gaps # {}
  <2>1. 1 \in DOMAIN taken
    BY <1>1
  <2>2. \A i \in DOMAIN taken : N - size(i) \in Nat
    BY <1>3, <1>4
  <2> QED
    BY <2>1, <2>2
<1>6. PICK i \in DOMAIN taken : \A j \in DOMAIN taken : N - size(i) <= N - size(j)
  <2>1. PICK x \in gaps : \A y \in gaps : x <= y
    BY <1>5, Smallest
  <2> QED
    BY <2>1
<1>7. i \in best
  <2>1. \A j \in DOMAIN taken : size(j) <= size(i)
    BY <1>3, <1>4, <1>6
  <2> QED
    BY <2>1
<1>8. best \in SUBSET Nat /\ best # {}
  BY <1>1, <1>7
<1> DEFINE m == Fork!Min(best)
<1>9. m \in best
  BY <1>8, MinIsLeast
<1>10. Fork!Majority = output[taken[m]]
  BY DEF Fork!Majority, size
<1> HIDE DEF m
<1>11. \A t \in Texts : Fork!Cardinality(Fork!Saying(t)) <= size(m)
  <2> TAKE t \in Texts
  <2>1. CASE \E n \in Heard(taken) : output[n] = t
    <3>1. PICK j \in DOMAIN taken : output[taken[j]] = t
      BY <1>1, <2>1
    <3> QED
      BY <1>9, <3>1 DEF size
  <2>2. CASE ~ \E n \in Heard(taken) : output[n] = t
    <3>1. Fork!Saying(t) = {}
      BY <2>2 DEF Fork!Saying, Heard
    <3>2. Fork!Cardinality(Fork!Saying(t)) = 0
      BY <3>1, SameCount, FS_EmptySet
    <3> QED
      BY <1>4, <1>9, <3>2
  <2> QED
    BY <2>1, <2>2
<1> QED
  BY <1>1, <1>9, <1>10, <1>11 DEF size

(* The nodes heard of are no more than were forked.                        *)
LEMMA NotTooMany ==
  ASSUME ForkTypes, Reports
  PROVE  /\ Len(results) \in Nat /\ Cardinality(errors) \in Nat
         /\ Len(results) + Cardinality(errors) <= Fork!Total
<1>1. /\ Heard(results) \in SUBSET Nodes /\ errors \in SUBSET Nodes
      /\ IsFiniteSet(Heard(results)) /\ IsFiniteSet(errors) /\ Len(results) \in Nat
  BY ForkAssumption, HeardIn, FS_Subset DEF ForkTypes
<1>2. Heard(results) \cap errors = {}
  BY DEF Reports
<1>3. Cardinality(Heard(results) \cup errors) = Len(results) + Cardinality(errors) - 0
  BY <1>1, <1>2, FS_Union, FS_EmptySet DEF Reports
<1>4. Cardinality(Heard(results) \cup errors) <= Fork!Total
  BY ForkAssumption, <1>1, FS_Subset, Needed
<1>5. Cardinality(errors) \in Nat
  BY <1>1, FS_CardinalityType
<1> QED
  BY <1>1, <1>3, <1>4, <1>5

(* onNodeComplete() keeps the invariant, whether or not it settles the     *)
(* fork.                                                                   *)
LEMMA CompleteKeeps ==
  ASSUME ForkInv, NEW n \in Nodes, Fork!Complete(n)
  PROVE  ForkInv'
<1>1. agent[n] = "written" /\ agent' = [agent EXCEPT ![n] = "done"] /\ stage = "waiting"
      /\ UNCHANGED <<consensus, output, stage, said, answer>>
  BY DEF Fork!Complete, Fork!evaluation, ForkInv, Staged, Fork!NoneRunning
<1>2. CASE outcome # "open"
  <2>1. UNCHANGED <<results, errors, outcome, taken>>
    BY <1>2 DEF Fork!Complete, Fork!OnNodeComplete, Fork!coordinator
  <2> QED
    BY <1>1, <2>1 DEF ForkInv, ForkTypes, Reports, Settled, Staged, Answered
<1>3. CASE outcome = "open"
  <2>1. results' = Append(results, n) /\ errors' = errors
        /\ IF Fork!Resolves(results', errors) THEN Fork!Settle("resolved", results')
           ELSE UNCHANGED <<outcome, taken>>
    BY <1>3, Zenon DEF Fork!Complete, Fork!OnNodeComplete
  <2>2. /\ results' \in Seq(Nodes) /\ Heard(results') = Heard(results) \cup {n}
        /\ Len(results') = Len(results) + 1
    BY <2>1, HeardAppend DEF ForkInv, ForkTypes
  <2>3. n \notin Heard(results) /\ n \notin errors
    BY <1>1 DEF ForkInv, Reports
  <2>4. Cardinality(Heard(results')) = Len(results')
    <3>1. IsFiniteSet(Heard(results)) /\ Cardinality(Heard(results)) = Len(results)
      BY ForkAssumption, HeardIn, FS_Subset DEF ForkInv, ForkTypes, Reports
    <3> QED
      BY <2>2, <2>3, <3>1, FS_AddElement
  <2>5. /\ agent' \in [Nodes -> {"running", "written", "done", "failed"}]
        /\ \A x \in Nodes \ {n} : agent'[x] = agent[x]
        /\ agent'[n] = "done"
    BY <1>1 DEF ForkInv, ForkTypes
  <2>6. Reports'
    <3>1. Heard(results) \in SUBSET Nodes /\ errors \in SUBSET Nodes
      BY HeardIn DEF ForkInv, ForkTypes
    <3>2. Heard(results)' = Heard(results')
      BY DEF Heard, Fork!Range
    <3>3. \A x \in Heard(results') : agent'[x] = "done"
      <4>1. \A x \in Heard(results) : agent[x] = "done"
        BY DEF ForkInv, Reports
      <4>2. \A x \in Heard(results) \cup {n} : agent'[x] = "done"
        BY <2>5, <3>1, <4>1
      <4> QED
        BY <2>2, <4>2
    <3>4. \A x \in errors' : agent'[x] = "failed"
      BY <2>1, <2>3, <2>5, <3>1 DEF ForkInv, Reports
    <3> QED
      BY <2>4, <3>2, <3>3, <3>4 DEF Reports
  <2>7. \/ outcome' = "resolved" /\ taken' = results' /\ Len(results') >= Fork!MinResults
        \/ outcome' = "open" /\ taken' = taken
    BY <1>3, <2>1 DEF Fork!Settle, Fork!Resolves, Fork!Enough
  <2>8. ForkTypes'
    BY <1>1, <2>1, <2>2, <2>5, <2>7 DEF ForkInv, ForkTypes
  <2>9. Fork!MinResults' = Fork!MinResults
    BY DEF Fork!MinResults, Fork!Total
  <2> QED
    BY <1>1, <2>6, <2>7, <2>8 DEF ForkInv, Settled, Staged, Answered
<1> QED
  BY <1>2, <1>3

(* So does onNodeError(): the fork is rejected when too few nodes are      *)
(* left.                                                                   *)
LEMMA FailKeeps ==
  ASSUME ForkInv, NEW n \in Nodes, Fork!Fail(n)
  PROVE  ForkInv'
<1>1. agent[n] \in {"running", "written"} /\ agent' = [agent EXCEPT ![n] = "failed"] /\ stage = "waiting"
      /\ UNCHANGED <<consensus, output, stage, said, answer>>
  BY DEF Fork!Fail, Fork!evaluation, ForkInv, Staged, Fork!NoneRunning
<1>2. CASE outcome # "open"
  <2>1. UNCHANGED <<results, errors, outcome, taken>>
    BY <1>2 DEF Fork!Fail, Fork!OnNodeError, Fork!coordinator
  <2> QED
    BY <1>1, <2>1 DEF ForkInv, ForkTypes, Reports, Settled, Staged, Answered
<1>3. CASE outcome = "open"
  <2>1. errors' = errors \cup {n} /\ results' = results
        /\ IF Fork!Rejects(errors') THEN Fork!Settle("rejected", <<>>)
           ELSE IF Fork!Resolves(results, errors') THEN Fork!Settle("resolved", results)
           ELSE UNCHANGED <<outcome, taken>>
    BY <1>3, Zenon DEF Fork!Fail, Fork!OnNodeError
  <2>2. /\ agent' \in [Nodes -> {"running", "written", "done", "failed"}]
        /\ \A x \in Nodes \ {n} : agent'[x] = agent[x]
        /\ agent'[n] = "failed"
    BY <1>1 DEF ForkInv, ForkTypes
  <2>3. Reports'
    <3>1. Heard(results)' = Heard(results)
      BY <2>1 DEF Heard, Fork!Range
    <3>2. Heard(results) \in SUBSET Nodes /\ errors \in SUBSET Nodes
      BY HeardIn DEF ForkInv, ForkTypes
    <3> QED
      BY <1>1, <2>1, <2>2, <3>1, <3>2 DEF ForkInv, Reports
  <2>4. \/ outcome' = "resolved" /\ taken' = results /\ Len(results) >= Fork!MinResults
        \/ outcome' = "rejected" /\ taken' = <<>> /\ Fork!Cardinality(errors') > Fork!Total - Fork!MinResults
        \/ outcome' = "open" /\ taken' = taken
    BY <1>3, <2>1 DEF Fork!Settle, Fork!Resolves, Fork!Enough, Fork!Rejects
  <2>5. ForkTypes'
    <3>1. errors' \in SUBSET Nodes /\ results' \in Seq(Nodes)
      BY <2>1 DEF ForkInv, ForkTypes
    <3>2. taken' \in Seq(Nodes) /\ outcome' \in {"open", "resolved", "rejected"}
      BY <2>4, EmptySeq DEF ForkInv, ForkTypes
    <3> QED
      BY <1>1, <2>2, <3>1, <3>2 DEF ForkInv, ForkTypes
  <2>6. outcome' = "rejected" => Len(results) < Fork!MinResults
    <3>1. /\ Len(results) \in Nat /\ Cardinality(errors') \in Nat
          /\ Len(results) + Cardinality(errors') <= Fork!Total
      <4>1. (ForkTypes /\ Reports =>
              /\ Len(results) \in Nat /\ Cardinality(errors) \in Nat
              /\ Len(results) + Cardinality(errors) <= Fork!Total)'
        BY NotTooMany, PTL
      <4> QED
        BY <2>1, <2>3, <2>5, <4>1 DEF Fork!Total
    <3> QED
      BY <2>4, <3>1, Needed, SameCount
  <2>7. Fork!MinResults' = Fork!MinResults
    BY DEF Fork!MinResults, Fork!Total
  <2> QED
    BY <1>1, <2>1, <2>3, <2>4, <2>5, <2>6 DEF ForkInv, Settled, Staged, Answered
<1> QED
  BY <1>2, <1>3

(* So do the timeout and what a node writes before it is done.             *)
LEMMA RestKeeps ==
  ASSUME ForkInv,
         Fork!Timeout \/ \E n \in Nodes, text \in Texts : Fork!Write(n, text)
  PROVE  ForkInv'
<1>1. CASE Fork!Timeout
  <2>1. /\ outcome = "open" /\ stage = "waiting"
        /\ UNCHANGED <<consensus, agent, output, results, errors, stage, said, answer>>
        /\ \/ outcome' = "resolved" /\ taken' = results /\ Len(results) >= Fork!MinResults
           \/ outcome' = "rejected" /\ taken' = <<>> /\ ~(Len(results) >= Fork!MinResults)
    BY <1>1 DEF Fork!Timeout, Fork!agents, Fork!evaluation, Fork!Settle, Fork!Enough, ForkInv, Staged
  <2>2. outcome' = "rejected" => Len(results) < Fork!MinResults
    BY <2>1, Needed, HeardIn DEF ForkInv, ForkTypes
  <2>3. ForkTypes' /\ Reports'
    BY <2>1, EmptySeq DEF ForkInv, ForkTypes, Reports, Heard, Fork!Range
  <2> QED
    BY <2>1, <2>2, <2>3 DEF ForkInv, Settled, Staged, Answered
<1>2. ASSUME NEW n \in Nodes, NEW text \in Texts, Fork!Write(n, text)
      PROVE  ForkInv'
  <2>1. /\ agent[n] = "running" /\ stage = "waiting"
        /\ agent' = [agent EXCEPT ![n] = "written"] /\ output' = [output EXCEPT ![n] = text]
        /\ UNCHANGED <<consensus, results, errors, outcome, taken, stage, said, answer>>
    BY <1>2 DEF Fork!Write, Fork!coordinator, Fork!evaluation, ForkInv, Staged, Fork!NoneRunning
  <2>2. ForkTypes' /\ Reports'
    BY <2>1 DEF ForkInv, ForkTypes, Reports
  <2> QED
    BY <2>1, <2>2 DEF ForkInv, Settled, Staged, Answered
<1> QED
  BY <1>1, <1>2

(* So does what follows the race: the fork throws, votes, judges or        *)
(* debates.                                                                *)
LEMMA ReturnKeeps ==
  ASSUME ForkInv, Fork!Collect \/ Fork!Judge \/ Fork!JudgeFails \/ Fork!DebateFails
                                      \/ \E text \in Texts : Fork!Debate(text)
  PROVE  ForkInv'
<1>1. UNCHANGED <<consensus, agent, output, results, errors, outcome, taken>>
  BY Zenon DEF Fork!Collect, Fork!Judge, Fork!JudgeFails, Fork!DebateFails, Fork!Debate, Fork!agents, Fork!coordinator
<1>2. Reports' /\ Settled'
  BY <1>1 DEF ForkInv, Reports, Settled
<1>3. outcome # "open" /\ Fork!NoneRunning
  BY DEF Fork!Collect, Fork!GoesOn, Fork!Judge, Fork!JudgeFails, Fork!DebateFails, Fork!Debate, ForkInv, Staged
<1>4. outcome = "resolved" =>
        /\ Len(taken) >= 1 /\ taken \in Seq(Nodes) /\ 1 \in 1 .. Len(taken)
        /\ \A i \in 1 .. Len(taken) : output[taken[i]] \in {output[n] : n \in Heard(taken)}
  <2>1. outcome = "resolved" => taken \in Seq(Nodes) /\ Len(taken) >= 1 /\ Len(taken) \in Nat
    BY HeardIn, Needed DEF ForkInv, ForkTypes, Settled
  <2> QED
    BY <2>1, HeardIn
<1> DEFINE Given == {output[n] : n \in Heard(taken)}
           Right(text, words) ==
             /\ outcome = "resolved"
             /\ consensus = "vote" =>
                  \A t \in Texts : Fork!Cardinality(Fork!Saying(t)) <= Fork!Cardinality(Fork!Saying(text))
             /\ text \in Given \cup Fork!Range(words)
             /\ consensus = "debate" /\ words # <<>> =>
                  text = Fork!Last(words) \/ (Fork!Last(words) = Empty /\ text = output[taken[1]])
<1>5. ASSUME said' \in Seq(Texts), Fork!Return(answer'), Right(answer', said')
      PROVE  ForkInv'
  <2>1. stage' = "returned"
    BY <1>5 DEF Fork!Return
  <2>2. ForkTypes'
    BY <1>1, <1>5, <2>1 DEF ForkInv, ForkTypes
  <2>3. Staged'
    BY <1>1, <1>3, <1>5, <2>1 DEF Staged, Fork!NoneRunning
  <2>4. \A t : Fork!Saying(t)' = Fork!Saying(t)
    BY <1>1 DEF Fork!Saying
  <2>5. Answered'
    BY <1>1, <1>5, <2>4 DEF Answered, Heard, Fork!Saying
  <2> QED
    BY <1>2, <2>2, <2>3, <2>5 DEF ForkInv
<1>6. CASE Fork!Collect
  <2>1. stage = "waiting" /\ said' = said /\ said = <<>>
    BY <1>6 DEF Fork!Collect, ForkInv, Staged
  <2>2. CASE outcome = "rejected"
    <3>1. stage' = "thrown" /\ answer' = answer
      BY <1>6, <2>2 DEF Fork!Collect
    <3> QED
      BY <1>1, <1>2, <1>3, <2>1, <2>2, <3>1 DEF ForkInv, ForkTypes, Staged, Answered, Fork!NoneRunning
  <2>3. CASE outcome = "resolved" /\ stage' = "evaluating"
    <3>1. consensus \in {"judge", "debate"}
      BY <1>6, <2>3 DEF Fork!Collect, Fork!Return, ForkInv, ForkTypes
    <3> QED
      BY <1>1, <1>2, <1>3, <2>1, <2>3, <3>1 DEF ForkInv, ForkTypes, Staged, Answered, Fork!NoneRunning
  <2>4. CASE outcome = "resolved" /\ stage' # "evaluating"
    <3>1. Fork!Return(answer')
          /\ \/ consensus # "vote" /\ answer' = output[taken[1]]
             \/ consensus = "vote" /\ answer' = Fork!Majority
      BY <1>6, <2>4 DEF Fork!Collect, Fork!Return
    <3>2. CASE consensus # "vote"
      BY <1>4, <1>5, <2>1, <2>4, <3>1, <3>2 DEF ForkInv, ForkTypes
    <3>3. CASE consensus = "vote"
      <4>1. PICK i \in 1 .. Len(taken) :
              /\ Fork!Majority = output[taken[i]]
              /\ \A t \in Texts : Fork!Cardinality(Fork!Saying(t)) <= Fork!Cardinality(Fork!Saying(Fork!Majority))
        BY <1>4, <2>4, MajorityIsLargest DEF ForkInv, ForkTypes
      <4>2. answer' = Fork!Majority /\ answer' \in Given
        BY <1>4, <2>4, <3>1, <3>3, <4>1
      <4>3. Right(answer', said')
        BY <2>1, <2>4, <3>3, <4>1, <4>2
      <4> QED
        BY <1>5, <2>1, <3>1, <4>3 DEF ForkInv, ForkTypes
    <3> QED
      BY <3>2, <3>3
  <2> QED
    BY <1>3, <2>2, <2>3, <2>4 DEF ForkInv, ForkTypes
<1>7. CASE Fork!Judge
  <2>1. stage = "evaluating" /\ consensus = "judge" /\ outcome = "resolved" /\ said = <<>>
    BY <1>7 DEF Fork!Judge, ForkInv, Staged
  <2>2. ASSUME NEW text \in Texts, said' = <<text>>, Fork!Return(text)
        PROVE  ForkInv'
    <3>1. said' \in Seq(Texts) /\ answer' = text /\ text \in Fork!Range(said')
      BY <2>2 DEF Fork!Return, Fork!Range
    <3> QED
      BY <1>5, <2>1, <2>2, <3>1
  <2>3. ASSUME NEW i \in DOMAIN taken, Fork!Return(output[taken[i]]), UNCHANGED said
        PROVE  ForkInv'
    <3>1. answer' = output[taken[i]] /\ answer' \in Given
      BY <1>4, <2>1, <2>3, LenProperties DEF Fork!Return
    <3> QED
      BY <1>5, <2>1, <2>3, <3>1 DEF ForkInv, ForkTypes
  <2> QED
    BY <1>7, <2>2, <2>3 DEF Fork!Judge
<1>8. CASE Fork!JudgeFails
  <2>1. stage = "evaluating" /\ consensus = "judge" /\ outcome = "resolved"
        /\ said' = said /\ said \in Seq(Texts) /\ Fork!Return(output[taken[1]]) /\ answer' = output[taken[1]]
    BY <1>8 DEF Fork!JudgeFails, Fork!Return, ForkInv, ForkTypes, Staged
  <2> QED
    BY <1>4, <1>5, <2>1
<1>9. ASSUME NEW text \in Texts, Fork!Debate(text)
      PROVE  ForkInv'
  <2>1. stage = "evaluating" /\ consensus = "debate" /\ outcome = "resolved"
        /\ said \in Seq(Texts) /\ said' = Append(said, text)
    BY <1>9 DEF Fork!Debate, ForkInv, ForkTypes, Staged
  <2>2. said' \in Seq(Texts) /\ Fork!Last(said') = text /\ text \in Fork!Range(said')
    <3>1. /\ said' \in Seq(Texts) /\ Len(said') = Len(said) + 1 /\ said'[Len(said) + 1] = text
          /\ Len(said) \in Nat /\ DOMAIN said' = 1 .. Len(said')
      BY <2>1, AppendProperties, LenProperties
    <3>2. Len(said') \in DOMAIN said' /\ said'[Len(said')] = text
      BY <3>1
    <3> QED
      BY <3>1, <3>2 DEF Fork!Last, Fork!Range
  <2>3. CASE UNCHANGED <<stage, answer>>
    <3>1. ForkTypes'
      BY <1>1, <2>1, <2>2, <2>3 DEF ForkInv, ForkTypes
    <3> QED
      BY <1>1, <1>2, <1>3, <2>1, <2>3, <3>1 DEF ForkInv, Staged, Answered, Fork!NoneRunning
  <2>4. CASE Fork!Return(text)
    <3>1. answer' = text
      BY <2>4 DEF Fork!Return
    <3> QED
      BY <1>5, <2>1, <2>2, <2>4, <3>1
  <2> QED
    BY <1>9, <2>3, <2>4 DEF Fork!Debate
<1>10. CASE Fork!DebateFails
  <2>1. stage = "evaluating" /\ consensus = "debate" /\ outcome = "resolved"
        /\ said' = said /\ said \in Seq(Texts) /\ Fork!Return(answer')
        /\ answer' = IF Fork!Synthesis = Empty THEN output[taken[1]] ELSE Fork!Synthesis
    BY <1>10 DEF Fork!DebateFails, Fork!Return, ForkInv, ForkTypes, Staged
  <2>2. CASE Fork!Synthesis = Empty
    <3>1. answer' = output[taken[1]] /\ answer' \in Given
      BY <1>4, <2>1, <2>2
    <3>2. said # <<>> => Fork!Last(said) = Empty
      BY <2>2 DEF Fork!Synthesis
    <3> QED
      BY <1>5, <2>1, <3>1, <3>2
  <2>3. CASE Fork!Synthesis # Empty
    <3>1. said # <<>> /\ answer' = Fork!Last(said)
      BY <2>1, <2>3 DEF Fork!Synthesis
    <3>2. Len(said) \in DOMAIN said
      BY <2>1, <3>1, EmptySeq, LenProperties
    <3>3. Fork!Last(said) \in Fork!Range(said)
      BY <3>2 DEF Fork!Last, Fork!Range
    <3> QED
      BY <1>5, <2>1, <3>1, <3>3
  <2> QED
    BY <2>2, <2>3
<1> QED
  BY <1>6, <1>7, <1>8, <1>9, <1>10

(* The invariant holds of every fork of any finite set of nodes.           *)
THEOREM ForkInvariance == Fork!Spec => []ForkInv
<1>1. Fork!Init => ForkInv
  <2> SUFFICES ASSUME Fork!Init PROVE ForkInv
    OBVIOUS
  <2> USE DEF Fork!Init
  <2>1. Heard(results) = {}
    BY DEF Heard, Fork!Range
  <2>2. ForkTypes /\ Settled /\ Staged /\ Answered
    BY ForkAssumption DEF ForkTypes, Settled, Staged, Answered
  <2>3. Reports
    BY <2>1, FS_EmptySet DEF Reports
  <2> QED
    BY <2>2, <2>3 DEF ForkInv
<1>2. ForkInv /\ [Fork!Next]_Fork!vars => ForkInv'
  <2>1. CASE UNCHANGED Fork!vars
    BY <2>1 DEF Fork!vars, Fork!agents, Fork!coordinator, Fork!evaluation, ForkInv, ForkTypes, Reports,
                Settled, Staged, Answered, Fork!NoneRunning, Heard, Fork!Range, Fork!Saying, Fork!Last
  <2> QED
    BY <2>1, CompleteKeeps, FailKeeps, RestKeeps, ReturnKeeps DEF Fork!Next
<1> QED
  BY <1>1, <1>2, PTL DEF Fork!Spec

(* ForkAnswers holds of every fork, whatever the nodes say and however     *)
(* many rounds are debated: forkNode() and executeForkTask() return what   *)
(* enough nodes completed with.                                            *)
THEOREM ForksAnswer == Fork!Spec => []ForkAnswers
<1>1. ForkInv => Fork!ForkAnswers
  <2> SUFFICES ASSUME ForkInv PROVE Fork!ForkAnswers
    OBVIOUS
  <2>1. outcome = "resolved" => Fork!Enough(taken) /\ results = taken
    BY DEF ForkInv, Settled, Fork!Enough
  <2>2. outcome = "rejected" => ~Fork!Enough(results) /\ stage \notin {"evaluating", "returned"}
    BY HeardIn, Needed DEF ForkInv, ForkTypes, Settled, Staged, Fork!Enough
  <2>3. stage # "waiting" => Fork!NoneRunning
    BY DEF ForkInv, Staged
  <2>4. \A t : {n \in Fork!Range(taken) : output[n] = t} = Fork!Saying(t)
    BY DEF Fork!Saying
  <2>5. stage = "returned" => \A n \in Fork!Range(taken) : agent[n] = "done"
    BY DEF ForkInv, Staged, Settled, Reports, Heard
  <2> QED
    BY <2>1, <2>2, <2>3, <2>4, <2>5 DEF Fork!ForkAnswers, ForkInv, Answered, Heard
<1> QED
  BY <1>1, ForkInvariance, PTL DEF ForkAnswers

-----------------------------------------------------------------------------
(* Tools that ask the user.                                                *)

Spelled == Words \cup {"blank"}
Files == [Paths -> Seq(Spelled)]
Trees == [work : Files, index : Files, head : Files]

(* What is staged when the call asks.                                      *)
StagedBy(r, from) == IF r.does = "gitCommit" THEN Cli!Add(r.paths, from.work, from.index) ELSE from.index

(* A call has looked and shows what it is to do.                           *)
Prepared(r, from, staged, shown) ==
  /\ r \in Requests /\ from \in Trees
  /\ staged = Cli!StagedFiles(from.index, from.head)
  /\ shown \in Seq(Spelled)
  /\ r.does = "createFile" => from.work[r.path] = Cli!Absent
  /\ r.does = "editFile" =>
       \E i \in DOMAIN from.work[r.path] : shown = [from.work[r.path] EXCEPT ![i] = r.word]

Entries == [at : {"refused", "waits", "asked", "told", "done"}, request : Requests, behind : SUBSET Calls,
            staged : SUBSET Paths, yes : BOOLEAN, failed : BOOLEAN, alone : BOOLEAN, met : BOOLEAN,
            from : Trees, to : Trees, shown : Seq(Spelled)]

(* The files in the three places, and the calls.                           *)
CliTypes ==
  /\ mode \in {"repl", "chat", "pipe"} /\ yolo \in BOOLEAN
  /\ work \in Files /\ index \in Files /\ head \in Files /\ born \in BOOLEAN
  /\ lock \in SUBSET Calls
  /\ call \in [Calls -> {[at |-> "idle"]} \cup Entries]

(* The questions of the REPL come one behind the other.                    *)
InTurn(n, k, rank) ==
  /\ n \in Nat /\ k \in 0 .. n /\ rank \in [Calls -> 0 .. n]
  /\ \A c \in Calls : call[c].at \in {"waits", "asked", "told", "done"} <=> rank[c] > 0
  /\ \A c, d \in Calls : rank[c] > 0 /\ rank[c] = rank[d] => c = d
  /\ \A i \in 1 .. n : \E c \in Calls : rank[c] = i
  /\ \A c, d \in Calls : rank[c] > 0 => (d \in call[c].behind <=> rank[d] > 0 /\ rank[d] + 1 = rank[c])
  /\ lock = {c \in Calls : rank[c] > 0 /\ rank[c] = n}
  /\ released = {c \in Calls : rank[c] \in 1 .. k}
  /\ \A c \in Calls : call[c].at \in {"told", "done"} <=> c \in released
  /\ \A c \in Calls : call[c].at = "asked" => rank[c] = k + 1

Turns == mode = "repl" /\ ~yolo => \E n, k, rank : InTurn(n, k, rank)

(* A line of the REPL that said yes answered one question.                 *)
AnsweredAlone ==
  mode = "repl" /\ ~yolo =>
    \A c \in Calls : call[c].at \in {"told", "done"} /\ call[c].yes => call[c].alone

(* autoConfirm() asks nothing.                                             *)
NoneUnderYolo == yolo => \A c \in Calls : ~Cli!Pending(c)

(* A call shows what it would do to the files it looked at.                *)
AllPrepared ==
  \A c \in Calls : Cli!Pending(c) => Prepared(call[c].request, call[c].from, call[c].staged, call[c].shown)

(* Until another one starts, a call finds the files as it left them.       *)
Undisturbed ==
  \A c \in Calls : Cli!Pending(c) /\ ~call[c].met =>
    /\ \A d \in Calls \ {c} : ~Cli!Pending(d)
    /\ work = call[c].from.work /\ head = call[c].from.head
    /\ index = StagedBy(call[c].request, call[c].from)

(* So what it did is what was asked.                                       *)
DoneAsAsked ==
  \A c \in Calls : call[c].at = "done" /\ ~call[c].met =>
    /\ Cli!AsAsked(call[c].request, call[c].yes, call[c].failed, names, call[c].from, call[c].to)
    /\ call[c].to.work # call[c].from.work => call[c].yes

CliInv == CliTypes /\ Turns /\ AnsweredAlone /\ NoneUnderYolo /\ AllPrepared /\ Undisturbed /\ DoneAsAsked

(* Cardinality is the same operator in the instance.                       *)
LEMMA SameCliCount == \A S : Cli!Cardinality(S) = Cardinality(S)
BY Zenon DEF Cli!Cardinality, Cardinality

(* What git add leaves in the index.                                       *)
LEMMA FilesAdded ==
  ASSUME NEW ps, NEW w \in Files, NEW i \in Files
  PROVE  /\ Cli!Add(ps, w, i) \in Files
         /\ \A p \in Paths : Cli!Add(ps, w, i)[p] = IF p \in ps THEN w[p] ELSE i[p]
BY DEF Cli!Add, Files

(* An edit replaces one word and leaves the length.                        *)
LEMMA EditChangesOneWord ==
  ASSUME NEW s \in Seq(Spelled), NEW w \in Spelled, NEW i \in DOMAIN s, NEW t, t = [s EXCEPT ![i] = w]
  PROVE  /\ t \in Seq(Spelled) /\ Len(t) = Len(s)
         /\ Cardinality({j \in DOMAIN t : t[j] # s[j]}) <= 1
<1>1. i \in 1 .. Len(s)
  BY LenProperties
<1>2. /\ t \in Seq(Spelled) /\ Len(t) = Len(s)
      /\ \A j \in 1 .. Len(s) : t[j] = IF j = i THEN w ELSE s[j]
  BY <1>1, ExceptSeq
<1>3. DOMAIN t = 1 .. Len(s)
  BY <1>2, LenProperties
<1>4. {j \in DOMAIN t : t[j] # s[j]} \subseteq {i}
  BY <1>2, <1>3
<1>5. Cardinality({j \in DOMAIN t : t[j] # s[j]}) <= Cardinality({i})
  BY <1>4, FS_Singleton, FS_Subset
<1>6. Cardinality({i}) = 1
  BY FS_Singleton
<1> QED
  BY <1>2, <1>5, <1>6

(* It stages nothing else.                                                 *)
LEMMA StagedToo ==
  ASSUME NEW ps, NEW w \in Files, NEW i \in Files, NEW h
  PROVE  Cli!StagedFiles(Cli!Add(ps, w, i), h) \subseteq Cli!StagedFiles(i, h) \cup ps
BY FilesAdded DEF Cli!StagedFiles

(* Told not to: a commit stages again what was staged.                     *)
LEMMA DeclinedIsRestored ==
  ASSUME NEW w \in Files, NEW i \in Files, NEW h \in Files, NEW staged,
         staged = Cli!StagedFiles(i, h), work = w, head = h
  PROVE  /\ Cli!Restored(staged) \in Files
         /\ Cli!StagedFiles(Cli!Restored(staged), h) \subseteq {names[p] : p \in staged}
         /\ (\A p \in staged : names[p] = p /\ w[p] = i[p]) => Cli!Restored(staged) = i
<1>1. /\ \A p \in Paths : p \in staged <=> i[p] # h[p]
      /\ staged \subseteq Paths
  BY DEF Cli!StagedFiles
<1> DEFINE again == {names[p] : p \in staged}
           b == Cli!Add(again, w, h)
<1>2. Cli!Restored(staged) = IF again \subseteq Paths /\ Cli!Known(again, w, h) THEN b ELSE h
  BY DEF Cli!Restored
<1>3. b \in Files /\ \A p \in Paths : b[p] = IF p \in again THEN w[p] ELSE h[p]
  <2> HIDE DEF again
  <2> QED
    BY FilesAdded
<1>4. Cli!StagedFiles(b, h) \subseteq again /\ Cli!StagedFiles(h, h) = {}
  <2> HIDE DEF b, again
  <2> QED
    BY <1>3 DEF Cli!StagedFiles
<1>5. ASSUME \A p \in staged : names[p] = p /\ w[p] = i[p]
      PROVE  Cli!Restored(staged) = i
  <2>1. again = staged
    BY <1>5
  <2> HIDE DEF b, again
  <2>2. Cli!Known(again, w, h)
    BY <1>1, <1>5, <2>1 DEF Cli!Known, Cli!Absent
  <2>3. \A p \in Paths : b[p] = i[p]
    BY <1>1, <1>3, <1>5, <2>1
  <2>4. b = i
    BY <1>3, <2>3 DEF Files
  <2> QED
    BY <1>1, <1>2, <2>1, <2>2, <2>4
<1> HIDE DEF b, again
<1>6. Cli!Restored(staged) \in Files /\ Cli!StagedFiles(Cli!Restored(staged), h) \subseteq again
  BY <1>2, <1>3, <1>4
<1> QED
  BY <1>5, <1>6 DEF again

(* What a call does with nothing else happening since it looked.           *)
LEMMA ActsAsAsked ==
  ASSUME NEW r, NEW from, NEW staged, NEW shown, NEW yes \in BOOLEAN, NEW failed \in BOOLEAN,
         Prepared(r, from, staged, shown),
         work = from.work, head = from.head,
         Cli!Acts(r, shown, staged, StagedBy(r, from), yes, failed)
  PROVE  /\ Cli!AsAsked(r, yes, failed, names, from, [work |-> work', index |-> index', head |-> head'])
         /\ work' # from.work => yes
<1> DEFINE to == [work |-> work', index |-> index', head |-> head']
<1>1. /\ from.work \in Files /\ from.index \in Files /\ from.head \in Files /\ r \in Requests
      /\ staged = Cli!StagedFiles(from.index, from.head)
  BY DEF Prepared, Trees
<1>2. to.work = work' /\ to.index = index' /\ to.head = head'
  OBVIOUS
<1> HIDE DEF to
<1> DEFINE commit == r.does = "gitCommit"
           changed == {p \in Paths : to.work[p] # from.work[p]}
<1>3. commit => /\ StagedBy(r, from) = Cli!Add(r.paths, from.work, from.index)
                /\ Cli!StagedFiles(StagedBy(r, from), from.head) \subseteq staged \cup r.paths
  BY <1>1, StagedToo DEF StagedBy
<1>4. CASE ~yes
  <2>1. /\ work' = from.work /\ head' = from.head /\ changed = {}
        /\ index' = IF commit /\ ~failed THEN Cli!Restored(staged) ELSE StagedBy(r, from)
        /\ failed => commit
    BY <1>2, <1>4 DEF Cli!Acts, Cli!Declines
  <2>2. CASE commit /\ ~failed
    <3>1. index' = Cli!Restored(staged)
      BY <2>1, <2>2
    <3>2. /\ Cli!StagedFiles(index', from.head) \subseteq {names[p] : p \in staged}
          /\ (\A p \in staged : names[p] = p /\ from.work[p] = from.index[p]) => index' = from.index
      BY <1>1, <3>1, DeclinedIsRestored
    <3> QED
      BY <1>1, <1>2, <1>4, <2>1, <2>2, <3>2 DEF Cli!AsAsked, to
  <2>3. CASE commit /\ failed
    BY <1>1, <1>2, <1>3, <1>4, <2>1, <2>3 DEF Cli!AsAsked, to
  <2>4. CASE ~commit
    <3>1. index' = from.index
      BY <2>1, <2>4 DEF StagedBy
    <3> QED
      BY <1>1, <1>2, <1>4, <2>1, <2>4, <3>1 DEF Cli!AsAsked, to
  <2> QED
    BY <2>2, <2>3, <2>4
<1>5. CASE yes /\ commit
  <2>1. /\ work' = from.work /\ index' = StagedBy(r, from)
        /\ head' = IF failed THEN from.head ELSE StagedBy(r, from)
    BY <1>5 DEF Cli!Acts, Cli!Commits
  <2>2. r.paths \in SUBSET Paths
    BY <1>1, <1>5, CliAssumption
  <2>3. \A p \in r.paths : StagedBy(r, from)[p] = from.work[p]
    BY <1>1, <1>3, <1>5, <2>2, FilesAdded
  <2>4. CASE failed
    BY <1>1, <1>2, <1>3, <1>5, <2>1, <2>4 DEF Cli!AsAsked, to
  <2>5. CASE ~failed
    BY <1>1, <1>2, <1>3, <1>5, <2>1, <2>3, <2>5 DEF Cli!AsAsked, to
  <2> QED
    BY <2>4, <2>5
<1>6. CASE yes /\ ~commit
  <2>1. PICK text : /\ work' = [from.work EXCEPT ![r.path] = text]
                    /\ ~failed => text = shown
    BY <1>6 DEF Cli!Acts, Cli!Writes
  <2>2. index' = from.index /\ head' = from.head
    BY <1>6 DEF Cli!Acts, Cli!Writes, StagedBy
  <2>3. changed \subseteq {r.path}
    BY <1>1, <1>2, <2>1 DEF Files
  <2>4. r.does = "createFile" => from.work[r.path] = Cli!Absent
    BY DEF Prepared
  <2>5. ASSUME r.does = "editFile", ~failed
        PROVE  /\ Len(work'[r.path]) = Len(from.work[r.path])
               /\ Cardinality({j \in DOMAIN work'[r.path] : work'[r.path][j] # from.work[r.path][j]}) <= 1
    <3>1. r.path \in Paths /\ r.word \in Spelled
      BY <1>1, <2>5, CliAssumption DEF Spelled
    <3>2. work'[r.path] = shown
      BY <1>1, <2>1, <2>5, <3>1 DEF Files
    <3>3. PICK i \in DOMAIN from.work[r.path] : shown = [from.work[r.path] EXCEPT ![i] = r.word]
      BY <2>5 DEF Prepared
    <3>4. from.work[r.path] \in Seq(Spelled)
      BY <1>1, <3>1 DEF Files
    <3> QED
      BY <3>1, <3>2, <3>3, <3>4, EditChangesOneWord
  <2>6. Cli!AsAsked(r, yes, failed, names, from, to)
    BY <1>2, <1>6, <2>2, <2>3, <2>4, <2>5, SameCliCount DEF Cli!AsAsked
  <2> QED
    BY <1>6, <2>6 DEF to
<1> QED
  BY <1>4, <1>5, <1>6

-----------------------------------------------------------------------------
(* A call that is not refused has looked at the files as they are, and     *)
(* shows what it will write.                                               *)
LEMMA ShownIsPrepared ==
  ASSUME CliTypes, NEW r \in Requests, ~Cli!Refuses(r)
  PROVE  /\ Cli!Seen \in Trees
         /\ Prepared(r, Cli!Seen, Cli!StagedFiles(index, head), Cli!Shown(r))
         /\ StagedBy(r, Cli!Seen) = IF r.does = "gitCommit" /\ (r.all \/ Cli!Known(r.paths, work, index))
                                      THEN Cli!Add(r.paths, work, index) ELSE index
<1>1. /\ Cli!Seen \in Trees
      /\ Cli!Seen.work = work /\ Cli!Seen.index = index /\ Cli!Seen.head = head
  BY DEF CliTypes, Cli!Seen, Trees
<1>2. CASE r.does = "editFile"
  <2> DEFINE s == work[r.path]
             M == Cli!Matches(s, r.old)
             i == CHOOSE j \in M : TRUE
  <2>1. r.path \in Paths /\ r.word \in Spelled /\ s \in Seq(Spelled)
    BY <1>2, CliAssumption DEF CliTypes, Files, Spelled
  <2>2. Cardinality(M) = 1
    BY <1>2, SameCliCount DEF Cli!Refuses
  <2>3. M \subseteq 1 .. Len(s) /\ Len(s) \in Nat
    BY <2>1, LenProperties DEF Cli!Matches
  <2>4. IsFiniteSet(M)
    <3>1. IsFiniteSet(1 .. Len(s))
      BY <2>3, FS_Interval
    <3> HIDE DEF M
    <3> QED
      BY <2>3, <3>1, FS_Subset
  <2>5. M # {}
    BY <2>2, <2>4, FS_EmptySet
  <2>6. i \in M
    BY <2>5
  <2>7. i \in DOMAIN s
    BY <2>6 DEF Cli!Matches
  <2>8. Cli!Shown(r) = [s EXCEPT ![i] = r.word]
    BY <1>2 DEF Cli!Shown
  <2> HIDE DEF M, i
  <2>9. Cli!Shown(r) \in Seq(Spelled)
    BY <2>1, <2>7, <2>8, EditChangesOneWord
  <2>10. Prepared(r, Cli!Seen, Cli!StagedFiles(index, head), Cli!Shown(r))
    BY <1>1, <1>2, <2>7, <2>8, <2>9 DEF Prepared
  <2> QED
    BY <1>1, <1>2, <2>10 DEF StagedBy
<1>3. CASE r.does \in {"writeFile", "createFile", "bash"}
  <2>1. Cli!Shown(r) = r.text /\ r.text \in Seq(Spelled)
    <3>1. r.text \in Seq(Words) /\ Seq(Words) \subseteq Seq(Spelled)
      BY <1>3, CliAssumption, SeqMonotonic DEF Spelled
    <3> QED
      BY <1>3, <3>1 DEF Cli!Shown
  <2>2. r.does = "createFile" => work[r.path] = Cli!Absent
    BY DEF Cli!Refuses
  <2> QED
    BY <1>1, <1>3, <2>1, <2>2 DEF Prepared, StagedBy
<1>4. CASE r.does = "gitCommit"
  <2>1. Cli!Shown(r) = <<>> /\ <<>> \in Seq(Spelled)
    BY <1>4, EmptySeq DEF Cli!Shown, Cli!Absent
  <2>2. r.all \/ Cli!Known(r.paths, work, index)
    BY <1>4 DEF Cli!Refuses
  <2> QED
    BY <1>1, <1>4, <2>1, <2>2 DEF Prepared, StagedBy
<1> QED
  BY <1>2, <1>3, <1>4, CliAssumption

(* What a call does leaves files.                                          *)
LEMMA ActsKeepsFiles ==
  ASSUME CliTypes, NEW r \in Requests, NEW shown \in Seq(Spelled), NEW staged, NEW i \in Files,
         NEW yes \in BOOLEAN, NEW failed \in BOOLEAN, Cli!Acts(r, shown, staged, i, yes, failed)
  PROVE  work' \in Files /\ index' \in Files /\ head' \in Files /\ born' \in BOOLEAN
<1>1. CASE ~yes
  <2>1. Cli!Restored(staged) \in Files
    BY FilesAdded DEF Cli!Restored, CliTypes
  <2> QED
    BY <1>1, <2>1 DEF CliTypes, Cli!Acts, Cli!Declines
<1>2. CASE yes /\ r.does = "gitCommit"
  BY <1>2 DEF CliTypes, Cli!Acts, Cli!Commits
<1>3. CASE yes /\ r.does # "gitCommit"
  <2>1. PICK text \in {work[r.path]} \cup Cli!Parts(shown) \cup {shown} : work' = [work EXCEPT ![r.path] = text]
    BY <1>3 DEF Cli!Acts, Cli!Writes
  <2>2. ASSUME NEW n \in 1 .. Len(shown)
        PROVE  SubSeq(shown, 1, n) \in Seq(Spelled)
    <3>1. \A j \in 1 .. n : shown[j] \in Spelled
      BY LenProperties
    <3>2. 1 \in Int /\ n \in Int
      BY LenProperties
    <3> QED
      BY <3>1, <3>2, SubSeqProperties
  <2>3. Cli!Parts(shown) \subseteq Seq(Spelled)
    <3>1. <<"blank">> \in Seq(Spelled)
      BY DEF Spelled
    <3> QED
      BY <2>2, <3>1 DEF Cli!Parts, Cli!Emptied
  <2>4. r.path \in Paths
    BY <1>3, CliAssumption
  <2>5. work' \in Files
    BY <2>1, <2>3, <2>4 DEF CliTypes, Files
  <2> QED
    BY <1>3, <2>5 DEF CliTypes, Cli!Acts, Cli!Writes
<1> QED
  BY <1>1, <1>2, <1>3

(* An entry, and what changes in it.                                       *)
LEMMA EntryMet ==
  ASSUME NEW e \in Entries
  PROVE  LET f == [e EXCEPT !.met = TRUE]
         IN  /\ f \in Entries /\ f.at = e.at /\ f.request = e.request /\ f.behind = e.behind
             /\ f.staged = e.staged /\ f.yes = e.yes /\ f.failed = e.failed /\ f.alone = e.alone /\ f.met
             /\ f.from = e.from /\ f.to = e.to /\ f.shown = e.shown
BY DEF Entries

(* So does the question that is put.                                       *)
LEMMA EntryAsked ==
  ASSUME NEW e \in Entries
  PROVE  LET f == [e EXCEPT !.at = "asked"]
         IN  /\ f \in Entries /\ f.at = "asked" /\ f.request = e.request /\ f.behind = e.behind
             /\ f.staged = e.staged /\ f.yes = e.yes /\ f.alone = e.alone /\ f.met = e.met
             /\ f.from = e.from /\ f.to = e.to /\ f.shown = e.shown
BY DEF Entries

(* What Ask and Line leave alone in an entry.                              *)
Kept(e, f) ==
  /\ f.request = e.request /\ f.behind = e.behind /\ f.staged = e.staged /\ f.met = e.met
  /\ f.from = e.from /\ f.to = e.to /\ f.shown = e.shown

(* As long as no file changes, what is open stays as it is.                *)
LEMMA QuestionsStand ==
  ASSUME CliInv, UNCHANGED <<yolo, work, index, head>>,
         \A d \in Calls : /\ Cli!Pending(d)' <=> Cli!Pending(d)
                          /\ Cli!Pending(d) => Kept(call[d], call'[d])
  PROVE  NoneUnderYolo' /\ AllPrepared' /\ Undisturbed'
<1> USE DEF CliInv
<1>1. NoneUnderYolo'
  BY DEF NoneUnderYolo, Cli!Pending
<1>2. ASSUME NEW c \in Calls, Cli!Pending(c)'
      PROVE  Prepared(call'[c].request, call'[c].from, call'[c].staged, call'[c].shown)
  <2>1. Cli!Pending(c) /\ Kept(call[c], call'[c])
    BY <1>2 DEF Cli!Pending
  <2>2. Prepared(call[c].request, call[c].from, call[c].staged, call[c].shown)
    BY <2>1 DEF AllPrepared
  <2> QED
    BY <2>1, <2>2 DEF Kept
<1>3. AllPrepared'
  BY <1>2 DEF AllPrepared
<1>4. ASSUME NEW c \in Calls, Cli!Pending(c)', ~call'[c].met
      PROVE  /\ \A d \in Calls \ {c} : ~Cli!Pending(d)'
             /\ work' = call'[c].from.work /\ head' = call'[c].from.head
             /\ index' = StagedBy(call'[c].request, call'[c].from)
  <2>1. Cli!Pending(c) /\ Kept(call[c], call'[c])
    BY <1>4 DEF Cli!Pending
  <2>2. ~call[c].met
    BY <1>4, <2>1 DEF Kept
  <2>3. /\ \A d \in Calls \ {c} : ~Cli!Pending(d)
        /\ work = call[c].from.work /\ head = call[c].from.head
        /\ index = StagedBy(call[c].request, call[c].from)
    BY <2>1, <2>2 DEF Undisturbed
  <2> QED
    BY <2>1, <2>3 DEF Kept, Cli!Pending
<1>5. Undisturbed'
  BY <1>4 DEF Undisturbed
<1> QED
  BY <1>1, <1>3, <1>5

(* A question that is put keeps the invariant.                             *)
LEMMA AskKeeps ==
  ASSUME CliInv, NEW c \in Calls, Cli!Ask(c)
  PROVE  CliInv'
<1> USE DEF CliInv
<1>1. /\ call[c].at = "waits" /\ (mode = "repl" => call[c].behind \subseteq released)
      /\ call' = [call EXCEPT ![c].at = "asked"]
      /\ UNCHANGED <<mode, yolo, work, index, head, born, names, lock, released>>
  BY DEF Cli!Ask
<1>2. call[c] \in Entries
  BY <1>1 DEF CliTypes
<1>3. /\ call' \in [Calls -> {[at |-> "idle"]} \cup Entries]
      /\ call'[c] \in Entries /\ call'[c].at = "asked" /\ Kept(call[c], call'[c])
      /\ \A d \in Calls \ {c} : call'[d] = call[d]
  <2>1. call'[c] = [call[c] EXCEPT !.at = "asked"]
    BY <1>1 DEF CliTypes
  <2> QED
    BY <1>1, <1>2, <2>1, EntryAsked DEF CliTypes, Kept
<1>4. CliTypes'
  BY <1>1, <1>3 DEF CliTypes
<1>5. Turns'
  <2> SUFFICES ASSUME mode = "repl", ~yolo PROVE (\E n, k, rank : InTurn(n, k, rank))'
    BY <1>1 DEF Turns
  <2>1. PICK n, k, rank : InTurn(n, k, rank)
    BY DEF Turns
  <2>2. rank[c] = k + 1
    <3>1. rank[c] \in 1 .. n /\ k \in 0 .. n /\ n \in Nat
      BY <1>1, <2>1 DEF InTurn
    <3>2. ~(rank[c] \in 1 .. k)
      BY <1>1, <2>1 DEF InTurn
    <3>3. CASE rank[c] = 1
      BY <3>1, <3>2, <3>3
    <3>4. CASE rank[c] > 1
      <4>1. rank[c] - 1 \in 1 .. n
        BY <3>1, <3>4
      <4>2. PICK d \in Calls : rank[d] = rank[c] - 1
        BY <2>1, <4>1 DEF InTurn
      <4>3. d \in call[c].behind
        BY <2>1, <3>1, <4>1, <4>2 DEF InTurn
      <4>4. rank[d] \in 1 .. k
        BY <1>1, <2>1, <4>3 DEF InTurn
      <4> QED
        BY <3>1, <3>2, <4>2, <4>4
    <3> QED
      BY <3>1, <3>3, <3>4
  <2>3. \A d \in Calls : call'[d].at \in {"waits", "asked", "told", "done"} <=> rank[d] > 0
    BY <1>1, <1>3, <2>1 DEF InTurn
  <2>4. \A d, e \in Calls : rank[d] > 0 => (e \in call'[d].behind <=> rank[e] > 0 /\ rank[e] + 1 = rank[d])
    BY <1>3, <2>1 DEF InTurn, Kept
  <2>5. \A d \in Calls : call'[d].at \in {"told", "done"} <=> d \in released
    BY <1>1, <1>3, <2>1 DEF InTurn
  <2>6. \A d \in Calls : call'[d].at = "asked" => rank[d] = k + 1
    BY <1>3, <2>1, <2>2 DEF InTurn
  <2>7. InTurn(n, k, rank)'
    BY <1>1, <2>1, <2>3, <2>4, <2>5, <2>6 DEF InTurn
  <2> QED
    BY <2>7
<1>6. AnsweredAlone' /\ DoneAsAsked'
  BY <1>1, <1>3 DEF AnsweredAlone, DoneAsAsked
<1>7. \A d \in Calls : /\ Cli!Pending(d)' <=> Cli!Pending(d)
                       /\ Cli!Pending(d) => Kept(call[d], call'[d])
  BY <1>1, <1>3 DEF Cli!Pending, Kept
<1>8. NoneUnderYolo' /\ AllPrepared' /\ Undisturbed'
  BY <1>1, <1>7, QuestionsStand
<1> QED
  BY <1>4, <1>5, <1>6, <1>8

(* So does a line of input, which answers every question that is open.     *)
LEMMA LineKeeps ==
  ASSUME CliInv, NEW yes \in BOOLEAN, Cli!Line(yes)
  PROVE  CliInv'
<1> USE DEF CliInv
<1> DEFINE open == {c \in Calls : call[c].at = "asked"}
           alone == Cli!Cardinality(open) = 1
<1>1. /\ open # {} /\ released' = released \cup open
      /\ call' = [c \in Calls |-> IF c \notin open THEN call[c]
                                  ELSE [call[c] EXCEPT !.at = "told", !.yes = yes, !.alone = alone]]
      /\ UNCHANGED <<mode, yolo, work, index, head, born, names, lock>>
  BY DEF Cli!Line
<1>2. \A c \in open : call[c] \in Entries
  BY DEF CliTypes
<1> HIDE DEF alone
<1>3. /\ \A c \in Calls \ open : call'[c] = call[c]
      /\ \A c \in open : /\ call'[c] \in Entries /\ call'[c].at = "told" /\ Kept(call[c], call'[c])
                         /\ call'[c].alone = alone
  <2>1. \A c \in open : call'[c] = [call[c] EXCEPT !.at = "told", !.yes = yes, !.alone = alone]
    BY <1>1
  <2>2. alone \in BOOLEAN
    BY DEF alone
  <2> HIDE DEF open
  <2>3. ASSUME NEW c \in open
        PROVE  /\ call'[c] \in Entries /\ call'[c].at = "told" /\ Kept(call[c], call'[c])
               /\ call'[c].alone = alone
    <3>1. call[c] \in Entries /\ call'[c] = [call[c] EXCEPT !.at = "told", !.yes = yes, !.alone = alone]
      BY <1>2, <2>1, <2>3
    <3> DEFINE e == call[c]
               f == [e EXCEPT !.at = "told", !.yes = yes, !.alone = alone]
    <3>2. /\ f \in Entries /\ f.at = "told" /\ f.request = e.request /\ f.behind = e.behind
          /\ f.staged = e.staged /\ f.yes = yes /\ f.alone = alone /\ f.met = e.met
          /\ f.from = e.from /\ f.to = e.to /\ f.shown = e.shown
      <4> HIDE DEF e
      <4>1. e \in Entries
        BY <3>1 DEF e
      <4> QED
        BY <2>2, <4>1 DEF Entries
    <3>3. call'[c] = f
      BY <3>1
    <3> HIDE DEF f
    <3> QED
      BY <3>2, <3>3 DEF Kept
  <2> QED
    BY <1>1, <2>3 DEF open
<1>4. call' \in [Calls -> {[at |-> "idle"]} \cup Entries]
  <2>1. \A c \in Calls : call'[c] \in {[at |-> "idle"]} \cup Entries
    BY <1>3 DEF CliTypes
  <2> QED
    BY <1>1, <2>1, Zenon
<1>5. CliTypes'
  BY <1>1, <1>4 DEF CliTypes
<1>6. ASSUME mode = "repl", ~yolo
      PROVE  alone /\ (\E n, k, rank : InTurn(n, k, rank))'
  <2>1. PICK n, k, rank : InTurn(n, k, rank)
    BY <1>6 DEF Turns
  <2>2. PICK c \in Calls : c \in open
    BY <1>1
  <2>3. /\ n \in Nat /\ k \in 0 .. n /\ rank \in [Calls -> 0 .. n]
        /\ rank[c] > 0 /\ rank[c] = k + 1
        /\ \A d \in open : rank[d] = k + 1
    BY <2>1, <2>2 DEF InTurn
  <2>4. open = {c}
    BY <2>1, <2>2, <2>3 DEF InTurn
  <2>5. alone
    BY <2>4, FS_Singleton, SameCliCount DEF alone
  <2>6. k + 1 \in 0 .. n
    BY <2>3
  <2>7. \A d \in Calls : call'[d].at \in {"waits", "asked", "told", "done"} <=> rank[d] > 0
    BY <1>3, <2>1 DEF InTurn
  <2>8. \A d, e \in Calls : rank[d] > 0 => (e \in call'[d].behind <=> rank[e] > 0 /\ rank[e] + 1 = rank[d])
    BY <1>3, <2>1 DEF InTurn, Kept
  <2>9. \A d \in Calls : d \in released' <=> rank[d] \in 1 .. k + 1
    <3>1. \A d \in Calls : d \in released' <=> rank[d] \in 1 .. k \/ d = c
      BY <1>1, <2>1, <2>4 DEF InTurn
    <3>2. \A d \in Calls : rank[d] = k + 1 => d = c
      BY <2>1, <2>3 DEF InTurn
    <3>3. \A d \in Calls : rank[d] \in Nat /\ k \in Nat
      BY <2>3
    <3> QED
      BY <2>3, <3>1, <3>2, <3>3
  <2>10. \A d \in Calls : call'[d].at \in {"told", "done"} <=> d \in released'
    BY <1>1, <1>3, <2>1 DEF InTurn
  <2>11. \A d \in Calls : call'[d].at # "asked"
    BY <1>3
  <2>12. released' = {d \in Calls : rank[d] \in 1 .. k + 1}
    BY <1>1, <2>1, <2>9 DEF InTurn
  <2>13. InTurn(n, k + 1, rank)'
    BY <1>1, <2>1, <2>6, <2>7, <2>8, <2>10, <2>11, <2>12 DEF InTurn
  <2> QED
    BY <2>5, <2>13
<1>7. Turns' /\ AnsweredAlone'
  <2>1. Turns'
    BY <1>1, <1>6 DEF Turns
  <2>2. AnsweredAlone'
    BY <1>1, <1>3, <1>6 DEF AnsweredAlone
  <2> QED
    BY <2>1, <2>2
<1>8. DoneAsAsked'
  BY <1>1, <1>3 DEF DoneAsAsked
<1>9. \A d \in Calls : /\ Cli!Pending(d)' <=> Cli!Pending(d)
                       /\ Kept(call[d], call'[d])
  BY <1>3 DEF Cli!Pending, Kept
<1>10. NoneUnderYolo' /\ AllPrepared' /\ Undisturbed'
  BY <1>1, <1>9, QuestionsStand
<1> QED
  BY <1>5, <1>7, <1>8, <1>10

(* So does what a call does when it was answered.                          *)
LEMMA ActKeeps ==
  ASSUME CliInv, NEW c \in Calls, Cli!Act(c)
  PROVE  CliInv'
<1> USE DEF CliInv
<1> DEFINE e == call[c]
           to == [work |-> work', index |-> index', head |-> head']
<1>1. PICK failed \in BOOLEAN :
        /\ e.at = "told" /\ UNCHANGED <<mode, yolo, names, lock, released>>
        /\ Cli!Acts(e.request, e.shown, e.staged, index, e.yes, failed)
        /\ call' = [call EXCEPT ![c] = [e EXCEPT !.at = "done", !.failed = failed, !.to = to]]
  BY DEF Cli!Act, Cli!Snapshot
<1>2. e \in Entries
  BY <1>1 DEF CliTypes
<1>3. /\ e.request \in Requests /\ e.shown \in Seq(Spelled) /\ e.yes \in BOOLEAN
  BY <1>2 DEF Entries
<1> HIDE DEF e
<1>4. work' \in Files /\ index' \in Files /\ head' \in Files /\ born' \in BOOLEAN
  BY <1>1, <1>3, ActsKeepsFiles DEF CliTypes
<1>5. to \in Trees
  BY <1>4 DEF Trees
<1> HIDE DEF to
<1>6. /\ call'[c] \in Entries /\ call'[c].at = "done" /\ call'[c].request = e.request
      /\ call'[c].behind = e.behind /\ call'[c].yes = e.yes /\ call'[c].failed = failed /\ call'[c].alone = e.alone
      /\ call'[c].met = e.met /\ call'[c].from = e.from /\ call'[c].to = to
      /\ \A d \in Calls \ {c} : call'[d] = call[d]
  <2>1. call'[c] = [e EXCEPT !.at = "done", !.failed = failed, !.to = to] /\ \A d \in Calls \ {c} : call'[d] = call[d]
    BY <1>1 DEF CliTypes
  <2> QED
    BY <1>2, <1>5, <2>1 DEF Entries
<1>7. CliTypes'
  BY <1>1, <1>4, <1>6 DEF CliTypes
<1>8. AnsweredAlone' /\ NoneUnderYolo' /\ AllPrepared'
  <2>1. AnsweredAlone'
    BY <1>1, <1>6 DEF AnsweredAlone, e
  <2>2. \A d \in Calls : Cli!Pending(d)' => Cli!Pending(d) /\ call'[d] = call[d]
    BY <1>6 DEF Cli!Pending
  <2> QED
    BY <1>1, <2>1, <2>2 DEF NoneUnderYolo, AllPrepared, Cli!Pending
<1>9. Turns'
  <2> SUFFICES ASSUME mode = "repl", ~yolo PROVE (\E n, k, rank : InTurn(n, k, rank))'
    BY <1>1 DEF Turns
  <2>1. PICK n, k, rank : InTurn(n, k, rank)
    BY DEF Turns
  <2>2. \A d \in Calls : /\ call'[d].at \in {"waits", "asked", "told", "done"} <=> call[d].at \in {"waits", "asked", "told", "done"}
                         /\ call'[d].at \in {"told", "done"} <=> call[d].at \in {"told", "done"}
                         /\ call'[d].at = "asked" => call[d].at = "asked"
    BY <1>1, <1>6 DEF e
  <2>3. \A d \in Calls : call[d].at # "idle" => call'[d].behind = call[d].behind
    BY <1>6 DEF e
  <2>4. \A d \in Calls : call'[d].at \in {"waits", "asked", "told", "done"} <=> rank[d] > 0
    BY <2>1, <2>2 DEF InTurn
  <2>5. \A d, x \in Calls : rank[d] > 0 => (x \in call'[d].behind <=> rank[x] > 0 /\ rank[x] + 1 = rank[d])
    BY <2>1, <2>3 DEF InTurn
  <2>6. /\ \A d \in Calls : call'[d].at \in {"told", "done"} <=> d \in released
        /\ \A d \in Calls : call'[d].at = "asked" => rank[d] = k + 1
    BY <2>1, <2>2 DEF InTurn
  <2>7. InTurn(n, k, rank)'
    BY <1>1, <2>1, <2>4, <2>5, <2>6 DEF InTurn
  <2> QED
    BY <2>7
<1>10. Undisturbed'
  <2>1. ASSUME NEW d \in Calls, Cli!Pending(d)', ~call'[d].met
        PROVE  FALSE
    <3>1. d # c /\ call'[d] = call[d] /\ Cli!Pending(d)
      BY <1>6, <2>1 DEF Cli!Pending
    <3>2. ~Cli!Pending(c)
      BY <2>1, <3>1 DEF Undisturbed
    <3> QED
      BY <1>1, <3>2 DEF Cli!Pending, e
  <2> QED
    BY <2>1 DEF Undisturbed
<1>11. DoneAsAsked'
  <2>1. ASSUME ~e.met
        PROVE  /\ Cli!AsAsked(e.request, e.yes, failed, names, e.from, to)
               /\ to.work # e.from.work => e.yes
    <3>1. /\ work = e.from.work /\ head = e.from.head /\ index = StagedBy(e.request, e.from)
          /\ Prepared(e.request, e.from, e.staged, e.shown)
      BY <1>1, <2>1 DEF Undisturbed, AllPrepared, Cli!Pending, e
    <3>2. Cli!Acts(e.request, e.shown, e.staged, StagedBy(e.request, e.from), e.yes, failed)
      BY <1>1, <3>1
    <3>3. /\ Cli!AsAsked(e.request, e.yes, failed, names, e.from, [work |-> work', index |-> index', head |-> head'])
          /\ work' # e.from.work => e.yes
      BY <1>3, <3>1, <3>2, ActsAsAsked
    <3>4. to.work = work'
      BY DEF to
    <3> QED
      BY <3>3, <3>4 DEF to
  <2>2. ASSUME NEW d \in Calls, call'[d].at = "done", ~call'[d].met
        PROVE  /\ Cli!AsAsked(call'[d].request, call'[d].yes, call'[d].failed, names', call'[d].from, call'[d].to)
               /\ call'[d].to.work # call'[d].from.work => call'[d].yes
    <3>1. CASE d = c
      BY <1>1, <1>6, <2>1, <2>2, <3>1
    <3>2. CASE d # c
      BY <1>1, <1>6, <2>2, <3>2 DEF DoneAsAsked
    <3> QED
      BY <3>1, <3>2
  <2> QED
    BY <2>2 DEF DoneAsAsked
<1> QED
  BY <1>7, <1>8, <1>9, <1>10, <1>11

(* Others(c) have met a call that starts.                                  *)
Met(c, e) ==
  call' = [d \in Calls |-> IF d = c THEN e
                           ELSE IF Cli!Pending(d) THEN [call[d] EXCEPT !.met = TRUE]
                           ELSE call[d]]

(* What becomes of the other calls when one starts.                        *)
LEMMA MetCases ==
  ASSUME CliTypes, NEW c \in Calls, NEW e \in Entries, Met(c, e)
  PROVE  /\ call' \in [Calls -> {[at |-> "idle"]} \cup Entries] /\ call'[c] = e
         /\ \A d \in Calls \ {c} :
              /\ call'[d].at = call[d].at
              /\ ~Cli!Pending(d) => call'[d] = call[d]
              /\ Cli!Pending(d) =>
                   /\ call'[d].met
                   /\ call'[d].request = call[d].request /\ call'[d].behind = call[d].behind
                   /\ call'[d].staged = call[d].staged /\ call'[d].shown = call[d].shown
                   /\ call'[d].from = call[d].from /\ call'[d].to = call[d].to
                   /\ call'[d].yes = call[d].yes /\ call'[d].failed = call[d].failed
                   /\ call'[d].alone = call[d].alone
<1>1. call'[c] = e
  BY DEF Met
<1>2. ASSUME NEW d \in Calls \ {c}, ~Cli!Pending(d)
      PROVE  call'[d] = call[d]
  BY <1>2 DEF Met
<1>3. ASSUME NEW d \in Calls \ {c}, Cli!Pending(d)
      PROVE  /\ call'[d] \in Entries /\ call'[d].at = call[d].at /\ call'[d].met
             /\ call'[d].request = call[d].request /\ call'[d].behind = call[d].behind
             /\ call'[d].staged = call[d].staged /\ call'[d].shown = call[d].shown
             /\ call'[d].from = call[d].from /\ call'[d].to = call[d].to
             /\ call'[d].yes = call[d].yes /\ call'[d].failed = call[d].failed
             /\ call'[d].alone = call[d].alone
  <2>1. call'[d] = [call[d] EXCEPT !.met = TRUE]
    BY <1>3 DEF Met
  <2>2. call[d] \in Entries
    BY <1>3 DEF CliTypes, Cli!Pending
  <2> QED
    BY <2>1, <2>2, EntryMet
<1>4. call' \in [Calls -> {[at |-> "idle"]} \cup Entries]
  <2>1. \A d \in Calls : call'[d] \in {[at |-> "idle"]} \cup Entries
    BY <1>1, <1>2, <1>3 DEF CliTypes
  <2> QED
    BY <2>1, Zenon DEF Met
<1> QED
  BY <1>1, <1>2, <1>3, <1>4

(* What start does: it is refused, it is done at once, or it waits.        *)
IsRefused(e) == e.at = "refused" /\ UNCHANGED <<work, head, born, lock>>

IsDone(r, e) ==
  /\ e.at = "done" /\ yolo /\ e.yes /\ UNCHANGED lock
  /\ e.to = [work |-> work', index |-> index', head |-> head']
  /\ work' \in Files /\ head' \in Files /\ born' \in BOOLEAN
  /\ Prepared(r, e.from, e.staged, e.shown)
  /\ Cli!Acts(r, e.shown, e.staged, StagedBy(r, e.from), TRUE, e.failed)

HasToWait(c, r, e) ==
  /\ e.at \in {"waits", "told"} /\ ~yolo /\ ~e.yes /\ UNCHANGED <<work, head, born>>
  /\ index' = StagedBy(r, e.from)
  /\ Prepared(r, e.from, e.staged, e.shown)
  /\ mode = "repl" => (e.at = "waits" /\ lock' = {c})

Started(c, r, e) ==
  /\ Met(c, e) /\ call[c].at = "idle"
  /\ UNCHANGED <<mode, yolo, names, released>> /\ index' \in Files /\ lock' \in SUBSET Calls
  /\ e.request = r /\ e.behind = lock /\ e.from = Cli!Seen
  /\ (e.met <=> \E d \in Calls \ {c} : Cli!Pending(d))
  /\ IsRefused(e) \/ IsDone(r, e) \/ HasToWait(c, r, e)

(* Every start is one of these.                                            *)
LEMMA StartCases ==
  ASSUME CliTypes, NEW c \in Calls, NEW r \in Requests, Cli!Start(c, r)
  PROVE  \E e \in Entries : Started(c, r, e)
<1> DEFINE staged == Cli!StagedFiles(index, head)
           adds == r.does = "gitCommit" /\ (r.all \/ Cli!Known(r.paths, work, index))
           i == IF adds THEN Cli!Add(r.paths, work, index) ELSE index
           met == Cli!Others(c) # {}
           shown == IF Cli!Refuses(r) THEN Cli!Absent ELSE Cli!Shown(r)
           made(place) ==
             [at |-> place, request |-> r, behind |-> lock, staged |-> staged, yes |-> FALSE,
              failed |-> FALSE, alone |-> FALSE, met |-> met, from |-> Cli!Seen, to |-> Cli!Seen, shown |-> shown]
           to == [work |-> work', index |-> index', head |-> head']
           ready(f) == [made("done") EXCEPT !.yes = TRUE, !.failed = f, !.to = to]
<1>1. /\ i \in Files /\ staged \in SUBSET Paths /\ met \in BOOLEAN /\ Cli!Seen \in Trees
      /\ lock \in SUBSET Calls
  <2>1. i \in Files
    BY FilesAdded DEF CliTypes
  <2>2. staged \in SUBSET Paths
    BY DEF Cli!StagedFiles
  <2>3. Cli!Seen \in Trees
    BY DEF CliTypes, Cli!Seen, Trees
  <2> QED
    BY <2>1, <2>2, <2>3 DEF CliTypes
<1>2. ~Cli!Refuses(r) => Prepared(r, Cli!Seen, staged, shown) /\ i = StagedBy(r, Cli!Seen)
  BY ShownIsPrepared
<1>3. shown \in Seq(Spelled)
  BY <1>2, EmptySeq DEF Prepared, Cli!Absent
<1>4. met <=> \E d \in Calls \ {c} : Cli!Pending(d)
  BY DEF Cli!Others
<1>5. /\ call[c].at = "idle"
      /\ UNCHANGED <<mode, yolo, names, released>> /\ lock' \in SUBSET Calls
  BY DEF Cli!Start, Cli!Locked, CliTypes
<1> HIDE DEF staged, shown, met, i
<1>6. ASSUME NEW place \in {"refused", "waits", "told", "done"}
      PROVE  /\ made(place) \in Entries /\ made(place).at = place /\ made(place).request = r
             /\ made(place).behind = lock /\ made(place).staged = staged /\ ~made(place).yes
             /\ made(place).met = met /\ made(place).from = Cli!Seen /\ made(place).shown = shown
  BY <1>1, <1>3, <1>6 DEF Entries
<1>7. ASSUME NEW f \in BOOLEAN, IF f THEN Cli!FailsEarly(r) ELSE Cli!Refuses(r) /\ index' = i,
             Met(c, [made("refused") EXCEPT !.failed = f]), UNCHANGED <<work, head, born, lock>>
      PROVE  \E e \in Entries : Started(c, r, e)
  <2>1. index' \in Files
    <3>1. CASE f
      <4>1. PICK some : index' = Cli!Add(some, work, index)
        BY <1>7, <3>1 DEF Cli!FailsEarly
      <4> QED
        BY <4>1, FilesAdded DEF CliTypes
    <3> QED
      BY <1>1, <1>7, <3>1
  <2> DEFINE e == [made("refused") EXCEPT !.failed = f]
  <2>2. e \in Entries /\ e.at = "refused" /\ e.request = r /\ e.behind = lock /\ e.staged = staged
        /\ e.met = met /\ e.from = Cli!Seen
    BY <1>1, <1>3, <1>7 DEF Entries
  <2>3. Met(c, e)
    BY <1>7
  <2> HIDE DEF e
  <2> QED
    BY <1>4, <1>5, <1>7, <2>1, <2>2, <2>3 DEF Started, IsRefused
<1>8. ASSUME NEW f \in BOOLEAN, ~Cli!Refuses(r), yolo, Met(c, ready(f)),
             Cli!Acts(r, Cli!Shown(r), staged, i, TRUE, f), UNCHANGED lock
      PROVE  \E e \in Entries : Started(c, r, e)
  <2> DEFINE e == ready(f)
  <2>1. Cli!Shown(r) = shown
    BY <1>8 DEF shown
  <2>2. work' \in Files /\ index' \in Files /\ head' \in Files /\ born' \in BOOLEAN
    BY <1>1, <1>3, <1>8, <2>1, ActsKeepsFiles
  <2>3. to \in Trees
    BY <2>2 DEF Trees
  <2> HIDE DEF to
  <2>4. /\ e \in Entries /\ e.at = "done" /\ e.request = r /\ e.behind = lock
        /\ e.staged = staged /\ e.yes /\ e.failed = f /\ e.met = met /\ e.from = Cli!Seen
        /\ e.to = to /\ e.shown = shown
    BY <1>1, <1>3, <1>8, <2>3 DEF Entries
  <2>5. Met(c, e)
    BY <1>8
  <2> HIDE DEF e
  <2>6. Cli!Acts(r, e.shown, e.staged, StagedBy(r, e.from), TRUE, e.failed)
    BY <1>2, <1>8, <2>1, <2>4
  <2>7. Prepared(r, e.from, e.staged, e.shown)
    BY <1>2, <1>8, <2>4
  <2> QED
    BY <1>4, <1>5, <1>8, <2>2, <2>4, <2>5, <2>6, <2>7 DEF Started, IsDone, to
<1>9. ASSUME ~Cli!Refuses(r), ~yolo, index' = i, UNCHANGED <<work, head, born>>,
             mode = "repl" => lock' = {c},
             Met(c, made(IF mode = "pipe" THEN "told" ELSE "waits"))
      PROVE  \E e \in Entries : Started(c, r, e)
  <2> DEFINE place == IF mode = "pipe" THEN "told" ELSE "waits"
             e == made(place)
  <2>1. /\ index' = i /\ UNCHANGED <<work, head, born>>
        /\ mode = "repl" => lock' = {c}
    BY <1>9
  <2>2. Met(c, e)
    BY <1>9
  <2>3. /\ place \in {"refused", "waits", "told", "done"} /\ place \in {"waits", "told"}
        /\ mode = "repl" => place = "waits"
    OBVIOUS
  <2> HIDE DEF place
  <2>4. /\ e \in Entries /\ e.at = place /\ e.request = r /\ e.behind = lock /\ e.staged = staged
        /\ ~e.yes /\ e.met = met /\ e.from = Cli!Seen /\ e.shown = shown
    BY <1>1, <1>3, <2>3 DEF Entries
  <2> HIDE DEF e
  <2>5. /\ index' = StagedBy(r, e.from) /\ index' \in Files
        /\ Prepared(r, e.from, e.staged, e.shown)
    BY <1>1, <1>2, <1>9, <2>1, <2>4
  <2>6. /\ e.at \in {"waits", "told"}
        /\ mode = "repl" => e.at = "waits" /\ lock' = {c}
    BY <2>1, <2>3, <2>4
  <2>7. e.met <=> \E d \in Calls \ {c} : Cli!Pending(d)
    BY <1>4, <2>4
  <2> QED
    BY <1>5, <1>9, <2>1, <2>2, <2>4, <2>5, <2>6, <2>7 DEF Started, HasToWait
<1> USE DEF staged, shown, met, i
<1>10. CASE /\ \E failed \in BOOLEAN :
                 /\ IF failed THEN Cli!FailsEarly(r) ELSE Cli!Refuses(r) /\ index' = i
                 /\ Met(c, [made("refused") EXCEPT !.failed = failed])
            /\ UNCHANGED <<work, head, born, lock>>
  BY <1>7, <1>10
<1>11. CASE /\ ~Cli!Refuses(r) /\ yolo
            /\ \E failed \in BOOLEAN :
                 /\ Cli!Acts(r, Cli!Shown(r), staged, i, TRUE, failed)
                 /\ Met(c, ready(failed))
            /\ UNCHANGED lock
  BY <1>8, <1>11
<1>12. CASE /\ ~Cli!Refuses(r) /\ ~yolo /\ index' = i
            /\ Met(c, made(IF mode = "pipe" THEN "told" ELSE "waits"))
            /\ IF mode = "repl" THEN Cli!Locked(c) ELSE UNCHANGED lock
            /\ UNCHANGED <<work, head, born>>
  BY <1>9, <1>12 DEF Cli!Locked
<1> QED
  BY <1>10, <1>11, <1>12 DEF Cli!Start, Met

(* A call that starts keeps the invariant.                                 *)
LEMMA StartKeeps ==
  ASSUME CliInv, NEW c \in Calls, NEW r \in Requests, Cli!Start(c, r)
  PROVE  CliInv'
<1> USE DEF CliInv
<1>1. PICK e \in Entries : Started(c, r, e)
  BY StartCases
<1> USE DEF Started, IsRefused, IsDone, HasToWait
<1>2. /\ call' \in [Calls -> {[at |-> "idle"]} \cup Entries] /\ call'[c] = e
      /\ \A d \in Calls \ {c} :
           /\ call'[d].at = call[d].at
           /\ ~Cli!Pending(d) => call'[d] = call[d]
           /\ Cli!Pending(d) =>
                /\ call'[d].met
                /\ call'[d].request = call[d].request /\ call'[d].behind = call[d].behind
                /\ call'[d].staged = call[d].staged /\ call'[d].shown = call[d].shown
                /\ call'[d].from = call[d].from /\ call'[d].to = call[d].to
                /\ call'[d].yes = call[d].yes /\ call'[d].failed = call[d].failed
                /\ call'[d].alone = call[d].alone
  BY <1>1, MetCases
<1>3. \A d \in Calls \ {c} : /\ Cli!Pending(d)' <=> Cli!Pending(d)
                             /\ call'[d].at = "done" => call'[d] = call[d]
                             /\ call[d].at # "idle" => call'[d].behind = call[d].behind
  BY <1>2 DEF Cli!Pending
<1>4. CliTypes'
  <2>1. work' \in Files /\ head' \in Files /\ born' \in BOOLEAN
    BY <1>1 DEF CliTypes
  <2> QED
    BY <1>1, <1>2, <2>1 DEF CliTypes
<1>5. Turns'
  <2> SUFFICES ASSUME mode = "repl", ~yolo PROVE (\E n, k, rank : InTurn(n, k, rank))'
    BY <1>1 DEF Turns
  <2>1. PICK n, k, rank : InTurn(n, k, rank)
    BY DEF Turns
  <2>2. /\ n \in Nat /\ k \in 0 .. n /\ rank \in [Calls -> 0 .. n] /\ rank[c] = 0
        /\ \A d \in Calls : rank[d] \in 0 .. n
    BY <1>1, <2>1 DEF InTurn
  <2>3. \A d \in Calls \ {c} :
          /\ call'[d].at \in {"waits", "asked", "told", "done"} <=> rank[d] > 0
          /\ rank[d] > 0 => \A x \in Calls : x \in call'[d].behind <=> rank[x] > 0 /\ rank[x] + 1 = rank[d]
          /\ call'[d].at \in {"told", "done"} <=> d \in released
          /\ call'[d].at = "asked" => rank[d] = k + 1
    <3>1. \A d \in Calls \ {c} : rank[d] > 0 => call'[d].behind = call[d].behind
      BY <1>3, <2>1 DEF InTurn
    <3> QED
      BY <1>2, <2>1, <3>1 DEF InTurn
  <2>4. CASE e.at = "refused"
    <3>1. lock' = lock
      BY <1>1, <2>4
    <3>2. \A d \in Calls : call'[d].at \in {"waits", "asked", "told", "done"} <=> rank[d] > 0
      BY <1>2, <2>2, <2>3, <2>4
    <3>3. \A d, x \in Calls : rank[d] > 0 => (x \in call'[d].behind <=> rank[x] > 0 /\ rank[x] + 1 = rank[d])
      BY <2>2, <2>3
    <3>4. c \notin released
      BY <2>1, <2>2 DEF InTurn
    <3>5. /\ \A d \in Calls : call'[d].at \in {"told", "done"} <=> d \in released
          /\ \A d \in Calls : call'[d].at = "asked" => rank[d] = k + 1
      BY <1>2, <2>3, <2>4, <3>4
    <3>6. InTurn(n, k, rank)'
      BY <1>1, <2>1, <3>1, <3>2, <3>3, <3>5 DEF InTurn
    <3> QED
      BY <3>6
  <2>5. CASE e.at # "refused"
    <3> DEFINE last == [rank EXCEPT ![c] = n + 1]
    <3>1. e.at = "waits" /\ lock' = {c}
      BY <1>1, <2>5
    <3>2. last \in [Calls -> 0 .. n + 1] /\ last[c] = n + 1 /\ \A d \in Calls \ {c} : last[d] = rank[d]
      BY <2>2
    <3> HIDE DEF last
    <3>3. \A d \in Calls : call'[d].at \in {"waits", "asked", "told", "done"} <=> last[d] > 0
      BY <1>2, <2>2, <2>3, <3>1, <3>2
    <3>4. \A d, x \in Calls : last[d] > 0 /\ last[d] = last[x] => d = x
      BY <2>1, <2>2, <3>2 DEF InTurn
    <3>5. \A i \in 1 .. n + 1 : \E d \in Calls : last[d] = i
      <4> TAKE i \in 1 .. n + 1
      <4>1. CASE i = n + 1
        BY <3>2, <4>1
      <4>2. CASE i # n + 1
        <5>1. i \in 1 .. n
          BY <2>2, <4>2
        <5>2. PICK d \in Calls : rank[d] = i
          BY <2>1, <5>1 DEF InTurn
        <5>3. d # c
          BY <2>2, <5>1, <5>2
        <5> QED
          BY <3>2, <5>2, <5>3
      <4> QED
        BY <4>1, <4>2
    <3>6. \A d, x \in Calls : last[d] > 0 => (x \in call'[d].behind <=> last[x] > 0 /\ last[x] + 1 = last[d])
      <4> TAKE d, x \in Calls
      <4> HAVE last[d] > 0
      <4>1. CASE d = c
        <5>1. x \in call'[d].behind <=> rank[x] > 0 /\ rank[x] = n
          BY <1>1, <1>2, <2>1, <4>1 DEF InTurn
        <5> QED
          BY <2>2, <3>2, <4>1, <5>1
      <4>2. CASE d # c
        <5>1. x \in call'[d].behind <=> rank[x] > 0 /\ rank[x] + 1 = rank[d]
          BY <2>3, <3>2, <4>2
        <5>2. rank[d] \in 0 .. n /\ rank[x] \in 0 .. n
          BY <2>2
        <5>3. CASE x = c
          BY <2>2, <3>2, <4>2, <5>1, <5>2, <5>3
        <5>4. CASE x # c
          BY <3>2, <4>2, <5>1, <5>4
        <5> QED
          BY <5>3, <5>4
      <4> QED
        BY <4>1, <4>2
    <3>7. lock' = {d \in Calls : last[d] > 0 /\ last[d] = n + 1}
      BY <2>2, <3>1, <3>2
    <3>8. released' = {d \in Calls : last[d] \in 1 .. k}
      <4>1. \A d \in Calls : last[d] \in 1 .. k <=> rank[d] \in 1 .. k
        BY <2>2, <3>2
      <4> QED
        BY <1>1, <2>1, <4>1 DEF InTurn
    <3>9. c \notin released
      BY <2>1, <2>2 DEF InTurn
    <3>10. /\ \A d \in Calls : call'[d].at \in {"told", "done"} <=> d \in released'
           /\ \A d \in Calls : call'[d].at = "asked" => last[d] = k + 1
      BY <1>1, <1>2, <2>3, <3>1, <3>2, <3>9
    <3>11. n + 1 \in Nat /\ k \in 0 .. n + 1
      BY <2>2
    <3>12. InTurn(n + 1, k, last)'
      BY <3>2, <3>3, <3>4, <3>5, <3>6, <3>7, <3>8, <3>10, <3>11 DEF InTurn
    <3> QED
      BY <3>12
  <2> QED
    BY <2>4, <2>5
<1>6. AnsweredAlone'
  <2>1. ASSUME mode = "repl", ~yolo, NEW d \in Calls, call'[d].at \in {"told", "done"}, call'[d].yes
        PROVE  call'[d].alone
    <3>1. d # c
      BY <1>1, <1>2, <2>1
    <3> QED
      BY <1>2, <2>1, <3>1 DEF AnsweredAlone, Cli!Pending
  <2> QED
    BY <1>1, <2>1 DEF AnsweredAlone
<1>7. NoneUnderYolo'
  BY <1>1, <1>2, <1>3 DEF NoneUnderYolo, Cli!Pending
<1>8. AllPrepared'
  <2>1. ASSUME NEW d \in Calls, Cli!Pending(d)'
        PROVE  Prepared(call'[d].request, call'[d].from, call'[d].staged, call'[d].shown)
    <3>1. CASE d = c
      BY <1>1, <1>2, <2>1, <3>1 DEF Cli!Pending
    <3>2. CASE d # c
      <4>1. Prepared(call[d].request, call[d].from, call[d].staged, call[d].shown) /\ Cli!Pending(d)
        BY <1>3, <2>1, <3>2 DEF AllPrepared
      <4> QED
        BY <1>2, <3>2, <4>1
    <3> QED
      BY <3>1, <3>2
  <2> QED
    BY <2>1 DEF AllPrepared
<1>9. Cli!Seen.work = work /\ Cli!Seen.head = head
  BY DEF Cli!Seen
<1>10. Undisturbed'
  <2>1. ASSUME NEW d \in Calls, Cli!Pending(d)', ~call'[d].met
        PROVE  /\ \A x \in Calls \ {d} : ~Cli!Pending(x)'
               /\ work' = call'[d].from.work /\ head' = call'[d].from.head
               /\ index' = StagedBy(call'[d].request, call'[d].from)
    <3>1. d = c
      BY <1>2, <1>3, <2>1
    <3>2. HasToWait(c, r, e)
      BY <1>1, <1>2, <2>1, <3>1 DEF Cli!Pending
    <3>3. \A x \in Calls \ {c} : ~Cli!Pending(x)
      BY <1>1, <1>2, <2>1, <3>1
    <3> QED
      BY <1>1, <1>2, <1>3, <1>9, <3>1, <3>2, <3>3
  <2> QED
    BY <2>1 DEF Undisturbed
<1>11. DoneAsAsked'
  <2>1. ASSUME NEW d \in Calls, call'[d].at = "done", ~call'[d].met
        PROVE  /\ Cli!AsAsked(call'[d].request, call'[d].yes, call'[d].failed, names', call'[d].from, call'[d].to)
               /\ call'[d].to.work # call'[d].from.work => call'[d].yes
    <3>1. CASE d = c
      <4>1. IsDone(r, e)
        BY <1>1, <1>2, <2>1, <3>1
      <4>2. work = e.from.work /\ head = e.from.head
        BY <1>1, <1>9
      <4>5. e.failed \in BOOLEAN
        BY DEF Entries
      <4>3. Cli!AsAsked(r, TRUE, e.failed, names, e.from, [work |-> work', index |-> index', head |-> head'])
        BY <4>1, <4>2, <4>5, ActsAsAsked
      <4>4. e.yes = TRUE
        BY <4>1 DEF Entries
      <4> QED
        BY <1>1, <1>2, <3>1, <4>1, <4>3, <4>4
    <3>2. CASE d # c
      <4>1. call'[d] = call[d]
        BY <1>3, <2>1, <3>2
      <4> QED
        BY <1>1, <2>1, <4>1 DEF DoneAsAsked
    <3> QED
      BY <3>1, <3>2
  <2> QED
    BY <2>1 DEF DoneAsAsked
<1> QED
  BY <1>4, <1>5, <1>6, <1>7, <1>8, <1>10, <1>11

(* The invariant holds however many calls ask, in each of the modes.       *)
THEOREM CliInvariance == Cli!Spec => []CliInv
<1>1. Cli!Init => CliInv
  <2> SUFFICES ASSUME Cli!Init PROVE CliInv
    OBVIOUS
  <2>1. \A c \in Calls : call[c].at = "idle"
    BY DEF Cli!Init
  <2>2. CliTypes
    <3>1. Cli!Nothing \in Files
      BY EmptySeq DEF Cli!Nothing, Cli!Absent, Files
    <3> QED
      BY <3>1 DEF Cli!Init, CliTypes
  <2>3. Turns
    <3>1. InTurn(0, 0, [c \in Calls |-> 0])
      BY <2>1 DEF InTurn, Cli!Init
    <3> QED
      BY <3>1 DEF Turns
  <2>4. AnsweredAlone /\ NoneUnderYolo /\ AllPrepared /\ Undisturbed /\ DoneAsAsked
    BY <2>1 DEF AnsweredAlone, NoneUnderYolo, AllPrepared, Undisturbed, DoneAsAsked, Cli!Pending
  <2> QED
    BY <2>2, <2>3, <2>4 DEF CliInv
<1>2. CliInv /\ [Cli!Next]_Cli!vars => CliInv'
  <2> SUFFICES ASSUME CliInv, [Cli!Next]_Cli!vars PROVE CliInv'
    OBVIOUS
  <2>1. CASE UNCHANGED Cli!vars
    <3>1. UNCHANGED <<mode, yolo, work, index, head, born, names, lock, released, call>>
      BY <2>1 DEF Cli!vars
    <3>2. NoneUnderYolo' /\ AllPrepared' /\ Undisturbed'
      BY <3>1, QuestionsStand DEF Cli!Pending, Kept
    <3>3. CliTypes' /\ AnsweredAlone' /\ DoneAsAsked'
      BY <3>1 DEF CliInv, CliTypes, AnsweredAlone, DoneAsAsked
    <3>4. \A n, k, rank : InTurn(n, k, rank) => InTurn(n, k, rank)'
      BY <3>1 DEF InTurn
    <3>5. Turns'
      BY <3>1, <3>4 DEF CliInv, Turns
    <3> QED
      BY <3>2, <3>3, <3>5 DEF CliInv
  <2> QED
    BY <2>1, AskKeeps, LineKeeps, ActKeeps, StartKeeps DEF Cli!Next
<1> QED
  BY <1>1, <1>2, PTL DEF Cli!Spec

(* ConfirmedOneByOne holds of any calls on any files: the REPL asks one    *)
(* question at a time, nothing is written without a yes to the question    *)
(* alone, and a call that met no other does what it showed.                *)
THEOREM AskedForOneByOne == Cli!Spec => []ConfirmedOneByOne
<1>1. CliInv => Cli!ConfirmedOneByOne
  <2> SUFFICES ASSUME CliInv PROVE Cli!ConfirmedOneByOne
    OBVIOUS
  <2> USE DEF CliInv
  <2> DEFINE open == {c \in Calls : call[c].at = "asked"}
  <2>1. ASSUME mode = "repl"
        PROVE  Cli!Cardinality(open) <= 1
    <3>1. \A c, d \in open : c = d
      <4>1. CASE yolo
        BY <4>1 DEF NoneUnderYolo, Cli!Pending
      <4>2. CASE ~yolo
        <5>1. PICK n, k, rank : InTurn(n, k, rank)
          BY <2>1, <4>2 DEF Turns
        <5> QED
          BY <5>1 DEF InTurn
      <4> QED
        BY <4>1, <4>2 DEF CliTypes
    <3> HIDE DEF open
    <3>2. CASE open = {}
      BY <3>2, FS_EmptySet, SameCliCount
    <3>3. CASE open # {}
      <4>1. PICK c \in open : open = {c}
        <5>1. PICK c \in open : TRUE
          BY <3>3
        <5> QED
          BY <3>1, <5>1
      <4> QED
        <5>1. Cardinality({c}) = 1
          BY FS_Singleton
        <5>2. Cli!Cardinality(open) = Cardinality({c})
          BY <4>1, SameCliCount
        <5> QED
          BY <5>1, <5>2
    <3> QED
      BY <3>2, <3>3
  <2>2. Cli!AskedByItself
    BY <2>1 DEF Cli!AskedByItself, AnsweredAlone, DoneAsAsked
  <2>3. Cli!AloneAsAsked
    BY DEF Cli!AloneAsAsked, DoneAsAsked
  <2> QED
    BY <2>2, <2>3 DEF Cli!ConfirmedOneByOne
<1> QED
  BY <1>1, CliInvariance, PTL DEF ConfirmedOneByOne

-----------------------------------------------------------------------------
(* Sessions of the shell.                                                  *)
Messages == [role : {"user", "assistant"}, nth : Nat]
Saved == [keys : SUBSET Providers, servers : Seq(Servers)]
Offered == Models \cup {Default[v] : v \in Providers}
Uses(v, m) == [provider |-> v, model |-> m, key |-> v, client |-> <<v, v, m>>]
Configured == {Uses(v, m) : v \in Providers, m \in Offered}
Unset == [provider |-> "none"]

SessionTypes ==
  /\ rc \in [whole : BOOLEAN, text : Saved]
  /\ saving \in [Shells -> [step : {"none", "edited", "truncated"}, text : Saved]]
  /\ at \in [Shells -> {"off", "command", "connecting", "prompt", "adding", "removing", "chatting",
                        "closing", "gone", "stuck", "killed"}]
  /\ todo \in [Shells -> SUBSET Servers] /\ clients \in [Shells -> SUBSET Servers]
  /\ settings \in [Shells -> {Unset} \cup Configured]
  /\ history \in [Shells -> Seq(Messages)] /\ spoken \in [Shells -> Seq(Messages)]
  /\ keys \subseteq Providers /\ clash \in BOOLEAN

(* Where a process is, it saves, is configured, and closes what is open.   *)
Seated ==
  \A p \in Shells :
    /\ saving[p].step # "none" <=> at[p] \in {"command", "adding", "removing"}
    /\ at[p] \notin {"off", "command", "killed"} => settings[p] \in Configured
    /\ at[p] = "closing" => todo[p] = clients[p]
    /\ at[p] = "gone" => clients[p] = {}

(* One of the processes saves what the file holds, and more.               *)
FileIsKept ==
  /\ ~clash =>
       /\ \A p, r \in Shells : saving[p].step # "none" /\ saving[r].step # "none" => p = r
       /\ rc.whole \/ \E p \in Shells : saving[p].step = "truncated"
       /\ keys \subseteq rc.text.keys
       /\ \A p \in Shells : saving[p].step # "none" => rc.text.keys \subseteq saving[p].text.keys
  /\ Sessions!IsInjective(rc.text.servers)
  /\ \A p \in Shells : Sessions!IsInjective(saving[p].text.servers)

(* t ends with s.                                                          *)
Ends(s, t) == Len(s) <= Len(t) /\ \A i \in 1 .. Len(s) : s[i] = t[Len(t) - Len(s) + i]

(* A history that was not cut, or is as long as it may be.                 *)
Follows(h, s) ==
  /\ Ends(h, s)
  /\ Len(h) >= MaxHistory \/ h = s
  /\ h # <<>> /\ Sessions!Last(h).role = "assistant" => Len(h) <= MaxHistory

(* The history without a prompt that was not answered yet.                 *)
Before(p) == IF at[p] = "chatting" THEN Sessions!Front(history[p]) ELSE history[p]

HistoryFollows ==
  \A p \in Shells :
    /\ Follows(Before(p), spoken[p])
    /\ at[p] = "chatting" => history[p] # <<>> /\ Sessions!Last(history[p]).role = "user"

SessionInv == SessionTypes /\ Seated /\ FileIsKept /\ HistoryFollows

-----------------------------------------------------------------------------
(* Sequences that end with one another: first the arithmetic of places.    *)
LEMMA Places ==
  /\ \A n \in Nat \ {0} : /\ (n - 1) - 1 + 1 = n - 1
                          /\ ~(1 <= n - 1) => n - 1 = 0
  /\ \A n \in Nat, k \in Nat \ {0} : k <= n =>
       /\ k + 1 \in Int /\ n \in Int
       /\ n - (k + 1) + 1 = n - k
       /\ ~(k + 1 <= n) => n - k = 0
       /\ \A i \in k + 1 .. n : i \in 1 .. n
  /\ \A i, k \in Int : 1 + i - 1 = i /\ k + 1 + i - 1 = k + i
OBVIOUS

(* A sequence that is not empty is its front and its last (WithoutAnswer). *)
LEMMA FrontAndLast ==
  ASSUME NEW S, NEW s \in Seq(S), s # <<>>
  PROVE  /\ Sessions!Front(s) \in Seq(S) /\ Sessions!Last(s) \in S
         /\ Len(Sessions!Front(s)) = Len(s) - 1 /\ Len(s) \in Nat \ {0}
         /\ \A i \in 1 .. Len(s) - 1 : Sessions!Front(s)[i] = s[i]
         /\ s = Append(Sessions!Front(s), Sessions!Last(s))
<1>1. Len(s) \in Nat \ {0} /\ \A i \in 1 .. Len(s) : s[i] \in S
  BY EmptySeq, LenProperties
<1>2. /\ Sessions!Front(s) \in Seq(S) /\ Len(Sessions!Front(s)) = Len(s) - 1
      /\ \A i \in 1 .. Len(s) - 1 : Sessions!Front(s)[i] = s[i]
  <2>1. /\ SubSeq(s, 1, Len(s) - 1) \in Seq(S)
        /\ Len(SubSeq(s, 1, Len(s) - 1)) = IF 1 <= Len(s) - 1 THEN (Len(s) - 1) - 1 + 1 ELSE 0
        /\ \A i \in 1 .. (Len(s) - 1) - 1 + 1 : SubSeq(s, 1, Len(s) - 1)[i] = s[1 + i - 1]
    <3>1. 1 \in Int /\ Len(s) - 1 \in Int /\ \A i \in 1 .. Len(s) - 1 : s[i] \in S
      BY <1>1
    <3> QED
      BY <3>1, SubSeqProperties
  <2>2. /\ (Len(s) - 1) - 1 + 1 = Len(s) - 1
        /\ ~(1 <= Len(s) - 1) => Len(s) - 1 = 0
        /\ \A i \in 1 .. Len(s) - 1 : 1 + i - 1 = i
    <3> DEFINE n == Len(s)
    <3>1. n \in Nat \ {0}
      BY <1>1
    <3> HIDE DEF n
    <3>2. /\ (n - 1) - 1 + 1 = n - 1
          /\ ~(1 <= n - 1) => n - 1 = 0
          /\ \A i \in 1 .. n - 1 : 1 + i - 1 = i
      BY <3>1, Places
    <3> QED
      BY <3>2 DEF n
  <2> QED
    BY <2>1, <2>2 DEF Sessions!Front
<1>3. Sessions!Last(s) \in S /\ Sessions!Last(s) = s[Len(s)]
  BY <1>1 DEF Sessions!Last
<1>4. s = Append(Sessions!Front(s), Sessions!Last(s))
  <2> DEFINE t == Append(Sessions!Front(s), Sessions!Last(s))
  <2>1. t \in Seq(S) /\ Len(t) = Len(s)
    BY <1>1, <1>2, <1>3, AppendProperties
  <2>2. \A i \in 1 .. Len(s) : s[i] = t[i]
    BY <1>1, <1>2, <1>3, AppendProperties
  <2> QED
    BY <2>1, <2>2, SeqEqual
<1> QED
  BY <1>1, <1>2, <1>3, <1>4

(* Taking back what was added last (chat() pops the prompt).               *)
LEMMA FrontOfAppend ==
  ASSUME NEW S, NEW s \in Seq(S), NEW e \in S
  PROVE  Sessions!Front(Append(s, e)) = s /\ Sessions!Last(Append(s, e)) = e /\ Append(s, e) # <<>>
<1>1. /\ Append(s, e) \in Seq(S) /\ Append(s, e) # <<>> /\ Len(Append(s, e)) = Len(s) + 1
      /\ \A i \in 1 .. Len(s) : Append(s, e)[i] = s[i]
      /\ Append(s, e)[Len(s) + 1] = e /\ Len(s) \in Nat
  BY AppendProperties, LenProperties
<1>2. /\ Sessions!Front(Append(s, e)) \in Seq(S) /\ Len(Sessions!Front(Append(s, e))) = Len(s)
      /\ \A i \in 1 .. Len(s) : Sessions!Front(Append(s, e))[i] = s[i]
  <2> DEFINE t == Append(s, e)
  <2>1. t \in Seq(S) /\ t # <<>> /\ Len(t) - 1 = Len(s)
    BY <1>1
  <2>2. /\ Sessions!Front(t) \in Seq(S) /\ Len(Sessions!Front(t)) = Len(t) - 1
        /\ \A i \in 1 .. Len(t) - 1 : Sessions!Front(t)[i] = t[i]
    <3> HIDE DEF t
    <3> QED
      BY <2>1, FrontAndLast
  <2> QED
    BY <1>1, <2>1, <2>2
<1> QED
  BY <1>1, <1>2, SeqEqual DEF Sessions!Last

(* The same message added to both leaves one the end of the other.         *)
LEMMA EndsAppend ==
  ASSUME NEW S, NEW s \in Seq(S), NEW t \in Seq(S), NEW e \in S, Ends(s, t)
  PROVE  Ends(Append(s, e), Append(t, e))
<1>1. /\ Len(s) \in Nat /\ Len(t) \in Nat /\ Len(s) <= Len(t)
      /\ \A i \in 1 .. Len(s) : s[i] = t[Len(t) - Len(s) + i]
  BY LenProperties DEF Ends
<1>2. \A r \in Seq(S) : /\ Len(Append(r, e)) = Len(r) + 1 /\ Len(r) \in Nat
                        /\ \A i \in 1 .. Len(r) : Append(r, e)[i] = r[i]
                        /\ Append(r, e)[Len(r) + 1] = e
  BY AppendProperties, LenProperties
<1>3. Len(Append(t, e)) - Len(Append(s, e)) = Len(t) - Len(s)
  BY <1>1, <1>2
<1>4. ASSUME NEW i \in 1 .. Len(s) + 1
      PROVE  Append(s, e)[i] = Append(t, e)[Len(t) - Len(s) + i]
  <2>1. CASE i = Len(s) + 1
    BY <1>1, <1>2, <2>1
  <2>2. CASE i \in 1 .. Len(s)
    <3>1. Len(t) - Len(s) + i \in 1 .. Len(t)
      BY <1>1, <2>2
    <3> QED
      BY <1>1, <1>2, <2>2, <3>1
  <2> QED
    BY <1>1, <2>1, <2>2
<1> QED
  <2> DEFINE u == Append(s, e)
             w == Append(t, e)
  <2>1. /\ Len(u) = Len(s) + 1 /\ Len(u) <= Len(w) /\ Len(w) - Len(u) = Len(t) - Len(s)
        /\ \A i \in 1 .. Len(s) + 1 : u[i] = w[Len(t) - Len(s) + i]
    BY <1>1, <1>2, <1>3, <1>4
  <2> HIDE DEF u, w
  <2>2. Ends(u, w)
    BY <2>1 DEF Ends
  <2> QED
    BY <2>2 DEF u, w

(* The end of an end is an end (the splice() of chat()).               *)
LEMMA EndsWithPart ==
  ASSUME NEW S, NEW s \in Seq(S), NEW t \in Seq(S), NEW n \in 0 .. Len(s), Ends(s, t)
  PROVE  LET cut == SubSeq(s, Len(s) - n + 1, Len(s))
         IN  cut \in Seq(S) /\ Len(cut) = n /\ Ends(cut, t)
<1> DEFINE cut == SubSeq(s, Len(s) - n + 1, Len(s))
<1>1. /\ Len(s) \in Nat /\ Len(t) \in Nat /\ Len(s) <= Len(t) /\ n \in Nat /\ n <= Len(s)
      /\ \A i \in 1 .. Len(s) : s[i] \in S /\ s[i] = t[Len(t) - Len(s) + i]
  BY LenProperties DEF Ends
<1>2. /\ cut \in Seq(S) /\ Len(cut) = n
      /\ \A i \in 1 .. n : cut[i] = s[Len(s) - n + i]
  <2>1. \A i \in Len(s) - n + 1 .. Len(s) : s[i] \in S
    BY <1>1
  <2>2. /\ SubSeq(s, Len(s) - n + 1, Len(s)) \in Seq(S)
        /\ Len(SubSeq(s, Len(s) - n + 1, Len(s))) = IF Len(s) - n + 1 <= Len(s) THEN Len(s) - (Len(s) - n + 1) + 1 ELSE 0
        /\ \A i \in 1 .. Len(s) - (Len(s) - n + 1) + 1 :
             SubSeq(s, Len(s) - n + 1, Len(s))[i] = s[Len(s) - n + 1 + i - 1]
    BY <1>1, <2>1, SubSeqProperties
  <2>3. Len(s) - (Len(s) - n + 1) + 1 = n /\ \A i \in 1 .. n : Len(s) - n + 1 + i - 1 = Len(s) - n + i
    BY <1>1
  <2> QED
    BY <1>1, <2>2, <2>3
<1>3. \A i \in 1 .. n : cut[i] = t[Len(t) - n + i]
  <2> SUFFICES ASSUME NEW i \in 1 .. n PROVE cut[i] = t[Len(t) - n + i]
    OBVIOUS
  <2>1. Len(s) - n + i \in 1 .. Len(s) /\ Len(t) - Len(s) + (Len(s) - n + i) = Len(t) - n + i
    BY <1>1
  <2> QED
    BY <1>1, <1>2, <2>1
<1> HIDE DEF cut
<1>4. Ends(cut, t)
  BY <1>1, <1>2, <1>3 DEF Ends
<1> QED
  BY <1>2, <1>4 DEF cut

(* Ends says what IsSuffix of SequencesExt says.                           *)
LEMMA EndsIsSuffix ==
  ASSUME NEW S, NEW s \in Seq(S), NEW t \in Seq(S), Ends(s, t)
  PROVE  Sessions!IsSuffix(s, t)
<1>1. /\ Len(s) \in Nat /\ Len(t) \in Nat /\ Len(s) <= Len(t)
      /\ \A i \in 1 .. Len(s) : s[i] \in S /\ s[i] = t[Len(t) - Len(s) + i]
      /\ \A i \in 1 .. Len(t) : t[i] \in S
  BY LenProperties DEF Ends
<1> DEFINE rs == Sessions!Reverse(s)
           rt == Sessions!Reverse(t)
<1>2. /\ rs = [i \in 1 .. Len(s) |-> s[(Len(s) - i) + 1]]
      /\ rt = [i \in 1 .. Len(t) |-> t[(Len(t) - i) + 1]]
  BY DEF Sessions!Reverse
<1>3. rs \in [1 .. Len(s) -> S] /\ rt \in [1 .. Len(t) -> S]
  <2>1. \A i \in 1 .. Len(s) : (Len(s) - i) + 1 \in 1 .. Len(s)
    BY <1>1
  <2>2. \A i \in 1 .. Len(t) : (Len(t) - i) + 1 \in 1 .. Len(t)
    BY <1>1
  <2> QED
    BY <1>1, <1>2, <2>1, <2>2
<1>4. rs \in Seq(S) /\ rt \in Seq(S) /\ Len(rs) = Len(s) /\ Len(rt) = Len(t)
  <2>1. \A r, m : m \in Nat /\ r \in [1 .. m -> S] => r \in Seq(S) /\ Len(r) = m
    OBVIOUS
  <2> HIDE DEF rs, rt
  <2> QED
    BY <1>1, <1>3, <2>1
<1>5. \A i \in 1 .. Len(s) : rs[i] = rt[i]
  <2> SUFFICES ASSUME NEW i \in 1 .. Len(s) PROVE rs[i] = rt[i]
    OBVIOUS
  <2>1. /\ (Len(s) - i) + 1 \in 1 .. Len(s) /\ i \in 1 .. Len(t)
        /\ Len(t) - Len(s) + ((Len(s) - i) + 1) = (Len(t) - i) + 1
    BY <1>1
  <2> QED
    BY <1>1, <1>2, <2>1
<1>6. /\ SubSeq(rs, 1, Len(rs)) = rs
      /\ SubSeq(rt, 1, Len(rs)) \in Seq(S) /\ Len(SubSeq(rt, 1, Len(rs))) = Len(s)
      /\ \A i \in 1 .. Len(s) : SubSeq(rt, 1, Len(rs))[i] = rt[i]
  <2> HIDE DEF rs, rt
  <2>1. \A i \in 1 .. Len(s) : rt[i] \in S
    BY <1>1, <1>3
  <2>2. /\ SubSeq(rt, 1, Len(s)) \in Seq(S)
        /\ Len(SubSeq(rt, 1, Len(s))) = IF 1 <= Len(s) THEN Len(s) - 1 + 1 ELSE 0
        /\ \A i \in 1 .. Len(s) - 1 + 1 : SubSeq(rt, 1, Len(s))[i] = rt[1 + i - 1]
    BY <1>1, <2>1, SubSeqProperties
  <2>3. Len(s) - 1 + 1 = Len(s) /\ \A i \in 1 .. Len(s) : 1 + i - 1 = i
    BY <1>1
  <2>4. SubSeq(rs, 1, Len(rs)) = rs
    BY <1>4, SubSeqFull
  <2> QED
    BY <1>1, <1>4, <2>2, <2>3, <2>4
<1> HIDE DEF rs, rt
<1>7. rs = SubSeq(rt, 1, Len(rs))
  BY <1>4, <1>5, <1>6, SeqEqual
<1> QED
  BY <1>1, <1>4, <1>6, <1>7 DEF Sessions!IsSuffix, Sessions!IsPrefix, rs, rt

-----------------------------------------------------------------------------
(* What is read from the file, and the lists that are edited.              *)
LEMMA Loaded ==
  ASSUME SessionTypes, FileIsKept
  PROVE  /\ \A found \in Sessions!LoadConfig : found \in Saved /\ Sessions!IsInjective(found.servers)
         /\ Sessions!NoFile \in Saved
<1>1. Sessions!NoFile \in Saved /\ Sessions!IsInjective(Sessions!NoFile.servers)
  BY EmptySeq DEF Sessions!NoFile, Saved, Sessions!IsInjective
<1> QED
  BY <1>1 DEF Sessions!LoadConfig, SessionTypes, FileIsKept

(* A list that holds a server once holds it no more, and the others once.  *)
LEMMA OthersAreOnce ==
  ASSUME NEW list \in Seq(Servers), Sessions!IsInjective(list), NEW s
  PROVE  LET rest == Sessions!Others(list, s)
         IN  /\ rest \in Seq(Servers) /\ Sessions!IsInjective(rest)
             /\ \A i \in DOMAIN rest : rest[i] # s
<1>1. /\ Len(list) \in Nat /\ DOMAIN list = 1 .. Len(list)
      /\ \A i \in 1 .. Len(list) : list[i] \in Servers
      /\ \A i, j \in 1 .. Len(list) : list[i] = list[j] => i = j
  BY LenProperties DEF Sessions!IsInjective
<1>2. CASE s \notin Sessions!ToSet(list)
  BY <1>1, <1>2 DEF Sessions!Others, Sessions!ToSet
<1>3. CASE s \in Sessions!ToSet(list)
  <2> DEFINE k == CHOOSE i \in DOMAIN list : list[i] = s
             first == SubSeq(list, 1, k - 1)
             last == SubSeq(list, k + 1, Len(list))
             n == Len(list)
  <2>1. k \in 1 .. n /\ list[k] = s
    BY <1>1, <1>3 DEF Sessions!ToSet
  <2>2. Sessions!Others(list, s) = first \o last
    BY <1>3 DEF Sessions!Others, Sessions!RemoveAt
  <2> HIDE DEF k
  <2>3. /\ first \in Seq(Servers) /\ Len(first) = k - 1
        /\ \A i \in 1 .. k - 1 : first[i] = list[i]
    <3>1. /\ 1 \in Int /\ k - 1 \in Int /\ \A i \in 1 .. k - 1 : list[i] \in Servers
          /\ (k - 1) - 1 + 1 = k - 1
          /\ ~(1 <= k - 1) => k - 1 = 0
          /\ \A i \in 1 .. k - 1 : 1 + i - 1 = i
      BY <1>1, <2>1
    <3>2. /\ first \in Seq(Servers)
          /\ Len(first) = IF 1 <= k - 1 THEN (k - 1) - 1 + 1 ELSE 0
          /\ \A i \in 1 .. (k - 1) - 1 + 1 : first[i] = list[1 + i - 1]
      BY <3>1, SubSeqProperties
    <3> QED
      BY <3>1, <3>2
  <2>4. /\ last \in Seq(Servers) /\ Len(last) = n - k
        /\ \A i \in 1 .. n - k : last[i] = list[k + i]
    <3>1. /\ k + 1 \in Int /\ n \in Int /\ \A i \in k + 1 .. n : list[i] \in Servers
          /\ n - (k + 1) + 1 = n - k
          /\ ~(k + 1 <= n) => n - k = 0
          /\ \A i \in 1 .. n - k : k + 1 + i - 1 = k + i
      <4>1. n \in Nat /\ k \in Nat \ {0} /\ k <= n
        BY <1>1, <2>1
      <4>2. \A i \in 1 .. n : list[i] \in Servers
        BY <1>1
      <4> HIDE DEF n
      <4> QED
        BY <4>1, <4>2, Places
    <3>2. /\ last \in Seq(Servers)
          /\ Len(last) = IF k + 1 <= n THEN n - (k + 1) + 1 ELSE 0
          /\ \A i \in 1 .. n - (k + 1) + 1 : last[i] = list[k + 1 + i - 1]
      BY <3>1, SubSeqProperties
    <3> QED
      BY <3>1, <3>2
  <2> HIDE DEF first, last
  <2> DEFINE rest == first \o last
  <2>5. /\ rest \in Seq(Servers) /\ Len(rest) = (k - 1) + (n - k)
        /\ \A i \in 1 .. (k - 1) + (n - k) : rest[i] = IF i <= k - 1 THEN first[i] ELSE last[i - (k - 1)]
    <3>1. /\ rest \in Seq(Servers) /\ Len(rest) = Len(first) + Len(last)
          /\ \A i \in 1 .. Len(first) + Len(last) :
               rest[i] = IF i <= Len(first) THEN first[i] ELSE last[i - Len(first)]
      BY <2>3, <2>4, ConcatProperties
    <3> HIDE DEF rest
    <3> QED
      BY <2>3, <2>4, <3>1
  <2>6. n \in Nat /\ k \in Nat /\ (k - 1) + (n - k) = n - 1
    BY <1>1, <2>1
  <2>7. \A i \in 1 .. n - 1 : rest[i] = list[IF i < k THEN i ELSE i + 1]
    <3> SUFFICES ASSUME NEW i \in 1 .. n - 1 PROVE rest[i] = list[IF i < k THEN i ELSE i + 1]
      OBVIOUS
    <3>1. CASE i < k
      <4>1. i \in 1 .. k - 1 /\ i <= k - 1 /\ i \in 1 .. (k - 1) + (n - k)
        BY <2>1, <2>6, <3>1
      <4> QED
        BY <2>3, <2>5, <3>1, <4>1
    <3>2. CASE ~(i < k)
      <4>1. i - (k - 1) \in 1 .. n - k /\ k + (i - (k - 1)) = i + 1 /\ ~(i <= k - 1) /\ i \in 1 .. (k - 1) + (n - k)
        BY <2>1, <2>6, <3>2
      <4> QED
        BY <2>4, <2>5, <3>2, <4>1
    <3> QED
      BY <3>1, <3>2
  <2> HIDE DEF rest
  <2>8. DOMAIN rest = 1 .. n - 1
    BY <2>5, <2>6, LenProperties
  <2>9. \A i \in 1 .. n - 1 : rest[i] # s
    <3> SUFFICES ASSUME NEW i \in 1 .. n - 1 PROVE rest[i] # s
      OBVIOUS
    <3> DEFINE j == IF i < k THEN i ELSE i + 1
    <3>1. j \in 1 .. n /\ j # k
      BY <2>1, <2>6
    <3> QED
      BY <1>1, <2>1, <2>7, <3>1
  <2>10. \A i, j \in 1 .. n - 1 : rest[i] = rest[j] => i = j
    <3> SUFFICES ASSUME NEW i \in 1 .. n - 1, NEW j \in 1 .. n - 1, rest[i] = rest[j] PROVE i = j
      OBVIOUS
    <3> DEFINE a == IF i < k THEN i ELSE i + 1
               b == IF j < k THEN j ELSE j + 1
    <3>1. a \in 1 .. n /\ b \in 1 .. n /\ (a = b => i = j)
      BY <2>1, <2>6
    <3>2. rest[i] = list[a] /\ rest[j] = list[b]
      BY <2>7
    <3> HIDE DEF a, b
    <3> QED
      BY <1>1, <3>1, <3>2
  <2> QED
    BY <2>2, <2>5, <2>8, <2>9, <2>10 DEF rest, Sessions!IsInjective
<1> QED
  BY <1>2, <1>3

(* addMcpServer() and removeMcpServer() write a list without doubles.      *)
LEMMA EditedIsSaved ==
  ASSUME NEW text \in Saved, Sessions!IsInjective(text.servers), NEW s \in Servers
  PROVE  /\ Sessions!WithServer(text, s) \in Saved /\ Sessions!Without(text, s) \in Saved
         /\ Sessions!WithServer(text, s).keys = text.keys /\ Sessions!Without(text, s).keys = text.keys
         /\ Sessions!IsInjective(Sessions!WithServer(text, s).servers)
         /\ Sessions!IsInjective(Sessions!Without(text, s).servers)
<1> DEFINE rest == Sessions!Others(text.servers, s)
           more == Append(rest, s)
<1>1. text.servers \in Seq(Servers) /\ text.keys \in SUBSET Providers
  BY DEF Saved
<1>2. /\ rest \in Seq(Servers) /\ Sessions!IsInjective(rest)
      /\ \A i \in DOMAIN rest : rest[i] # s
  BY <1>1, OthersAreOnce
<1>3. /\ Sessions!Without(text, s) = [text EXCEPT !.servers = rest]
      /\ Sessions!WithServer(text, s) = [text EXCEPT !.servers = more]
  BY <1>1 DEF Sessions!Without, Sessions!WithServer, Saved
<1> HIDE DEF rest
<1>4. /\ more \in Seq(Servers) /\ Len(more) = Len(rest) + 1 /\ Len(rest) \in Nat
      /\ \A i \in 1 .. Len(rest) : more[i] = rest[i]
      /\ more[Len(rest) + 1] = s
  BY <1>2, AppendProperties, LenProperties
<1> HIDE DEF more
<1>5. Sessions!IsInjective(more)
  <2>1. DOMAIN more = 1 .. Len(rest) + 1 /\ DOMAIN rest = 1 .. Len(rest)
    BY <1>2, <1>4, LenProperties
  <2>2. \A i \in 1 .. Len(rest) + 1 : i \in 1 .. Len(rest) \/ i = Len(rest) + 1
    BY <1>4
  <2> QED
    BY <1>2, <1>4, <2>1, <2>2 DEF Sessions!IsInjective
<1> QED
  BY <1>1, <1>2, <1>3, <1>4, <1>5 DEF Saved

-----------------------------------------------------------------------------
(* No process runs yet, and there is no file.                              *)
LEMMA SessionStart == Sessions!Init => SessionInv
<1> SUFFICES ASSUME Sessions!Init PROVE SessionInv
  OBVIOUS
<1>1. Sessions!NoFile \in Saved /\ Sessions!IsInjective(Sessions!NoFile.servers) /\ <<>> \in Seq(Messages)
  BY EmptySeq DEF Sessions!NoFile, Saved, Sessions!IsInjective
<1>2. SessionTypes
  BY <1>1 DEF Sessions!Init, SessionTypes, Sessions!NotSaving, Unset
<1>3. Seated
  BY DEF Sessions!Init, Seated, Sessions!NotSaving
<1>4. FileIsKept
  BY <1>1 DEF Sessions!Init, FileIsKept, Sessions!NotSaving
<1>5. HistoryFollows
  BY EmptySeq DEF Sessions!Init, HistoryFollows, Before, Follows, Ends
<1> QED
  BY <1>2, <1>3, <1>4, <1>5 DEF SessionInv

(* What a process writes, and where it goes on.                            *)
LEMMA SavesAreTyped ==
  ASSUME SessionInv, NEW p \in Shells,
         \/ Sessions!Truncate(p) \/ Sessions!Write(p) \/ Sessions!WriteFails(p) \/ Sessions!Crash(p)
         \/ \E v \in Providers : Sessions!SetKey(p, v)
         \/ \E s \in Servers : Sessions!McpAdd(p, s) \/ Sessions!McpRemove(p, s)
  PROVE  SessionTypes'
<1> USE DEF SessionInv, SessionTypes
<1>1. /\ \A found \in Sessions!LoadConfig : found \in Saved /\ Sessions!IsInjective(found.servers)
      /\ Sessions!NoFile \in Saved
  BY Loaded
<1>2. ASSUME NEW found, NEW text \in Saved, Sessions!Save(p, found, text)
      PROVE  /\ saving' \in [Shells -> [step : {"none", "edited", "truncated"}, text : Saved]]
             /\ rc' = rc /\ keys' = keys /\ clash' \in BOOLEAN
  BY <1>2 DEF Sessions!Save
<1>9. ASSUME NEW failed \in BOOLEAN, Sessions!Saved(p, failed),
             rc' \in [whole : BOOLEAN, text : Saved], clash' \in BOOLEAN, keys' \subseteq Providers
      PROVE  SessionTypes'
  <2>1. saving' \in [Shells -> [step : {"none", "edited", "truncated"}, text : Saved]]
    BY <1>1, <1>9 DEF Sessions!Saved, Sessions!NotSaving
  <2>2. /\ at' \in [Shells -> {"off", "command", "connecting", "prompt", "adding", "removing", "chatting",
                              "closing", "gone", "stuck", "killed"}]
        /\ todo' \in [Shells -> SUBSET Servers]
    BY <1>9 DEF Sessions!Saved, Sessions!Closing, Sessions!Goes
  <2> QED
    BY <1>9, <2>1, <2>2 DEF Sessions!Saved
<1>3. CASE Sessions!Truncate(p)
  BY <1>3 DEF Sessions!Truncate, Sessions!replVars
<1>4. CASE Sessions!Write(p)
  <2>1. keys' \subseteq Providers
    BY <1>4 DEF Sessions!Write, Saved
  <2>2. rc' \in [whole : BOOLEAN, text : Saved] /\ clash' \in BOOLEAN
    BY <1>4 DEF Sessions!Write
  <2>3. PICK failed \in BOOLEAN : Sessions!Saved(p, failed)
    BY <1>4 DEF Sessions!Write
  <2> QED
    BY <1>9, <2>1, <2>2, <2>3
<1>5. CASE Sessions!Crash(p)
  BY <1>1, <1>5 DEF Sessions!Crash, Sessions!Goes, Sessions!NotSaving
<1>10. CASE Sessions!WriteFails(p)
  <2>1. /\ Sessions!Saved(p, TRUE) /\ rc' \in [whole : BOOLEAN, text : Saved]
        /\ clash' \in BOOLEAN /\ keys' \subseteq Providers
    BY <1>10 DEF Sessions!WriteFails
  <2> QED
    BY <1>9, <2>1
<1>6. ASSUME NEW v \in Providers, Sessions!SetKey(p, v) PROVE SessionTypes'
  <2>2. PICK found \in Sessions!LoadConfig : Sessions!Save(p, found, [found EXCEPT !.keys = @ \cup {v}])
    BY <1>6 DEF Sessions!SetKey
  <2>1. [found EXCEPT !.keys = @ \cup {v}] \in Saved
    BY <1>1 DEF Saved
  <2> QED
    BY <1>2, <1>6, <2>1, <2>2 DEF Sessions!SetKey
<1>7. ASSUME NEW s \in Servers, Sessions!McpAdd(p, s) PROVE SessionTypes'
  <2>2. PICK found \in Sessions!LoadConfig : Sessions!Save(p, found, Sessions!WithServer(found, s))
    BY <1>7 DEF Sessions!McpAdd
  <2>1. Sessions!WithServer(found, s) \in Saved
    BY <1>1, EditedIsSaved
  <2> QED
    BY <1>2, <1>7, <2>1, <2>2 DEF Sessions!McpAdd, Sessions!Goes, Sessions!Connected
<1>8. ASSUME NEW s \in Servers, Sessions!McpRemove(p, s) PROVE SessionTypes'
  <2>2. ASSUME clients' = [clients EXCEPT ![p] = @ \ {s}], UNCHANGED todo,
               NEW found \in Sessions!LoadConfig,
               Sessions!Goes(p, "removing"), Sessions!Save(p, found, Sessions!Without(found, s))
        PROVE  SessionTypes'
    <3>1. Sessions!Without(found, s) \in Saved
      BY <1>1, EditedIsSaved
    <3> QED
      BY <1>2, <1>8, <2>2, <3>1 DEF Sessions!McpRemove, Sessions!Goes
  <2>3. CASE /\ clients' = [clients EXCEPT ![p] = @ \ {s}] /\ UNCHANGED todo
             /\ UNCHANGED <<at, rc, saving, keys, clash>>
    BY <1>8, <2>3 DEF Sessions!McpRemove
  <2>4. CASE Sessions!Closing(p) /\ UNCHANGED <<clients, rc, saving, keys, clash>>
    BY <1>8, <2>4 DEF Sessions!McpRemove, Sessions!Closing, Sessions!Goes
  <2> QED
    BY <1>8, <2>2, <2>3, <2>4 DEF Sessions!McpRemove, Sessions!fileVars
<1> QED
  BY <1>3, <1>4, <1>5, <1>6, <1>7, <1>8, <1>10

(* What a process does beside the file.                                    *)
LEMMA TalkIsTyped ==
  ASSUME SessionInv, NEW p \in Shells,
         \/ Sessions!ConnectSaved(p) \/ Sessions!ClearHistory(p) \/ Sessions!Exit(p) \/ Sessions!CloseNext(p)
         \/ \E v \in Providers : Sessions!StartRepl(p, v) \/ Sessions!SwitchProvider(p, v)
         \/ \E m \in Models : Sessions!SwitchModel(p, m)
         \/ \E s \in Servers : Sessions!McpConnect(p, s) \/ Sessions!McpDisconnect(p, s)
  PROVE  SessionTypes'
<1> USE DEF SessionInv, SessionTypes, Sessions!fileVars
<1>1. ASSUME NEW found \in Sessions!LoadConfig PROVE Sessions!ToSet(found.servers) \subseteq Servers
  <2>1. found.servers \in Seq(Servers)
    BY Loaded DEF Saved
  <2> QED
    BY <2>1, LenProperties DEF Sessions!ToSet
<1>11. ASSUME NEW f \in [Shells -> SUBSET Servers], NEW S \in SUBSET Servers
       PROVE  [f EXCEPT ![p] = S] \in [Shells -> SUBSET Servers]
  BY <1>11
<1>12. \A v \in Providers, m \in Offered :
         [settings EXCEPT ![p] = Uses(v, m)]
           \in [Shells -> {Unset} \cup Configured]
  <2>1. \A v \in Providers, m \in Offered :
          Uses(v, m) \in Configured
    BY DEF Configured
  <2>2. \A x \in Configured : [settings EXCEPT ![p] = x] \in [Shells -> {Unset} \cup Configured]
    OBVIOUS
  <2> QED
    BY <2>1, <2>2
<1>2. CASE Sessions!ConnectSaved(p)
  <2>1. CASE Sessions!Goes(p, "prompt") /\ UNCHANGED <<todo, clients>>
    BY <1>2, <2>1 DEF Sessions!ConnectSaved, Sessions!Goes
  <2>2. ASSUME NEW s \in todo[p], todo' = [todo EXCEPT ![p] = @ \ {s}],
               Sessions!Connected(p, s) \/ UNCHANGED clients, UNCHANGED at
        PROVE  SessionTypes'
    <3>1. s \in Servers /\ todo[p] \ {s} \in SUBSET Servers /\ clients[p] \cup {s} \in SUBSET Servers
      OBVIOUS
    <3>2. todo' \in [Shells -> SUBSET Servers]
      BY <1>11, <2>2, <3>1
    <3>3. clients' \in [Shells -> SUBSET Servers]
      BY <1>11, <2>2, <3>1 DEF Sessions!Connected
    <3> QED
      BY <1>2, <2>2, <3>2, <3>3 DEF Sessions!ConnectSaved
  <2> QED
    BY <1>2, <2>1, <2>2 DEF Sessions!ConnectSaved
<1>3. CASE Sessions!ClearHistory(p)
  BY <1>3, EmptySeq DEF Sessions!ClearHistory
<1>4. CASE Sessions!Exit(p)
  BY <1>4 DEF Sessions!Exit, Sessions!Closing, Sessions!Goes
<1>5. CASE Sessions!CloseNext(p)
  <2>1. ASSUME NEW place \in {"gone", "stuck"}, Sessions!Goes(p, place), UNCHANGED <<todo, clients>>
        PROVE  SessionTypes'
    BY <1>5, <2>1 DEF Sessions!CloseNext, Sessions!Goes
  <2>2. ASSUME NEW s \in todo[p], todo' = [todo EXCEPT ![p] = @ \ {s}],
               clients' = [clients EXCEPT ![p] = @ \ {s}], UNCHANGED at
        PROVE  SessionTypes'
    <3>1. todo' \in [Shells -> SUBSET Servers] /\ clients' \in [Shells -> SUBSET Servers]
      BY <1>11, <2>2
    <3> QED
      BY <1>5, <2>2, <3>1 DEF Sessions!CloseNext
  <2> QED
    BY <1>5, <2>1, <2>2 DEF Sessions!CloseNext
<1>6. ASSUME NEW v \in Providers, Sessions!StartRepl(p, v) PROVE SessionTypes'
  <2>1. Default[v] \in Offered
    BY DEF Offered
  <2>2. todo' \in [Shells -> SUBSET Servers] /\ settings' \in [Shells -> {Unset} \cup Configured]
    BY <1>1, <1>6, <1>11, <1>12, <2>1 DEF Sessions!StartRepl, Uses
  <2> QED
    BY <1>6, <2>2 DEF Sessions!StartRepl, Sessions!Goes
<1>7. ASSUME NEW v \in Providers, Sessions!SwitchProvider(p, v) PROVE SessionTypes'
  <2>1. Default[v] \in Offered
    BY DEF Offered
  <2>2. settings' \in [Shells -> {Unset} \cup Configured]
    BY <1>7, <1>12, <2>1 DEF Sessions!SwitchProvider, Sessions!Switched, Uses
  <2> QED
    BY <1>7, <2>2 DEF Sessions!SwitchProvider
<1>8. ASSUME NEW m \in Models, Sessions!SwitchModel(p, m) PROVE SessionTypes'
  <2>1. settings[p] \in Configured
    BY <1>8 DEF Sessions!SwitchModel, Sessions!AtPrompt, Seated
  <2>2. PICK v \in Providers, old \in Offered :
          settings[p] = Uses(v, old)
    BY <2>1 DEF Configured
  <2>3. Sessions!WithModel(Uses(v, old), m) = Uses(v, m)
    <3>1. Uses(v, old).provider = v /\ Uses(v, old).key = v
      BY DEF Uses
    <3> QED
      BY <3>1 DEF Sessions!WithModel, Uses
  <2>4. settings' = [settings EXCEPT ![p] = Sessions!WithModel(settings[p], m)]
    BY <1>8 DEF Sessions!SwitchModel
  <2>5. settings' = [settings EXCEPT ![p] = Uses(v, m)]
    BY <2>2, <2>3, <2>4
  <2>6. settings' \in [Shells -> {Unset} \cup Configured]
    BY <1>12, <2>5 DEF Offered
  <2> QED
    BY <1>8, <2>6 DEF Sessions!SwitchModel
<1>9. ASSUME NEW s \in Servers, Sessions!McpConnect(p, s) PROVE SessionTypes'
  BY <1>9 DEF Sessions!McpConnect, Sessions!Connected
<1>10. ASSUME NEW s \in Servers, Sessions!McpDisconnect(p, s) PROVE SessionTypes'
  <2>1. CASE clients' = [clients EXCEPT ![p] = @ \ {s}] /\ UNCHANGED <<at, todo>>
    BY <1>10, <1>11, <2>1 DEF Sessions!McpDisconnect
  <2>2. CASE Sessions!Closing(p) /\ UNCHANGED clients
    BY <1>10, <2>2 DEF Sessions!McpDisconnect, Sessions!Closing, Sessions!Goes
  <2> QED
    BY <1>10, <2>1, <2>2 DEF Sessions!McpDisconnect
<1> QED
  BY <1>2, <1>3, <1>4, <1>5, <1>6, <1>7, <1>8, <1>9, <1>10

(* What is said: the prompt, and what becomes of it.                       *)
LEMMA ChatStep ==
  ASSUME SessionInv, NEW p \in Shells, Sessions!Chat(p)
  PROVE  SessionTypes' /\ HistoryFollows'
<1> USE DEF SessionInv, SessionTypes, Sessions!fileVars
<1> DEFINE asked == [role |-> "user", nth |-> Len(spoken[p]) + 1]
<1>1. /\ asked \in Messages /\ history[p] \in Seq(Messages) /\ spoken[p] \in Seq(Messages)
      /\ asked.role = "user"
  BY LenProperties DEF Messages
<1>2. /\ history' = [history EXCEPT ![p] = Append(history[p], asked)]
      /\ at' = [at EXCEPT ![p] = "chatting"] /\ at[p] = "prompt"
      /\ UNCHANGED <<todo, settings, clients, spoken, rc, saving, keys, clash>>
  BY DEF Sessions!Chat, Sessions!Goes, Sessions!AtPrompt
<1> HIDE DEF asked
<1>3. /\ Append(history[p], asked) \in Seq(Messages)
      /\ Sessions!Front(Append(history[p], asked)) = history[p]
      /\ Sessions!Last(Append(history[p], asked)) = asked /\ Append(history[p], asked) # <<>>
  <2> HIDE DEF SessionInv, SessionTypes, Sessions!fileVars
  <2>1. Append(history[p], asked) \in Seq(Messages)
    BY <1>1, AppendProperties
  <2>2. /\ Sessions!Front(Append(history[p], asked)) = history[p]
        /\ Sessions!Last(Append(history[p], asked)) = asked /\ Append(history[p], asked) # <<>>
    BY <1>1, FrontOfAppend
  <2> QED
    BY <2>1, <2>2
<1>4. SessionTypes'
  BY <1>2, <1>3
<1>5. ASSUME NEW q \in Shells
      PROVE  /\ Follows(Before(q), spoken[q])'
             /\ (at[q] = "chatting" => history[q] # <<>> /\ Sessions!Last(history[q]).role = "user")'
  <2>1. CASE q = p
    <3>1. /\ history'[q] = Append(history[p], asked) /\ at'[q] = "chatting"
          /\ Before(q)' = Before(p) /\ spoken'[q] = spoken[p]
      BY <1>2, <1>3, <2>1 DEF Before
    <3> QED
      BY <1>1, <1>3, <3>1 DEF HistoryFollows, Follows
  <2>2. CASE q # p
    <3>1. history'[q] = history[q] /\ at'[q] = at[q] /\ spoken'[q] = spoken[q] /\ Before(q)' = Before(q)
      BY <1>2, <2>2 DEF Before
    <3> QED
      BY <3>1 DEF HistoryFollows, Follows
  <2> QED
    BY <2>1, <2>2
<1> QED
  BY <1>4, <1>5 DEF HistoryFollows

(* A history that is cut behind an answer.                                 *)
LEMMA TrimmedFollows ==
  ASSUME NEW h \in Seq(Messages), NEW s \in Seq(Messages), Follows(h, s),
         NEW asked \in Messages, NEW reply \in Messages
  PROVE  LET whole == Append(Append(h, asked), reply)
         IN  /\ Sessions!Trimmed(whole) \in Seq(Messages)
             /\ Follows(Sessions!Trimmed(whole), Append(Append(s, asked), reply))
<1> DEFINE whole == Append(Append(h, asked), reply)
           said1 == Append(Append(s, asked), reply)
<1>1. /\ Append(h, asked) \in Seq(Messages) /\ Append(s, asked) \in Seq(Messages)
      /\ whole \in Seq(Messages) /\ said1 \in Seq(Messages)
      /\ Len(h) \in Nat /\ Len(whole) = Len(h) + 2
  BY AppendProperties, LenProperties
<1>2. Ends(whole, said1)
  BY <1>1, EndsAppend DEF Follows
<1>3. Len(h) >= MaxHistory \/ h = s
  BY DEF Follows
<1>4. h = s => whole = said1
  OBVIOUS
<1> HIDE DEF whole, said1
<1>5. CASE Len(whole) > MaxHistory
  <2> DEFINE cut == SubSeq(whole, Len(whole) - MaxHistory + 1, Len(whole))
  <2>1. MaxHistory \in 0 .. Len(whole)
    BY <1>1, <1>5, ReplAssumption
  <2>2. cut \in Seq(Messages) /\ Len(cut) = MaxHistory /\ Ends(cut, said1)
    BY <1>1, <1>2, <2>1, EndsWithPart
  <2>3. Sessions!Trimmed(whole) = cut
    BY <1>5 DEF Sessions!Trimmed
  <2> HIDE DEF cut
  <2> QED
    BY <2>2, <2>3, ReplAssumption DEF Follows, whole, said1
<1>6. CASE ~(Len(whole) > MaxHistory)
  <2>1. whole = said1 /\ Len(whole) <= MaxHistory
    BY <1>1, <1>3, <1>4, <1>6, ReplAssumption
  <2>2. Sessions!Trimmed(whole) = whole
    BY <1>6 DEF Sessions!Trimmed
  <2> QED
    BY <1>1, <1>2, <2>1, <2>2 DEF Follows, whole, said1
<1> QED
  BY <1>5, <1>6

(* What becomes of a prompt: an answer, none, or an error.                 *)
LEMMA ChatEndsStep ==
  ASSUME SessionInv, NEW p \in Shells, Sessions!ChatEnds(p)
  PROVE  SessionTypes' /\ HistoryFollows'
<1> USE DEF SessionInv, SessionTypes, Sessions!fileVars
<1> DEFINE h == Sessions!Front(history[p])
           asked == Sessions!Last(history[p])
           reply == [role |-> "assistant", nth |-> asked.nth + 1]
           s == spoken[p]
<1>1. /\ history[p] \in Seq(Messages) /\ s \in Seq(Messages) /\ history[p] # <<>> /\ at[p] = "chatting"
      /\ asked.role = "user" /\ Follows(h, s)
  BY DEF Sessions!ChatEnds, HistoryFollows, Before
<1>2. h \in Seq(Messages) /\ asked \in Messages /\ history[p] = Append(h, asked)
  BY <1>1, FrontAndLast
<1>3. reply \in Messages
  BY <1>2 DEF Messages
<1>4. /\ UNCHANGED <<settings, clients, rc, saving, keys, clash>>
      /\ \/ at' = [at EXCEPT ![p] = "prompt"] /\ UNCHANGED todo
         \/ at' = [at EXCEPT ![p] = "closing"] /\ todo' = [todo EXCEPT ![p] = clients[p]]
  BY DEF Sessions!ChatEnds, Sessions!Goes, Sessions!Closing
<1>5. \/ /\ history' = [history EXCEPT ![p] = Sessions!Trimmed(Append(history[p], reply))]
         /\ spoken' = [spoken EXCEPT ![p] = s \o <<asked, reply>>]
      \/ spoken' = [spoken EXCEPT ![p] = Append(s, asked)] /\ UNCHANGED history
      \/ history' = [history EXCEPT ![p] = h] /\ UNCHANGED spoken
  BY DEF Sessions!ChatEnds, Sessions!WithoutAnswer
<1> HIDE DEF h, asked, reply, s
<1>6. /\ history'[p] \in Seq(Messages) /\ spoken'[p] \in Seq(Messages)
      /\ Follows(history'[p], spoken'[p])
      /\ \A q \in Shells \ {p} : history'[q] = history[q] /\ spoken'[q] = spoken[q]
      /\ history' \in [Shells -> Seq(Messages)] /\ spoken' \in [Shells -> Seq(Messages)]
  <2>1. CASE /\ history' = [history EXCEPT ![p] = Sessions!Trimmed(Append(history[p], reply))]
             /\ spoken' = [spoken EXCEPT ![p] = s \o <<asked, reply>>]
    <3>1. s \o <<asked, reply>> = Append(Append(s, asked), reply)
      BY <1>1, <1>2, <1>3
    <3>2. /\ Sessions!Trimmed(Append(history[p], reply)) \in Seq(Messages)
          /\ Follows(Sessions!Trimmed(Append(history[p], reply)), Append(Append(s, asked), reply))
      BY <1>1, <1>2, <1>3, TrimmedFollows
    <3>3. Append(Append(s, asked), reply) \in Seq(Messages)
      BY <1>1, <1>2, <1>3, AppendProperties
    <3> QED
      BY <2>1, <3>1, <3>2, <3>3
  <2>2. CASE spoken' = [spoken EXCEPT ![p] = Append(s, asked)] /\ UNCHANGED history
    <3>1. Append(s, asked) \in Seq(Messages) /\ Append(h, asked) \in Seq(Messages)
      BY <1>1, <1>2, AppendProperties
    <3>2. /\ Ends(Append(h, asked), Append(s, asked))
          /\ Len(Append(h, asked)) = Len(h) + 1 /\ Len(h) \in Nat
          /\ Sessions!Last(Append(h, asked)) = asked
      BY <1>1, <1>2, EndsAppend, FrontOfAppend, AppendProperties, LenProperties DEF Follows
    <3>3. Len(Append(h, asked)) >= MaxHistory \/ Append(h, asked) = Append(s, asked)
      BY <1>1, <3>2, ReplAssumption DEF Follows
    <3>4. Follows(Append(h, asked), Append(s, asked))
      BY <1>1, <3>2, <3>3 DEF Follows
    <3> QED
      BY <1>2, <2>2, <3>1, <3>4
  <2>3. CASE history' = [history EXCEPT ![p] = h] /\ UNCHANGED spoken
    BY <1>1, <1>2, <2>3 DEF s
  <2> QED
    BY <1>5, <2>1, <2>2, <2>3
<1>7. SessionTypes'
  <2>1. todo' \in [Shells -> SUBSET Servers]
    BY <1>4
  <2>2. at' \in [Shells -> {"off", "command", "connecting", "prompt", "adding", "removing", "chatting",
                           "closing", "gone", "stuck", "killed"}]
    BY <1>4
  <2> QED
    BY <1>4, <1>6, <2>1, <2>2
<1>8. ASSUME NEW q \in Shells
      PROVE  /\ Follows(Before(q), spoken[q])'
             /\ (at[q] = "chatting" => history[q] # <<>> /\ Sessions!Last(history[q]).role = "user")'
  <2>1. CASE q = p
    <3>1. at'[q] # "chatting" /\ Before(q)' = history'[p] /\ spoken'[q] = spoken'[p]
      BY <1>4, <2>1 DEF Before
    <3> QED
      BY <1>6, <3>1 DEF Follows
  <2>2. CASE q # p
    <3>1. history'[q] = history[q] /\ at'[q] = at[q] /\ spoken'[q] = spoken[q] /\ Before(q)' = Before(q)
      BY <1>4, <1>6, <2>2 DEF Before
    <3> QED
      BY <3>1 DEF HistoryFollows, Follows
  <2> QED
    BY <2>1, <2>2
<1> QED
  BY <1>7, <1>8 DEF HistoryFollows

-----------------------------------------------------------------------------
(* Where a process is, of each operation; q is any other one.              *)
LEMMA SeatedStep ==
  ASSUME SessionInv, Sessions!Next
  PROVE  Seated'
<1> USE DEF SessionInv, SessionTypes, Sessions!fileVars, Sessions!replVars, Sessions!Goes
<1>1. PICK p \in Shells :
        \/ Sessions!Truncate(p) \/ Sessions!Write(p) \/ Sessions!WriteFails(p) \/ Sessions!Crash(p)
        \/ Sessions!ConnectSaved(p) \/ Sessions!ClearHistory(p) \/ Sessions!Chat(p) \/ Sessions!ChatEnds(p)
        \/ Sessions!Exit(p) \/ Sessions!CloseNext(p)
        \/ \E v \in Providers : Sessions!SetKey(p, v) \/ Sessions!StartRepl(p, v) \/ Sessions!SwitchProvider(p, v)
        \/ \E m \in Models : Sessions!SwitchModel(p, m)
        \/ \E s \in Servers : \/ Sessions!McpAdd(p, s) \/ Sessions!McpConnect(p, s)
                              \/ Sessions!McpDisconnect(p, s) \/ Sessions!McpRemove(p, s)
  BY DEF Sessions!Next
<1> DEFINE Keeps == \A q \in Shells \ {p} :
      /\ saving'[q] = saving[q] /\ at'[q] = at[q] /\ settings'[q] = settings[q]
      /\ todo'[q] = todo[q] /\ clients'[q] = clients[q]
           Fits ==
      /\ saving'[p].step # "none" <=> at'[p] \in {"command", "adding", "removing"}
      /\ at'[p] \notin {"off", "command", "killed"} => settings'[p] \in Configured
      /\ at'[p] = "closing" => todo'[p] = clients'[p]
      /\ at'[p] = "gone" => clients'[p] = {}
<1>2. Keeps /\ Fits => Seated'
  BY DEF Seated
<1>3. /\ saving[p].step # "none" <=> at[p] \in {"command", "adding", "removing"}
      /\ at[p] \notin {"off", "command", "killed"} => settings[p] \in Configured
      /\ at[p] = "closing" => todo[p] = clients[p]
      /\ at[p] = "gone" => clients[p] = {}
  BY DEF Seated
<1>4. SessionTypes'
  <2>1. CASE Sessions!Chat(p) \/ Sessions!ChatEnds(p)
    BY <2>1, ChatStep, ChatEndsStep
  <2> QED
    BY <1>1, <2>1, SavesAreTyped, TalkIsTyped
<1>5. CASE Sessions!Truncate(p)
  BY <1>2, <1>3, <1>5 DEF Sessions!Truncate
<1>18. ASSUME NEW failed \in BOOLEAN, Sessions!Saved(p, failed), saving[p].step # "none"
       PROVE  Keeps /\ Fits
  BY <1>3, <1>18 DEF Sessions!Saved, Sessions!Closing, Sessions!NotSaving
<1>6. CASE Sessions!Write(p)
  BY <1>2, <1>6, <1>18 DEF Sessions!Write
<1>19. CASE Sessions!WriteFails(p)
  BY <1>2, <1>18, <1>19 DEF Sessions!WriteFails
<1>7. CASE Sessions!Crash(p)
  BY <1>2, <1>3, <1>7 DEF Sessions!Crash, Sessions!NotSaving
<1>8. CASE Sessions!ConnectSaved(p)
  BY <1>2, <1>3, <1>8 DEF Sessions!ConnectSaved, Sessions!Connected
<1>9. CASE Sessions!ClearHistory(p) \/ Sessions!Chat(p)
  BY <1>2, <1>3, <1>9 DEF Sessions!ClearHistory, Sessions!Chat, Sessions!AtPrompt
<1>10. CASE Sessions!ChatEnds(p) \/ Sessions!Exit(p)
  BY <1>2, <1>3, <1>10 DEF Sessions!ChatEnds, Sessions!Exit, Sessions!Closing, Sessions!AtPrompt
<1>11. CASE Sessions!CloseNext(p)
  <2>1. /\ at[p] = "closing" /\ todo[p] = clients[p] /\ saving' = saving /\ settings' = settings
        /\ saving[p].step = "none" /\ settings[p] \in Configured
    BY <1>3, <1>11 DEF Sessions!CloseNext
  <2>2. CASE todo[p] = {} /\ at' = [at EXCEPT ![p] = "gone"] /\ todo' = todo /\ clients' = clients
    BY <1>2, <2>1, <2>2
  <2>3. ASSUME NEW s \in todo[p], clients' = [clients EXCEPT ![p] = @ \ {s}],
               todo' = [todo EXCEPT ![p] = @ \ {s}], at' = at
        PROVE  Seated'
    <3>1. /\ clients'[p] = clients[p] \ {s} /\ todo'[p] = todo[p] \ {s}
          /\ \A q \in Shells \ {p} : clients'[q] = clients[q] /\ todo'[q] = todo[q]
      BY <2>3
    <3> QED
      BY <1>2, <2>1, <2>3, <3>1
  <2>4. CASE at' = [at EXCEPT ![p] = "stuck"] /\ todo' = todo /\ clients' = clients
    BY <1>2, <2>1, <2>4
  <2> QED
    BY <1>11, <2>2, <2>3, <2>4 DEF Sessions!CloseNext
<1>12. ASSUME NEW v \in Providers, Sessions!SetKey(p, v) PROVE Seated'
  BY <1>2, <1>3, <1>12 DEF Sessions!SetKey, Sessions!Save
<1>13. ASSUME NEW v \in Providers, Sessions!StartRepl(p, v) \/ Sessions!SwitchProvider(p, v) PROVE Seated'
  <2>1. Default[v] \in Offered
    BY DEF Offered
  <2>3. Uses(v, Default[v]) \in Configured
    BY <2>1 DEF Configured
  <2>2. settings' = [settings EXCEPT ![p] = Uses(v, Default[v])]
    BY <1>13 DEF Sessions!StartRepl, Sessions!SwitchProvider, Sessions!Switched, Uses
  <2> QED
    BY <1>2, <1>3, <1>13, <2>2, <2>3 DEF Sessions!StartRepl, Sessions!SwitchProvider, Sessions!AtPrompt
<1>14. ASSUME NEW m \in Models, Sessions!SwitchModel(p, m) PROVE Seated'
  <2>1. settings'[p] \in Configured
    <3>1. settings[p] \in Configured
      BY <1>3, <1>14 DEF Sessions!SwitchModel, Sessions!AtPrompt
    <3>2. PICK v \in Providers, old \in Offered : settings[p] = Uses(v, old)
      BY <3>1 DEF Configured
    <3>3. Sessions!WithModel(settings[p], m) = Uses(v, m)
      <4>1. Uses(v, old).provider = v /\ Uses(v, old).key = v
        BY DEF Uses
      <4> QED
        BY <3>2, <4>1 DEF Sessions!WithModel, Uses
    <3> QED
      BY <1>14, <3>3 DEF Sessions!SwitchModel, Configured, Offered
  <2> QED
    BY <1>2, <1>3, <1>14, <2>1 DEF Sessions!SwitchModel, Sessions!AtPrompt
<1>15. ASSUME NEW s \in Servers, Sessions!McpAdd(p, s) \/ Sessions!McpConnect(p, s) PROVE Seated'
  BY <1>2, <1>3, <1>15 DEF Sessions!McpAdd, Sessions!McpConnect, Sessions!Save, Sessions!Connected, Sessions!AtPrompt
<1>16. ASSUME NEW s \in Servers, Sessions!McpDisconnect(p, s) PROVE Seated'
  BY <1>2, <1>3, <1>16 DEF Sessions!McpDisconnect, Sessions!Closing, Sessions!AtPrompt
<1>17. ASSUME NEW s \in Servers, Sessions!McpRemove(p, s) PROVE Seated'
  BY <1>2, <1>3, <1>17 DEF Sessions!McpRemove, Sessions!Save, Sessions!Closing, Sessions!AtPrompt
<1> QED
  BY <1>1, <1>5, <1>6, <1>7, <1>8, <1>9, <1>10, <1>11, <1>12, <1>13, <1>14, <1>15, <1>16, <1>17, <1>19

(* The file, of each operation that touches it.                            *)
LEMMA FileStep ==
  ASSUME SessionInv, Sessions!Next
  PROVE  FileIsKept'
<1> USE DEF SessionInv, SessionTypes
<1> DEFINE One == \A p, r \in Shells : saving[p].step # "none" /\ saving[r].step # "none" => p = r
           Whole == rc.whole \/ \E p \in Shells : saving[p].step = "truncated"
           More == \A p \in Shells : saving[p].step # "none" => rc.text.keys \subseteq saving[p].text.keys
           Once == Sessions!IsInjective(rc.text.servers)
           Onces == \A p \in Shells : Sessions!IsInjective(saving[p].text.servers)
<1>11. FileIsKept <=> /\ ~clash => One /\ Whole /\ keys \subseteq rc.text.keys /\ More
                      /\ Once /\ Onces
  BY DEF FileIsKept
<1>12. FileIsKept' <=> /\ ~clash' => One' /\ Whole' /\ (keys \subseteq rc.text.keys)' /\ More'
                       /\ Once' /\ Onces'
  BY DEF FileIsKept
<1>1. ASSUME NEW p \in Shells, NEW found, NEW text \in Saved, Sessions!Save(p, found, text),
             saving[p].step = "none", Sessions!IsInjective(text.servers), found.keys \subseteq text.keys
      PROVE  FileIsKept'
  <2>1. /\ rc' = rc /\ keys' = keys /\ clash' = (clash \/ Sessions!AnySaving \/ found # rc.text)
        /\ saving'[p] = [step |-> "edited", text |-> text]
        /\ \A q \in Shells \ {p} : saving'[q] = saving[q]
    BY <1>1 DEF Sessions!Save
  <2>2. \A q \in Shells : Sessions!IsInjective(saving'[q].text.servers)
    <3> SUFFICES ASSUME NEW q \in Shells PROVE Sessions!IsInjective(saving'[q].text.servers)
      OBVIOUS
    <3>1. CASE q = p
      <4>1. saving'[q].text = text
        BY <2>1, <3>1
      <4> QED
        BY <1>1, <4>1
    <3>2. CASE q # p
      <4>1. saving'[q] = saving[q]
        BY <2>1, <3>2
      <4> QED
        BY <1>11, <4>1
    <3> QED
      BY <3>1, <3>2
  <2>3. ASSUME ~clash'
        PROVE  /\ \A q \in Shells : saving[q].step = "none"
               /\ rc.whole /\ keys \subseteq rc.text.keys /\ rc.text.keys \subseteq text.keys
    <3>1. ~clash /\ found = rc.text /\ \A q \in Shells : saving[q].step = "none"
      BY <2>1, <2>3 DEF Sessions!AnySaving
    <3>2. rc.whole /\ keys \subseteq rc.text.keys
      BY <3>1 DEF FileIsKept
    <3> QED
      BY <1>1, <3>1, <3>2
  <2>4. Once' /\ Onces'
    BY <1>11, <2>1, <2>2
  <2>5. ASSUME ~clash'
        PROVE  One' /\ Whole' /\ (keys \subseteq rc.text.keys)' /\ More'
    <3>1. /\ \A q \in Shells \ {p} : saving'[q].step = "none"
          /\ saving'[p].text = text /\ rc.whole /\ rc' = rc /\ keys' = keys
          /\ keys \subseteq rc.text.keys /\ rc.text.keys \subseteq text.keys
      BY <2>1, <2>3, <2>5
    <3> QED
      BY <3>1
  <2> QED
    BY <1>12, <2>4, <2>5
<1>2. /\ \A found \in Sessions!LoadConfig : found \in Saved /\ Sessions!IsInjective(found.servers)
      /\ Sessions!IsInjective(Sessions!NoFile.servers)
  BY Loaded DEF Sessions!NoFile, Sessions!IsInjective
<1>3. UNCHANGED Sessions!fileVars => FileIsKept'
  BY DEF Sessions!fileVars, FileIsKept
<1>4. ASSUME NEW p \in Shells, Sessions!Truncate(p) PROVE FileIsKept'
  <2>1. /\ rc'.whole = FALSE /\ rc'.text = rc.text /\ keys' = keys /\ clash' = clash
        /\ saving[p].step = "edited" /\ saving'[p].step = "truncated" /\ saving'[p].text = saving[p].text
        /\ \A q \in Shells \ {p} : saving'[q] = saving[q]
    BY <1>4 DEF Sessions!Truncate
  <2>2. \A q \in Shells : /\ saving'[q].text = saving[q].text
                          /\ saving'[q].step # "none" <=> saving[q].step # "none"
    BY <2>1
  <2>3. Once' /\ Onces'
    BY <1>11, <2>1, <2>2
  <2>4. ASSUME ~clash'
        PROVE  One' /\ Whole' /\ (keys \subseteq rc.text.keys)' /\ More'
    <3>1. One /\ More /\ keys \subseteq rc.text.keys
      BY <1>11, <2>1, <2>4
    <3>2. One'
      BY <2>2, <3>1
    <3>3. Whole'
      BY <2>1
    <3>4. (keys \subseteq rc.text.keys)' /\ More'
      BY <2>1, <2>2, <3>1
    <3> QED
      BY <3>2, <3>3, <3>4
  <2> QED
    BY <1>12, <2>3, <2>4
<1>5. ASSUME NEW p \in Shells, Sessions!Write(p) PROVE FileIsKept'
  <2>1. /\ rc'.whole = TRUE /\ rc'.text = saving[p].text /\ clash' = clash
        /\ saving[p].step = "truncated" /\ saving'[p].step = "none" /\ saving'[p].text = Sessions!NoFile
        /\ keys' = keys \cup (saving[p].text.keys \ rc.text.keys)
        /\ \A q \in Shells \ {p} : saving'[q] = saving[q]
    BY <1>5 DEF Sessions!Write, Sessions!Saved, Sessions!NotSaving
  <2>2. \A q \in Shells : \/ q = p /\ saving'[q].text = Sessions!NoFile
                          \/ q # p /\ saving'[q] = saving[q]
    BY <2>1
  <2>3. Once' /\ Onces'
    BY <1>2, <1>11, <2>1, <2>2
  <2>4. ASSUME ~clash'
        PROVE  One' /\ Whole' /\ (keys \subseteq rc.text.keys)' /\ More'
    <3>1. One /\ More /\ keys \subseteq rc.text.keys
      BY <1>11, <2>1, <2>4
    <3>2. \A q \in Shells : saving'[q].step = "none"
      <4> SUFFICES ASSUME NEW q \in Shells PROVE saving'[q].step = "none"
        OBVIOUS
      <4>1. saving[p].step # "none" /\ (saving[q].step # "none" => q = p)
        BY <2>1, <3>1
      <4> QED
        BY <2>1, <4>1
    <3>3. rc.text.keys \subseteq saving[p].text.keys
      BY <2>1, <3>1
    <3>4. (keys \subseteq rc.text.keys)'
      BY <2>1, <3>1, <3>3
    <3> QED
      BY <2>1, <3>2, <3>4
  <2> QED
    BY <1>12, <2>3, <2>4
<1>6. ASSUME NEW p \in Shells, Sessions!Crash(p) \/ Sessions!WriteFails(p) PROVE FileIsKept'
  <2>1. /\ rc' = rc /\ keys' = keys /\ clash' = (clash \/ saving[p].step = "truncated")
        /\ saving'[p].step = "none" /\ saving'[p].text = Sessions!NoFile
        /\ \A q \in Shells \ {p} : saving'[q] = saving[q]
    BY <1>6 DEF Sessions!Crash, Sessions!WriteFails, Sessions!Saved, Sessions!NotSaving
  <2>2. \A q \in Shells : \/ q = p /\ saving'[q].text = Sessions!NoFile
                          \/ q # p /\ saving'[q] = saving[q]
    BY <2>1
  <2>3. Once' /\ Onces'
    BY <1>2, <1>11, <2>1, <2>2
  <2>4. ASSUME ~clash'
        PROVE  One' /\ Whole' /\ (keys \subseteq rc.text.keys)' /\ More'
    <3>1. One /\ Whole /\ More /\ keys \subseteq rc.text.keys /\ saving[p].step # "truncated"
      BY <1>11, <2>1, <2>4
    <3>2. Whole'
      BY <2>1, <3>1
    <3>3. One' /\ More' /\ (keys \subseteq rc.text.keys)'
      BY <2>1, <2>2, <3>1
    <3> QED
      BY <3>2, <3>3
  <2> QED
    BY <1>12, <2>3, <2>4
<1>7. ASSUME NEW p \in Shells, NEW v \in Providers, Sessions!SetKey(p, v) PROVE FileIsKept'
  <2>1. PICK found \in Sessions!LoadConfig : Sessions!Save(p, found, [found EXCEPT !.keys = @ \cup {v}])
    BY <1>7 DEF Sessions!SetKey
  <2> DEFINE text == [found EXCEPT !.keys = @ \cup {v}]
  <2>2. text \in Saved /\ text.servers = found.servers /\ found.keys \subseteq text.keys
    BY <1>2 DEF Saved
  <2>3. Sessions!Save(p, found, text) /\ saving[p].step = "none"
    BY <1>7, <2>1 DEF Sessions!SetKey, Seated
  <2> HIDE DEF text
  <2> QED
    BY <1>1, <1>2, <2>2, <2>3
<1>8. ASSUME NEW p \in Shells, NEW s \in Servers, Sessions!McpAdd(p, s) PROVE FileIsKept'
  <2>1. saving[p].step = "none"
    BY <1>8 DEF Sessions!McpAdd, Sessions!AtPrompt
  <2>2. PICK found \in Sessions!LoadConfig : Sessions!Save(p, found, Sessions!WithServer(found, s))
    BY <1>8 DEF Sessions!McpAdd
  <2>3. /\ Sessions!WithServer(found, s) \in Saved /\ Sessions!WithServer(found, s).keys = found.keys
        /\ Sessions!IsInjective(Sessions!WithServer(found, s).servers)
    BY <1>2, EditedIsSaved
  <2> QED
    BY <1>1, <2>1, <2>2, <2>3
<1>9. ASSUME NEW p \in Shells, NEW s \in Servers, Sessions!McpRemove(p, s) PROVE FileIsKept'
  <2>1. saving[p].step = "none"
    BY <1>9 DEF Sessions!McpRemove, Sessions!AtPrompt
  <2>2. ASSUME NEW found \in Sessions!LoadConfig, Sessions!Save(p, found, Sessions!Without(found, s))
        PROVE  FileIsKept'
    <3>1. /\ Sessions!Without(found, s) \in Saved /\ Sessions!Without(found, s).keys = found.keys
          /\ Sessions!IsInjective(Sessions!Without(found, s).servers)
      BY <1>2, EditedIsSaved
    <3> QED
      BY <1>1, <2>1, <2>2, <3>1
  <2> QED
    BY <1>3, <1>9, <2>2 DEF Sessions!McpRemove, Sessions!fileVars
<1>10. \/ UNCHANGED Sessions!fileVars
       \/ \E p \in Shells :
            \/ Sessions!Truncate(p) \/ Sessions!Write(p) \/ Sessions!WriteFails(p) \/ Sessions!Crash(p)
            \/ \E v \in Providers : Sessions!SetKey(p, v)
            \/ \E s \in Servers : Sessions!McpAdd(p, s) \/ Sessions!McpRemove(p, s)
  BY DEF Sessions!Next, Sessions!ConnectSaved, Sessions!ClearHistory, Sessions!Chat, Sessions!ChatEnds,
         Sessions!Exit, Sessions!CloseNext, Sessions!StartRepl, Sessions!SwitchProvider, Sessions!SwitchModel,
         Sessions!McpConnect, Sessions!McpDisconnect
<1> QED
  BY <1>3, <1>4, <1>5, <1>6, <1>7, <1>8, <1>9, <1>10

(* The histories: but for a prompt, an answer or their end, what is said,  *)
(* and who is told it, stay.                                               *)
LEMMA HistoryStep ==
  ASSUME SessionInv, Sessions!Next
  PROVE  HistoryFollows'
<1> USE DEF SessionInv, SessionTypes, Sessions!fileVars, Sessions!replVars, Sessions!Goes
<1>1. PICK p \in Shells :
        \/ Sessions!Truncate(p) \/ Sessions!Write(p) \/ Sessions!WriteFails(p) \/ Sessions!Crash(p)
        \/ Sessions!ConnectSaved(p) \/ Sessions!ClearHistory(p) \/ Sessions!Chat(p) \/ Sessions!ChatEnds(p)
        \/ Sessions!Exit(p) \/ Sessions!CloseNext(p)
        \/ \E v \in Providers : Sessions!SetKey(p, v) \/ Sessions!StartRepl(p, v) \/ Sessions!SwitchProvider(p, v)
        \/ \E m \in Models : Sessions!SwitchModel(p, m)
        \/ \E s \in Servers : \/ Sessions!McpAdd(p, s) \/ Sessions!McpConnect(p, s)
                              \/ Sessions!McpDisconnect(p, s) \/ Sessions!McpRemove(p, s)
  BY DEF Sessions!Next
<1> DEFINE Silent == /\ history' = history /\ spoken' = spoken
                     /\ \A q \in Shells : at'[q] = "chatting" <=> at[q] = "chatting"
<1>2. Silent => HistoryFollows'
  <2> SUFFICES ASSUME Silent, NEW q \in Shells
               PROVE  /\ Follows(Before(q), spoken[q])'
                      /\ (at[q] = "chatting" => history[q] # <<>> /\ Sessions!Last(history[q]).role = "user")'
    BY DEF HistoryFollows
  <2>1. Before(q)' = Before(q)
    BY DEF Before
  <2> QED
    BY <2>1 DEF HistoryFollows, Follows
<1>3. /\ saving[p].step # "none" <=> at[p] \in {"command", "adding", "removing"}
  BY DEF Seated
<1>4. CASE Sessions!Truncate(p)
  BY <1>2, <1>4 DEF Sessions!Truncate
<1>5. CASE Sessions!Write(p)
  BY <1>2, <1>3, <1>5 DEF Sessions!Write, Sessions!Saved, Sessions!Closing
<1>18. CASE Sessions!WriteFails(p)
  BY <1>2, <1>3, <1>18 DEF Sessions!WriteFails, Sessions!Saved, Sessions!Closing
<1>6. CASE Sessions!Crash(p)
  BY <1>2, <1>3, <1>6 DEF Sessions!Crash
<1>7. CASE Sessions!ConnectSaved(p)
  BY <1>2, <1>7 DEF Sessions!ConnectSaved
<1>8. CASE Sessions!ClearHistory(p)
  <2>1. /\ at[p] = "prompt" /\ at' = at /\ history'[p] = <<>> /\ spoken'[p] = <<>>
        /\ \A q \in Shells \ {p} : history'[q] = history[q] /\ spoken'[q] = spoken[q]
    BY <1>8 DEF Sessions!ClearHistory, Sessions!AtPrompt
  <2> SUFFICES ASSUME NEW q \in Shells
               PROVE  /\ Follows(Before(q), spoken[q])'
                      /\ (at[q] = "chatting" => history[q] # <<>> /\ Sessions!Last(history[q]).role = "user")'
    BY DEF HistoryFollows
  <2>2. CASE q = p
    <3>1. Before(q)' = <<>> /\ at'[q] # "chatting" /\ spoken'[q] = <<>>
      BY <2>1, <2>2 DEF Before
    <3>2. Follows(<<>>, <<>>)
      BY EmptySeq DEF Follows, Ends
    <3> QED
      BY <3>1, <3>2
  <2>3. CASE q # p
    <3>1. history'[q] = history[q] /\ spoken'[q] = spoken[q] /\ at'[q] = at[q]
      BY <2>1, <2>3
    <3>2. Before(q)' = Before(q)
      BY <3>1 DEF Before
    <3> QED
      BY <3>1, <3>2 DEF HistoryFollows, Follows
  <2> QED
    BY <2>2, <2>3
<1>9. CASE Sessions!Chat(p)
  BY <1>9, ChatStep
<1>10. CASE Sessions!ChatEnds(p)
  BY <1>10, ChatEndsStep
<1>11. CASE Sessions!Exit(p)
  BY <1>2, <1>11 DEF Sessions!Exit, Sessions!Closing, Sessions!AtPrompt
<1>12. CASE Sessions!CloseNext(p)
  BY <1>2, <1>12 DEF Sessions!CloseNext
<1>13. ASSUME NEW v \in Providers,
              Sessions!SetKey(p, v) \/ Sessions!StartRepl(p, v) \/ Sessions!SwitchProvider(p, v)
       PROVE  HistoryFollows'
  BY <1>2, <1>13 DEF Sessions!SetKey, Sessions!StartRepl, Sessions!SwitchProvider
<1>14. ASSUME NEW m \in Models, Sessions!SwitchModel(p, m) PROVE HistoryFollows'
  BY <1>2, <1>14 DEF Sessions!SwitchModel
<1>15. ASSUME NEW s \in Servers, Sessions!McpAdd(p, s) \/ Sessions!McpConnect(p, s) PROVE HistoryFollows'
  BY <1>2, <1>15 DEF Sessions!McpAdd, Sessions!McpConnect, Sessions!AtPrompt
<1>16. ASSUME NEW s \in Servers, Sessions!McpDisconnect(p, s) PROVE HistoryFollows'
  BY <1>2, <1>16 DEF Sessions!McpDisconnect, Sessions!Closing, Sessions!AtPrompt
<1>17. ASSUME NEW s \in Servers, Sessions!McpRemove(p, s) PROVE HistoryFollows'
  BY <1>2, <1>17 DEF Sessions!McpRemove, Sessions!Closing, Sessions!AtPrompt
<1> QED
  BY <1>1, <1>4, <1>5, <1>6, <1>7, <1>8, <1>9, <1>10, <1>11, <1>12, <1>13, <1>14, <1>15, <1>16, <1>17, <1>18

-----------------------------------------------------------------------------
(* The sessions of the shell keep their invariant: what each remembers is  *)
(* the end of what was said, its client is the one it shows, and the file  *)
(* is saved by one at a time that has read it, or the loss is known        *)
(* (repl.ts, config.ts).                                                   *)
THEOREM SessionInvariance == Sessions!Spec => []SessionInv
<1>1. Sessions!Init => SessionInv
  BY SessionStart
<1>2. SessionInv /\ [Sessions!Next]_Sessions!vars => SessionInv'
  <2> SUFFICES ASSUME SessionInv, [Sessions!Next]_Sessions!vars PROVE SessionInv'
    OBVIOUS
  <2>1. CASE Sessions!Next
    <3>1. SessionTypes'
      <4>1. \/ SessionTypes'
            \/ \E p \in Shells : Sessions!Chat(p) \/ Sessions!ChatEnds(p)
        BY <2>1, SavesAreTyped, TalkIsTyped DEF Sessions!Next
      <4> QED
        BY <4>1, ChatStep, ChatEndsStep
    <3> QED
      BY <2>1, <3>1, SeatedStep, FileStep, HistoryStep DEF SessionInv
  <2>2. CASE UNCHANGED Sessions!vars
    BY <2>2 DEF Sessions!vars, SessionInv, SessionTypes, Seated, FileIsKept, HistoryFollows, Follows, Before
  <2> QED
    BY <2>1, <2>2
<1> QED
  BY <1>1, <1>2, PTL DEF Sessions!Spec

(* A session of the shell says what is so: its history is the end of what  *)
(* was said and within its bound after an answer, the client that answers  *)
(* is the one that is shown, no key is lost as long as saves do not        *)
(* overlap, are not cut short and have read the file, no server is saved   *)
(* twice whatever happens, and the clients are closed when it has ended    *)
(* its way (repl.ts, config.ts).                                           *)
THEOREM SessionsAreTrue == Sessions!Spec => []SessionIsTrue
<1>1. ASSUME SessionInv PROVE SessionIsTrue
  <2> USE <1>1 DEF SessionInv, SessionTypes
  <2>1. Sessions!HistoryIsWhole
    <3> SUFFICES ASSUME NEW p \in Shells
                 PROVE  /\ Sessions!IsSuffix(Before(p), spoken[p])
                        /\ Len(Before(p)) >= MaxHistory \/ Before(p) = spoken[p]
                        /\ Before(p) # <<>> /\ Sessions!Last(Before(p)).role = "assistant"
                             => Len(Before(p)) <= MaxHistory
      BY DEF Sessions!HistoryIsWhole, Before
    <3>1. Before(p) \in Seq(Messages) /\ spoken[p] \in Seq(Messages) /\ Follows(Before(p), spoken[p])
      BY FrontAndLast DEF HistoryFollows, Before
    <3> QED
      BY <3>1, EndsIsSuffix DEF Follows
  <2>2. Sessions!ModelIsShown
    <3> SUFFICES ASSUME NEW p \in Shells, settings[p].provider # "none"
                 PROVE  /\ settings[p].client = <<settings[p].provider, settings[p].provider, settings[p].model>>
                        /\ settings[p].key = settings[p].provider
      BY DEF Sessions!ModelIsShown
    <3>1. PICK v \in Providers, m \in Offered : settings[p] = Uses(v, m)
      <4>1. settings[p] # Unset
        BY DEF Unset
      <4> QED
        BY <4>1 DEF Configured
    <3> QED
      BY <3>1 DEF Uses
  <2>3. Sessions!ConfigIsKept
    BY DEF FileIsKept, Sessions!ConfigIsKept
  <2>4. Sessions!ClientsAreClosed
    BY DEF Seated, Sessions!ClientsAreClosed
  <2> QED
    BY <2>1, <2>2, <2>3, <2>4 DEF SessionIsTrue, Sessions!SessionIsTrue
<1> QED
  BY <1>1, SessionInvariance, PTL
=============================================================================
