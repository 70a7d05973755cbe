---------------------------- MODULE AgentSupervisor ----------------------------
(***************************************************************************)
(* src/graph/agent-supervisor.ts: crash reports, restart intensity, the    *)
(* three restart strategies, heartbeats and shutdown of one supervisor.    *)
(*                                                                         *)
(* Children are numbered in declaration order.  start() and every restart  *)
(* walk through an interval of them and await one factory at a time, so    *)
(* several walks overlap; the last code of one restart and the first code  *)
(* of the next run in one turn.  Every child has a heartbeatIntervalMs;    *)
(* "transient" children are treated like "permanent" ones.                 *)
(***************************************************************************)
EXTENDS Integers

CONSTANTS
  Size,               \* number of children
  Strategies,         \* among which the configuration chooses
  MayBeTemporary,     \* children whose policy may be "temporary"
  MaxRestarts,        \* intensity.maxRestarts
  Walks,              \* identities of the walks that may overlap
  MaxPings,           \* bound on the pings in flight for a child
  Reported            \* whether others than heartbeats report crashes

Children == 1 .. Size

ASSUME SupervisorAssumption ==
  /\ Size \in Nat \ {0}
  /\ Strategies \subseteq {"one-for-one", "one-for-all", "rest-for-one"}
  /\ MayBeTemporary \subseteq Children
  /\ MaxRestarts \in Nat /\ MaxPings \in Nat
  /\ Reported \in BOOLEAN

VARIABLES
  strategy,
  temporary,          \* children of that policy
  escalation,         \* what follows an exceeded intensity
  status,             \* "absent" is not in the map yet
  node,               \* children with a node
  heartbeat,          \* children with a heartbeatTimer
  restarts,           \* restartTimestamps within the window
  pings,              \* pings in flight, of whatever node
  fallback,           \* children whose degradedFallback() is awaited
  walk,               \* the child each walk awaits, and its last one
  phase               \* whether start() and shutdown() were called

vars == <<strategy, temporary, escalation, status, node, heartbeat, restarts, pings, fallback, walk, phase>>

config == <<strategy, temporary, escalation>>

(* Nothing but the status; degradedFallback(); the parent supervisor.      *)
Escalations == {"none", "fallback", "parent"}
Statuses == {"absent", "stopped", "restarting", "running", "crashed"}
Known == {c \in Children : status[c] # "absent"}

Idle == [at |-> 1, to |-> 0, starts |-> FALSE]
Walking(p) == walk[p].at <= walk[p].to
Awaited(c) == \E p \in Walks : Walking(p) /\ walk[p].at = c

Init ==
  /\ strategy \in Strategies
  /\ temporary \in SUBSET MayBeTemporary
  /\ escalation \in Escalations
  /\ status = [c \in Children |-> "absent"]
  /\ node = {} /\ heartbeat = {} /\ fallback = {}
  /\ restarts = [c \in Children |-> 0]
  /\ pings = [c \in Children |-> 0]
  /\ walk = [p \in Walks |-> Idle]
  /\ phase = "new"

-----------------------------------------------------------------------------
(* start(): the first factory is called.                                   *)
Start(p) ==
  /\ phase = "new" /\ ~Walking(p)
  /\ phase' = "started"
  /\ walk' = [walk EXCEPT ![p] = [at |-> 1, to |-> Size, starts |-> TRUE]]
  /\ status' = [status EXCEPT ![1] = "restarting"]
  /\ UNCHANGED <<node, heartbeat, restarts, pings, fallback>>

(* The walk p goes on behind its child c, whose status is now s.           *)
(* restartChild() ignores children that start() has not come to yet.       *)
Advance(p, c, s) ==
  LET next == c + 1
      goesOn == next <= walk[p].to /\ (walk[p].starts \/ next \in Known)
  IN  /\ walk' = [walk EXCEPT ![p] = IF goesOn THEN [@ EXCEPT !.at = next] ELSE Idle]
      /\ status' = [d \in Children |-> IF d = c THEN s
                                       ELSE IF d = next /\ goesOn THEN "restarting"
                                       ELSE status[d]]

(* The factory resolves: the child runs, with a new heartbeat.             *)
FactoryReturns(p) ==
  /\ Walking(p)
  /\ Advance(p, walk[p].at, "running")
  /\ node' = node \cup {walk[p].at}
  /\ heartbeat' = heartbeat \cup {walk[p].at}
  /\ UNCHANGED <<restarts, pings, fallback, phase>>

(* Variant: the failure ends the walk.                                      *)
FactoryFailsFast(p) ==
  /\ Walking(p)
  /\ status' = [status EXCEPT ![walk[p].at] = "crashed"]
  /\ walk' = [walk EXCEPT ![p] = Idle]
  /\ UNCHANGED <<node, heartbeat, restarts, pings, fallback, phase>>

(* The factory rejects: start() gives up, a restart goes on to the next.   *)
FactoryFails(p) ==
  /\ Walking(p)
  /\ IF walk[p].starts
       THEN /\ status' = [status EXCEPT ![walk[p].at] = "crashed"]
            /\ walk' = [walk EXCEPT ![p] = Idle]
       ELSE Advance(p, walk[p].at, "crashed")
  /\ UNCHANGED <<node, heartbeat, restarts, pings, fallback, phase>>

-----------------------------------------------------------------------------
(* The children a crash of c restarts.                                     *)
First(c) == IF strategy = "one-for-all" THEN 1 ELSE c
Last(c) == IF strategy = "one-for-one" THEN c ELSE Size

(* Variant: only the heartbeat of the crashed child is cleared.            *)
RestartUnwatched(p, c) ==
  LET affected == Known \cap (First(c) .. Last(c))
  IN  /\ ~Walking(p)
      /\ restarts' = [restarts EXCEPT ![c] = @ + 1]
      /\ status' = [d \in Children |-> IF d = First(c) THEN "restarting" ELSE status[d]]
      /\ node' = IF strategy = "one-for-one" THEN node ELSE node \ affected
      /\ heartbeat' = heartbeat \ {c}
      /\ walk' = [walk EXCEPT ![p] = [at |-> First(c), to |-> Last(c), starts |-> FALSE]]
      /\ UNCHANGED fallback

(* restartChild(), restartAll() or restartRestForOne(): all of the         *)
(* children concerned stop, the first is awaited.                          *)
Restart(p, c) ==
  LET affected == Known \cap (First(c) .. Last(c))
  IN  /\ ~Walking(p)
      /\ restarts' = [restarts EXCEPT ![c] = @ + 1]
      /\ status' = [d \in Children |-> IF d = First(c) THEN "restarting"
                                       ELSE IF d \in affected THEN "stopped"
                                       ELSE status[d]]
      /\ node' = IF strategy = "one-for-one" THEN node ELSE node \ affected
      /\ heartbeat' = heartbeat \ affected
      /\ walk' = [walk EXCEPT ![p] = [at |-> First(c), to |-> Last(c), starts |-> FALSE]]
      /\ UNCHANGED fallback

(* The intensity is exceeded, or the child is temporary.  The fallback is  *)
(* awaited, and so is the parent, which leaves the child as it is.         *)
GiveUp(c) ==
  /\ status' = [status EXCEPT ![c] =
       IF c \in temporary \/ escalation = "none" THEN "stopped" ELSE "crashed"]
  /\ heartbeat' = heartbeat \ {c}
  /\ fallback' = IF c \notin temporary /\ escalation = "fallback" THEN fallback \cup {c}
                 ELSE fallback
  /\ UNCHANGED <<node, restarts, walk>>

(* The guard of handleChildCrash().                                        *)
Ignores(c) == status[c] \in {"absent", "crashed", "restarting"}

Exceeded(c) == restarts[c] >= MaxRestarts

(* handleChildCrash(), up to its first await.                              *)
HandleChildCrash(c) ==
  \/ /\ Ignores(c)
     /\ UNCHANGED <<status, node, heartbeat, restarts, fallback, walk>>
  \/ /\ ~Ignores(c)
     /\ IF c \in temporary \/ Exceeded(c)
          THEN GiveUp(c)
          ELSE \E p \in Walks : Restart(p, c)

(* A crash reported by a caller, such as a child supervisor.               *)
Report(c) ==
  /\ Reported
  /\ HandleChildCrash(c)
  /\ UNCHANGED <<pings, phase>>

(* degradedFallback() settles, whatever the child does by now.             *)
FallbackReturns(c) ==
  /\ c \in fallback
  /\ fallback' = fallback \ {c}
  /\ status' = [status EXCEPT ![c] = "stopped"]
  /\ UNCHANGED <<node, heartbeat, restarts, pings, walk, phase>>

(* A timestamp leaves the window.                                          *)
Expire(c) ==
  /\ restarts[c] > 0
  /\ restarts' = [restarts EXCEPT ![c] = @ - 1]
  /\ UNCHANGED <<status, node, heartbeat, pings, fallback, walk, phase>>

(* The heartbeat timer pings the node of the moment.                       *)
Ping(c) ==
  /\ c \in heartbeat \cap node /\ status[c] = "running"
  /\ pings[c] < MaxPings
  /\ pings' = [pings EXCEPT ![c] = @ + 1]
  /\ UNCHANGED <<status, node, heartbeat, restarts, fallback, walk, phase>>

Pong(c) ==
  /\ pings[c] > 0
  /\ pings' = [pings EXCEPT ![c] = @ - 1]
  /\ UNCHANGED <<status, node, heartbeat, restarts, fallback, walk, phase>>

(* The ping rejects or times out: a crash of whatever node c has by now.   *)
PingFails(c) ==
  /\ pings[c] > 0
  /\ pings' = [pings EXCEPT ![c] = @ - 1]
  /\ HandleChildCrash(c)
  /\ UNCHANGED phase

(* shutdown() knows nothing of walks, pings and fallbacks in flight.       *)
Shutdown ==
  /\ phase = "started"
  /\ phase' = "down"
  /\ status' = [c \in Children |-> IF c \in Known THEN "stopped" ELSE "absent"]
  /\ node' = {} /\ heartbeat' = {}
  /\ UNCHANGED <<restarts, pings, fallback, walk>>

Step ==
  \/ \E p \in Walks : Start(p) \/ FactoryReturns(p) \/ FactoryFails(p)
  \/ \E c \in Children :
       \/ Report(c) \/ FallbackReturns(c) \/ Expire(c)
       \/ Ping(c) \/ Pong(c) \/ PingFails(c)
  \/ Shutdown

Next == Step /\ UNCHANGED config

Spec == Init /\ [][Next]_vars

(* Factories and fallbacks settle.                                         *)
Fairness ==
  /\ \A p \in Walks : WF_vars((FactoryReturns(p) \/ FactoryFails(p)) /\ UNCHANGED config)
  /\ \A c \in Children : WF_vars(FallbackReturns(c) /\ UNCHANGED config)

FairSpec == Spec /\ Fairness

-----------------------------------------------------------------------------
TypeOK ==
  /\ strategy \in Strategies
  /\ temporary \in SUBSET MayBeTemporary
  /\ escalation \in Escalations
  /\ status \in [Children -> Statuses]
  /\ node \subseteq Children /\ heartbeat \subseteq Children
  /\ fallback \subseteq Children
  /\ restarts \in [Children -> 0 .. MaxRestarts]
  /\ pings \in [Children -> 0 .. MaxPings]
  /\ walk \in [Walks -> [at : Children, to : 0 .. Size, starts : BOOLEAN]]
  /\ phase \in {"new", "started", "down"}

(* A restarting child has a factory in flight.  Its crashes are ignored,   *)
(* so without one nothing would bring it back.                             *)
RestartingIsAwaited == \A c \in Children : status[c] = "restarting" => Awaited(c)

(* A running child has a node and a heartbeat, however walks, crashes,     *)
(* fallbacks and shutdown overlap: its next crash will be noticed.         *)
RunningIsWatched == \A c \in Children : status[c] = "running" => c \in node \cap heartbeat

(* Under one-for-one a child is restarted by one walk at a time as long as *)
(* nobody calls shutdown() (agent-supervisor.ts:99, "Guard against         *)
(* concurrent/duplicate crash handling"): no node is started and lost.     *)
OneFactoryPerChild ==
  strategy = "one-for-one" /\ phase # "down" =>
    \A p, q \in Walks : p # q /\ Walking(p) /\ Walking(q) => walk[p].at # walk[q].at

(* Why: under one-for-one whoever is awaited is marked restarting and so   *)
(* protected from further restarts; start() only goes on to children       *)
(* nobody knows yet, and a fallback belongs to a crashed child.            *)
MarkedWhileAwaited ==
  strategy = "one-for-one" /\ phase # "down" =>
    /\ \A p \in Walks : Walking(p) =>
         /\ phase = "started" /\ status[walk[p].at] = "restarting"
         /\ IF walk[p].starts THEN \A d \in Children : d > walk[p].at => status[d] = "absent"
                              ELSE walk[p].at = walk[p].to
    /\ phase = "new" => Known = {}
    /\ \A c \in fallback : status[c] = "crashed"

(* The inductive invariant of CoordinationProofs.                          *)
IInv ==
  TypeOK /\ RestartingIsAwaited /\ RunningIsWatched /\ OneFactoryPerChild /\ MarkedWhileAwaited

(* A child that a strategy has stopped to restart it gets its turn, also   *)
(* when the factories of others fail.                                      *)
StoppedGetsItsTurn ==
  \A c \in Children :
    (\E p \in Walks : Walking(p) /\ ~walk[p].starts /\ walk[p].at < c /\ c <= walk[p].to
                      /\ c \in Known)
      ~> status[c] \in {"restarting", "running", "crashed"}
=============================================================================
