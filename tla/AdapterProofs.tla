---------------------------- MODULE AdapterProofs ---------------------------
(***************************************************************************)
(* The guarantees of the version counter of SharedContext, for any number  *)
(* of writers, operations and retries; that the stores of memories and of  *)
(* sessions keep what they took, for any calls, files, sessions and        *)
(* limits; that the REST server answers, for any requests; that what the   *)
(* observing plugins write down is true, for any runs, calls, sessions and *)
(* tools, any limits, any order of the plugins and however often the tools *)
(* have been wrapped; that who follows the events, by a stream or by       *)
(* webhooks, is told, for any events, webhooks and limits; and that the    *)
(* adapters of the filesystem port can stand in for each other, for any    *)
(* calls, names and contents.                                              *)
(***************************************************************************)
EXTENDS MCAdapters, FiniteSetTheorems, SequenceTheorems, WellFoundedInduction, TLAPS

(* An operation that moves the version replaces one nobody replaced yet.   *)
LEMMA Move ==
  ASSUME IInv, NEW w \in Writers, movedFrom[w] = Never,
         version' = version + 1,
         movedFrom' = [movedFrom EXCEPT ![w] = version]
  PROVE  VersionCountsMoves'
<1>1. w \notin Moved
  BY DEF Moved
<1>2. Moved' = Moved \cup {w}
  BY DEF Moved, Never, IInv, TypeOK
<1>3. IsFiniteSet(Moved') /\ Cardinality(Moved') = Cardinality(Moved) + 1
  BY <1>1, <1>2, FS_AddElement DEF IInv, VersionCountsMoves
<1>4. \A v \in Writers : movedFrom'[v] < version'
  BY DEF IInv, TypeOK, VersionCountsMoves, Never
<1> QED
  BY <1>3, <1>4 DEF IInv, VersionCountsMoves

(* A step that moves no version keeps the count of the moves.              *)
LEMMA Keep ==
  ASSUME IInv, UNCHANGED <<version, movedFrom>>
  PROVE  VersionCountsMoves'
BY DEF IInv, VersionCountsMoves, Moved

(* The inductive invariant: the counter equals the number of operations    *)
(* that moved it, each of them moved it once, and a merge never expects    *)
(* less than the number of its retries.                                    *)
THEOREM Invariance == Spec => []IInv
<1>1. Init => IInv
  <2> SUFFICES ASSUME Init PROVE IInv
    OBVIOUS
  <2> USE DEF Init
  <2>1. TypeOK
    BY ContextAssumption DEF TypeOK, Steps, NoValue
  <2>2. Moved = {}
    BY DEF Moved
  <2>3. VersionCountsMoves
    BY <2>2, FS_EmptySet DEF VersionCountsMoves, Never
  <2>4. MovesOnce /\ RetriesSeeProgress
    BY DEF MovesOnce, Unmoved, RetriesSeeProgress, At
  <2> QED
    BY <2>1, <2>3, <2>4 DEF IInv
<1>2. IInv /\ [Next]_vars => IInv'
  <2> SUFFICES ASSUME IInv, [Next]_vars PROVE IInv'
    OBVIOUS
  <2> USE ContextAssumption
  <2>1. ASSUME NEW w \in Writers, Begin(w) PROVE IInv'
    <3> USE <2>1 DEF Begin, At, GoTo
    <3>1. TypeOK'
      BY DEF IInv, TypeOK, Steps
    <3>2. MovesOnce'
      BY DEF IInv, TypeOK, Steps, MovesOnce, Unmoved
    <3>3. RetriesSeeProgress'
      BY DEF IInv, TypeOK, Steps, RetriesSeeProgress
    <3> QED
      BY <3>1, <3>2, <3>3, Keep DEF IInv
  <2>2. ASSUME NEW w \in Writers, Exists(w) PROVE IInv'
    <3> USE <2>2 DEF Exists, At, GoTo
    <3>1. TypeOK'
      BY DEF IInv, TypeOK, Steps, NoValue
    <3>2. MovesOnce'
      BY DEF IInv, TypeOK, Steps, MovesOnce, Unmoved
    <3>3. RetriesSeeProgress'
      BY DEF IInv, TypeOK, Steps, RetriesSeeProgress
    <3> QED
      BY <3>1, <3>2, <3>3, Keep DEF IInv
  <2>3. ASSUME NEW w \in Writers, Read(w) PROVE IInv'
    <3> USE <2>3 DEF Read, At, GoTo
    <3>1. TypeOK'
      BY DEF IInv, TypeOK, Steps
    <3>2. MovesOnce'
      BY DEF IInv, TypeOK, Steps, MovesOnce, Unmoved
    <3>3. RetriesSeeProgress'
      BY DEF IInv, TypeOK, Steps, RetriesSeeProgress
    <3> QED
      BY <3>1, <3>2, <3>3, Keep DEF IInv
  <2>4. ASSUME NEW w \in Writers, Return(w) PROVE IInv'
    <3> USE <2>4 DEF Return, At, GoTo
    <3>1. TypeOK'
      BY DEF IInv, TypeOK, Steps
    <3>2. MovesOnce'
      BY DEF IInv, TypeOK, Steps, MovesOnce, Unmoved
    <3>3. RetriesSeeProgress'
      BY DEF IInv, TypeOK, Steps, RetriesSeeProgress
    <3> QED
      BY <3>1, <3>2, <3>3, Keep DEF IInv
  <2>5. ASSUME NEW w \in Writers, Conflict(w) PROVE IInv'
    <3> USE <2>5 DEF Conflict, At, GoTo
    <3>1. TypeOK'
      BY DEF IInv, TypeOK, Steps
    <3>2. MovesOnce'
      BY DEF IInv, TypeOK, Steps, MovesOnce, Unmoved
    <3>3. RetriesSeeProgress'
      BY DEF IInv, TypeOK, Steps, RetriesSeeProgress, Never
    <3> QED
      BY <3>1, <3>2, <3>3, Keep DEF IInv
  <2>6. ASSUME NEW w \in Writers, Win(w) PROVE IInv'
    <3> USE <2>6 DEF Win, At, GoTo
    <3>1. TypeOK'
      BY DEF IInv, TypeOK, Steps
    <3>2. MovesOnce'
      BY DEF IInv, TypeOK, Steps, MovesOnce, Unmoved
    <3>3. RetriesSeeProgress'
      BY DEF IInv, TypeOK, Steps, RetriesSeeProgress, Never
    <3>4. VersionCountsMoves'
      BY Move DEF IInv, MovesOnce, Unmoved
    <3> QED
      BY <3>1, <3>2, <3>3, <3>4 DEF IInv
  <2>7. ASSUME NEW w \in Writers, Write(w) PROVE IInv'
    <3> USE <2>7 DEF Write, At, GoTo
    <3>1. TypeOK'
      <4>1. Stored(w) \in SUBSET Writers
        BY DEF IInv, TypeOK, Stored, NoValue
      <4> QED
        BY <4>1 DEF IInv, TypeOK, Steps
    <3>2. MovesOnce'
      BY DEF IInv, TypeOK, Steps, MovesOnce, Unmoved
    <3>3. RetriesSeeProgress'
      BY DEF IInv, TypeOK, Steps, RetriesSeeProgress
    <3> QED
      BY <3>1, <3>2, <3>3, Keep DEF IInv
  <2>8. ASSUME NEW w \in Writers, WriteRejects(w) PROVE IInv'
    <3> USE <2>8 DEF WriteRejects, At, GoTo
    <3>1. TypeOK'
      BY DEF IInv, TypeOK, Steps
    <3>2. MovesOnce'
      BY DEF IInv, TypeOK, Steps, MovesOnce, Unmoved
    <3>3. RetriesSeeProgress'
      BY DEF IInv, TypeOK, Steps, RetriesSeeProgress
    <3> QED
      BY <3>1, <3>2, <3>3, Keep DEF IInv
  <2>9. ASSUME NEW w \in Writers, Bump(w) PROVE IInv'
    <3> USE <2>9 DEF Bump, At, GoTo
    <3>1. TypeOK'
      BY DEF IInv, TypeOK, Steps
    <3>2. MovesOnce'
      BY DEF IInv, TypeOK, Steps, MovesOnce, Unmoved
    <3>3. RetriesSeeProgress'
      BY DEF IInv, TypeOK, Steps, RetriesSeeProgress, Never
    <3>4. VersionCountsMoves'
      BY Move DEF IInv, MovesOnce, Unmoved
    <3> QED
      BY <3>1, <3>2, <3>3, <3>4 DEF IInv
  <2>10. CASE UNCHANGED vars
    BY <2>10, Keep DEF vars, IInv, TypeOK, MovesOnce, Unmoved, RetriesSeeProgress, At
  <2> QED
    BY <2>1, <2>2, <2>3, <2>4, <2>5, <2>6, <2>7, <2>8, <2>9, <2>10 DEF Next, Step
<1> QED
  BY <1>1, <1>2, PTL DEF Spec

(* Every variable keeps its type.                                          *)
THEOREM TypeCorrect == Spec => []TypeOK
BY Invariance, PTL DEF IInv

(* No version is replaced twice: of the setVersioned() calls that expect   *)
(* the same version at most one succeeds.                                  *)
THEOREM WinnersAreUnique == Spec => []OneWinnerPerVersion
<1>1. Init => OneWinnerPerVersion
  BY DEF Init, OneWinnerPerVersion, Moved
<1>2. IInv /\ OneWinnerPerVersion /\ [Next]_vars => OneWinnerPerVersion'
  <2> SUFFICES ASSUME IInv, OneWinnerPerVersion, [Next]_vars
               PROVE  OneWinnerPerVersion'
    OBVIOUS
  <2>1. CASE UNCHANGED movedFrom
    BY <2>1 DEF OneWinnerPerVersion, Moved
  <2>2. ASSUME NEW w \in Writers, movedFrom' = [movedFrom EXCEPT ![w] = version]
        PROVE  OneWinnerPerVersion'
    <3> SUFFICES ASSUME NEW u \in Writers, NEW v \in Writers, u # v,
                        movedFrom'[u] # Never, movedFrom'[v] # Never
                 PROVE  movedFrom'[u] # movedFrom'[v]
      BY DEF OneWinnerPerVersion, Moved
    <3>1. \A x \in Writers : movedFrom[x] < version /\ movedFrom[x] \in Nat \cup {Never}
      BY DEF IInv, VersionCountsMoves, TypeOK
    <3>2. CASE w \notin {u, v}
      BY <2>2, <3>2 DEF OneWinnerPerVersion, Moved, IInv, TypeOK
    <3>3. CASE w = u
      BY <2>2, <3>1, <3>3 DEF IInv, TypeOK, Never
    <3>4. CASE w = v
      BY <2>2, <3>1, <3>4 DEF IInv, TypeOK, Never
    <3> QED
      BY <3>2, <3>3, <3>4
  <2> QED
    BY <2>1, <2>2
       DEF Next, Step, Begin, Exists, Read, Return, Conflict, Win, Write, WriteRejects,
           Bump, vars
<1> QED
  BY <1>1, <1>2, Invariance, PTL DEF Spec

(* A merge that fails met another operation's progress in every attempt.   *)
THEOREM MergeFailsOnlyContended == Spec => []GivesUpOnlyUnderContention
<1>1. IInv => GivesUpOnlyUnderContention
  <2> SUFFICES ASSUME IInv, NEW w \in Writers, op[w] = "merge", At(w, "conflict")
               PROVE  Cardinality(Moved \ {w}) > MaxRetries
    BY DEF GivesUpOnlyUnderContention
  <2>1. Moved \ {w} = Moved
    BY DEF IInv, MovesOnce, Unmoved, Moved, At
  <2>2. MaxRetries < version /\ Cardinality(Moved) = version
    BY DEF IInv, RetriesSeeProgress, VersionCountsMoves
  <2> QED
    BY <2>1, <2>2, ContextAssumption DEF IInv, TypeOK
<1> QED
  BY <1>1, Invariance, PTL

-----------------------------------------------------------------------------
(* The REST server.  Each request by itself: it has its answer exactly     *)
(* when its handler has no more to do but to dispose of the agent it made, *)
(* whoever left meanwhile; only a stream writes events, and no end of it   *)
(* before its end.                                                         *)
RestTypes ==
  /\ stage \in [Requests -> {"none", "received", "resolving", "running", "disposing", "over", "hangs"}]
  /\ status \in [Requests -> Nat]
  /\ ended \in [Requests -> BOOLEAN]
  /\ agent \in [Requests -> {"none", "live", "disposed"}]
  /\ events \in [Requests -> Seq({"token", "done", "error"})]
  /\ DOMAIN request = Requests

Over(r) == stage[r] \in {"disposing", "over"}

AnswersOnce(r) ==
  /\ ended[r] <=> Over(r)
  /\ Over(r) \/ (stage[r] = "running" /\ request[r].path = "/api/stream") => status[r] # 0

AgentIsKnown(r) ==
  /\ stage[r] \in {"none", "received", "resolving", "hangs"} => agent[r] = "none"
  /\ stage[r] = "over" => agent[r] # "live"
  /\ stage[r] = "hangs" => Rest!Hopeless(request[r])

StreamEnds(r) ==
  /\ stage[r] \in {"none", "received", "resolving", "hangs"} \/ request[r].path # "/api/stream" => events[r] = <<>>
  /\ \A i \in DOMAIN events[r] : events[r][i] # "token" <=> i = Len(events[r]) /\ ended[r]

ClosesLast == server \in {"stopping", "closed"} => \A r \in Requests : Rest!Open(r) => ended[r]

RestInv ==
  /\ RestTypes
  /\ \A r \in Requests : AnswersOnce(r) /\ AgentIsKnown(r) /\ StreamEnds(r)
  /\ ClosesLast

(* A step that leaves the requests but one alone need look at that one     *)
(* only.                                                                   *)
LEMMA OneRequest ==
  ASSUME RestInv, NEW r \in Requests, RestTypes',
         \A x \in Requests \ {r} :
           /\ stage'[x] = stage[x] /\ status'[x] = status[x] /\ ended'[x] = ended[x]
           /\ agent'[x] = agent[x] /\ events'[x] = events[x] /\ request'[x] = request[x],
         AnswersOnce(r)', AgentIsKnown(r)', StreamEnds(r)',
         UNCHANGED server, left \subseteq left',
         server \in {"listening", "closing"} \/ (Rest!Came(r) /\ (ended[r] => ended'[r]))
  PROVE  RestInv'
<1>1. ASSUME NEW x \in Requests \ {r}
      PROVE  AnswersOnce(x)' /\ AgentIsKnown(x)' /\ StreamEnds(x)'
  BY <1>1 DEF RestInv, AnswersOnce, AgentIsKnown, StreamEnds, Over
<1>2. ClosesLast'
  BY DEF RestInv, ClosesLast, Rest!Open, Rest!Came
<1> QED
  BY <1>1, <1>2 DEF RestInv

(* A request comes in while the server listens, or hears who is there.     *)
LEMMA ReceiveKeepsRest ==
  ASSUME RestInv, NEW r \in Requests, NEW what \in Rest!Sent, Rest!Receive(r, what)
  PROVE  RestInv'
<1> USE DEF Rest!Receive, Rest!Came
<1>1. RestTypes'
  BY DEF RestInv, RestTypes
<1>2. /\ stage'[r] = (IF what.path = "//" THEN "hangs" ELSE "received")
      /\ stage[r] = "none" /\ request'[r] = what
  BY DEF RestInv, RestTypes
<1>3. what.path = "//" => Rest!Hopeless(what)
  BY DEF Rest!Hopeless
<1>4. AnswersOnce(r)' /\ AgentIsKnown(r)' /\ StreamEnds(r)'
  BY <1>2, <1>3 DEF RestInv, RestTypes, AnswersOnce, AgentIsKnown, StreamEnds, Over
<1> QED
  BY <1>1, <1>4, OneRequest DEF RestInv, RestTypes

(* A client leaves: its handler has nothing of it, and close() one to wait *)
(* for less.                                                               *)
LEMMA LeaveKeepsRest ==
  ASSUME RestInv, NEW r \in Requests, Rest!Leave(r)
  PROVE  RestInv'
<1> USE DEF Rest!Leave, Rest!handler
<1>1. left \subseteq left' /\ UNCHANGED <<server, request, stage, status, ended, agent, events>>
  OBVIOUS
<1>2. RestTypes' /\ ClosesLast'
  BY <1>1 DEF RestInv, RestTypes, ClosesLast, Rest!Open, Rest!Came
<1>3. \A x \in Requests : AnswersOnce(x)' /\ AgentIsKnown(x)' /\ StreamEnds(x)'
  BY <1>1 DEF RestInv, AnswersOnce, AgentIsKnown, StreamEnds, Over
<1> QED
  BY <1>2, <1>3 DEF RestInv

(* A request that never gets to its model is over with one answer.         *)
LEMMA AnswerKeepsRest ==
  ASSUME RestInv, NEW r \in Requests, NEW code \in Nat \ {0},
         stage[r] \in {"received", "resolving"},
         Rest!Respond(r, code), Rest!Moves(r, "over"), left \subseteq left', UNCHANGED agent
  PROVE  RestInv'
<1> USE DEF Rest!Respond, Rest!Moves, Rest!Came
<1>1. RestTypes'
  BY DEF RestInv, RestTypes
<1>2. stage'[r] = "over" /\ status'[r] = code /\ ended'[r] /\ agent'[r] = "none" /\ events'[r] = <<>>
  BY DEF RestInv, RestTypes, AgentIsKnown, StreamEnds
<1>3. AnswersOnce(r)' /\ AgentIsKnown(r)' /\ StreamEnds(r)'
  BY <1>2 DEF AnswersOnce, AgentIsKnown, StreamEnds, Over
<1> QED
  BY <1>1, <1>3, OneRequest DEF RestInv, RestTypes

(* The run begins: a stream has its status at once.                        *)
LEMMA BeginKeepsRest ==
  ASSUME RestInv, NEW r \in Requests, Rest!Begin(r)
  PROVE  RestInv'
<1> USE DEF Rest!Begin, Rest!Goes, Rest!Moves, Rest!Came
<1>1. RestTypes'
  BY DEF RestInv, RestTypes
<1>2. /\ stage'[r] = "running" /\ ~ended'[r] /\ events'[r] = <<>>
      /\ request'[r].path = "/api/stream" => status'[r] # 0
  <2>1. stage'[r] = "running" /\ UNCHANGED <<ended, events, request>>
    BY DEF RestInv, RestTypes
  <2>2. status'[r] = IF request[r].path = "/api/stream" THEN 200 ELSE 0
    BY DEF RestInv, RestTypes
  <2>3. ~ended[r] /\ events[r] = <<>>
    BY DEF RestInv, AnswersOnce, StreamEnds, Over
  <2> QED
    BY <2>1, <2>2, <2>3
<1>3. AnswersOnce(r)' /\ AgentIsKnown(r)' /\ StreamEnds(r)'
  BY <1>2 DEF AnswersOnce, AgentIsKnown, StreamEnds, Over
<1> QED
  BY <1>1, <1>3, OneRequest DEF RestInv, RestTypes

(* A run that is no stream ends with its answer.                           *)
LEMMA FinishKeepsRest ==
  ASSUME RestInv, NEW r \in Requests, NEW code \in {200, 500}, Rest!Finish(r, code)
  PROVE  RestInv'
<1> USE DEF Rest!Finish, Rest!Goes, Rest!Moves, Rest!Respond, Rest!Finishes
<1>1. RestTypes'
  BY DEF RestInv, RestTypes
<1>2. /\ stage'[r] = (IF agent[r] = "live" THEN "disposing" ELSE "over")
      /\ status'[r] # 0 /\ ended'[r] /\ agent'[r] = agent[r] /\ events'[r] = <<>>
  BY DEF RestInv, RestTypes, StreamEnds
<1>3. AnswersOnce(r)' /\ AgentIsKnown(r)' /\ StreamEnds(r)'
  BY <1>2 DEF AnswersOnce, AgentIsKnown, StreamEnds, Over
<1>4. \A x \in Requests \ {r} :
        /\ stage'[x] = stage[x] /\ status'[x] = status[x] /\ ended'[x] = ended[x]
        /\ agent'[x] = agent[x] /\ events'[x] = events[x] /\ request'[x] = request[x]
  BY DEF RestInv, RestTypes
<1>5. Rest!Came(r) /\ ended'[r] /\ UNCHANGED <<server, left>>
  BY <1>2 DEF Rest!Came
<1> QED
  BY ONLY RestInv, <1>1, <1>3, <1>4, <1>5, OneRequest

(* One more event behind those a stream has.                               *)
LEMMA OneMoreEvent ==
  ASSUME RestInv, NEW r \in Requests, NEW e \in {"token", "done", "error"}, Rest!Write(r, e)
  PROVE  /\ events' \in [Requests -> Seq({"token", "done", "error"})]
         /\ \A x \in Requests \ {r} : events'[x] = events[x]
         /\ DOMAIN events'[r] = 1..Len(events[r]) + 1 /\ Len(events'[r]) = Len(events[r]) + 1
         /\ Len(events[r]) \in Nat
         /\ events'[r][Len(events[r]) + 1] = e
         /\ \A i \in 1..Len(events[r]) : events'[r][i] = events[r][i]
<1>1. events[r] \in Seq({"token", "done", "error"})
  BY DEF RestInv, RestTypes
<1>2. events'[r] = Append(events[r], e) /\ \A x \in Requests \ {r} : events'[x] = events[x]
  BY DEF Rest!Write, RestInv, RestTypes
<1>3. /\ Append(events[r], e) \in Seq({"token", "done", "error"})
      /\ Len(Append(events[r], e)) = Len(events[r]) + 1
      /\ \A i \in 1..Len(events[r]) : Append(events[r], e)[i] = events[r][i]
      /\ Append(events[r], e)[Len(events[r]) + 1] = e
  BY ONLY <1>1, AppendProperties
<1>4. events' = [events EXCEPT ![r] = Append(events[r], e)]
  BY DEF Rest!Write
<1>5. events' \in [Requests -> Seq({"token", "done", "error"})]
  BY <1>3, <1>4 DEF RestInv, RestTypes
<1>6. Len(events[r]) \in Nat /\ DOMAIN events'[r] = 1..Len(events'[r])
  BY <1>1, <1>2, <1>3, LenProperties
<1> QED
  BY <1>2, <1>3, <1>5, <1>6

(* A token is written behind tokens.                                       *)
LEMMA TokenKeepsRest ==
  ASSUME RestInv, NEW r \in Requests, Rest!Token(r)
  PROVE  RestInv'
<1> USE DEF Rest!Token, Rest!Came
<1>1. RestTypes'
  BY OneMoreEvent DEF RestInv, RestTypes
<1>2. AnswersOnce(r)' /\ AgentIsKnown(r)' /\ ~ended[r] /\ ~ended'[r]
  BY DEF RestInv, AnswersOnce, AgentIsKnown, Over
<1>3. StreamEnds(r)'
  <2>1. \A i \in DOMAIN events'[r] : events'[r][i] = "token"
    <3>1. \A i \in 1..Len(events[r]) : events[r][i] = "token"
      <4>1. DOMAIN events[r] = 1..Len(events[r])
        BY LenProperties DEF RestInv, RestTypes
      <4> QED
        BY <1>2, <4>1 DEF RestInv, StreamEnds
    <3>2. /\ DOMAIN events'[r] = 1..Len(events[r]) + 1 /\ Len(events[r]) \in Nat
          /\ events'[r][Len(events[r]) + 1] = "token"
          /\ \A i \in 1..Len(events[r]) : events'[r][i] = events[r][i]
      BY OneMoreEvent
    <3> QED
      BY ONLY <3>1, <3>2
  <2> QED
    BY <1>2, <2>1 DEF StreamEnds
<1> QED
  BY <1>1, <1>2, <1>3, OneMoreEvent, OneRequest

(* A stream ends: its last event is the one that is no token.              *)
LEMMA FinishStreamKeepsRest ==
  ASSUME RestInv, NEW r \in Requests, NEW e \in {"done", "error"}, Rest!FinishStream(r, e)
  PROVE  RestInv'
<1> USE DEF Rest!FinishStream, Rest!Goes, Rest!Moves, Rest!Finishes
<1>1. RestTypes'
  BY OneMoreEvent DEF RestInv, RestTypes
<1>2. /\ stage'[r] = (IF agent[r] = "live" THEN "disposing" ELSE "over")
      /\ ~ended[r] /\ ended'[r] /\ agent'[r] = agent[r] /\ status'[r] # 0
      /\ request'[r].path = "/api/stream"
  BY DEF RestInv, RestTypes, AnswersOnce, Over
<1>3. AnswersOnce(r)' /\ AgentIsKnown(r)'
  BY <1>2 DEF AnswersOnce, AgentIsKnown, Over
<1>4. StreamEnds(r)'
  <2>1. \A i \in DOMAIN events'[r] : events'[r][i] # "token" <=> i = Len(events'[r])
    <3>1. \A i \in 1..Len(events[r]) : events[r][i] = "token"
      <4>1. DOMAIN events[r] = 1..Len(events[r])
        BY LenProperties DEF RestInv, RestTypes
      <4> QED
        BY <1>2, <4>1 DEF RestInv, StreamEnds
    <3>2. /\ DOMAIN events'[r] = 1..Len(events[r]) + 1 /\ Len(events[r]) \in Nat
          /\ events'[r][Len(events[r]) + 1] # "token"
          /\ Len(events'[r]) = Len(events[r]) + 1
          /\ \A i \in 1..Len(events[r]) : events'[r][i] = events[r][i]
      BY OneMoreEvent
    <3>3. ASSUME NEW i \in 1..Len(events[r]) + 1
          PROVE  events'[r][i] # "token" <=> i = Len(events'[r])
      <4>1. CASE i \in 1..Len(events[r])
        BY ONLY <3>1, <3>2, <4>1
      <4>2. CASE i = Len(events[r]) + 1
        BY ONLY <3>2, <4>2
      <4> QED
        BY <3>2, <4>1, <4>2
    <3> QED
      BY ONLY <3>2, <3>3
  <2> QED
    BY <1>2, <2>1 DEF StreamEnds
<1>5. \A x \in Requests \ {r} :
        /\ stage'[x] = stage[x] /\ status'[x] = status[x] /\ ended'[x] = ended[x]
        /\ agent'[x] = agent[x] /\ events'[x] = events[x] /\ request'[x] = request[x]
  BY OneMoreEvent DEF RestInv, RestTypes
<1>6. Rest!Came(r) /\ ended'[r] /\ UNCHANGED <<server, left>>
  BY <1>2 DEF Rest!Came
<1> QED
  BY ONLY RestInv, <1>1, <1>3, <1>4, <1>5, <1>6, OneRequest

(* The agent is disposed of when all is told.                              *)
LEMMA DisposeKeepsRest ==
  ASSUME RestInv, NEW r \in Requests, Rest!Dispose(r)
  PROVE  RestInv'
<1> USE DEF Rest!Dispose, Rest!Goes, Rest!Moves, Rest!Came
<1>1. RestTypes'
  BY DEF RestInv, RestTypes
<1>2. stage'[r] = "over" /\ agent'[r] = "disposed"
  BY DEF RestInv, RestTypes
<1>3. AnswersOnce(r)' /\ AgentIsKnown(r)' /\ StreamEnds(r)'
  BY <1>2 DEF RestInv, AnswersOnce, AgentIsKnown, StreamEnds, Over
<1> QED
  BY <1>1, <1>3, OneRequest DEF RestInv, RestTypes

(* listen() and close(): what is stopping had nothing more to answer.      *)
LEMMA ServerKeepsRest ==
  ASSUME RestInv, Rest!Listen \/ Rest!Close
  PROVE  RestInv'
<1> USE DEF Rest!Listen, Rest!Close, Rest!Turns, Rest!handler
<1>1. UNCHANGED <<request, left, stage, status, ended, agent, events>>
  OBVIOUS
<1>2. ClosesLast'
  BY DEF RestInv, ClosesLast, Rest!Quiet, Rest!Open, Rest!Came
<1>3. RestTypes'
  BY <1>1 DEF RestInv, RestTypes
<1>4. \A r \in Requests : AnswersOnce(r)' /\ AgentIsKnown(r)' /\ StreamEnds(r)'
  BY <1>1 DEF RestInv, AnswersOnce, AgentIsKnown, StreamEnds, Over
<1> QED
  BY <1>2, <1>3, <1>4 DEF RestInv

(* The invariant of the REST server, for any requests and any length of a  *)
(* stream.                                                                 *)
THEOREM RestInvariance == Rest!Init /\ [][Rest!Next]_restVars => []RestInv
<1>1. Rest!Init => RestInv
  <2> SUFFICES ASSUME Rest!Init PROVE RestInv
    OBVIOUS
  <2> USE DEF Rest!Init
  <2>1. RestTypes
    BY DEF RestTypes
  <2>2. \A r \in Requests : AnswersOnce(r) /\ AgentIsKnown(r)
    BY DEF AnswersOnce, AgentIsKnown, Over
  <2>3. \A r \in Requests : StreamEnds(r)
    BY DEF StreamEnds
  <2> QED
    BY <2>1, <2>2, <2>3 DEF RestInv, ClosesLast
<1>2. RestInv /\ [Rest!Next]_restVars => RestInv'
  <2> SUFFICES ASSUME RestInv, [Rest!Next]_restVars PROVE RestInv'
    OBVIOUS
  <2>1. ASSUME NEW r \in Requests, Rest!Refuse(r) PROVE RestInv'
    <3>1. CASE Rest!Authentic(r)
      BY <2>1, <3>1, AnswerKeepsRest DEF Rest!Refuse, Rest!Goes
    <3>2. CASE ~Rest!Authentic(r)
      BY <2>1, <3>2, AnswerKeepsRest DEF Rest!Refuse, Rest!Goes
    <3> QED
      BY <3>1, <3>2
  <2>2. ASSUME NEW r \in Requests, Rest!Look(r) PROVE RestInv'
    BY <2>2, AnswerKeepsRest DEF Rest!Look, Rest!Goes
  <2>3. ASSUME NEW r \in Requests, Rest!Parse(r) PROVE RestInv'
    <3> USE <2>3 DEF Rest!Parse, Rest!Posted, Rest!Goes, Rest!Moves, Rest!Came
    <3>1. RestTypes'
      BY DEF RestInv, RestTypes
    <3>2. /\ stage[r] = "received" /\ stage'[r] = "resolving"
          /\ UNCHANGED <<request, status, ended, agent, events>>
      BY DEF RestInv, RestTypes
    <3>3. AnswersOnce(r)' /\ AgentIsKnown(r)' /\ StreamEnds(r)'
      BY <3>2 DEF RestInv, AnswersOnce, AgentIsKnown, StreamEnds, Over
    <3> QED
      BY <3>1, <3>2, <3>3, OneRequest DEF RestInv, RestTypes
  <2>6. ASSUME NEW r \in Requests, Rest!NotParsed(r) PROVE RestInv'
    <3>1. PICK code \in {400, 500} : Rest!Respond(r, code)
      BY <2>6 DEF Rest!NotParsed
    <3>2. code \in Nat \ {0}
      OBVIOUS
    <3>3. stage[r] = "received" /\ Rest!Moves(r, "over") /\ left \subseteq left' /\ UNCHANGED agent
      BY <2>6 DEF Rest!NotParsed, Rest!Posted
    <3> QED
      BY <3>1, <3>2, <3>3, AnswerKeepsRest
  <2>7. ASSUME NEW r \in Requests, Rest!Blank(r) PROVE RestInv'
    <3>1. CASE request[r].path # "/api/stream"
      <4>1. 500 \in Nat \ {0}
        OBVIOUS
      <4> QED
        BY <2>7, <3>1, <4>1, AnswerKeepsRest DEF Rest!Blank, Rest!Goes
    <3>2. CASE request[r].path = "/api/stream"
      <4>1. /\ stage[r] = "resolving" /\ request[r].body = "blank"
            /\ status' = [status EXCEPT ![r] = 200] /\ stage' = [stage EXCEPT ![r] = "hangs"]
            /\ UNCHANGED <<server, left, request, ended, agent, events>>
        BY <2>7, <3>2, Zenon DEF Rest!Blank, Rest!Goes, Rest!Moves
      <4>2. RestTypes'
        BY <4>1 DEF RestInv, RestTypes
      <4>3. stage'[r] = "hangs" /\ Rest!Hopeless(request[r]) /\ Rest!Came(r)
        BY <3>2, <4>1 DEF RestInv, RestTypes, Rest!Hopeless, Rest!Came
      <4>4. AnswersOnce(r)' /\ AgentIsKnown(r)' /\ StreamEnds(r)'
        BY <4>1, <4>3 DEF RestInv, AnswersOnce, AgentIsKnown, StreamEnds, Over
      <4>5. \A x \in Requests \ {r} :
              /\ stage'[x] = stage[x] /\ status'[x] = status[x] /\ ended'[x] = ended[x]
              /\ agent'[x] = agent[x] /\ events'[x] = events[x] /\ request'[x] = request[x]
        BY <4>1 DEF RestInv, RestTypes
      <4> QED
        BY <4>1, <4>2, <4>3, <4>4, <4>5, OneRequest
    <3> QED
      BY <3>1, <3>2
  <2>4. ASSUME NEW r \in Requests, Rest!NoModel(r) PROVE RestInv'
    <3>1. (IF request[r].path = "/api/graph/run" THEN 500 ELSE 400) \in Nat \ {0}
      OBVIOUS
    <3> QED
      BY <2>4, <3>1, AnswerKeepsRest DEF Rest!NoModel, Rest!Goes
  <2>5. CASE UNCHANGED restVars
    BY <2>5 DEF restVars, RestInv, RestTypes, AnswersOnce, AgentIsKnown, StreamEnds, Over, ClosesLast,
                Rest!Open, Rest!Came
  <2> QED
    BY <2>1, <2>2, <2>3, <2>4, <2>5, <2>6, <2>7, ReceiveKeepsRest, LeaveKeepsRest, BeginKeepsRest, FinishKeepsRest, TokenKeepsRest,
       FinishStreamKeepsRest, DisposeKeepsRest, ServerKeepsRest DEF Rest!Next
<1> QED
  BY <1>1, <1>2, PTL

(* Requests have one answer and leave no agent behind, whether or not      *)
(* their clients stay, and the server's own agent does not go before those *)
(* that stayed have their answers.                                         *)
THEOREM RequestsAreServed == Rest!Init /\ [][Rest!Next]_restVars => []HandlersCleanUp
<1>1. RestInv => HandlersCleanUp
  BY DEF RestInv, AnswersOnce, AgentIsKnown, StreamEnds, ClosesLast, Over, HandlersCleanUp,
         Rest!HandlersCleanUp, Rest!Open, Rest!Came
<1> QED
  BY <1>1, RestInvariance, PTL

-----------------------------------------------------------------------------
(* The stores of sessions.  Of what a session has saved the store has one  *)
(* that is as late as any, no other it has is later by the order it goes   *)
(* by, and no call is about to delete it.                                  *)
Record == [id : Nat, step : Nat, at : Nat, nth : Nat]

Top(list, all, doomed, m) ==
  /\ m \in list
  /\ \A x \in list : x = m \/ Checkpoints!Older(x, m)
  /\ \A x \in all : Checkpoints!Rank(x) <= Checkpoints!Rank(m)
  /\ m \notin doomed

Doomed(s) == UNION {call[c].old : c \in {d \in CleaningCalls : call[d].pc = "deleting" /\ call[d].session = s}}

TopIsKept == \A s \in StoredSessions :
  checkpoints[s] \cup saved[s] # {} => \E m \in checkpoints[s] : Top(checkpoints[s], saved[s], Doomed(s), m)

SessionTypes ==
  /\ checkpoints \in [StoredSessions -> SUBSET Record]
  /\ saved \in [StoredSessions -> SUBSET Record]
  /\ checkpointsMade \in Nat
  /\ call \in [CleaningCalls -> {Checkpoints!Idle}
                 \cup [pc : {"deleting"}, session : StoredSessions, old : SUBSET Record]]
  /\ since \in [StoredSessions -> SUBSET StoredSessions]

MadeInOrder == \A s \in StoredSessions : \A x \in checkpoints[s] \cup saved[s] : x.nth <= checkpointsMade

(* A database holds only what was saved, and its ids are told apart; the   *)
(* Map forgets nothing its history remembers.                              *)
OfDatabases ==
  adapter # "memory" => \A s \in StoredSessions : checkpoints[s] \subseteq saved[s] /\ Doomed(s) \subseteq saved[s]

OfMap ==
  adapter = "memory" =>
    /\ \A c \in CleaningCalls : call[c] = Checkpoints!Idle
    /\ \A s \in DOMAIN sessionOrder : s \in StoredSessions /\ sessionOrder[s] \subseteq since[s]

SessionInv == SessionTypes /\ MadeInOrder /\ OfDatabases /\ OfMap /\ TopIsKept

(* The order of checkpoints is total, but for those of one place and id.   *)
LEMMA OrderIsTotal ==
  ASSUME NEW x \in Record, NEW y \in Record
  PROVE  /\ Checkpoints!Rank(x) \in Nat
         /\ ~Checkpoints!Older(x, x)
         /\ Checkpoints!Older(x, y) => ~Checkpoints!Older(y, x) /\ Checkpoints!Rank(x) <= Checkpoints!Rank(y)
         /\ x.id # y.id \/ Checkpoints!Rank(x) # Checkpoints!Rank(y)
              => Checkpoints!Older(x, y) \/ Checkpoints!Older(y, x)
<1>1. Checkpoints!Rank(x) \in Nat /\ Checkpoints!Rank(y) \in Nat /\ x.id \in Nat /\ y.id \in Nat
  BY DEF Record, Checkpoints!Rank
<1> DEFINE p == Checkpoints!Rank(x)  q == Checkpoints!Rank(y)
<1>2. /\ Checkpoints!Older(x, y) <=> p < q \/ (p = q /\ x.id < y.id)
      /\ Checkpoints!Older(y, x) <=> q < p \/ (p = q /\ y.id < x.id)
      /\ Checkpoints!Older(x, x) <=> p < p \/ (p = p /\ x.id < x.id)
  BY DEF Checkpoints!Older
<1> HIDE DEF p, q
<1>3. p \in Nat /\ q \in Nat /\ x.id \in Nat /\ y.id \in Nat
  BY <1>1 DEF p, q
<1>4. /\ ~Checkpoints!Older(x, x)
      /\ Checkpoints!Older(x, y) => ~Checkpoints!Older(y, x) /\ p <= q
      /\ x.id # y.id \/ p # q => Checkpoints!Older(x, y) \/ Checkpoints!Older(y, x)
  BY ONLY <1>2, <1>3
<1> QED
  BY <1>1, <1>4 DEF p, q

(* The order has no circles.                                               *)
LEMMA OrderIsTransitive ==
  ASSUME NEW x \in Record, NEW y \in Record, NEW z \in Record,
         Checkpoints!Older(x, y), Checkpoints!Older(y, z)
  PROVE  Checkpoints!Older(x, z)
<1> DEFINE p == Checkpoints!Rank(x)  q == Checkpoints!Rank(y)  r == Checkpoints!Rank(z)
<1>1. p \in Nat /\ q \in Nat /\ r \in Nat /\ x.id \in Nat /\ y.id \in Nat /\ z.id \in Nat
  BY OrderIsTotal DEF Record
<1>2. /\ p < q \/ (p = q /\ x.id < y.id)
      /\ q < r \/ (q = r /\ y.id < z.id)
      /\ Checkpoints!Older(x, z) <=> p < r \/ (p = r /\ x.id < z.id)
  BY DEF Checkpoints!Older
<1> HIDE DEF p, q, r
<1> QED
  BY ONLY <1>1, <1>2

(* A checkpoint nobody has yet makes one of the two the top.               *)
LEMMA OneMore ==
  ASSUME NEW list \in SUBSET Record, NEW all \in SUBSET Record, NEW doomed, NEW x \in Record,
         x \notin doomed,
         \A y \in list : y.id # x.id \/ Checkpoints!Rank(y) < Checkpoints!Rank(x),
         list = {} => all = {},
         list # {} => \E m \in list : Top(list, all, doomed, m)
  PROVE  \E m \in list \cup {x} : Top(list \cup {x}, all \cup {x}, doomed, m)
<1>1. CASE list = {}
  <2>1. Top(list \cup {x}, all \cup {x}, doomed, x)
    BY <1>1, OrderIsTotal DEF Top
  <2> QED
    BY <2>1
<1>2. CASE list # {}
  <2>1. PICK m \in list : Top(list, all, doomed, m)
    BY <1>2
  <2>2. m \in Record
    OBVIOUS
  <2>3. m.id # x.id \/ Checkpoints!Rank(m) # Checkpoints!Rank(x)
    <3>1. Checkpoints!Rank(m) \in Nat /\ Checkpoints!Rank(x) \in Nat
      BY <2>2, OrderIsTotal
    <3>2. m.id # x.id \/ Checkpoints!Rank(m) < Checkpoints!Rank(x)
      OBVIOUS
    <3> QED
      BY ONLY <3>1, <3>2
  <2>4. CASE Checkpoints!Older(x, m)
    <3>1. Checkpoints!Rank(x) <= Checkpoints!Rank(m)
      BY <2>2, <2>4, OrderIsTotal
    <3>2. Top(list \cup {x}, all \cup {x}, doomed, m)
      BY <2>1, <2>4, <3>1 DEF Top
    <3> QED
      BY <3>2
  <2>5. CASE Checkpoints!Older(m, x)
    <3>1. Checkpoints!Rank(m) <= Checkpoints!Rank(x)
      BY <2>2, <2>5, OrderIsTotal
    <3>2. \A y \in list \cup {x} : y = x \/ Checkpoints!Older(y, x)
      BY <2>1, <2>2, <2>5, OrderIsTransitive DEF Top
    <3>3. ASSUME NEW y \in all \cup {x}
          PROVE  Checkpoints!Rank(y) <= Checkpoints!Rank(x)
      <4>1. /\ Checkpoints!Rank(y) \in Nat /\ Checkpoints!Rank(m) \in Nat /\ Checkpoints!Rank(x) \in Nat
        BY <2>2, OrderIsTotal
      <4>2. y = x \/ Checkpoints!Rank(y) <= Checkpoints!Rank(m)
        BY <2>1 DEF Top
      <4> QED
        BY ONLY <3>1, <4>1, <4>2
    <3>4. Top(list \cup {x}, all \cup {x}, doomed, x)
      BY <3>2, <3>3 DEF Top
    <3> QED
      BY <3>4
  <2> QED
    BY <2>2, <2>3, <2>4, <2>5, OrderIsTotal
<1> QED
  BY <1>1, <1>2

(* The instance counts as everybody does.                                  *)
LEMMA Counted == \A S : Checkpoints!Cardinality(S) = Cardinality(S)
BY Zenon DEF Checkpoints!Cardinality, Cardinality

(* The top is not among what is found too old.                             *)
LEMMA TopIsYoung ==
  ASSUME NEW list \in SUBSET Record, NEW all, NEW doomed, NEW m \in list, Top(list, all, doomed, m),
         NEW keep \in Keeps
  PROVE  m \notin Checkpoints!TooOld(list, keep)
<1>1. \A y \in list : ~Checkpoints!Older(m, y)
  <2> SUFFICES ASSUME NEW y \in list, Checkpoints!Older(m, y)  PROVE FALSE
    OBVIOUS
  <2>1. y = m \/ Checkpoints!Older(y, m)
    BY DEF Top
  <2> QED
    BY <2>1, OrderIsTotal
<1>2. {y \in list : Checkpoints!Older(m, y)} = {}
  BY <1>1
<1>3. Cardinality({y \in list : Checkpoints!Older(m, y)}) = 0
  BY <1>2, FS_EmptySet
<1>4. keep \in Nat \ {0}
  BY AdaptersAssumption
<1>5. ~(Cardinality({y \in list : Checkpoints!Older(m, y)}) >= keep)
  BY ONLY <1>3, <1>4
<1> QED
  BY <1>5, Counted DEF Checkpoints!TooOld

(* The Map forgets no session its history remembers.                       *)
LEMMA EvictedAreForgotten ==
  ASSUME SessionInv, adapter = "memory", NEW sess \in StoredSessions,
         since' = [s \in StoredSessions |-> IF s = sess THEN {} ELSE since[s] \cup {sess}]
  PROVE  /\ \A s \in DOMAIN Checkpoints!Tracked(sess) :
               s \in StoredSessions /\ Checkpoints!Tracked(sess)[s] \subseteq since'[s]
         /\ Checkpoints!TooMany(Checkpoints!Tracked(sess)) \subseteq Checkpoints!TooMany(since')
<1> DEFINE behind == Checkpoints!Tracked(sess)
<1>1. \A s \in DOMAIN behind : s \in StoredSessions /\ behind[s] \subseteq since'[s]
  <2>1. behind = [s \in DOMAIN sessionOrder \cup {sess} |->
                   IF s = sess THEN {} ELSE sessionOrder[s] \cup {sess}]
    BY DEF Checkpoints!Tracked
  <2>2. \A s \in DOMAIN sessionOrder : s \in StoredSessions /\ sessionOrder[s] \subseteq since[s]
    BY DEF SessionInv, OfMap
  <2> HIDE DEF behind
  <2> QED
    BY <2>1, <2>2
<1> HIDE DEF behind
<1>2. ASSUME NEW s \in DOMAIN behind, Cardinality(behind[s]) >= MaxSessions
      PROVE  Cardinality(since'[s]) >= MaxSessions
  <2>1. since'[s] \subseteq StoredSessions /\ behind[s] \subseteq since'[s]
    BY <1>1 DEF SessionInv, SessionTypes
  <2>2. IsFiniteSet(since'[s])
    BY <2>1, FS_Subset, AdaptersAssumption
  <2>3. IsFiniteSet(behind[s]) /\ Cardinality(behind[s]) <= Cardinality(since'[s])
    BY <2>1, <2>2, FS_Subset
  <2>4. Cardinality(behind[s]) \in Nat /\ Cardinality(since'[s]) \in Nat /\ MaxSessions \in Nat
    BY <2>2, <2>3, FS_CardinalityType, AdaptersAssumption
  <2> QED
    BY ONLY <1>2, <2>3, <2>4
<1>3. Checkpoints!TooMany(behind) \subseteq Checkpoints!TooMany(since')
  BY <1>1, <1>2, Counted DEF Checkpoints!TooMany
<1> QED
  BY <1>1, <1>3 DEF behind

(* What is no longer asked for leaves the top where it is.                 *)
LEMMA TopOfFewer ==
  ASSUME NEW list, NEW all, NEW fewer \in SUBSET all, NEW doomed, NEW m, Top(list, all, doomed, m)
  PROVE  Top(list, fewer, doomed, m)
BY DEF Top

(* trackSession() and the history: once the session has what it saves, the *)
(* invariant holds whoever is forgotten.                                   *)
LEMMA TrackKeepsSessions ==
  ASSUME SessionInv, NEW sess \in StoredSessions,
         NEW cps \in [StoredSessions -> SUBSET Record], NEW now \in [StoredSessions -> SUBSET Record], NEW oth,
         Checkpoints!TrackSession(sess, cps, oth), Checkpoints!Remember(sess, now),
         UNCHANGED <<adapter, call>>, checkpointsMade' \in Nat,
         \A s \in StoredSessions : \A x \in cps[s] \cup now[s] : x.nth <= checkpointsMade',
         adapter # "memory" => \A s \in StoredSessions : cps[s] \subseteq now[s] /\ Doomed(s) \subseteq now[s],
         \A s \in StoredSessions :
            cps[s] \cup now[s] # {} => \E m \in cps[s] : Top(cps[s], now[s], Doomed(s), m)
  PROVE  SessionInv'
<1>1. /\ since' = [s \in StoredSessions |-> IF s = sess THEN {} ELSE since[s] \cup {sess}]
      /\ saved' = [s \in StoredSessions |->
                     IF adapter = "memory" /\ s \in Checkpoints!TooMany(since') THEN {} ELSE now[s]]
  BY DEF Checkpoints!Remember
<1>2. since' \in [StoredSessions -> SUBSET StoredSessions]
  BY <1>1 DEF SessionInv, SessionTypes
<1>3. \A s \in StoredSessions : Doomed(s)' = Doomed(s)
  BY DEF Doomed
<1>4. \A list, all, doomed, m : Top(list, all, doomed, m) => Top(list, all, doomed, m)'
  BY DEF Top, Checkpoints!Older, Checkpoints!Rank
<1>5. /\ checkpoints' \in [StoredSessions -> SUBSET Record]
      /\ \A s \in StoredSessions :
           \/ checkpoints'[s] = {} /\ saved'[s] = {}
           \/ checkpoints'[s] = cps[s] /\ saved'[s] \subseteq now[s]
      /\ adapter # "memory" => checkpoints' = cps /\ saved' = now
      /\ OfMap'
  <2>1. CASE adapter # "memory"
    <3>1. checkpoints' = cps
      BY <2>1 DEF Checkpoints!TrackSession
    <3>2. saved' = now
      BY <1>1, <2>1
    <3> QED
      BY <2>1, <3>1, <3>2 DEF OfMap
  <2>2. CASE adapter = "memory"
    <3> DEFINE behind == Checkpoints!Tracked(sess)
               evicted == Checkpoints!TooMany(behind)
    <3>1. /\ sessionOrder' = [s \in DOMAIN behind \ evicted |-> behind[s]]
          /\ checkpoints' = [s \in StoredSessions |-> IF s \in evicted THEN {} ELSE cps[s]]
      BY <2>2 DEF Checkpoints!TrackSession
    <3>2. /\ \A s \in DOMAIN behind : s \in StoredSessions /\ behind[s] \subseteq since'[s]
          /\ evicted \subseteq Checkpoints!TooMany(since')
      BY <1>1, <2>2, EvictedAreForgotten
    <3> HIDE DEF behind, evicted
    <3>3. OfMap'
      BY <2>2, <3>1, <3>2 DEF SessionInv, OfMap
    <3> QED
      BY <1>1, <2>2, <3>1, <3>2, <3>3
  <2> QED
    BY <2>1, <2>2
<1>6. saved' \in [StoredSessions -> SUBSET Record]
  BY <1>1
<1>7. SessionTypes'
  BY <1>2, <1>5, <1>6 DEF SessionInv, SessionTypes
<1>8. MadeInOrder'
  BY <1>5 DEF MadeInOrder
<1>9. OfDatabases'
  BY <1>3, <1>5 DEF OfDatabases
<1>10. TopIsKept'
  <2> SUFFICES ASSUME NEW s \in StoredSessions, checkpoints'[s] \cup saved'[s] # {}
               PROVE  (\E m \in checkpoints[s] : Top(checkpoints[s], saved[s], Doomed(s), m))'
    BY DEF TopIsKept
  <2>1. checkpoints'[s] = cps[s] /\ saved'[s] \subseteq now[s]
    BY <1>5
  <2>2. PICK m \in cps[s] : Top(cps[s], now[s], Doomed(s), m)
    BY <2>1
  <2>3. Top(cps[s], saved'[s], Doomed(s), m)
    BY <2>1, <2>2, TopOfFewer
  <2> QED
    BY <1>3, <1>4, <2>1, <2>3
<1> QED
  BY <1>5, <1>7, <1>8, <1>9, <1>10 DEF SessionInv

(* A new checkpoint of its session.                                        *)
LEMMA SaveCheckpointKeepsSessions ==
  ASSUME SessionInv, NEW sess \in StoredSessions, Checkpoints!SaveCheckpoint(sess)
  PROVE  SessionInv'
<1> USE DEF Checkpoints!SaveCheckpoint
<1>1. PICK ident \in Checkpoints!Ids \ Checkpoints!Used, during \in RunSteps, at_ \in 1..checkpointsMade + 1 :
        LET x == [id |-> ident, step |-> during, at |-> at_, nth |-> checkpointsMade + 1]
        IN /\ Checkpoints!TrackSession(sess, Checkpoints!Put(checkpoints, sess, x), others)
           /\ Checkpoints!Remember(sess, Checkpoints!Put(saved, sess, x))
  OBVIOUS
<1> DEFINE x == [id |-> ident, step |-> during, at |-> at_, nth |-> checkpointsMade + 1]
           cps == Checkpoints!Put(checkpoints, sess, x)
           now == Checkpoints!Put(saved, sess, x)
<1>2. x \in Record /\ x.id = ident /\ x.nth = checkpointsMade + 1
  <2>1. ident \in Nat
    BY DEF Checkpoints!Ids
  <2>2. during \in Nat /\ checkpointsMade \in Nat
    BY AdaptersAssumption DEF SessionInv, SessionTypes
  <2>3. at_ \in Nat /\ checkpointsMade + 1 \in Nat
    <3>1. at_ \in 1..checkpointsMade + 1
      OBVIOUS
    <3> QED
      BY ONLY <2>2, <3>1
  <2> QED
    BY <2>1, <2>2, <2>3 DEF Record
<1>3. Checkpoints!TrackSession(sess, cps, others) /\ Checkpoints!Remember(sess, now)
  BY <1>1
<1> HIDE DEF x
<1>4. /\ cps \in [StoredSessions -> SUBSET Record] /\ now \in [StoredSessions -> SUBSET Record]
      /\ cps[sess] = checkpoints[sess] \cup {x} /\ now[sess] = saved[sess] \cup {x}
      /\ \A s \in StoredSessions \ {sess} : cps[s] = checkpoints[s] /\ now[s] = saved[s]
  BY <1>2 DEF SessionInv, SessionTypes, Checkpoints!Put
<1> HIDE DEF cps, now
<1>5. checkpointsMade' = checkpointsMade + 1 /\ checkpointsMade' \in Nat /\ UNCHANGED <<adapter, call>>
  BY DEF SessionInv, SessionTypes
<1>6. ASSUME NEW s \in StoredSessions, NEW y \in cps[s] \cup now[s]
      PROVE  y.nth <= checkpointsMade'
  <2>1. y = x \/ (y \in checkpoints[s] \cup saved[s])
    BY <1>4
  <2>2. CASE y = x
    BY <1>2, <1>5, <2>2 DEF SessionInv, SessionTypes
  <2>3. CASE y \in checkpoints[s] \cup saved[s]
    <3>1. y.nth <= checkpointsMade /\ y.nth \in Nat /\ checkpointsMade \in Nat
      <4>1. y \in Record
        BY <2>3 DEF SessionInv, SessionTypes
      <4> QED
        BY <2>3, <4>1 DEF SessionInv, MadeInOrder, SessionTypes, Record
    <3> QED
      BY ONLY <1>5, <3>1
  <2> QED
    BY <2>1, <2>2, <2>3
<1>7. \A y \in saved[sess] : y.id # x.id
  BY <1>2 DEF Checkpoints!Used
<1>8. adapter # "memory" =>
        \A s \in StoredSessions : cps[s] \subseteq now[s] /\ Doomed(s) \subseteq now[s]
  BY <1>4 DEF SessionInv, OfDatabases
<1>9. ASSUME NEW s \in StoredSessions, cps[s] \cup now[s] # {}
      PROVE  \E m \in cps[s] : Top(cps[s], now[s], Doomed(s), m)
  <2>1. CASE s # sess
    BY <1>4, <1>9, <2>1 DEF SessionInv, TopIsKept
  <2>2. CASE s = sess
    <3>1. x \notin Doomed(sess)
      <4>1. CASE adapter = "memory"
        BY <4>1 DEF SessionInv, OfMap, Doomed, Checkpoints!Idle
      <4>2. CASE adapter # "memory"
        BY <1>7, <4>2 DEF SessionInv, OfDatabases
      <4> QED
        BY <4>1, <4>2
    <3>2. ASSUME NEW y \in checkpoints[sess]
          PROVE  y.id # x.id \/ Checkpoints!Rank(y) < Checkpoints!Rank(x)
      <4>1. CASE adapter = "memory"
        <5>1. y.nth <= checkpointsMade /\ y.nth \in Nat /\ checkpointsMade \in Nat
          <6>1. y \in Record
            BY DEF SessionInv, SessionTypes
          <6> QED
            BY <6>1 DEF SessionInv, MadeInOrder, SessionTypes, Record
        <5>2. Checkpoints!Rank(y) = y.nth /\ Checkpoints!Rank(x) = checkpointsMade + 1
          BY <1>2, <4>1 DEF Checkpoints!Rank
        <5> QED
          BY ONLY <5>1, <5>2
      <4>2. CASE adapter # "memory"
        BY <1>7, <4>2 DEF SessionInv, OfDatabases
      <4> QED
        BY <4>1, <4>2
    <3>3. /\ checkpoints[sess] \in SUBSET Record /\ saved[sess] \in SUBSET Record
          /\ checkpoints[sess] = {} => saved[sess] = {}
          /\ checkpoints[sess] # {} =>
               \E m \in checkpoints[sess] : Top(checkpoints[sess], saved[sess], Doomed(sess), m)
      BY DEF SessionInv, SessionTypes, TopIsKept
    <3>4. \E m \in checkpoints[sess] \cup {x} :
            Top(checkpoints[sess] \cup {x}, saved[sess] \cup {x}, Doomed(sess), m)
      BY <1>2, <3>1, <3>2, <3>3, OneMore
    <3> QED
      BY <1>4, <2>2, <3>4
  <2> QED
    BY <2>1, <2>2
<1> QED
  BY <1>3, <1>4, <1>5, <1>6, <1>8, <1>9, TrackKeepsSessions

(* Todos, conversations and metadata only make their session the last.     *)
LEMMA SaveOtherKeepsSessions ==
  ASSUME SessionInv, NEW sess \in StoredSessions, Checkpoints!SaveOther(sess)
  PROVE  SessionInv'
<1>1. /\ Checkpoints!TrackSession(sess, checkpoints, others \cup {sess})
      /\ Checkpoints!Remember(sess, saved)
      /\ UNCHANGED <<adapter, call, checkpointsMade>>
  BY DEF Checkpoints!SaveOther
<1>2. /\ checkpoints \in [StoredSessions -> SUBSET Record] /\ saved \in [StoredSessions -> SUBSET Record]
      /\ checkpointsMade' \in Nat
      /\ \A s \in StoredSessions : \A x \in checkpoints[s] \cup saved[s] : x.nth <= checkpointsMade'
  BY <1>1 DEF SessionInv, SessionTypes, MadeInOrder
<1>3. adapter # "memory" =>
        \A s \in StoredSessions : checkpoints[s] \subseteq saved[s] /\ Doomed(s) \subseteq saved[s]
  BY DEF SessionInv, OfDatabases
<1>4. \A s \in StoredSessions : checkpoints[s] \cup saved[s] # {} =>
        \E m \in checkpoints[s] : Top(checkpoints[s], saved[s], Doomed(s), m)
  BY DEF SessionInv, TopIsKept
<1> QED
  BY <1>1, <1>2, <1>3, <1>4, TrackKeepsSessions

(* Whatever is deleted, the top is not among it.                           *)
LEMMA LessKeepsSessions ==
  ASSUME SessionInv, UNCHANGED <<adapter, sessionOrder, checkpointsMade, saved, since>>,
         SessionTypes',
         \A s \in StoredSessions : checkpoints'[s] \subseteq checkpoints[s],
         adapter # "memory" => \A s \in StoredSessions : Doomed(s)' \subseteq saved[s],
         adapter = "memory" => UNCHANGED call,
         \A s \in StoredSessions : \A m \in checkpoints[s] :
            Top(checkpoints[s], saved[s], Doomed(s), m) => m \in checkpoints'[s] /\ m \notin Doomed(s)'
  PROVE  SessionInv'
<1>1. MadeInOrder'
  BY DEF SessionInv, MadeInOrder
<1>2. OfDatabases'
  BY DEF SessionInv, OfDatabases
<1>3. OfMap'
  BY DEF SessionInv, OfMap
<1>4. TopIsKept'
  <2> SUFFICES ASSUME NEW s \in StoredSessions, checkpoints'[s] \cup saved'[s] # {}
               PROVE  (\E m \in checkpoints[s] : Top(checkpoints[s], saved[s], Doomed(s), m))'
    BY DEF TopIsKept
  <2>1. checkpoints[s] \cup saved[s] # {}
    OBVIOUS
  <2>2. PICK m \in checkpoints[s] : Top(checkpoints[s], saved[s], Doomed(s), m)
    BY <2>1 DEF SessionInv, TopIsKept
  <2>3. m \in checkpoints'[s] /\ m \notin Doomed(s)'
    BY <2>2
  <2>4. /\ \A x \in checkpoints'[s] : x = m \/ Checkpoints!Older(x, m)
        /\ \A x \in saved'[s] : Checkpoints!Rank(x) <= Checkpoints!Rank(m)
    BY <2>2 DEF Top
  <2>5. \A x : Checkpoints!Rank(x)' = Checkpoints!Rank(x) /\ (Checkpoints!Older(x, m)' <=> Checkpoints!Older(x, m))
    BY DEF Checkpoints!Rank, Checkpoints!Older
  <2>6. Top(checkpoints[s], saved[s], Doomed(s), m)'
    BY <2>3, <2>4, <2>5 DEF Top
  <2> QED
    BY <2>3, <2>6
<1> QED
  BY <1>1, <1>2, <1>3, <1>4 DEF SessionInv

(* The Map is cut at once; the others list what they will delete.          *)
LEMMA DeleteOldKeepsSessions ==
  ASSUME SessionInv, NEW sess \in StoredSessions, NEW c \in CleaningCalls, NEW keep \in Keeps,
         Checkpoints!DeleteOldCheckpoints(c, sess, keep)
  PROVE  SessionInv'
<1> DEFINE old == Checkpoints!TooOld(checkpoints[sess], keep)
<1>1. old \subseteq checkpoints[sess] /\ checkpoints[sess] \in SUBSET Record
  BY DEF Checkpoints!TooOld, SessionInv, SessionTypes
<1>2. \A m \in checkpoints[sess] :
        Top(checkpoints[sess], saved[sess], Doomed(sess), m) => m \notin old
  BY <1>1, TopIsYoung
<1>3. /\ call[c].pc = "idle"
      /\ IF adapter = "memory"
         THEN /\ checkpoints' = [checkpoints EXCEPT ![sess] = @ \ old]
              /\ UNCHANGED call
         ELSE /\ call' = [call EXCEPT ![c] = [pc |-> "deleting", session |-> sess, old |-> old]]
              /\ UNCHANGED checkpoints
      /\ UNCHANGED <<adapter, others, sessionOrder, checkpointsMade, saved, since>>
  BY DEF Checkpoints!DeleteOldCheckpoints
<1> HIDE DEF old
<1>4. CASE adapter = "memory"
  <2>1. SessionTypes'
    BY <1>3, <1>4 DEF SessionInv, SessionTypes
  <2>2. \A s \in StoredSessions : Doomed(s)' = Doomed(s)
    BY <1>3, <1>4 DEF Doomed
  <2>3. /\ checkpoints'[sess] = checkpoints[sess] \ old
        /\ \A s \in StoredSessions \ {sess} : checkpoints'[s] = checkpoints[s]
    BY <1>3, <1>4 DEF SessionInv, SessionTypes
  <2>4. \A s \in StoredSessions : \A m \in checkpoints[s] :
          Top(checkpoints[s], saved[s], Doomed(s), m) => m \in checkpoints'[s] /\ m \notin Doomed(s)'
    BY <1>2, <2>2, <2>3 DEF Top
  <2> QED
    BY <1>3, <1>4, <2>1, <2>3, <2>4, LessKeepsSessions
<1>5. CASE adapter # "memory"
  <2> DEFINE new == [pc |-> "deleting", session |-> sess, old |-> old]
  <2>1. new \in [pc : {"deleting"}, session : StoredSessions, old : SUBSET Record]
    BY <1>1
  <2>2. SessionTypes'
    BY <1>3, <1>5, <2>1 DEF SessionInv, SessionTypes
  <2>3. /\ call'[c].session = sess /\ call'[c].old = old
        /\ \A d \in CleaningCalls \ {c} : call'[d] = call[d]
    BY <1>3, <1>5 DEF SessionInv, SessionTypes
  <2>4. \A s \in StoredSessions \ {sess} : Doomed(s)' \subseteq Doomed(s)
    BY <2>3 DEF Doomed
  <2>5. Doomed(sess)' \subseteq Doomed(sess) \cup old
    BY <2>3 DEF Doomed
  <2>6. \A s \in StoredSessions : Doomed(s)' \subseteq saved[s]
    BY <1>1, <1>5, <2>4, <2>5 DEF SessionInv, OfDatabases
  <2>7. \A s \in StoredSessions : \A m \in checkpoints[s] :
          Top(checkpoints[s], saved[s], Doomed(s), m) => m \in checkpoints'[s] /\ m \notin Doomed(s)'
    BY <1>2, <1>3, <1>5, <2>4, <2>5 DEF Top
  <2> QED
    BY <1>3, <1>5, <2>2, <2>6, <2>7, LessKeepsSessions
<1> QED
  BY <1>4, <1>5

(* A call deletes what it listed, or fails and leaves the rest.            *)
LEMMA DeletingKeepsSessions ==
  ASSUME SessionInv, NEW c \in CleaningCalls,
         Checkpoints!DeleteListed(c) \/ Checkpoints!DeleteFails(c)
  PROVE  SessionInv'
<1>1. /\ call[c].pc = "deleting"
      /\ UNCHANGED <<adapter, others, sessionOrder, checkpointsMade, saved, since>>
  BY DEF Checkpoints!DeleteListed, Checkpoints!DeleteFails
<1>2. call[c] \in [pc : {"deleting"}, session : StoredSessions, old : SUBSET Record]
  BY <1>1 DEF SessionInv, SessionTypes, Checkpoints!Idle
<1>3. adapter # "memory"
  BY <1>1 DEF SessionInv, OfMap, Checkpoints!Idle
<1>4. PICK next \in SUBSET call[c].old :
        /\ checkpoints' = [checkpoints EXCEPT ![call[c].session] = @ \ next]
        /\ call' = [call EXCEPT ![c] = Checkpoints!Idle] \/ call' = [call EXCEPT ![c].old = @ \ next]
  <2>1. CASE Checkpoints!DeleteListed(c)
    <3> DEFINE next == {x \in call[c].old :
                          adapter = "supabase" \/ \A y \in call[c].old : ~Checkpoints!Older(y, x)}
    <3>1. /\ checkpoints' = [checkpoints EXCEPT ![call[c].session] = @ \ next]
          /\ call' = [call EXCEPT ![c] = IF call[c].old = next THEN Checkpoints!Idle
                                         ELSE [@ EXCEPT !.old = call[c].old \ next]]
      BY <2>1 DEF Checkpoints!DeleteListed
    <3>2. next \in SUBSET call[c].old
      OBVIOUS
    <3> HIDE DEF next
    <3>3. call' = [call EXCEPT ![c] = Checkpoints!Idle] \/ call' = [call EXCEPT ![c].old = @ \ next]
      BY <3>1
    <3> QED
      BY <3>1, <3>2, <3>3
  <2>2. CASE Checkpoints!DeleteFails(c)
    <3>1. checkpoints = [checkpoints EXCEPT ![call[c].session] = @ \ {}]
      BY <1>2 DEF SessionInv, SessionTypes
    <3>2. checkpoints' = checkpoints /\ call' = [call EXCEPT ![c] = Checkpoints!Idle]
      BY <2>2 DEF Checkpoints!DeleteFails
    <3>3. checkpoints' = [checkpoints EXCEPT ![call[c].session] = @ \ {}]
      BY <3>1, <3>2
    <3>4. {} \in SUBSET call[c].old
      OBVIOUS
    <3> WITNESS {} \in SUBSET call[c].old
    <3> QED
      BY ONLY <3>2, <3>3
  <2> QED
    BY <2>1, <2>2
<1>5. /\ call'[c] = Checkpoints!Idle
          \/ (call'[c].session = call[c].session /\ call'[c].old = call[c].old \ next
                /\ call'[c] \in [pc : {"deleting"}, session : StoredSessions, old : SUBSET Record])
      /\ \A d \in CleaningCalls \ {c} : call'[d] = call[d]
      /\ DOMAIN call' = CleaningCalls /\ call' = [d \in CleaningCalls |-> call'[d]]
  <2>1. CASE call' = [call EXCEPT ![c] = Checkpoints!Idle]
    BY <2>1 DEF SessionInv, SessionTypes
  <2>2. CASE call' = [call EXCEPT ![c].old = @ \ next]
    <3>1. call'[c] = [call[c] EXCEPT !.old = call[c].old \ next]
      BY <2>2 DEF SessionInv, SessionTypes
    <3>2. /\ call'[c].session = call[c].session /\ call'[c].old = call[c].old \ next
          /\ call'[c] \in [pc : {"deleting"}, session : StoredSessions, old : SUBSET Record]
      BY <1>2, <3>1
    <3> QED
      BY <2>2, <3>2 DEF SessionInv, SessionTypes
  <2> QED
    BY <1>4, <2>1, <2>2
<1>6. /\ checkpoints' \in [StoredSessions -> SUBSET Record]
      /\ checkpoints'[call[c].session] = checkpoints[call[c].session] \ next
      /\ \A s \in StoredSessions \ {call[c].session} : checkpoints'[s] = checkpoints[s]
  BY <1>2, <1>4 DEF SessionInv, SessionTypes
<1>7. SessionTypes'
  <2>1. call' \in [CleaningCalls -> {Checkpoints!Idle}
                      \cup [pc : {"deleting"}, session : StoredSessions, old : SUBSET Record]]
    <3>1. \A d \in CleaningCalls :
            call[d] \in {Checkpoints!Idle} \cup [pc : {"deleting"}, session : StoredSessions, old : SUBSET Record]
      BY DEF SessionInv, SessionTypes
    <3> QED
      BY <1>5, <3>1
  <2> QED
    BY <1>1, <1>6, <2>1 DEF SessionInv, SessionTypes
<1>8. \A s \in StoredSessions : Doomed(s)' \subseteq Doomed(s)
  BY <1>1, <1>5 DEF Doomed, Checkpoints!Idle
<1>9. next \subseteq Doomed(call[c].session)
  BY <1>1, <1>4 DEF Doomed
<1>10. \A s \in StoredSessions : \A m \in checkpoints[s] :
         Top(checkpoints[s], saved[s], Doomed(s), m) => m \in checkpoints'[s] /\ m \notin Doomed(s)'
  BY <1>6, <1>8, <1>9 DEF Top
<1>11. \A s \in StoredSessions : Doomed(s)' \subseteq saved[s]
  BY <1>3, <1>8 DEF SessionInv, OfDatabases
<1> QED
  BY <1>1, <1>3, <1>6, <1>7, <1>10, <1>11, LessKeepsSessions

(* clear() of the Map: the session has nothing to lose.                    *)
LEMMA ClearKeepsSessions ==
  ASSUME SessionInv, NEW sess \in StoredSessions, Checkpoints!ClearSession(sess)
  PROVE  SessionInv'
<1> USE DEF Checkpoints!ClearSession
<1>1. SessionTypes'
  BY DEF SessionInv, SessionTypes
<1>2. /\ checkpoints'[sess] = {} /\ saved'[sess] = {}
      /\ \A s \in StoredSessions \ {sess} : checkpoints'[s] = checkpoints[s] /\ saved'[s] = saved[s]
  BY DEF SessionInv, SessionTypes
<1>3. MadeInOrder' /\ OfDatabases'
  BY <1>2 DEF SessionInv, MadeInOrder, OfDatabases
<1>4. OfMap'
  BY DEF SessionInv, OfMap
<1>5. \A s \in StoredSessions : Doomed(s)' = Doomed(s)
  BY DEF Doomed
<1>6. \A list, all, doomed, m : Top(list, all, doomed, m) => Top(list, all, doomed, m)'
  BY DEF Top, Checkpoints!Older, Checkpoints!Rank
<1>7. TopIsKept'
  <2> SUFFICES ASSUME NEW s \in StoredSessions, checkpoints'[s] \cup saved'[s] # {}
               PROVE  (\E m \in checkpoints[s] : Top(checkpoints[s], saved[s], Doomed(s), m))'
    BY DEF TopIsKept
  <2>1. s # sess /\ checkpoints'[s] = checkpoints[s] /\ saved'[s] = saved[s]
    BY <1>2
  <2>2. PICK m \in checkpoints[s] : Top(checkpoints[s], saved[s], Doomed(s), m)
    BY <2>1 DEF SessionInv, TopIsKept
  <2> QED
    BY <1>5, <1>6, <2>1, <2>2
<1> QED
  BY <1>1, <1>3, <1>4, <1>7 DEF SessionInv

(* The invariant of the stores of sessions, for any sessions, calls and    *)
(* checkpoints.                                                            *)
THEOREM SessionInvariance == Checkpoints!Init /\ [][Checkpoints!Next]_sesVars => []SessionInv
<1>1. Checkpoints!Init => SessionInv
  <2> SUFFICES ASSUME Checkpoints!Init PROVE SessionInv
    OBVIOUS
  <2> USE DEF Checkpoints!Init
  <2>1. SessionTypes
    BY DEF SessionTypes
  <2>2. \A s \in StoredSessions : checkpoints[s] = {} /\ saved[s] = {} /\ Doomed(s) = {}
    BY DEF Doomed, Checkpoints!Idle
  <2>3. OfMap
    BY DEF OfMap
  <2> QED
    BY <2>1, <2>2, <2>3 DEF SessionInv, MadeInOrder, OfDatabases, TopIsKept
<1>2. SessionInv /\ [Checkpoints!Next]_sesVars => SessionInv'
  <2> SUFFICES ASSUME SessionInv, [Checkpoints!Next]_sesVars PROVE SessionInv'
    OBVIOUS
  <2>1. CASE UNCHANGED sesVars
    BY <2>1 DEF sesVars, SessionInv, SessionTypes, MadeInOrder, OfDatabases, OfMap, TopIsKept, Top, Doomed,
       Checkpoints!Rank, Checkpoints!Older
  <2>2. CASE Checkpoints!Next
    BY <2>2, SaveCheckpointKeepsSessions, SaveOtherKeepsSessions, ClearKeepsSessions, DeleteOldKeepsSessions,
       DeletingKeepsSessions DEF Checkpoints!Next
  <2> QED
    BY <2>1, <2>2
<1> QED
  BY <1>1, <1>2, PTL

(* What a session has is as late as anything it saved.                     *)
LEMMA LatestIsThere == SessionInv => Checkpoints!LatestIsKept
<1> SUFFICES ASSUME SessionInv, NEW s \in StoredSessions, NEW x \in saved[s]
             PROVE  \E y \in checkpoints[s] : Checkpoints!Rank(y) >= Checkpoints!Rank(x)
  BY DEF Checkpoints!LatestIsKept
<1>1. PICK m \in checkpoints[s] : Top(checkpoints[s], saved[s], Doomed(s), m)
  BY DEF SessionInv, TopIsKept
<1>2. m \in Record /\ x \in Record /\ Checkpoints!Rank(x) <= Checkpoints!Rank(m)
  BY <1>1 DEF SessionInv, SessionTypes, Top
<1>3. Checkpoints!Rank(m) \in Nat /\ Checkpoints!Rank(x) \in Nat
  BY <1>2, OrderIsTotal
<1>4. Checkpoints!Rank(m) >= Checkpoints!Rank(x)
  BY ONLY <1>2, <1>3
<1> QED
  BY <1>4

(* The stores keep what they took, for any files, calls, sessions and      *)
(* limits of the Map.                                                      *)
THEOREM WhatIsStoredStays ==
  Memories!Init /\ [][Memories!Next]_memVars /\ Checkpoints!Init /\ [][Checkpoints!Next]_sesVars
    => []StoresKeep
<1>1. Memories!Init /\ [][Memories!Next]_memVars => []Memories!NothingStoredIsLost
  BY Memories!StoredIsKept, AdaptersAssumption DEF Memories!Spec, Memories!vars, memVars
<1> QED
  BY <1>1, LatestIsThere, SessionInvariance, PTL DEF StoresKeep

-----------------------------------------------------------------------------
(* The plugins that watch.  What a run or a call has passed of its walk    *)
(* along the plugins says what they know of it.                            *)
Actors == ObservedRuns \cup ObservedCalls
RunPlaces == {"idle", "beforeRun", "model", "afterRun", "scores", "runError", "done", "failed"}
CallPlaces == {"idle", "beforeTool", "body", "afterTool", "toolError", "done", "failed"}
Registered(name) == \E i \in 1 .. Len(order) : order[i] = name
Passed(x, name) == \E i \in 1 .. pos[x] - 1 : order[i] = name

WalkTypes ==
  /\ order \in Observing!Orders
  /\ session \in [ObservedRuns -> ObservedSessions]
  /\ tool \in [ObservedCalls -> ObservedTools]
  /\ runOf \in [ObservedCalls -> ObservedRuns]
  /\ origin \in [ObservedCalls -> ObservedCalls] /\ under \in [ObservedCalls -> ObservedSessions]
  /\ \A c \in ObservedCalls : /\ origin[origin[c]] = origin[c]
                              /\ runOf[origin[c]] = runOf[c] /\ tool[origin[c]] = tool[c]
  /\ wraps \in [ObservedTools -> Seq(ObservedSessions)] /\ layer \in [ObservedCalls -> Nat]
  /\ at \in [Actors -> RunPlaces \cup CallPlaces] /\ pos \in [Actors -> 0 .. Len(order)]
  /\ \A r \in ObservedRuns : at[r] \in RunPlaces
  /\ \A c \in ObservedCalls : at[c] \in CallPlaces
  /\ \A x \in Actors : at[x] \in Observing!Walks \cup {"scores"} => pos[x] # 0
  /\ \A r \in ObservedRuns : at[r] = "scores" => order[pos[r]] = "evals"
  /\ shared \in SUBSET Actors

(* Calls are made while the model of their run is asked.                   *)
CallsAreOfModels == \A c \in ObservedCalls :
  /\ Observing!Active(c) => at[runOf[c]] = "model"
  /\ at[runOf[c]] \in {"idle", "beforeRun"} => at[c] = "idle"

(* Of the calls that one call of the model makes, those outside wait for   *)
(* those inside, and then fail if one of them did.                         *)
Started(c) == at[c] # "idle"
Waits(d, c) ==
  \/ at[d] = "body"
  \/ at[c] = "done" /\ at[d] # "beforeTool"
  \/ at[c] = "failed" /\ at[d] \in {"toolError", "failed"}
Nested == \A c \in ObservedCalls : Started(c) =>
  /\ Started(origin[c])
  /\ \A d \in ObservedCalls \ {c} : Started(d) /\ origin[d] = origin[c] =>
       layer[d] # layer[c] /\ (layer[c] < layer[d] => Waits(d, c))

(* Those who met nobody are alone under their key.                         *)
Alone == \A x \in Actors : Observing!Active(x) /\ x \notin shared => Observing!Meets(x) = {}

WalkInv == WalkTypes /\ CallsAreOfModels /\ Nested /\ Alone

(* The evaluations: the calls counted are those the plugin has been told   *)
(* of, in the state, where the scorers have it, and in the result.         *)
IsCounted(c) == at[c] = "done" \/ (at[c] = "afterTool" /\ Passed(c, "evals"))
CountedOf(r, t) == {c \in ObservedCalls : runOf[c] = r /\ under[c] = session[r] /\ tool[c] = t /\ IsCounted(c)}
Counts(r) == [t \in ObservedTools |-> Cardinality(CountedOf(r, t))]
Evaluated(r) == {[prompt |-> r, counts |-> Counts(r)]}

Watched(r) ==
  \/ at[r] = "beforeRun" /\ Passed(r, "evals")
  \/ at[r] = "model" /\ Registered("evals")
  \/ at[r] = "afterRun" /\ ~Passed(r, "evals") /\ Registered("evals")

Result == [output : ObservedRuns, prompt : SUBSET ObservedRuns, counts : [ObservedTools -> Nat]]
ResultIsTrue(x) ==
  /\ at[x.output] \notin {"idle", "beforeRun", "model"}
  /\ x.output \notin shared => x.prompt = {x.output} /\ x.counts = Counts(x.output)

EvalTypes ==
  /\ states \in [ObservedSessions -> SUBSET [prompt : ObservedRuns, counts : [ObservedTools -> Nat]]]
  /\ taken \in [ObservedRuns -> SUBSET [prompt : ObservedRuns, counts : [ObservedTools -> Nat]]]
  /\ results \in Seq(Result)

EvalInv ==
  /\ EvalTypes
  /\ \A r \in ObservedRuns \ shared :
       /\ Watched(r) => states[session[r]] = Evaluated(r)
       /\ at[r] = "scores" => taken[r] = Evaluated(r)
  /\ \A i \in 1 .. Len(results) : ResultIsTrue(results[i])

(* The spans: above that of a call that met no other of its tool lie, as   *)
(* long as it may return, just those of the calls inside it that may; of a *)
(* call that failed, or will since one inside it did, the span stays below *)
(* those of all calls that may still return.                               *)
Holding(c) ==
  \/ at[c] = "beforeTool" /\ Passed(c, "observability")
  \/ at[c] = "body"
  \/ at[c] = "afterTool" /\ ~Passed(c, "observability")
Reported(c) == at[c] = "done" \/ (at[c] = "afterTool" /\ Passed(c, "observability"))
StackOf(c) == stack[under[c]][tool[c]]
SameKey(c) == {d \in ObservedCalls : under[d] = under[c] /\ tool[d] = tool[c]}
FailedInside(c) == \E d \in ObservedCalls :
  origin[d] = origin[c] /\ layer[d] < layer[c] /\ at[d] \in {"toolError", "failed"}
MayReturn(c) == Holding(c) /\ ~FailedInside(c)
Returning(c) == {d \in SameKey(c) : MayReturn(d)}
Within(c) == {d \in Returning(c) : origin[d] = origin[c] /\ layer[d] < layer[c]}
AboveIn(entries, i) == {j \in entries : j > i}

SpanTypes ==
  /\ ids \in Nat /\ DOMAIN spans \subseteq 0 .. ids - 1
  /\ spans \in [DOMAIN spans -> [trace : Nat, parent : SUBSET Nat, of : Actors, ended : BOOLEAN,
                                 status : {"ok", "error"}, result : SUBSET Actors]]
  /\ active \in [ObservedSessions -> SUBSET (0 .. ids - 1)]
  /\ stack \in [ObservedSessions -> [ObservedTools -> SUBSET (0 .. ids - 1)]]
  /\ DOMAIN spans # {} => Registered("observability")

(* Who a span in the Maps is of.                                           *)
Owners ==
  /\ \A s \in ObservedSessions : \A i \in active[s] \cap DOMAIN spans : spans[i].of \in ObservedRuns
  /\ \A s \in ObservedSessions, t \in ObservedTools : \A i \in stack[s][t] \cap DOMAIN spans :
       LET c == spans[i].of IN c \in ObservedCalls /\ under[c] = s /\ tool[c] = t
  /\ \A i \in DOMAIN spans : spans[i].of \in ObservedCalls =>
       Holding(spans[i].of) \/ Reported(spans[i].of) \/ at[spans[i].of] \in {"toolError", "failed"}

Told(i, c) ==
  /\ spans[i].result \subseteq {c}
  /\ MayReturn(c) => /\ i \in StackOf(c)
                     /\ Cardinality(AboveIn(StackOf(c), i)) = Cardinality(Within(c))
  /\ Reported(c) => spans[i].ended /\ spans[i].status = "ok" /\ spans[i].result = {c} /\ i \notin StackOf(c)
  /\ ~MayReturn(c) /\ i \in StackOf(c) =>
       Cardinality(Returning(c)) <= Cardinality(AboveIn(StackOf(c), i))

SpanInv ==
  /\ SpanTypes /\ Owners
  /\ \A i \in DOMAIN spans : spans[i].of \in ObservedCalls \ shared => Told(i, spans[i].of)

RootInv ==
  /\ Cardinality(DOMAIN spans) <= MaxSpans
  /\ roots = {i \in DOMAIN spans : spans[i].parent = {}}

CostInv == cost \in [total : Nat, told : BOOLEAN] /\ (cost.told <=> cost.total > Budget)

ObserverInv == WalkInv /\ EvalInv /\ SpanInv /\ RootInv /\ CostInv

(* What an order of plugins is.                                            *)
LEMMA OrderOfPlugins ==
  ASSUME order \in Observing!Orders
  PROVE  /\ Len(order) \in Nat \ {0} /\ DOMAIN order = 1 .. Len(order)
         /\ \A i \in 1 .. Len(order) : order[i] \in {"observability", "evals", "guardrails"}
         /\ \A i, j \in 1 .. Len(order) : order[i] = order[j] => i = j
<1>1. PICK n \in Nat \ {0} : order \in [1 .. n -> {"observability", "evals", "guardrails"}]
  BY DEF Observing!Orders, Observing!Plugins
<1>2. Len(order) = n
  BY <1>1, SeqDef, LenProperties
<1> QED
  BY <1>1, <1>2 DEF Observing!Orders

(* How calls go on: what waits for others stays where it is, or ends as    *)
(* they did.                                                               *)
MovesOn(c, place) ==
  \/ at[c] = "beforeTool" /\ place \in {"beforeTool", "body", "failed"}
  \/ at[c] = "afterTool" /\ place \in {"afterTool", "done"}
  \/ at[c] = "toolError" /\ place \in {"toolError", "failed"}
  \/ at[c] = "body" /\ place = "afterTool" /\ \A d \in Observing!MadeBy(c) : at[d] = "done"
  \/ at[c] = "body" /\ place = "toolError" /\ \A d \in Observing!MadeBy(c) : at[d] \in {"done", "failed"}

(* A call that goes on leaves the calls one inside the other.              *)
LEMMA NestedStays ==
  ASSUME WalkTypes, Nested, NEW x \in ObservedCalls, NEW place, MovesOn(x, place),
         at'[x] = place, \A y \in ObservedCalls \ {x} : at'[y] = at[y], UNCHANGED <<origin, layer>>
  PROVE  Nested'
<1> SUFFICES ASSUME NEW c \in ObservedCalls, Started(c)'
             PROVE  /\ Started(origin[c])'
                    /\ \A d \in ObservedCalls \ {c} : Started(d)' /\ origin[d] = origin[c] =>
                         layer[d] # layer[c] /\ (layer[c] < layer[d] => Waits(d, c)')
  BY DEF Nested
<1>1. Started(x) /\ place # "idle"
  BY DEF MovesOn, Started
<1>2. \A y \in ObservedCalls : Started(y)' <=> Started(y)
  BY <1>1 DEF Started
<1>3. Started(c) /\ Started(origin[c])'
  BY <1>2 DEF Nested, WalkTypes
<1>4. ASSUME NEW d \in ObservedCalls \ {c}, Started(d)', origin[d] = origin[c]
      PROVE  layer[d] # layer[c] /\ (layer[c] < layer[d] => Waits(d, c)')
  <2>1. layer[d] # layer[c] /\ (layer[c] < layer[d] => Waits(d, c))
    BY <1>2, <1>3, <1>4 DEF Nested
  <2>2. CASE d # x /\ c # x
    BY <2>1, <2>2 DEF Waits
  <2>3. CASE c = x
    BY <1>3, <2>1, <2>3 DEF Waits, MovesOn
  <2>4. CASE d = x /\ layer[c] < layer[d]
    <3>1. c \in Observing!MadeBy(d)
      BY <1>3, <1>4, <2>4 DEF Observing!MadeBy, Started
    <3> QED
      BY <2>1, <2>4, <3>1 DEF Waits, MovesOn
  <2> QED
    BY <2>1, <2>2, <2>3, <2>4
<1> QED
  BY <1>3, <1>4

(* A run or a call under way goes on, and nobody starts.                   *)
LEMMA GoingOn ==
  ASSUME WalkInv, NEW x \in Actors, NEW place, NEW i \in 0 .. Len(order),
         Observing!Goes(x, place, i), UNCHANGED <<order, session, tool, runOf, origin, under, wraps, layer, shared>>,
         Observing!Active(x),
         x \in ObservedRuns => place \in RunPlaces \ {"idle"},
         x \in ObservedCalls => place \in CallPlaces \ {"idle"},
         place = "beforeRun" => at[x] = "beforeRun",
         place \in Observing!Walks \cup {"scores"} => i # 0,
         place = "scores" => order[i] = "evals",
         x \in ObservedRuns /\ place # "model" => \A c \in ObservedCalls : runOf[c] = x => ~Observing!Active(c),
         x \in ObservedCalls => MovesOn(x, place)
  PROVE  WalkInv'
<1> USE AdaptersAssumption DEF WalkInv, WalkTypes, Observing!Goes, Actors
<1>1. WalkTypes'
  BY DEF RunPlaces, CallPlaces
<1>2. \A y \in Actors : y # x => at'[y] = at[y]
  OBVIOUS
<1>3. at'[x] = place /\ \A y \in Actors : Observing!Active(y)' => Observing!Active(y)
  BY <1>2 DEF Observing!Active
<1>4. CallsAreOfModels'
  BY <1>2, <1>3 DEF CallsAreOfModels, Observing!Active, Observing!Quiet
<1>5. \A y \in Actors : Observing!Meets(y)' \subseteq Observing!Meets(y)
  BY <1>3 DEF Observing!Meets, Observing!Disturbs, Observing!Actors
<1>6. Alone'
  BY <1>3, <1>5 DEF Alone
<1>7. CASE x \in ObservedRuns
  <2>1. \A c \in ObservedCalls : at'[c] = at[c]
    BY <1>2, <1>7
  <2> QED
    BY <1>1, <1>4, <1>6, <2>1 DEF Nested, Started, Waits
<1>8. CASE x \in ObservedCalls
  <2>1. Nested'
    BY <1>2, <1>3, <1>8, NestedStays
  <2> QED
    BY <1>1, <1>4, <1>6, <2>1
<1> QED
  BY <1>7, <1>8

(* Where calls start: those of the model as the first, others in the body  *)
(* of all that are under way.                                              *)
InTheBody(c) ==
  /\ origin[c] # c => Started(origin[c])
  /\ \A d \in ObservedCalls \ {c} : Started(d) /\ origin[d] = origin[c] =>
       origin[c] # c /\ layer'[c] < layer[d] /\ at[d] = "body"

(* A run or a call starts beside others.                                   *)
LEMMA Starting ==
  ASSUME WalkInv, NEW x \in Actors, NEW place, Observing!Starts(x, place),
         wraps' \in [ObservedTools -> Seq(ObservedSessions)], layer' \in [ObservedCalls -> Nat],
         \A c \in ObservedCalls \ {x} : layer'[c] = layer[c],
         \/ x \in ObservedRuns /\ place = "beforeRun"
         \/ x \in ObservedCalls /\ place = "beforeTool" /\ at[runOf[x]] = "model" /\ InTheBody(x)
  PROVE  WalkInv'
<1> USE AdaptersAssumption DEF WalkInv, WalkTypes, Observing!Goes, Observing!Starts, Observing!inputs, Actors
<1>1. Len(order) >= 1 /\ Len(order) \in Nat
  BY OrderOfPlugins
<1>2. Observing!Met(x) \subseteq Actors
  BY DEF Observing!Met, Observing!Actors
<1>3. shared' \in SUBSET Actors
  BY <1>2
<1>4. WalkTypes'
  <2>1. pos' \in [Actors -> 0 .. Len(order)]
    BY <1>1
  <2> QED
    BY <2>1, <1>3 DEF RunPlaces, CallPlaces, Observing!Walks
<1>5. at'[x] = place /\ \A y \in Actors : y # x => at'[y] = at[y]
  OBVIOUS
<1>6. CallsAreOfModels'
  BY <1>5 DEF CallsAreOfModels, Observing!Active, Observing!Quiet
<1>7. Alone'
  <2> SUFFICES ASSUME NEW y \in Actors, Observing!Active(y)', y \notin shared'  PROVE Observing!Meets(y)' = {}
    BY DEF Alone
  <2>1. CASE y = x
    <3>1. Observing!Meets(x) = {}
      BY <2>1 DEF Observing!Met
    <3> QED
      BY <3>1, <1>5, <2>1 DEF Observing!Meets, Observing!Disturbs, Observing!Actors, Observing!Active
  <2>2. CASE y # x
    <3>1. Observing!Active(y) /\ y \notin shared
      BY <1>5, <2>2 DEF Observing!Active
    <3>2. Observing!Meets(y) = {}
      BY <3>1 DEF Alone
    <3>3. x \notin Observing!Meets(y)'
      <4> SUFFICES ASSUME x \in Observing!Meets(y)'  PROVE FALSE
        OBVIOUS
      <4>1. y \in Observing!Met(x)
        BY <3>1, <2>2 DEF Observing!Meets, Observing!Met, Observing!Disturbs, Observing!Actors
      <4> QED
        BY <4>1
    <3> QED
      BY <3>2, <3>3, <1>5 DEF Observing!Meets, Observing!Disturbs, Observing!Actors, Observing!Active
  <2> QED
    BY <2>1, <2>2
<1>8. Nested'
  <2>1. CASE x \in ObservedRuns
    <3>1. \A c \in ObservedCalls : at'[c] = at[c] /\ layer'[c] = layer[c]
      BY <1>5, <2>1
    <3> QED
      BY <3>1 DEF Nested, Started, Waits
  <2>2. CASE x \in ObservedCalls /\ InTheBody(x)
    <3>1. ~Started(x) /\ Started(x)' /\ \A y \in ObservedCalls \ {x} : Started(y)' <=> Started(y)
      BY <1>5, <2>2 DEF Started
    <3>2. ASSUME NEW c \in ObservedCalls, Started(c)' PROVE Started(origin[c])'
      <4>1. Started(c) => Started(origin[c])
        BY DEF Nested
      <4>2. c = x => origin[c] = x \/ Started(origin[c])
        BY <2>2 DEF InTheBody
      <4>3. Started(origin[c]) => Started(origin[c])'
        BY <3>1
      <4>4. x = origin[c] => Started(origin[c])'
        BY <3>1 DEF Started
      <4> QED
        BY <3>1, <3>2, <4>1, <4>2, <4>3, <4>4
    <3>3. ASSUME NEW c \in ObservedCalls, Started(c)', NEW d \in ObservedCalls \ {c}, Started(d)', origin[d] = origin[c]
          PROVE  layer'[d] # layer'[c] /\ (layer'[c] < layer'[d] => Waits(d, c)')
      <4>1. CASE c # x /\ d # x
        BY <1>5, <3>1, <3>3, <4>1 DEF Nested, Waits
      <4>2. CASE c = x
        <5>1. layer'[x] < layer[d] /\ at[d] = "body" /\ layer'[d] = layer[d]
          BY <2>2, <3>1, <3>3, <4>2 DEF InTheBody
        <5> QED
          BY <1>5, <3>3, <4>2, <5>1 DEF Waits
      <4>3. CASE d = x
        <5>1. layer'[x] < layer[c] /\ layer'[c] = layer[c]
          BY <2>2, <3>1, <3>3, <4>3 DEF InTheBody
        <5> QED
          BY <4>3, <5>1
      <4> QED
        BY <4>1, <4>2, <4>3
    <3> QED
      BY <3>2, <3>3 DEF Nested
  <2> QED
    BY <2>1, <2>2
<1> QED
  BY <1>4, <1>6, <1>7, <1>8

(* Nobody else's place in the walk changes.                                *)
LEMMA OthersStay ==
  ASSUME WalkTypes, NEW x \in Actors, NEW place, NEW i, Observing!Goes(x, place, i), order' = order
  PROVE  /\ at'[x] = place /\ pos'[x] = i
         /\ \A y \in Actors \ {x} : at'[y] = at[y] /\ pos'[y] = pos[y]
         /\ \A c \in ObservedCalls \ {x} : (Holding(c)' <=> Holding(c)) /\ (Reported(c)' <=> Reported(c))
         /\ \A c \in ObservedCalls \ {x} : IsCounted(c)' <=> IsCounted(c)
<1>1. at'[x] = place /\ pos'[x] = i /\ \A y \in Actors \ {x} : at'[y] = at[y] /\ pos'[y] = pos[y]
  BY DEF WalkTypes, Observing!Goes, Actors
<1>2. \A y \in Actors \ {x} : \A name : Passed(y, name)' <=> Passed(y, name)
  BY <1>1 DEF Passed
<1> QED
  BY <1>1, <1>2 DEF Holding, Reported, IsCounted, Actors

(* A hook returns: the walk goes on, or the scores are awaited.            *)
LEMMA HookGoes ==
  ASSUME WalkInv, NEW x \in Actors, Observing!Hook(x)
  PROVE  /\ at[x] \in Observing!Walks /\ pos[x] \in 1 .. Len(order)
         /\ UNCHANGED <<order, session, tool, runOf, origin, under, wraps, layer, cost, shared>>
         /\ order[pos[x]] \in {"observability", "evals", "guardrails"}
         /\ \/ Observing!Onwards(x) /\ (at[x] = "afterRun" => order[pos[x]] # "evals")
            \/ /\ at[x] = "afterRun" /\ order[pos[x]] = "evals" /\ x \in ObservedRuns
               /\ Observing!Goes(x, "scores", pos[x])
<1>1. at[x] \in Observing!Walks /\ pos[x] \in 1 .. Len(order)
  BY OrderOfPlugins DEF WalkInv, WalkTypes, Observing!Hook, Actors
<1>2. x \in ObservedCalls => at[x] # "afterRun"
  BY DEF WalkInv, WalkTypes, CallPlaces
<1> QED
  BY <1>1, <1>2, OrderOfPlugins DEF Observing!Hook, Observing!inputs, Actors, WalkInv, WalkTypes

(* Where onwards is.                                                       *)
LEMMA OnwardsGoes ==
  ASSUME WalkInv, NEW x \in Actors, at[x] \in Observing!Walks, pos[x] \in 1 .. Len(order), Observing!Onwards(x)
  PROVE  \/ /\ pos[x] = Len(order)
            /\ \/ at[x] = "beforeRun" /\ Observing!Goes(x, "model", 0)
               \/ at[x] = "beforeTool" /\ Observing!Goes(x, "body", 0)
               \/ at[x] \in {"afterRun", "afterTool"} /\ Observing!Goes(x, "done", 0)
               \/ at[x] \in {"runError", "toolError"} /\ Observing!Goes(x, "failed", 0)
         \/ pos[x] # Len(order) /\ Observing!Goes(x, at[x], pos[x] + 1)
<1>1. CASE pos[x] = Len(order)
  <2>1. Observing!Goes(x, Observing!AfterWalk(at[x]), 0)
    BY <1>1 DEF Observing!Onwards
  <2>2. CASE at[x] = "beforeRun"
    BY <1>1, <2>1, <2>2 DEF Observing!AfterWalk
  <2>3. CASE at[x] = "beforeTool"
    BY <1>1, <2>1, <2>3 DEF Observing!AfterWalk
  <2>4. CASE at[x] \in {"afterRun", "afterTool"}
    BY <1>1, <2>1, <2>4 DEF Observing!AfterWalk
  <2>5. CASE at[x] \in {"runError", "toolError"}
    BY <1>1, <2>1, <2>5 DEF Observing!AfterWalk
  <2> QED
    BY <2>2, <2>3, <2>4, <2>5 DEF Observing!Walks
<1>2. CASE pos[x] # Len(order)
  BY <1>2 DEF Observing!Onwards
<1> QED
  BY <1>1, <1>2

(* A hook of a plugin moves its run or call on along the walk.             *)
LEMMA HookKeepsWalk ==
  ASSUME WalkInv, NEW x \in Actors, Observing!Hook(x)
  PROVE  WalkInv'
<1> USE DEF Actors
<1>1. /\ at[x] \in Observing!Walks /\ pos[x] \in 1 .. Len(order) /\ Len(order) \in Nat
      /\ UNCHANGED <<order, session, tool, runOf, origin, under, wraps, layer, shared>>
      /\ Observing!Active(x)
  BY HookGoes, OrderOfPlugins DEF WalkInv, WalkTypes, Observing!Active, Observing!Quiet, Observing!Walks
<1>2. /\ x \in ObservedRuns => at[x] \in {"beforeRun", "afterRun", "runError"}
      /\ x \in ObservedCalls => at[x] \in {"beforeTool", "afterTool", "toolError"}
  BY <1>1 DEF WalkInv, WalkTypes, RunPlaces, CallPlaces, Observing!Walks
<1>3. x \in ObservedRuns => \A c \in ObservedCalls : runOf[c] = x => ~Observing!Active(c)
  BY <1>2 DEF WalkInv, CallsAreOfModels
<1>4. CASE Observing!Goes(x, "scores", pos[x]) /\ x \in ObservedRuns /\ order[pos[x]] = "evals"
  <2>1. x \notin ObservedCalls
    BY <1>4, AdaptersAssumption
  <2> QED
    BY <1>1, <1>3, <1>4, <2>1, GoingOn DEF RunPlaces
<1>5. ASSUME NEW place, NEW i \in 0 .. Len(order), Observing!Goes(x, place, i),
             \/ i # 0 /\ place = at[x]
             \/ at[x] = "beforeRun" /\ place = "model"
             \/ at[x] = "beforeTool" /\ place = "body"
             \/ at[x] \in {"afterRun", "afterTool"} /\ place = "done"
             \/ at[x] \in {"runError", "toolError"} /\ place = "failed"
      PROVE  WalkInv'
  <2>1. /\ x \in ObservedRuns => place \in RunPlaces \ {"idle"}
        /\ x \in ObservedCalls => place \in CallPlaces \ {"idle"}
        /\ place = "beforeRun" => at[x] = "beforeRun"
        /\ place \in Observing!Walks \cup {"scores"} => i # 0
        /\ place # "scores"
    BY <1>1, <1>2, <1>5 DEF RunPlaces, CallPlaces, Observing!Walks
  <2>2. x \in ObservedCalls => MovesOn(x, place)
    BY <1>2, <1>5 DEF MovesOn
  <2> QED
    BY <1>1, <1>3, <1>5, <2>1, <2>2, GoingOn
<1>6. CASE Observing!Onwards(x)
  <2>1. CASE pos[x] = Len(order)
    BY <1>1, <1>5, <1>6, <2>1, OnwardsGoes
  <2>2. CASE pos[x] # Len(order)
    <3>1. pos[x] + 1 \in 0 .. Len(order) /\ pos[x] + 1 # 0
      BY <1>1, <2>2
    <3> QED
      BY <1>1, <1>5, <1>6, <2>2, <3>1, OnwardsGoes
  <2> QED
    BY <2>1, <2>2
<1> QED
  BY <1>4, <1>6, HookGoes

(* A call starts as the first of its chain, or in the innermost body.      *)
LEMMA CallStartsInside ==
  ASSUME WalkInv, NEW c \in ObservedCalls, Observing!CallStarts(c)
  PROVE  /\ Observing!Starts(c, "beforeTool") /\ UNCHANGED wraps /\ layer' \in [ObservedCalls -> Nat]
         /\ wraps' \in [ObservedTools -> Seq(ObservedSessions)]
         /\ \A d \in ObservedCalls \ {c} : layer'[d] = layer[d]
         /\ at[runOf[c]] = "model" /\ InTheBody(c)
<1> USE DEF WalkInv, WalkTypes
<1>1. PICK n \in Nat :
        /\ Observing!Starts(c, "beforeTool") /\ layer' = [layer EXCEPT ![c] = n] /\ UNCHANGED wraps
        /\ \/ origin[c] = c /\ at[runOf[c]] = "model"
           \/ \E o \in ObservedCalls :
                /\ origin[c] # c /\ origin[o] = origin[c] /\ at[o] = "body" /\ Observing!MadeBy(o) = {}
                /\ n = layer[o] - 1
  <2>1. ASSUME NEW n, Observing!Enters(c, n)
        PROVE  n \in Nat /\ Observing!Starts(c, "beforeTool") /\ layer' = [layer EXCEPT ![c] = n] /\ UNCHANGED wraps
    <3>1. Observing!WrapsOf(c) \in Seq(ObservedSessions)
      BY DEF Observing!WrapsOf
    <3>2. DOMAIN Observing!WrapsOf(c) \subseteq Nat
      BY <3>1, LenProperties
    <3> QED
      BY <2>1, <3>2 DEF Observing!Enters
  <2>2. CASE origin[c] = c /\ at[runOf[c]] = "model" /\ Observing!Enters(c, Len(Observing!WrapsOf(c)))
    BY <2>1, <2>2
  <2>3. ASSUME NEW o \in ObservedCalls, origin[c] # c, origin[o] = origin[c], at[o] = "body",
               Observing!MadeBy(o) = {}, Observing!Enters(c, layer[o] - 1)
        PROVE  \E n \in Nat :
                 /\ Observing!Starts(c, "beforeTool") /\ layer' = [layer EXCEPT ![c] = n] /\ UNCHANGED wraps
                 /\ \E q \in ObservedCalls :
                      /\ origin[c] # c /\ origin[q] = origin[c] /\ at[q] = "body" /\ Observing!MadeBy(q) = {}
                      /\ n = layer[q] - 1
    BY <2>1, <2>3
  <2> QED
    BY <2>2, <2>3 DEF Observing!CallStarts
<1>2. at[c] = "idle" /\ layer'[c] = n /\ \A d \in ObservedCalls \ {c} : layer'[d] = layer[d]
  BY <1>1 DEF Observing!Starts
<1>3. CASE origin[c] = c /\ at[runOf[c]] = "model"
  <2>1. \A d \in ObservedCalls : origin[d] = c => ~Started(d)
    BY <1>2 DEF Nested, Started
  <2> QED
    BY <1>1, <1>2, <1>3, <2>1 DEF InTheBody
<1>4. ASSUME NEW o \in ObservedCalls, origin[c] # c, origin[o] = origin[c], at[o] = "body",
             Observing!MadeBy(o) = {}, n = layer[o] - 1
      PROVE  at[runOf[c]] = "model" /\ InTheBody(c)
  <2>1. Started(o) /\ Started(origin[c]) /\ Observing!Active(o)
    BY <1>4 DEF Nested, Started, Observing!Active, Observing!Quiet
  <2>2. at[runOf[c]] = "model"
    <3>1. runOf[c] = runOf[o]
      BY <1>4
    <3> QED
      BY <2>1, <3>1 DEF CallsAreOfModels
  <2>3. ASSUME NEW d \in ObservedCalls \ {c}, Started(d), origin[d] = origin[c]
        PROVE  layer'[c] < layer[d] /\ at[d] = "body"
    <3>1. ~(layer[d] < layer[o]) /\ layer[d] \in Nat /\ layer[o] \in Nat
      BY <1>4, <2>3 DEF Observing!MadeBy, Started
    <3>2. d # o => layer[d] # layer[o] /\ (layer[o] < layer[d] => Waits(d, o))
      BY <1>4, <2>1, <2>3 DEF Nested
    <3> QED
      BY <1>2, <1>4, <3>1, <3>2 DEF Waits
  <2> QED
    BY <1>4, <2>1, <2>2, <2>3 DEF InTheBody
<1> QED
  BY <1>1, <1>2, <1>3, <1>4

(* A call settles as those it made did.                                    *)
LEMMA SettlesAsMade ==
  ASSUME WalkInv, NEW c \in ObservedCalls, Observing!BodySettles(c),
         NEW place \in {"afterTool", "toolError"}, Observing!Goes(c, place, 1)
  PROVE  MovesOn(c, place)
<1>1. at[c] = "body" /\ \A d \in Observing!MadeBy(c) : at[d] \in {"done", "failed"}
  BY DEF Observing!BodySettles, Observing!MadeBy, Observing!Active, Observing!Quiet
<1>2. PICK q \in {"afterTool", "toolError"} :
        /\ Observing!MadeBy(c) # {} => (q = "toolError" <=> \E d \in Observing!MadeBy(c) : at[d] = "failed")
        /\ Observing!Goes(c, q, 1)
  BY DEF Observing!BodySettles
<1>3. place = q
  <2>1. at'[c] = place /\ at'[c] = q
    BY <1>2 DEF Observing!Goes, WalkInv, WalkTypes, Actors
  <2> QED
    BY <2>1
<1> QED
  BY <1>1, <1>2, <1>3 DEF MovesOn

(* So does every other step: starts, answers, refusals, resets.            *)
LEMMA OtherWalks ==
  ASSUME WalkInv,
         \/ \E r \in ObservedRuns : Observing!RunStarts(r) \/ Observing!ModelAnswers(r) \/ Observing!Scored(r)
         \/ \E c \in ObservedCalls : Observing!CallStarts(c) \/ Observing!BodySettles(c)
         \/ \E x \in Actors : Observing!Refuses(x)
         \/ Observing!ResetSpans \/ Observing!ResetCost \/ UNCHANGED obsVars
  PROVE  WalkInv'
<1> USE DEF Actors
<1>1. Len(order) \in Nat \ {0}
  BY OrderOfPlugins DEF WalkInv, WalkTypes
<1>2. \A x \in Actors : at[x] \notin {"idle", "done", "failed"} <=> Observing!Active(x)
  BY DEF Observing!Active, Observing!Quiet
<1>3. \A x \in ObservedRuns : x \notin ObservedCalls
  BY AdaptersAssumption
<1>4. \A r \in ObservedRuns : at[r] # "model" => \A c \in ObservedCalls : runOf[c] = r => ~Observing!Active(c)
  BY DEF WalkInv, CallsAreOfModels
<1>5. ASSUME NEW r \in ObservedRuns, Observing!RunStarts(r) PROVE WalkInv'
  <2>1. wraps \in [ObservedTools -> Seq(ObservedSessions)] /\ layer \in [ObservedCalls -> Nat]
    BY DEF WalkInv, WalkTypes
  <2>2. \A t \in ObservedTools : Append(wraps[t], session[r]) \in Seq(ObservedSessions)
    BY <2>1, AppendProperties DEF WalkInv, WalkTypes
  <2>3. wraps' \in [ObservedTools -> Seq(ObservedSessions)]
    BY <1>5, <2>1, <2>2 DEF Observing!RunStarts
  <2> QED
    BY <1>5, <2>1, <2>3, Starting DEF Observing!RunStarts
<1>6. ASSUME NEW r \in ObservedRuns, Observing!ModelAnswers(r) PROVE WalkInv'
  <2>1. PICK place \in {"afterRun", "runError"} : Observing!Goes(r, place, 1)
    BY <1>6 DEF Observing!ModelAnswers
  <2>2. \A c \in ObservedCalls : runOf[c] = r => ~Observing!Active(c)
    BY <1>6 DEF Observing!ModelAnswers
  <2>3. Observing!Active(r) /\ UNCHANGED <<order, session, tool, runOf, origin, under, wraps, layer, shared>>
    BY <1>2, <1>6 DEF Observing!ModelAnswers, Observing!inputs
  <2>4. 1 \in 0 .. Len(order) /\ place \in RunPlaces \ {"idle"} /\ place # "beforeRun" /\ place # "scores"
    BY <1>1, <2>1 DEF RunPlaces
  <2> QED
    BY <1>3, <2>1, <2>2, <2>3, <2>4, GoingOn
<1>7. ASSUME NEW r \in ObservedRuns, Observing!Scored(r) PROVE WalkInv'
  <2>1. pos[r] \in 1 .. Len(order)
    BY <1>1, <1>7 DEF Observing!Scored, WalkInv, WalkTypes
  <2>2. PICK place \in {"afterRun", "runError", "done"}, i \in 0 .. Len(order) :
          Observing!Goes(r, place, i) /\ (place # "done" => i # 0)
    <3>1. CASE Observing!Goes(r, "runError", 1)
      BY <1>1, <3>1
    <3>2. CASE pos[r] = Len(order) /\ Observing!Goes(r, "done", 0)
      BY <1>1, <3>2
    <3>3. CASE pos[r] # Len(order) /\ Observing!Goes(r, "afterRun", pos[r] + 1)
      <4>1. pos[r] + 1 \in 0 .. Len(order) /\ pos[r] + 1 # 0
        BY <1>1, <2>1, <3>3
      <4> QED
        BY <3>3, <4>1
    <3> QED
      BY <1>7, <3>1, <3>2, <3>3 DEF Observing!Scored
  <2>3. Observing!Active(r) /\ UNCHANGED <<order, session, tool, runOf, origin, under, wraps, layer, shared>> /\ at[r] # "model"
    BY <1>2, <1>7 DEF Observing!Scored, Observing!inputs
  <2>4. place \in RunPlaces \ {"idle"} /\ place # "beforeRun" /\ place # "scores"
    BY <2>2 DEF RunPlaces
  <2>5. place \in Observing!Walks => i # 0
    BY <2>2 DEF Observing!Walks
  <2> QED
    BY <1>3, <1>4, <2>2, <2>3, <2>4, <2>5, GoingOn
<1>8. ASSUME NEW c \in ObservedCalls, Observing!CallStarts(c) PROVE WalkInv'
  BY <1>8, CallStartsInside, Starting
<1>9. ASSUME NEW c \in ObservedCalls, Observing!BodySettles(c) PROVE WalkInv'
  <2>1. PICK place \in {"afterTool", "toolError"} : Observing!Goes(c, place, 1)
    BY <1>9 DEF Observing!BodySettles
  <2>2. Observing!Active(c) /\ UNCHANGED <<order, session, tool, runOf, origin, under, wraps, layer, shared>>
    BY <1>2, <1>9 DEF Observing!BodySettles, Observing!inputs
  <2>3. 1 \in 0 .. Len(order) /\ place \in CallPlaces \ {"idle"} /\ place # "beforeRun" /\ place # "scores"
    BY <1>1, <2>1 DEF CallPlaces
  <2>4. MovesOn(c, place)
    BY <1>9, <2>1, SettlesAsMade
  <2> QED
    BY <1>3, <2>1, <2>2, <2>3, <2>4, GoingOn
<1>10. ASSUME NEW x \in Actors, Observing!Refuses(x) PROVE WalkInv'
  <2>1. Observing!Active(x) /\ UNCHANGED <<order, session, tool, runOf, origin, under, wraps, layer, shared>>
    BY <1>2, <1>10 DEF Observing!Refuses, Observing!inputs
  <2>2. CASE x \in ObservedRuns
    <3>1. at[x] \in {"beforeRun", "afterRun"}
      BY <1>10, <2>2 DEF Observing!Refuses, WalkInv, WalkTypes, RunPlaces
    <3>2. Observing!Goes(x, "runError", 1)
      BY <1>10, <2>2, <3>1 DEF Observing!Refuses, Observing!Thrown
    <3>3. 1 \in 0 .. Len(order) /\ "runError" \in RunPlaces \ {"idle"}
      BY <1>1 DEF RunPlaces
    <3> QED
      BY <1>3, <1>4, <2>1, <2>2, <3>1, <3>2, <3>3, GoingOn
  <2>3. CASE x \in ObservedCalls
    <3>1. at[x] = "beforeTool" /\ x \notin ObservedRuns
      BY <1>3, <1>10, <2>3 DEF Observing!Refuses, WalkInv, WalkTypes, CallPlaces
    <3>2. Observing!Goes(x, "failed", 0)
      BY <1>10, <2>3, <3>1 DEF Observing!Refuses, Observing!Thrown
    <3>3. /\ 0 \in 0 .. Len(order) /\ "failed" \in CallPlaces \ {"idle"} /\ "failed" \notin Observing!Walks
          /\ MovesOn(x, "failed")
      BY <1>1, <3>1 DEF CallPlaces, Observing!Walks, MovesOn
    <3> QED
      BY <2>1, <2>3, <3>1, <3>2, <3>3, GoingOn
  <2> QED
    BY <2>2, <2>3
<1>11. CASE Observing!ResetSpans \/ Observing!ResetCost \/ UNCHANGED obsVars
  <2>1. UNCHANGED <<order, session, tool, runOf, origin, under, wraps, layer, at, pos, shared>>
    BY <1>11 DEF Observing!ResetSpans, Observing!ResetCost, Observing!walkVars, Observing!inputs, obsVars
  <2> QED
    BY <2>1 DEF WalkInv, WalkTypes, CallsAreOfModels, Nested, Started, Waits, Alone,
                Observing!Active, Observing!Meets, Observing!Disturbs
<1> QED
  BY <1>5, <1>6, <1>7, <1>8, <1>9, <1>10, <1>11

(* As long as the plugin is told of no other call of a run, it has the     *)
(* same to say of it.                                                      *)
LEMMA EvaluatedStays ==
  ASSUME UNCHANGED <<session, runOf, under, tool>>, NEW r \in ObservedRuns,
         \A c \in ObservedCalls : runOf[c] = r => (IsCounted(c)' <=> IsCounted(c))
  PROVE  Evaluated(r)' = Evaluated(r) /\ Counts(r)' = Counts(r)
<1>1. ASSUME NEW t \in ObservedTools PROVE CountedOf(r, t)' = CountedOf(r, t)
  BY DEF CountedOf
<1>2. Counts(r)' = Counts(r)
  BY <1>1 DEF Counts
<1> QED
  BY <1>2 DEF Evaluated

(* The calls of a run are finitely many.                                   *)
LEMMA CountsAreNumbers == \A r \in ObservedRuns : Counts(r) \in [ObservedTools -> Nat]
<1> SUFFICES ASSUME NEW r \in ObservedRuns, NEW t \in ObservedTools PROVE Cardinality(CountedOf(r, t)) \in Nat
  BY DEF Counts
<1>1. CountedOf(r, t) \subseteq ObservedCalls
  BY DEF CountedOf
<1> QED
  BY <1>1, AdaptersAssumption, FS_Subset, FS_CardinalityType

(* Who is watched has the plugin.                                          *)
LEMMA WatchedByEvals ==
  ASSUME WalkInv, NEW r \in ObservedRuns, Watched(r) \/ at[r] = "scores"
  PROVE  Registered("evals") /\ Observing!Active(r)
<1>1. pos[r] \in 0 .. Len(order) /\ Len(order) \in Nat /\ (at[r] = "scores" => pos[r] # 0 /\ order[pos[r]] = "evals")
  BY OrderOfPlugins DEF WalkInv, WalkTypes, Actors
<1> QED
  BY <1>1 DEF Watched, Passed, Registered, Observing!Active, Observing!Quiet

(* A run that goes on without touching the evaluations keeps what is known *)
(* of them: whose state a session holds, and what it counts.               *)
LEMMA RunMovesOn ==
  ASSUME WalkInv, EvalInv, NEW r \in ObservedRuns, NEW place, NEW i, Observing!Goes(r, place, i),
         UNCHANGED <<order, session, tool, runOf, origin, under, states, taken, results>>, shared \subseteq shared',
         Watched(r)' => Watched(r), place # "scores",
         place \in {"idle", "beforeRun", "model"} => at[r] \in {"idle", "beforeRun", "model"}
  PROVE  EvalInv'
<1> USE DEF EvalInv
<1>1. /\ at'[r] = place /\ \A y \in ObservedRuns \ {r} : at'[y] = at[y] /\ pos'[y] = pos[y]
      /\ \A c \in ObservedCalls : IsCounted(c)' <=> IsCounted(c)
  BY OthersStay, AdaptersAssumption DEF WalkInv, Actors
<1>2. \A q \in ObservedRuns : Evaluated(q)' = Evaluated(q) /\ Counts(q)' = Counts(q)
  BY <1>1, EvaluatedStays
<1>3. \A q \in ObservedRuns : (Watched(q)' => Watched(q)) /\ (at'[q] = "scores" => at[q] = "scores")
  BY <1>1 DEF Watched, Passed, Registered
<1>4. \A q \in ObservedRuns \ shared' :
         /\ Watched(q)' => states'[session'[q]] = Evaluated(q)'
         /\ at'[q] = "scores" => taken'[q] = Evaluated(q)'
  BY <1>2, <1>3
<1>5. \A k \in 1 .. Len(results) : results[k] \in Result
  BY ElementOfSeq DEF EvalTypes
<1>6. ASSUME NEW k \in 1 .. Len(results) PROVE ResultIsTrue(results[k])'
  <2>1. results[k].output \in ObservedRuns
    BY <1>5 DEF Result
  <2> QED
    BY <1>1, <1>2, <2>1 DEF ResultIsTrue
<1> QED
  BY <1>4, <1>6 DEF EvalTypes

(* The same for a call whose end counts before and after, or not.          *)
LEMMA CallMovesOn ==
  ASSUME WalkInv, EvalInv, NEW c \in ObservedCalls, NEW place, NEW i, Observing!Goes(c, place, i),
         UNCHANGED <<order, session, tool, runOf, origin, under, states, taken, results>>, shared \subseteq shared',
         at[runOf[c]] = "model", Registered("evals") => (IsCounted(c)' <=> IsCounted(c))
  PROVE  EvalInv'
<1> USE DEF EvalInv
<1>1. /\ \A y \in ObservedRuns : at'[y] = at[y] /\ pos'[y] = pos[y]
      /\ \A d \in ObservedCalls \ {c} : IsCounted(d)' <=> IsCounted(d)
  BY OthersStay, AdaptersAssumption DEF WalkInv, Actors
<1>2. ASSUME NEW q \in ObservedRuns, Registered("evals") \/ q # runOf[c]
      PROVE  Evaluated(q)' = Evaluated(q) /\ Counts(q)' = Counts(q)
  BY <1>1, <1>2, EvaluatedStays
<1>3. \A q \in ObservedRuns : (Watched(q)' <=> Watched(q)) /\ at'[q] = at[q]
  BY <1>1 DEF Watched, Passed, Registered
<1>4. ASSUME NEW q \in ObservedRuns \ shared'
      PROVE  /\ Watched(q)' => states'[session'[q]] = Evaluated(q)'
             /\ at'[q] = "scores" => taken'[q] = Evaluated(q)'
  BY <1>2, <1>3, WatchedByEvals
<1>5. \A k \in 1 .. Len(results) : results[k] \in Result
  BY ElementOfSeq DEF EvalTypes
<1>6. ASSUME NEW k \in 1 .. Len(results) PROVE ResultIsTrue(results[k])'
  <2>1. results[k].output \in ObservedRuns
    BY <1>5 DEF Result
  <2> QED
    BY <1>1, <1>2, <2>1 DEF ResultIsTrue
<1> QED
  BY <1>4, <1>6 DEF EvalTypes

(* What passing the plugin changes of a run, or of a call.                 *)
LEMMA PassesOn ==
  ASSUME WalkInv, NEW x \in Actors, NEW name, at[x] \in Observing!Walks, pos[x] \in 1 .. Len(order),
         Observing!Onwards(x), UNCHANGED order
  PROVE  /\ order[pos[x]] = name => ~Passed(x, name) /\ Registered(name)
         /\ pos[x] = Len(order) => (Registered(name) <=> Passed(x, name) \/ order[pos[x]] = name)
         /\ pos[x] # Len(order) => (Passed(x, name)' <=> Passed(x, name) \/ order[pos[x]] = name)
         /\ Registered(name)' <=> Registered(name)
         /\ Passed(x, name) => Registered(name)
<1>1. Len(order) \in Nat /\ \A i, j \in 1 .. Len(order) : order[i] = order[j] => i = j
  BY OrderOfPlugins DEF WalkInv, WalkTypes
<1>2. pos[x] # Len(order) => pos'[x] = pos[x] + 1
  BY DEF WalkInv, WalkTypes, Observing!Onwards, Observing!Goes
<1>3. pos[x] - 1 \in Nat /\ pos[x] - 1 < Len(order)
  BY <1>1
<1>4. order[pos[x]] = name => ~Passed(x, name) /\ Registered(name)
  BY <1>1, <1>3 DEF Passed, Registered
<1>5. 1 .. pos[x] = (1 .. pos[x] - 1) \cup {pos[x]}
  OBVIOUS
<1>6. pos[x] = Len(order) => (Registered(name) <=> Passed(x, name) \/ order[pos[x]] = name)
  BY <1>5 DEF Passed, Registered
<1>7. pos[x] # Len(order) => (Passed(x, name)' <=> Passed(x, name) \/ order[pos[x]] = name)
  <2>1. pos[x] # Len(order) => pos'[x] - 1 = pos[x]
    BY <1>2
  <2> QED
    BY <1>5, <2>1 DEF Passed
<1> QED
  BY <1>1, <1>3, <1>4, <1>6, <1>7 DEF Passed, Registered

(* A run that met nobody has its session for itself.                       *)
LEMMA AloneInSession ==
  ASSUME WalkInv, NEW q \in ObservedRuns \ shared, NEW r \in ObservedRuns, session[q] = session[r],
         Observing!Active(q), Observing!Active(r)
  PROVE  q = r
<1>1. Observing!Meets(q) = {}
  BY DEF WalkInv, Alone, Actors
<1> QED
  BY <1>1 DEF Observing!Meets, Observing!Disturbs, Observing!Actors

(* What a run does to its session concerns no other one that is watched.   *)
LEMMA EvalsOfSession ==
  ASSUME WalkInv, EvalInv, NEW r \in ObservedRuns, Observing!Active(r),
         UNCHANGED <<order, session, tool, runOf, origin, under, shared, results>>, EvalTypes',
         \A s \in ObservedSessions \ {session[r]} : states'[s] = states[s],
         \A q \in ObservedRuns \ {r} : taken'[q] = taken[q],
         \A q \in ObservedRuns \ {r} : at'[q] = at[q] /\ pos'[q] = pos[q],
         \A c \in ObservedCalls : runOf[c] # r => (IsCounted(c)' <=> IsCounted(c)),
         \A k \in 1 .. Len(results) : results[k].output = r => ResultIsTrue(results[k])',
         r \notin shared => /\ Watched(r)' => states'[session[r]] = Evaluated(r)'
                            /\ at'[r] = "scores" => taken'[r] = Evaluated(r)'
  PROVE  EvalInv'
<1> USE DEF EvalInv
<1>1. ASSUME NEW q \in ObservedRuns, q # r PROVE Evaluated(q)' = Evaluated(q) /\ Counts(q)' = Counts(q)
  BY <1>1, EvaluatedStays
<1>2. \A q \in ObservedRuns \ {r} : Watched(q)' <=> Watched(q)
  BY DEF Watched, Passed, Registered
<1>3. ASSUME NEW q \in ObservedRuns \ shared'
      PROVE  /\ Watched(q)' => states'[session'[q]] = Evaluated(q)'
             /\ at'[q] = "scores" => taken'[q] = Evaluated(q)'
  <2>1. CASE q = r
    BY <2>1
  <2>2. CASE q # r
    <3>1. ASSUME Watched(q)' PROVE states'[session'[q]] = Evaluated(q)'
      <4>1. Watched(q) /\ Observing!Active(q)
        BY <1>2, <2>2, <3>1, WatchedByEvals
      <4>2. session[q] # session[r] /\ session[q] \in ObservedSessions
        BY <2>2, <4>1, AloneInSession DEF WalkInv, WalkTypes
      <4> QED
        BY <1>1, <2>2, <4>1, <4>2
    <3> QED
      BY <1>1, <2>2, <3>1
  <2> QED
    BY <2>1, <2>2
<1>4. \A k \in 1 .. Len(results) : results[k] \in Result
  BY ElementOfSeq DEF EvalTypes
<1>5. ASSUME NEW k \in 1 .. Len(results) PROVE ResultIsTrue(results[k])'
  <2>1. results[k].output \in ObservedRuns
    BY <1>4 DEF Result
  <2> QED
    BY <1>1, <2>1 DEF ResultIsTrue
<1> QED
  BY <1>3, <1>5

(* beforeRun() of the evaluations: a fresh state for the session; if it    *)
(* replaces the state of another run, both are shared.                     *)
LEMMA EvalBeforeRunKeeps ==
  ASSUME WalkInv, EvalInv, NEW r \in ObservedRuns, Observing!Hook(r), order[pos[r]] = "evals",
         at[r] = "beforeRun", Observing!EvalBeforeRun(r)
  PROVE  EvalInv'
<1> USE DEF EvalInv, Observing!EvalBeforeRun, Observing!Opened
<1>1. /\ at[r] \in Observing!Walks /\ pos[r] \in 1 .. Len(order) /\ Observing!Onwards(r)
      /\ UNCHANGED <<order, session, tool, runOf, origin, under, shared>>
  BY HookGoes DEF Actors
<1>2. PICK place, i : place \in {"beforeRun", "model"} /\ Observing!Goes(r, place, i)
  BY <1>1, OnwardsGoes DEF Actors
<1>3. /\ at'[r] = place /\ \A y \in ObservedRuns \ {r} : at'[y] = at[y] /\ pos'[y] = pos[y]
      /\ \A c \in ObservedCalls : IsCounted(c)' <=> IsCounted(c)
  BY <1>1, <1>2, OthersStay, AdaptersAssumption DEF WalkInv, Actors
<1>4. Counts(r) = Observing!NoCounts
  <2>1. \A t \in ObservedTools : CountedOf(r, t) = {}
    BY DEF WalkInv, CallsAreOfModels, CountedOf, IsCounted
  <2> QED
    BY <2>1, FS_EmptySet, Zenon DEF Counts, Observing!NoCounts
<1>5. Evaluated(r)' = Evaluated(r) /\ Counts(r)' = Counts(r)
  BY <1>1, <1>3, EvaluatedStays
<1>6. session[r] \in ObservedSessions
  BY DEF WalkInv, WalkTypes
<1>7. states'[session[r]] = Evaluated(r)'
  BY <1>4, <1>5, <1>6 DEF Evaluated, EvalTypes
<1>8. EvalTypes'
  BY <1>4, <1>6, CountsAreNumbers DEF EvalTypes
<1>9. \A k \in 1 .. Len(results) : results[k].output # r
  BY DEF ResultIsTrue
<1>10. at'[r] # "scores" /\ Observing!Active(r)
  BY <1>2, <1>3 DEF Observing!Active, Observing!Quiet
<1>11. \A s \in ObservedSessions \ {session[r]} : states'[s] = states[s]
  BY DEF EvalTypes
<1> QED
  BY <1>1, <1>3, <1>7, <1>8, <1>9, <1>10, <1>11, EvalsOfSession

(* afterRun() takes the state out; until the scores are in, it is the      *)
(* run's.                                                                  *)
LEMMA EvalAfterRunKeeps ==
  ASSUME WalkInv, EvalInv, NEW r \in ObservedRuns, Observing!Hook(r), order[pos[r]] = "evals",
         at[r] = "afterRun", Observing!EvalAfterRun(r)
  PROVE  EvalInv'
<1> USE DEF EvalInv, Observing!EvalAfterRun
<1>1. /\ at[r] \in Observing!Walks /\ pos[r] \in 1 .. Len(order) /\ Observing!Goes(r, "scores", pos[r])
      /\ UNCHANGED <<order, session, tool, runOf, origin, under, shared>>
  BY HookGoes DEF Actors
<1>2. /\ at'[r] = "scores" /\ \A y \in ObservedRuns \ {r} : at'[y] = at[y] /\ pos'[y] = pos[y]
      /\ \A c \in ObservedCalls : IsCounted(c)' <=> IsCounted(c)
  BY <1>1, OthersStay, AdaptersAssumption DEF WalkInv, Actors
<1>3. Evaluated(r)' = Evaluated(r) /\ Counts(r)' = Counts(r)
  BY <1>1, <1>2, EvaluatedStays
<1>4. session[r] \in ObservedSessions
  BY DEF WalkInv, WalkTypes
<1>5. Watched(r)
  <2>1. Len(order) \in Nat /\ \A i, j \in 1 .. Len(order) : order[i] = order[j] => i = j
    BY OrderOfPlugins DEF WalkInv, WalkTypes
  <2>2. ~Passed(r, "evals") /\ Registered("evals")
    BY <1>1, <2>1 DEF Passed, Registered
  <2> QED
    BY <2>2 DEF Watched
<1>6. EvalTypes'
  BY <1>4 DEF EvalTypes
<1>7. r \notin shared => taken'[r] = Evaluated(r)'
  BY <1>3, <1>5 DEF EvalTypes
<1>8. ~Watched(r)' /\ Observing!Active(r)
  BY <1>2 DEF Watched, Observing!Active, Observing!Quiet
<1>9. ASSUME NEW k \in 1 .. Len(results), results[k].output = r PROVE ResultIsTrue(results[k])'
  BY <1>1, <1>2, <1>3, <1>9 DEF ResultIsTrue
<1>10. /\ \A s \in ObservedSessions \ {session[r]} : states'[s] = states[s]
       /\ \A q \in ObservedRuns \ {r} : taken'[q] = taken[q]
  BY DEF EvalTypes
<1> QED
  BY <1>1, <1>2, <1>6, <1>7, <1>8, <1>9, <1>10, EvalsOfSession

(* onError() drops the state of the session of a failed run.               *)
LEMMA EvalOnErrorKeeps ==
  ASSUME WalkInv, EvalInv, NEW r \in ObservedRuns, Observing!Hook(r), order[pos[r]] = "evals",
         at[r] = "runError", Observing!EvalOnError(session[r], "runError")
  PROVE  EvalInv'
<1> USE DEF EvalInv, Observing!EvalOnError
<1>1. /\ at[r] \in Observing!Walks /\ pos[r] \in 1 .. Len(order) /\ Observing!Onwards(r)
      /\ UNCHANGED <<order, session, tool, runOf, origin, under, shared>>
  BY HookGoes DEF Actors
<1>2. PICK place, i : place \in {"runError", "failed"} /\ Observing!Goes(r, place, i)
  BY <1>1, OnwardsGoes DEF Actors
<1>3. /\ at'[r] = place /\ \A y \in ObservedRuns \ {r} : at'[y] = at[y] /\ pos'[y] = pos[y]
      /\ \A c \in ObservedCalls : IsCounted(c)' <=> IsCounted(c)
  BY <1>1, <1>2, OthersStay, AdaptersAssumption DEF WalkInv, Actors
<1>4. Counts(r)' = Counts(r)
  BY <1>1, <1>3, EvaluatedStays
<1>5. session[r] \in ObservedSessions
  BY DEF WalkInv, WalkTypes
<1>6. EvalTypes'
  BY <1>5 DEF EvalTypes
<1>7. ~Watched(r)' /\ at'[r] # "scores" /\ Observing!Active(r)
  BY <1>2, <1>3 DEF Watched, Observing!Active, Observing!Quiet
<1>8. ASSUME NEW k \in 1 .. Len(results), results[k].output = r PROVE ResultIsTrue(results[k])'
  BY <1>1, <1>2, <1>3, <1>4, <1>8 DEF ResultIsTrue
<1>9. \A s \in ObservedSessions \ {session[r]} : states'[s] = states[s]
  BY DEF EvalTypes
<1> QED
  BY <1>1, <1>3, <1>6, <1>7, <1>8, <1>9, EvalsOfSession

(* afterTool() counts the call in the state of its session.                *)
LEMMA EvalAfterToolKeeps ==
  ASSUME WalkInv, EvalInv, NEW c \in ObservedCalls, Observing!Hook(c), order[pos[c]] = "evals",
         at[c] = "afterTool", Observing!EvalAfterTool(c),
         NEW r \in ObservedRuns, r = runOf[c], under[c] = session[r]
  PROVE  EvalInv'
<1> USE DEF EvalInv, Observing!EvalAfterTool
<1>1. /\ at[c] \in Observing!Walks /\ pos[c] \in 1 .. Len(order) /\ Observing!Onwards(c)
      /\ UNCHANGED <<order, session, tool, runOf, origin, under, shared>>
  BY HookGoes DEF Actors
<1>2. PICK place, i : place \in {"afterTool", "done"} /\ Observing!Goes(c, place, i)
  BY <1>1, OnwardsGoes DEF Actors
<1>3. /\ \A y \in ObservedRuns : at'[y] = at[y] /\ pos'[y] = pos[y]
      /\ \A d \in ObservedCalls \ {c} : IsCounted(d)' <=> IsCounted(d)
  BY <1>1, <1>2, OthersStay, AdaptersAssumption DEF WalkInv, Actors
<1>4. r \in ObservedRuns /\ at[r] = "model" /\ session[r] \in ObservedSessions /\ tool[c] \in ObservedTools
  <2>1. session[r] \in ObservedSessions /\ tool[c] \in ObservedTools
    BY DEF WalkInv, WalkTypes
  <2>2. Observing!Active(c) => at[r] = "model"
    BY DEF WalkInv, CallsAreOfModels
  <2> QED
    BY <2>1, <2>2 DEF Observing!Active, Observing!Quiet
<1>5. /\ order[pos[c]] = "evals" => ~Passed(c, "evals") /\ Registered("evals")
      /\ pos[c] # Len(order) => (Passed(c, "evals")' <=> Passed(c, "evals") \/ order[pos[c]] = "evals")
  BY <1>1, PassesOn DEF Actors
<1>6. ~IsCounted(c)
  BY <1>5 DEF IsCounted
<1>7. IsCounted(c)'
  <2>1. pos[c] = Len(order) => at'[c] = "done"
    BY <1>1, OnwardsGoes, OthersStay DEF Actors, WalkInv
  <2>2. pos[c] # Len(order) => at'[c] = "afterTool"
    BY <1>1, OnwardsGoes, OthersStay DEF Actors, WalkInv
  <2> QED
    BY <1>5, <2>1, <2>2 DEF IsCounted
<1>8. Counts(r)' = [Counts(r) EXCEPT ![tool[c]] = @ + 1]
  <2> SUFFICES ASSUME NEW t \in ObservedTools
               PROVE  Cardinality(CountedOf(r, t)') =
                        IF t = tool[c] THEN Cardinality(CountedOf(r, t)) + 1 ELSE Cardinality(CountedOf(r, t))
    BY DEF Counts
  <2>1. CASE t = tool[c]
    <3>1. CountedOf(r, t)' = CountedOf(r, t) \cup {c}
      BY <1>1, <1>3, <1>7, <2>1 DEF CountedOf
    <3>2. c \notin CountedOf(r, t) /\ CountedOf(r, t) \subseteq ObservedCalls
      BY <1>6 DEF CountedOf
    <3>3. IsFiniteSet(CountedOf(r, t))
      BY <3>2, AdaptersAssumption, FS_Subset
    <3>4. Cardinality(CountedOf(r, t) \cup {c}) = Cardinality(CountedOf(r, t)) + 1
      BY <3>2, <3>3, FS_AddElement
    <3> QED
      BY ONLY <2>1, <3>1, <3>4
  <2>2. CASE t # tool[c]
    <3>1. CountedOf(r, t)' = CountedOf(r, t)
      BY <1>1, <1>3, <2>2 DEF CountedOf
    <3> QED
      BY <2>2, <3>1
  <2> QED
    BY <2>1, <2>2
<1>9. EvalTypes'
  <2> DEFINE more(x) == [x EXCEPT !.counts[tool[c]] = @ + 1]
  <2>1. \A x \in [prompt : ObservedRuns, counts : [ObservedTools -> Nat]] :
           more(x) \in [prompt : ObservedRuns, counts : [ObservedTools -> Nat]]
    <3>1. tool[c] \in ObservedTools
      BY <1>4
    <3> QED
      BY ONLY <3>1
  <2>2. states'[session[r]] = {more(x) : x \in states[session[r]]}
    BY <1>4 DEF EvalTypes
  <2>3. states[session[r]] \subseteq [prompt : ObservedRuns, counts : [ObservedTools -> Nat]]
    BY <1>4 DEF EvalTypes
  <2> HIDE DEF more
  <2>4. states'[session[r]] \subseteq [prompt : ObservedRuns, counts : [ObservedTools -> Nat]]
    BY <2>1, <2>2, <2>3
  <2> QED
    BY <1>4, <2>4 DEF EvalTypes
<1>10. r \notin shared => states'[session[r]] = Evaluated(r)'
  <2> SUFFICES ASSUME r \notin shared PROVE states'[session[r]] = Evaluated(r)'
    OBVIOUS
  <2>1. states[session[r]] = {[prompt |-> r, counts |-> Counts(r)]}
    BY <1>4, <1>5 DEF Watched, Evaluated
  <2>2. states'[session[r]] = {[prompt |-> r, counts |-> [Counts(r) EXCEPT ![tool[c]] = @ + 1]]}
    BY <1>4, <2>1 DEF EvalTypes
  <2> QED
    BY <1>1, <1>8, <2>2 DEF Evaluated
<1>11. at'[r] # "scores" /\ Observing!Active(r)
  BY <1>3, <1>4 DEF Observing!Active, Observing!Quiet
<1>12. \A k \in 1 .. Len(results) : results[k].output # r
  BY <1>4 DEF ResultIsTrue
<1>13. \A s \in ObservedSessions \ {session[r]} : states'[s] = states[s]
  BY DEF EvalTypes
<1>14. \A d \in ObservedCalls : runOf[d] # r => (IsCounted(d)' <=> IsCounted(d))
  BY <1>3
<1> QED
  BY <1>1, <1>3, <1>4, <1>9, <1>10, <1>11, <1>12, <1>13, <1>14, EvalsOfSession

(* afterTool() of a wrapping of another session counts nothing in the      *)
(* state of a run that met nobody.                                         *)
LEMMA EvalOfOthersKeeps ==
  ASSUME WalkInv, EvalInv, NEW c \in ObservedCalls, Observing!Hook(c), order[pos[c]] = "evals",
         at[c] = "afterTool", Observing!EvalAfterTool(c), under[c] # session[runOf[c]]
  PROVE  EvalInv'
<1> USE DEF EvalInv, Observing!EvalAfterTool
<1>1. /\ at[c] \in Observing!Walks /\ pos[c] \in 1 .. Len(order) /\ Observing!Onwards(c)
      /\ UNCHANGED <<order, session, tool, runOf, origin, under, shared>> /\ Observing!Active(c)
  BY HookGoes DEF Actors, Observing!Active, Observing!Quiet
<1>2. PICK place, i : place \in {"afterTool", "done"} /\ Observing!Goes(c, place, i)
  BY <1>1, OnwardsGoes DEF Actors
<1>3. /\ \A y \in ObservedRuns : at'[y] = at[y] /\ pos'[y] = pos[y]
      /\ \A d \in ObservedCalls \ {c} : IsCounted(d)' <=> IsCounted(d)
  BY <1>1, <1>2, OthersStay, AdaptersAssumption DEF WalkInv, Actors
<1>4. under[c] \in ObservedSessions /\ tool[c] \in ObservedTools /\ runOf[c] \in ObservedRuns
  BY DEF WalkInv, WalkTypes
<1>5. \A q \in ObservedRuns : Evaluated(q)' = Evaluated(q) /\ Counts(q)' = Counts(q)
  <2>1. ASSUME NEW q \in ObservedRuns, NEW t \in ObservedTools PROVE CountedOf(q, t)' = CountedOf(q, t)
    BY <1>1, <1>3 DEF CountedOf
  <2> QED
    BY <2>1 DEF Counts, Evaluated
<1>6. EvalTypes'
  <2> DEFINE more(x) == [x EXCEPT !.counts[tool[c]] = @ + 1]
  <2>1. \A x \in [prompt : ObservedRuns, counts : [ObservedTools -> Nat]] :
           more(x) \in [prompt : ObservedRuns, counts : [ObservedTools -> Nat]]
    BY <1>4
  <2>2. states'[under[c]] = {more(x) : x \in states[under[c]]}
    BY <1>4 DEF EvalTypes
  <2>3. states[under[c]] \subseteq [prompt : ObservedRuns, counts : [ObservedTools -> Nat]]
    BY <1>4 DEF EvalTypes
  <2> HIDE DEF more
  <2>4. states'[under[c]] \subseteq [prompt : ObservedRuns, counts : [ObservedTools -> Nat]]
    BY <2>1, <2>2, <2>3
  <2> QED
    BY <1>4, <2>4 DEF EvalTypes
<1>7. \A s \in ObservedSessions \ {under[c]} : states'[s] = states[s]
  BY DEF EvalTypes
<1>8. ASSUME NEW q \in ObservedRuns \ shared'
      PROVE  /\ Watched(q)' => states'[session'[q]] = Evaluated(q)'
             /\ at'[q] = "scores" => taken'[q] = Evaluated(q)'
  <2>1. ASSUME Watched(q)' PROVE states'[session'[q]] = Evaluated(q)'
    <3>1. Watched(q) /\ Observing!Active(q)
      BY <1>1, <1>3, <2>1, WatchedByEvals DEF Watched, Passed, Registered
    <3>2. Observing!Meets(q) = {}
      BY <1>1, <3>1 DEF WalkInv, Alone, Actors
    <3>3. session[q] # under[c] /\ session[q] \in ObservedSessions
      BY <1>1, <1>4, <3>2 DEF Observing!Meets, Observing!Disturbs, Observing!Actors, WalkInv, WalkTypes
    <3> QED
      BY <1>1, <1>5, <1>7, <3>1, <3>3
  <2> QED
    BY <1>1, <1>3, <1>5, <2>1
<1>9. \A k \in 1 .. Len(results) : results[k] \in Result
  BY ElementOfSeq DEF EvalTypes
<1>10. ASSUME NEW k \in 1 .. Len(results) PROVE ResultIsTrue(results[k])'
  <2>1. results[k].output \in ObservedRuns
    BY <1>9 DEF Result
  <2> QED
    BY <1>1, <1>3, <1>5, <2>1 DEF ResultIsTrue
<1> QED
  BY <1>6, <1>8, <1>10

(* The scores are in: the evaluation is what the state said.               *)
LEMMA ScoredKeepsEvals ==
  ASSUME WalkInv, EvalInv, NEW r \in ObservedRuns, Observing!Scored(r)
  PROVE  EvalInv'
<1> USE DEF EvalInv
<1> DEFINE record == [output |-> r, prompt |-> {x.prompt : x \in taken[r]},
                      counts |-> IF taken[r] = {} THEN Observing!NoCounts ELSE (CHOOSE x \in taken[r] : TRUE).counts]
<1>1. /\ at[r] = "scores" /\ UNCHANGED <<order, session, tool, runOf, origin, under, shared, states>>
      /\ results' = Append(results, record) /\ taken' = [taken EXCEPT ![r] = {}]
  BY DEF Observing!Scored, Observing!inputs
<1>2. Len(order) \in Nat /\ pos[r] \in 1 .. Len(order) /\ order[pos[r]] = "evals" /\ session[r] \in ObservedSessions
  BY <1>1, OrderOfPlugins DEF WalkInv, WalkTypes, Actors
<1>3. PICK place, i : /\ place \in {"runError", "done", "afterRun"} /\ Observing!Goes(r, place, i)
                      /\ place = "afterRun" => i = pos[r] + 1
  BY DEF Observing!Scored
<1>4. /\ at'[r] = place /\ pos'[r] = i /\ \A y \in ObservedRuns \ {r} : at'[y] = at[y] /\ pos'[y] = pos[y]
      /\ \A c \in ObservedCalls : IsCounted(c)' <=> IsCounted(c)
  BY <1>1, <1>3, OthersStay, AdaptersAssumption DEF WalkInv, Actors
<1>5. \A q \in ObservedRuns : Evaluated(q)' = Evaluated(q) /\ Counts(q)' = Counts(q)
  BY <1>1, <1>4, EvaluatedStays
<1>6. record \in Result
  <2>1. taken[r] \in SUBSET [prompt : ObservedRuns, counts : [ObservedTools -> Nat]]
    BY DEF EvalTypes
  <2>2. Observing!NoCounts \in [ObservedTools -> Nat]
    BY DEF Observing!NoCounts
  <2>3. taken[r] # {} => (CHOOSE x \in taken[r] : TRUE) \in taken[r]
    OBVIOUS
  <2>4. {x.prompt : x \in taken[r]} \subseteq ObservedRuns
    BY <2>1
  <2>5. (IF taken[r] = {} THEN Observing!NoCounts ELSE (CHOOSE x \in taken[r] : TRUE).counts) \in [ObservedTools -> Nat]
    BY <2>1, <2>2, <2>3
  <2> QED
    BY <2>4, <2>5 DEF Result
<1>7. r \notin shared => record.prompt = {r} /\ record.counts = Counts(r)
  <2> SUFFICES ASSUME r \notin shared PROVE record.prompt = {r} /\ record.counts = Counts(r)
    OBVIOUS
  <2>1. taken[r] = {[prompt |-> r, counts |-> Counts(r)]}
    BY <1>1 DEF Evaluated
  <2>2. (CHOOSE x \in taken[r] : TRUE) = [prompt |-> r, counts |-> Counts(r)]
    BY <2>1
  <2> QED
    BY <2>1, <2>2
<1>8. record.output = r
  OBVIOUS
<1> HIDE DEF record
<1>9. EvalTypes'
  BY <1>1, <1>6, AppendProperties DEF EvalTypes
<1>10. ~Watched(r)' /\ at'[r] # "scores"
  <2>1. place = "afterRun" => Passed(r, "evals")'
    <3>1. place = "afterRun" => pos'[r] - 1 = pos[r]
      BY <1>2, <1>3, <1>4
    <3> QED
      BY <1>1, <1>2, <3>1 DEF Passed
  <2> QED
    BY <1>3, <1>4, <2>1 DEF Watched
<1>11. ASSUME NEW q \in ObservedRuns \ shared'
       PROVE  /\ Watched(q)' => states'[session'[q]] = Evaluated(q)'
              /\ at'[q] = "scores" => taken'[q] = Evaluated(q)'
  <2>1. CASE q = r
    BY <1>10, <2>1
  <2>2. CASE q # r
    <3>1. Watched(q)' <=> Watched(q)
      BY <1>1, <1>4, <2>2 DEF Watched, Passed, Registered
    <3>2. taken'[q] = taken[q] /\ at'[q] = at[q]
      BY <1>1, <1>4, <2>2 DEF EvalTypes
    <3> QED
      BY <1>1, <1>5, <3>1, <3>2
  <2> QED
    BY <2>1, <2>2
<1>12. \A k \in 1 .. Len(results) : results[k] \in Result /\ Len(results) \in Nat
  BY ElementOfSeq, LenProperties DEF EvalTypes
<1>13. at'[r] \notin {"idle", "beforeRun", "model"}
  BY <1>3, <1>4
<1>14. ASSUME NEW k \in 1 .. Len(results') PROVE ResultIsTrue(results[k])'
  <2>1. CASE k \in 1 .. Len(results)
    <3>1. results'[k] = results[k] /\ results[k].output \in ObservedRuns /\ ResultIsTrue(results[k])
      BY <1>1, <1>6, <1>9, <1>12, <2>1, AppendProperties DEF EvalTypes, Result
    <3>2. results[k].output # r => at'[results[k].output] = at[results[k].output]
      BY <1>4, <3>1
    <3> QED
      BY <1>1, <1>5, <1>13, <3>1, <3>2 DEF ResultIsTrue
  <2>2. CASE k \notin 1 .. Len(results)
    <3>1. results'[k] = record
      BY <1>1, <1>6, <1>12, <2>2, AppendProperties DEF EvalTypes
    <3> QED
      BY <1>1, <1>5, <1>7, <1>8, <1>13, <3>1 DEF ResultIsTrue
  <2> QED
    BY <2>1, <2>2
<1> QED
  BY <1>9, <1>11, <1>14

(* Every hook of a run keeps the evaluations true.                         *)
LEMMA RunHookKeepsEvals ==
  ASSUME WalkInv, EvalInv, NEW r \in ObservedRuns, Observing!Hook(r)
  PROVE  EvalInv'
<1>1. /\ at[r] \in Observing!Walks /\ pos[r] \in 1 .. Len(order)
      /\ UNCHANGED <<order, session, tool, runOf, origin, under, shared>>
      /\ order[pos[r]] \in {"observability", "evals", "guardrails"}
  BY HookGoes DEF Actors
<1>2. at[r] \in {"beforeRun", "afterRun", "runError"}
  BY <1>1 DEF WalkInv, WalkTypes, RunPlaces, Observing!Walks
<1>3. CASE order[pos[r]] = "evals"
  <2>1. at[r] = "beforeRun" => Observing!EvalBeforeRun(r)
    BY <1>3 DEF Observing!Hook
  <2>2. at[r] = "afterRun" => Observing!EvalAfterRun(r)
    BY <1>3 DEF Observing!Hook
  <2>3. at[r] = "runError" => Observing!EvalOnError(session[r], "runError")
    BY <1>3 DEF Observing!Hook
  <2> QED
    BY <1>2, <1>3, <2>1, <2>2, <2>3, EvalBeforeRunKeeps, EvalAfterRunKeeps, EvalOnErrorKeeps
<1>4. CASE order[pos[r]] # "evals"
  <2>1. UNCHANGED <<states, taken, results>> /\ Observing!Onwards(r)
    BY <1>1, <1>4, HookGoes DEF Observing!Hook, Observing!evalVars, Actors
  <2>2. /\ pos[r] = Len(order) => (Registered("evals") <=> Passed(r, "evals"))
        /\ pos[r] # Len(order) => (Passed(r, "evals")' <=> Passed(r, "evals"))
        /\ Registered("evals")' <=> Registered("evals")
    BY <1>1, <1>4, <2>1, PassesOn DEF Actors
  <2>3. PICK place, i : /\ Observing!Goes(r, place, i)
                        /\ \/ pos[r] # Len(order) /\ place = at[r]
                           \/ pos[r] = Len(order) /\ at[r] = "beforeRun" /\ place = "model"
                           \/ at[r] # "beforeRun" /\ place \in {"done", "failed"}
    BY <1>1, <1>2, <2>1, OnwardsGoes DEF Actors
  <2>4. at'[r] = place
    BY <1>1, <2>3, OthersStay DEF WalkInv, Actors
  <2>5. Watched(r)' => Watched(r)
    BY <1>2, <2>2, <2>3, <2>4 DEF Watched
  <2>6. /\ place # "scores"
        /\ place \in {"idle", "beforeRun", "model"} => at[r] \in {"idle", "beforeRun", "model"}
    BY <1>2, <2>3
  <2> QED
    BY <1>1, <2>1, <2>3, <2>5, <2>6, RunMovesOn
<1> QED
  BY <1>3, <1>4

(* Every hook of a call does.                                              *)
LEMMA CallHookKeepsEvals ==
  ASSUME WalkInv, EvalInv, NEW c \in ObservedCalls, Observing!Hook(c)
  PROVE  EvalInv'
<1>1. /\ at[c] \in Observing!Walks /\ pos[c] \in 1 .. Len(order)
      /\ UNCHANGED <<order, session, tool, runOf, origin, under, shared>>
      /\ order[pos[c]] \in {"observability", "evals", "guardrails"}
  BY HookGoes DEF Actors
<1>2. at[c] \in {"beforeTool", "afterTool", "toolError"} /\ runOf[c] \in ObservedRuns /\ at[runOf[c]] = "model"
  BY <1>1 DEF WalkInv, WalkTypes, CallPlaces, CallsAreOfModels, Observing!Walks, Observing!Active, Observing!Quiet
<1>3. CASE order[pos[c]] = "evals" /\ at[c] = "afterTool"
  BY <1>2, <1>3, EvalAfterToolKeeps, EvalOfOthersKeeps DEF Observing!Hook
<1>4. CASE ~(order[pos[c]] = "evals" /\ at[c] = "afterTool")
  <2>1. UNCHANGED <<states, taken, results>> /\ Observing!Onwards(c)
    <3>1. CASE order[pos[c]] # "evals"
      BY <1>1, <1>2, <3>1, HookGoes DEF Observing!Hook, Observing!evalVars, Actors
    <3>2. CASE order[pos[c]] = "evals" /\ at[c] = "beforeTool"
      BY <1>1, <3>2, HookGoes DEF Observing!Hook, Observing!evalVars, Actors
    <3>3. CASE order[pos[c]] = "evals" /\ at[c] = "toolError"
      BY <1>1, <3>3, HookGoes DEF Observing!Hook, Observing!evalVars, Observing!EvalOnError, Actors
    <3> QED
      BY <1>2, <1>4, <3>1, <3>2, <3>3
  <2>2. /\ pos[c] = Len(order) => (Registered("evals") <=> Passed(c, "evals") \/ order[pos[c]] = "evals")
        /\ pos[c] # Len(order) => (Passed(c, "evals")' <=> Passed(c, "evals") \/ order[pos[c]] = "evals")
    BY <1>1, <2>1, PassesOn DEF Actors
  <2>3. PICK place, i : /\ Observing!Goes(c, place, i)
                        /\ \/ pos[c] # Len(order) /\ place = at[c]
                           \/ at[c] = "beforeTool" /\ place = "body"
                           \/ pos[c] = Len(order) /\ at[c] = "afterTool" /\ place = "done"
                           \/ at[c] = "toolError" /\ place = "failed"
    BY <1>1, <1>2, <2>1, OnwardsGoes DEF Actors
  <2>4. at'[c] = place
    BY <1>1, <2>3, OthersStay DEF WalkInv, Actors
  <2>5. Registered("evals") => (IsCounted(c)' <=> IsCounted(c))
    BY <1>2, <1>4, <2>2, <2>3, <2>4 DEF IsCounted
  <2> QED
    BY <1>1, <1>2, <2>1, <2>3, <2>5, CallMovesOn
<1> QED
  BY <1>3, <1>4

(* Every step does.                                                        *)
LEMMA NextKeepsEvals ==
  ASSUME WalkInv, EvalInv, [Observing!Next]_obsVars
  PROVE  EvalInv'
<1> USE DEF Actors
<1>1. ASSUME NEW r \in ObservedRuns, Observing!RunStarts(r) PROVE EvalInv'
  <2>1. /\ at[r] = "idle" /\ Observing!Goes(r, "beforeRun", 1) /\ shared \subseteq shared'
        /\ UNCHANGED <<order, session, tool, runOf, origin, under, states, taken, results>>
    BY <1>1 DEF Observing!RunStarts, Observing!Starts, Observing!evalVars, Observing!inputs
  <2>2. at'[r] = "beforeRun" /\ pos'[r] = 1
    BY <2>1, OthersStay DEF WalkInv
  <2>3. ~Watched(r)'
    BY <2>2 DEF Watched, Passed
  <2> QED
    BY <2>1, <2>3, RunMovesOn
<1>2. ASSUME NEW r \in ObservedRuns, Observing!ModelAnswers(r) PROVE EvalInv'
  <2>1. /\ at[r] = "model" /\ UNCHANGED <<order, session, tool, runOf, origin, under, shared, states, taken, results>>
        /\ \E place \in {"afterRun", "runError"} : Observing!Goes(r, place, 1)
    BY <1>2 DEF Observing!ModelAnswers, Observing!evalVars, Observing!inputs
  <2>2. PICK place \in {"afterRun", "runError"} : Observing!Goes(r, place, 1)
    BY <2>1
  <2>3. at'[r] = place
    BY <2>1, <2>2, OthersStay DEF WalkInv
  <2>4. Watched(r)' => Watched(r)
    BY <2>1, <2>2, <2>3 DEF Watched, Registered
  <2> QED
    BY <2>1, <2>2, <2>4, RunMovesOn
<1>3. ASSUME NEW c \in ObservedCalls, Observing!CallStarts(c) PROVE EvalInv'
  <2>1. /\ at[c] = "idle" /\ at[runOf[c]] = "model" /\ Observing!Goes(c, "beforeTool", 1) /\ shared \subseteq shared'
        /\ UNCHANGED <<order, session, tool, runOf, origin, under, states, taken, results>>
    BY <1>3, CallStartsInside DEF Observing!Starts, Observing!evalVars, Observing!inputs
  <2>2. at'[c] = "beforeTool"
    BY <2>1, OthersStay DEF WalkInv
  <2>3. IsCounted(c)' <=> IsCounted(c)
    BY <2>1, <2>2 DEF IsCounted
  <2> QED
    BY <2>1, <2>3, CallMovesOn
<1>4. ASSUME NEW c \in ObservedCalls, Observing!BodySettles(c) PROVE EvalInv'
  <2>1. /\ at[c] = "body" /\ UNCHANGED <<order, session, tool, runOf, origin, under, shared, states, taken, results>>
    BY <1>4 DEF Observing!BodySettles, Observing!evalVars, Observing!inputs
  <2>2. PICK place \in {"afterTool", "toolError"} : Observing!Goes(c, place, 1)
    BY <1>4 DEF Observing!BodySettles
  <2>3. at'[c] = place /\ pos'[c] = 1
    BY <2>1, <2>2, OthersStay DEF WalkInv
  <2>4. IsCounted(c)' <=> IsCounted(c)
    BY <2>1, <2>2, <2>3 DEF IsCounted, Passed
  <2>5. at[runOf[c]] = "model"
    BY <2>1 DEF WalkInv, CallsAreOfModels, Observing!Active, Observing!Quiet
  <2> QED
    BY <2>1, <2>2, <2>4, <2>5, CallMovesOn
<1>5. ASSUME NEW r \in ObservedRuns, Observing!Refuses(r) PROVE EvalInv'
  <2>1. /\ at[r] \in {"beforeRun", "afterRun", "beforeTool"} /\ Observing!Goes(r, Observing!Thrown(at[r]), 1)
        /\ UNCHANGED <<order, session, tool, runOf, origin, under, shared, states, taken, results>>
    BY <1>5 DEF Observing!Refuses, Observing!evalVars, Observing!inputs
  <2>2. Observing!Goes(r, "runError", 1)
    BY <2>1 DEF WalkInv, WalkTypes, RunPlaces, Observing!Thrown
  <2>3. at'[r] = "runError"
    BY <2>1, <2>2, OthersStay DEF WalkInv
  <2>4. ~Watched(r)'
    BY <2>3 DEF Watched
  <2> QED
    BY <2>1, <2>2, <2>4, RunMovesOn
<1>6. ASSUME NEW c \in ObservedCalls, Observing!Refuses(c) PROVE EvalInv'
  <2>1. /\ at[c] \in {"beforeRun", "afterRun", "beforeTool"}
        /\ Observing!Goes(c, Observing!Thrown(at[c]), IF c \in ObservedRuns THEN 1 ELSE 0)
        /\ UNCHANGED <<order, session, tool, runOf, origin, under, shared, states, taken, results>>
    BY <1>6 DEF Observing!Refuses, Observing!evalVars, Observing!inputs
  <2>2. at[c] = "beforeTool"
    BY <2>1 DEF WalkInv, WalkTypes, CallPlaces
  <2>3. Observing!Goes(c, "failed", 0)
    BY <2>1, <2>2, AdaptersAssumption DEF Observing!Thrown
  <2>4. at'[c] = "failed"
    BY <2>1, <2>3, OthersStay DEF WalkInv
  <2>5. (IsCounted(c)' <=> IsCounted(c)) /\ at[runOf[c]] = "model"
    BY <2>2, <2>4 DEF IsCounted, WalkInv, CallsAreOfModels, Observing!Active, Observing!Quiet
  <2> QED
    BY <2>1, <2>3, <2>5, CallMovesOn
<1>7. CASE Observing!ResetSpans \/ Observing!ResetCost \/ UNCHANGED obsVars
  <2>1. UNCHANGED <<order, session, tool, runOf, origin, under, at, pos, shared, states, taken, results>>
    BY <1>7 DEF Observing!ResetSpans, Observing!ResetCost, Observing!walkVars, Observing!inputs, Observing!evalVars, obsVars
  <2>2. \A c \in ObservedCalls : IsCounted(c)' <=> IsCounted(c)
    BY <2>1 DEF IsCounted, Passed
  <2>3. \A q \in ObservedRuns : Evaluated(q)' = Evaluated(q) /\ Counts(q)' = Counts(q) /\ (Watched(q)' <=> Watched(q))
    BY <2>1, <2>2, EvaluatedStays DEF Watched, Passed, Registered
  <2>4. \A k \in 1 .. Len(results) : results[k].output \in ObservedRuns
    <3>1. \A k \in 1 .. Len(results) : results[k] \in Result
      BY ElementOfSeq DEF EvalInv, EvalTypes
    <3> QED
      BY <3>1 DEF Result
  <2> QED
    BY <2>1, <2>3, <2>4 DEF EvalInv, EvalTypes, ResultIsTrue
<1> QED
  BY <1>1, <1>2, <1>3, <1>4, <1>5, <1>6, <1>7, RunHookKeepsEvals, CallHookKeepsEvals, ScoredKeepsEvals
  DEF Observing!Next, Observing!Actors

-----------------------------------------------------------------------------
(* The spans.  What a hook makes of a call, if their plugin is there.      *)
LEMMA CallInHook ==
  ASSUME WalkInv, NEW c \in ObservedCalls, Observing!Hook(c), Registered("observability")
  PROVE  /\ Observing!Onwards(c) /\ \E place, i : Observing!Goes(c, place, i)
         /\ UNCHANGED <<order, session, tool, runOf, origin, under, layer, shared>>
         /\ Observing!Active(c)
         /\ \/ /\ at[c] = "beforeTool" /\ at'[c] \in {"beforeTool", "body"} /\ ~Reported(c) /\ ~Reported(c)'
               /\ Holding(c)' <=> Holding(c) \/ order[pos[c]] = "observability"
               /\ order[pos[c]] = "observability" => ~Holding(c)
            \/ /\ at[c] = "afterTool" /\ at'[c] \in {"afterTool", "done"}
               /\ Reported(c) <=> ~Holding(c)
               /\ Reported(c)' <=> ~Holding(c)'
               /\ order[pos[c]] = "observability" => Holding(c) /\ Reported(c)'
               /\ order[pos[c]] # "observability" => (Holding(c)' <=> Holding(c))
            \/ /\ at[c] = "toolError" /\ at'[c] \in {"toolError", "failed"}
               /\ ~Holding(c) /\ ~Reported(c) /\ ~Holding(c)' /\ ~Reported(c)'
<1> USE DEF Actors
<1>1. /\ at[c] \in Observing!Walks /\ pos[c] \in 1 .. Len(order)
      /\ UNCHANGED <<order, session, tool, runOf, origin, under, layer, shared>>
      /\ Observing!Active(c)
  BY HookGoes DEF Observing!Active, Observing!Quiet, Observing!Walks
<1>2. at[c] \in {"beforeTool", "afterTool", "toolError"}
  BY <1>1 DEF WalkInv, WalkTypes, CallPlaces, Observing!Walks
<1>3. Observing!Onwards(c)
  BY <1>2, HookGoes
<1>4. /\ order[pos[c]] = "observability" => ~Passed(c, "observability")
      /\ pos[c] = Len(order) => Passed(c, "observability") \/ order[pos[c]] = "observability"
      /\ pos[c] # Len(order) =>
           (Passed(c, "observability")' <=> Passed(c, "observability") \/ order[pos[c]] = "observability")
  BY <1>1, <1>3, PassesOn
<1>5. PICK place, i : /\ Observing!Goes(c, place, i)
                      /\ \/ pos[c] # Len(order) /\ place = at[c]
                         \/ pos[c] = Len(order) /\ at[c] = "beforeTool" /\ place = "body"
                         \/ pos[c] = Len(order) /\ at[c] = "afterTool" /\ place = "done"
                         \/ pos[c] = Len(order) /\ at[c] = "toolError" /\ place = "failed"
  BY <1>1, <1>2, <1>3, OnwardsGoes
<1>6. at'[c] = place
  BY <1>1, <1>5, OthersStay DEF WalkInv
<1> QED
  BY <1>1, <1>2, <1>3, <1>4, <1>5, <1>6 DEF Holding, Reported

(* Calls that are about to start or have returned have no failed one       *)
(* inside; around one under way all wait.                                  *)
LEMMA NoneFailedInside ==
  ASSUME WalkInv, NEW c \in ObservedCalls, at[c] \in {"beforeTool", "afterTool", "done"}
  PROVE  ~FailedInside(c)
<1> SUFFICES ASSUME NEW d \in ObservedCalls, origin[d] = origin[c], layer[d] < layer[c], at[d] \in {"toolError", "failed"}
             PROVE  FALSE
  BY DEF FailedInside
<1>1. Started(d) /\ Started(c) /\ layer[d] \in Nat /\ layer[c] \in Nat
  BY DEF Started, WalkInv, WalkTypes
<1>2. d # c
  BY <1>1
<1>3. Waits(c, d)
  BY <1>1, <1>2 DEF WalkInv, Nested
<1> QED
  BY <1>3 DEF Waits

LEMMA AroundOneUnderWay ==
  ASSUME WalkInv, NEW c \in ObservedCalls, NEW d \in ObservedCalls \ {c}, origin[d] = origin[c],
         Observing!Active(c), Started(d)
  PROVE  /\ layer[c] \in Nat /\ layer[d] \in Nat /\ layer[c] # layer[d]
         /\ layer[c] < layer[d] => at[d] = "body"
<1>1. Started(c) /\ layer[c] \in Nat /\ layer[d] \in Nat /\ at[c] \notin {"done", "failed"}
  BY DEF Started, WalkInv, WalkTypes, Observing!Active, Observing!Quiet
<1> QED
  BY <1>1 DEF WalkInv, Nested, Waits

(* Who holds its span is under way.                                        *)
LEMMA HoldersAreActive ==
  ASSUME NEW c \in ObservedCalls, Holding(c)
  PROVE  Observing!Active(c) /\ Started(c) /\ at[c] \notin {"toolError", "failed"} /\ ~Reported(c)
BY DEF Holding, Reported, Started, Observing!Active, Observing!Quiet

(* What is said of a call depends on what its kind does.                   *)
LEMMA ToldStays ==
  ASSUME NEW c \in ObservedCalls, NEW i, Told(i, c), IsFiniteSet(StackOf(c)), StackOf(c)' = StackOf(c),
         spans'[i] = spans[i] \/ (spans'[i].result = {} /\ ~Reported(c)),
         MayReturn(c)' <=> MayReturn(c), Reported(c)' <=> Reported(c),
         MayReturn(c) => Within(c)' = Within(c),
         Returning(c)' \subseteq Returning(c)
  PROVE  Told(i, c)'
<1>1. IsFiniteSet(Returning(c))
  BY AdaptersAssumption, FS_Subset DEF Returning, SameKey
<1>2. /\ Cardinality(Returning(c)') <= Cardinality(Returning(c))
      /\ Cardinality(Returning(c)') \in Nat /\ Cardinality(Returning(c)) \in Nat
  BY <1>1, FS_Subset, FS_CardinalityType
<1>3. AboveIn(StackOf(c), i)' = AboveIn(StackOf(c), i)
  BY DEF AboveIn
<1>4. ~MayReturn(c) /\ i \in StackOf(c) => Cardinality(Returning(c)) <= Cardinality(AboveIn(StackOf(c), i))
  BY DEF Told
<1>5. Cardinality(AboveIn(StackOf(c), i)) \in Nat
  <2>1. AboveIn(StackOf(c), i) \subseteq StackOf(c)
    BY DEF AboveIn
  <2> QED
    BY <2>1, FS_Subset, FS_CardinalityType
<1>6. ~MayReturn(c)' /\ i \in StackOf(c)' => Cardinality(Returning(c)') <= Cardinality(AboveIn(StackOf(c), i)')
  BY <1>2, <1>3, <1>4, <1>5
<1> QED
  BY <1>3, <1>6 DEF Told

(* The stacks are finite.                                                  *)
LEMMA StacksAreFinite ==
  ASSUME SpanTypes, NEW s \in ObservedSessions, NEW t \in ObservedTools
  PROVE  IsFiniteSet(stack[s][t]) /\ stack[s][t] \subseteq 0 .. ids - 1
<1>1. ids \in Nat /\ stack[s][t] \subseteq 0 .. ids - 1
  BY DEF SpanTypes
<1>2. IsFiniteSet(0 .. ids - 1)
  BY <1>1, FS_Interval
<1> QED
  BY <1>1, <1>2, FS_Subset

(* A call goes on, or starts, and the plugin is not told; or it fails.     *)
LEMMA CallsMoveOnInSpans ==
  ASSUME WalkInv, SpanInv, NEW c \in ObservedCalls, NEW place, NEW i, Observing!Goes(c, place, i),
         UNCHANGED <<order, session, tool, runOf, origin, under, spans, active, stack, ids>>,
         shared \subseteq shared',
         \A d \in ObservedCalls \ {c} : layer'[d] = layer[d],
         \/ at[c] = "idle" /\ place = "beforeTool"
         \/ MovesOn(c, place) /\ layer'[c] = layer[c],
         Registered("observability") =>
           \/ (Holding(c)' <=> Holding(c)) /\ (Reported(c)' <=> Reported(c))
           \/ Holding(c) /\ place \in {"toolError", "failed"}
  PROVE  SpanInv'
<1> USE DEF SpanInv
<1>1. SpanTypes'
  BY DEF SpanTypes, Registered
<1>2. CASE ~Registered("observability")
  <2>1. DOMAIN spans = {}
    BY <1>2 DEF SpanTypes
  <2> QED
    BY <1>1, <2>1 DEF Owners
<1>3. CASE Registered("observability")
  <2>1. /\ at'[c] = place
        /\ \A d \in ObservedCalls \ {c} : /\ at'[d] = at[d]
                                          /\ (Holding(d)' <=> Holding(d)) /\ (Reported(d)' <=> Reported(d))
    BY OthersStay, AdaptersAssumption DEF WalkInv, Actors
  <2>2. /\ Holding(c)' => Holding(c)
        /\ Reported(c)' <=> Reported(c)
        /\ Holding(c) /\ ~Holding(c)' => place \in {"toolError", "failed"}
        /\ at[c] \in {"toolError", "failed"} => place \in {"toolError", "failed"}
        /\ at[c] = "idle" => place = "beforeTool"
    BY <1>3, <2>1, HoldersAreActive DEF Holding, Reported, MovesOn
  <2>3. Owners'
    BY <1>3, <2>1, <2>2 DEF Owners
  <2>4. \A d \in ObservedCalls : Started(d) => layer'[d] = layer[d]
    BY DEF Started
  <2>5. \A d \in ObservedCalls : at[d] \in {"toolError", "failed"} => at'[d] \in {"toolError", "failed"}
    BY <2>1, <2>2
  <2>6. ASSUME NEW d \in ObservedCalls, MayReturn(d)' PROVE MayReturn(d)
    <3>1. Holding(d) /\ Started(d)
      BY <2>1, <2>2, <2>6, HoldersAreActive DEF MayReturn
    <3>2. ASSUME NEW e \in ObservedCalls, origin[e] = origin[d], layer[e] < layer[d], at[e] \in {"toolError", "failed"}
          PROVE  FALSE
      <4>1. layer'[e] < layer'[d] /\ at'[e] \in {"toolError", "failed"}
        BY <2>4, <2>5, <3>1, <3>2 DEF Started
      <4> QED
        BY <2>6, <3>2, <4>1 DEF MayReturn, FailedInside
    <3> QED
      BY <3>1, <3>2 DEF MayReturn, FailedInside
  <2>7. \A d \in ObservedCalls : Returning(d)' \subseteq Returning(d)
    BY <2>6 DEF Returning, SameKey
  <2>8. ASSUME NEW d \in ObservedCalls, MayReturn(d)' PROVE Within(d)' = Within(d)
    <3>1. Started(d) /\ layer[d] \in Nat
      BY <2>6, <2>8, HoldersAreActive DEF MayReturn, WalkInv, WalkTypes
    <3>2. ASSUME NEW e \in Within(d) PROVE MayReturn(e)'
      <4>1. e \in ObservedCalls /\ MayReturn(e) /\ origin[e] = origin[d] /\ layer[e] < layer[d] /\ Started(e)
            /\ layer[e] \in Nat
        BY HoldersAreActive DEF Within, Returning, SameKey, MayReturn, WalkInv, WalkTypes
      <4>2. layer'[e] = layer[e] /\ layer'[d] = layer[d]
        BY <2>4, <3>1, <4>1
      <4>3. Holding(e)'
        <5> SUFFICES ASSUME ~Holding(e)' PROVE FALSE
          OBVIOUS
        <5>1. e = c /\ at'[e] \in {"toolError", "failed"}
          BY <2>1, <2>2, <4>1 DEF MayReturn
        <5> QED
          BY <2>8, <4>1, <4>2, <5>1 DEF MayReturn, FailedInside
      <4>4. ASSUME NEW f \in ObservedCalls, origin[f] = origin[e], layer'[f] < layer'[e], at'[f] \in {"toolError", "failed"}
            PROVE  FALSE
        <5>1. Started(f) /\ layer'[f] = layer[f] /\ layer[f] \in Nat
          <6>1. at[f] # "idle"
            BY <2>1, <2>2, <4>4
          <6> QED
            BY <2>4, <6>1 DEF Started, WalkInv, WalkTypes
        <5>2. layer'[f] < layer'[d]
          BY <4>1, <4>2, <4>4, <5>1, <3>1
        <5> QED
          BY <2>8, <4>1, <4>4, <5>2 DEF MayReturn, FailedInside
      <4> QED
        BY <4>3, <4>4 DEF MayReturn, FailedInside
    <3>3. \A e \in ObservedCalls : MayReturn(e) => layer'[e] = layer[e]
      BY <2>4, HoldersAreActive DEF MayReturn
    <3>4. layer'[d] = layer[d]
      BY <2>4, <3>1
    <3>5. Within(d)' \subseteq Within(d)
      BY <2>6, <3>3, <3>4 DEF Within, Returning, SameKey
    <3>6. Within(d) \subseteq Within(d)'
      BY <3>2, <3>3, <3>4 DEF Within, Returning, SameKey
    <3> QED
      BY <3>5, <3>6
  <2>9. ASSUME NEW k \in DOMAIN spans, spans[k].of \in ObservedCalls \ shared' PROVE Told(k, spans[k].of)'
    <3>1. PICK d \in ObservedCalls : d = spans[k].of /\ Told(k, d) /\ d \notin shared
      BY <2>9
    <3>2. under[d] \in ObservedSessions /\ tool[d] \in ObservedTools
      BY <3>1 DEF WalkInv, WalkTypes
    <3>3. IsFiniteSet(StackOf(d)) /\ StackOf(d)' = StackOf(d)
      BY <3>2, StacksAreFinite DEF StackOf
    <3>4. CASE MayReturn(d)' <=> MayReturn(d)
      BY <2>1, <2>2, <2>7, <2>8, <3>1, <3>3, <3>4, ToldStays
    <3>5. CASE MayReturn(d) /\ ~MayReturn(d)'
      <4>1. Observing!Active(d) /\ Started(d) /\ ~Reported(d) /\ d \in Actors
        BY <3>5, HoldersAreActive DEF MayReturn, Actors
      <4>2. Observing!Meets(d) = {} /\ d \notin ObservedRuns
        BY <3>1, <4>1, AdaptersAssumption DEF WalkInv, Alone, Actors
      <4>3. /\ place \in {"toolError", "failed"} /\ MovesOn(c, place)
            /\ origin[c] = origin[d] /\ (c # d => layer[c] < layer[d])
        <5>1. CASE ~Holding(d)'
          <6>1. c = d /\ place \in {"toolError", "failed"}
            BY <2>1, <2>2, <3>5, <5>1 DEF MayReturn
          <6> QED
            BY <6>1
        <5>2. CASE FailedInside(d)'
          <6>1. PICK e \in ObservedCalls :
                  origin[e] = origin[d] /\ layer'[e] < layer'[d] /\ at'[e] \in {"toolError", "failed"}
            BY <5>2 DEF FailedInside
          <6>2. Started(e)
            BY <2>1, <2>2, <6>1 DEF Started
          <6>3. layer[e] < layer[d]
            BY <2>4, <4>1, <6>1, <6>2
          <6>4. at[e] \notin {"toolError", "failed"}
            BY <3>5, <6>1, <6>3 DEF MayReturn, FailedInside
          <6>5. e = c
            BY <2>1, <6>1, <6>4
          <6> QED
            BY <2>1, <6>1, <6>3, <6>5
        <5> QED
          BY <3>5, <5>1, <5>2 DEF MayReturn
      <4>4. Observing!Active(c) /\ Started(c)
        BY <4>3 DEF MovesOn, Started, Observing!Active, Observing!Quiet
      <4>5. ASSUME NEW e \in Returning(d)' PROVE FALSE
        <5>1. e \in ObservedCalls /\ under[e] = under[d] /\ tool[e] = tool[d] /\ MayReturn(e) /\ MayReturn(e)'
          BY <2>6 DEF Returning, SameKey
        <5>2. Observing!Active(e) /\ Started(e) /\ e # c
          BY <2>1, <4>3, <5>1, HoldersAreActive DEF MayReturn, Holding
        <5>3. origin[e] = origin[c]
          BY <4>2, <4>3, <5>1, <5>2 DEF Observing!Meets, Observing!Disturbs, Observing!Actors
        <5>4. /\ layer[e] \in Nat /\ layer[c] \in Nat /\ layer[e] # layer[c]
              /\ layer[e] < layer[c] => at[c] = "body"
          BY <4>4, <5>1, <5>2, <5>3, AroundOneUnderWay
        <5>5. ~(layer[c] < layer[e])
          <6>1. layer'[c] = layer[c] /\ layer'[e] = layer[e]
            BY <2>4, <4>4, <5>1, <5>2
          <6> QED
            BY <2>1, <4>3, <5>1, <5>3, <6>1 DEF MayReturn, FailedInside
        <5>6. layer[e] < layer[c] /\ at[c] = "body"
          BY <5>4, <5>5
        <5>7. e \in Observing!MadeBy(c)
          BY <5>1, <5>2, <5>3, <5>6 DEF Observing!MadeBy, Started
        <5> QED
          BY <4>3, <5>2, <5>6, <5>7 DEF MovesOn, Observing!Active, Observing!Quiet
      <4>6. Returning(d)' = {}
        BY <4>5
      <4>7. Cardinality(Returning(d)') <= Cardinality(AboveIn(StackOf(d), k)')
        <5>1. IsFiniteSet(AboveIn(StackOf(d), k)')
          BY <3>3, FS_Subset DEF AboveIn
        <5> QED
          BY <4>6, <5>1, FS_EmptySet, FS_CardinalityType
      <4>8. ~Reported(d)'
        BY <2>1, <2>2, <4>1
      <4>9. Told(k, d)'
        BY <3>1, <3>5, <4>7, <4>8 DEF Told
      <4> QED
        BY <3>1, <4>9
    <3> QED
      BY <2>6, <3>1, <3>4, <3>5
  <2> QED
    BY <1>1, <2>3, <2>9
<1> QED
  BY <1>2, <1>3

(* No call is told of; spans of runs begin and end, and one of a call that *)
(* has not returned may be marked.                                         *)
LEMMA NoCallReturns ==
  ASSUME WalkInv, SpanInv, SpanTypes',
         UNCHANGED <<order, session, tool, runOf, origin, under, layer, stack>>, shared \subseteq shared',
         \A d \in ObservedCalls : /\ (Holding(d)' <=> Holding(d)) /\ (Reported(d)' <=> Reported(d))
                                  /\ at[d] \in {"toolError", "failed"} <=> at'[d] \in {"toolError", "failed"},
         \A k \in DOMAIN spans' :
           \/ /\ k \in DOMAIN spans /\ spans'[k].of = spans[k].of
              /\ \/ spans'[k] = spans[k]
                 \/ spans[k].of \in ObservedRuns \cup shared
                 \/ spans'[k].result = {} /\ ~Reported(spans[k].of)
           \/ k = ids /\ spans'[k].of \in ObservedRuns,
         \A s \in ObservedSessions : active'[s] \subseteq active[s] \cup {ids}
  PROVE  SpanInv'
<1> USE AdaptersAssumption DEF SpanInv
<1>1. ids \notin DOMAIN spans /\ \A s \in ObservedSessions, t \in ObservedTools : ids \notin stack[s][t]
  BY DEF SpanTypes
<1>2. Owners'
  <2>1. \A s \in ObservedSessions : \A k \in active'[s] \cap DOMAIN spans' : spans'[k].of \in ObservedRuns
    BY <1>1 DEF Owners
  <2>2. ASSUME NEW s \in ObservedSessions, NEW t \in ObservedTools, NEW k \in stack[s][t] \cap DOMAIN spans'
        PROVE  LET c == spans'[k].of IN c \in ObservedCalls /\ under[c] = s /\ tool[c] = t
    BY <1>1, <2>2 DEF Owners
  <2>3. ASSUME NEW k \in DOMAIN spans', spans'[k].of \in ObservedCalls
        PROVE  Holding(spans[k].of)' \/ Reported(spans[k].of)' \/ at'[spans'[k].of] \in {"toolError", "failed"}
    <3>1. k \in DOMAIN spans /\ spans'[k].of = spans[k].of
      BY <2>3
    <3>2. PICK d \in ObservedCalls : d = spans[k].of /\ d = spans'[k].of
      BY <2>3, <3>1
    <3>3. Holding(d) \/ Reported(d) \/ at[d] \in {"toolError", "failed"}
      BY <3>1, <3>2 DEF Owners
    <3>4. Holding(d)' \/ Reported(d)' \/ at'[d] \in {"toolError", "failed"}
      BY <3>3
    <3> QED
      BY <3>2, <3>4
  <2> QED
    BY <2>1, <2>2, <2>3 DEF Owners
<1>3. \A d \in ObservedCalls : MayReturn(d)' <=> MayReturn(d)
  BY DEF MayReturn, FailedInside
<1>0. \A d \in ObservedCalls : Returning(d)' = Returning(d) /\ Within(d)' = Within(d)
  BY <1>3 DEF Returning, SameKey, Within
<1>4. ASSUME NEW k \in DOMAIN spans', spans'[k].of \in ObservedCalls \ shared' PROVE Told(k, spans[k].of)'
  <2>1. k \in DOMAIN spans /\ spans'[k].of = spans[k].of
    BY <1>4
  <2>2. PICK d \in ObservedCalls : d = spans[k].of /\ d = spans'[k].of /\ Told(k, d)
    BY <1>4, <2>1
  <2>3. under[d] \in ObservedSessions /\ tool[d] \in ObservedTools
    BY DEF WalkInv, WalkTypes
  <2>4. IsFiniteSet(StackOf(d)) /\ StackOf(d)' = StackOf(d)
    BY <2>3, StacksAreFinite DEF StackOf
  <2>5. spans'[k] = spans[k] \/ (spans'[k].result = {} /\ ~Reported(d))
    BY <1>4, <2>1, <2>2
  <2>6. Told(k, d)'
    BY <1>0, <1>3, <2>2, <2>4, <2>5, ToldStays
  <2> QED
    BY <2>2, <2>6
<1> QED
  BY <1>2, <1>4

(* endSpan() of a span.                                                    *)
LEMMA EndingSpans ==
  ASSUME SpanTypes, NEW j, NEW status_ \in {"ok", "error"}, NEW result \in SUBSET Actors,
         spans' = Observing!Ended(j, status_, result)
  PROVE  /\ DOMAIN spans' = DOMAIN spans
         /\ spans' \in [DOMAIN spans' -> [trace : Nat, parent : SUBSET Nat, of : Actors, ended : BOOLEAN,
                                          status : {"ok", "error"}, result : SUBSET Actors]]
         /\ \A k \in DOMAIN spans : spans'[k].of = spans[k].of /\ spans'[k].parent = spans[k].parent
         /\ \A k \in DOMAIN spans \ {j} : spans'[k] = spans[k]
         /\ j \in DOMAIN spans => spans'[j].ended /\ spans'[j].status = status_ /\ spans'[j].result = result
<1> DEFINE Span == [trace : Nat, parent : SUBSET Nat, of : Actors, ended : BOOLEAN,
                    status : {"ok", "error"}, result : SUBSET Actors]
           marked(x) == [x EXCEPT !.ended = TRUE, !.status = status_, !.result = result]
<1>1. ASSUME NEW x \in Span
      PROVE  /\ marked(x) \in Span /\ marked(x).of = x.of /\ marked(x).parent = x.parent
             /\ marked(x).ended /\ marked(x).status = status_ /\ marked(x).result = result
  OBVIOUS
<1>2. spans \in [DOMAIN spans -> Span]
  BY DEF SpanTypes
<1>3. spans' = [k \in DOMAIN spans |-> IF k = j THEN marked(spans[k]) ELSE spans[k]]
  BY DEF Observing!Ended
<1> HIDE DEF Span, marked
<1>4. spans' \in [DOMAIN spans -> Span] /\ DOMAIN spans' = DOMAIN spans
  BY <1>1, <1>2, <1>3
<1>5. \A k \in DOMAIN spans : spans'[k].of = spans[k].of /\ spans'[k].parent = spans[k].parent
  BY <1>1, <1>2, <1>3
<1>6. \A k \in DOMAIN spans \ {j} : spans'[k] = spans[k]
  BY <1>3
<1>7. j \in DOMAIN spans => spans'[j].ended /\ spans'[j].status = status_ /\ spans'[j].result = result
  BY <1>1, <1>2, <1>3
<1> QED
  BY <1>4, <1>5, <1>6, <1>7 DEF Span

(* A run that goes on without touching the spans keeps them.               *)
LEMMA RunsMoveOnInSpans ==
  ASSUME WalkInv, SpanInv, NEW r \in ObservedRuns, NEW place, NEW i, Observing!Goes(r, place, i),
         UNCHANGED <<order, session, tool, runOf, origin, under, layer, spans, active, stack, ids>>,
         shared \subseteq shared'
  PROVE  SpanInv'
<1>1. \A d \in ObservedCalls : (Holding(d)' <=> Holding(d)) /\ (Reported(d)' <=> Reported(d)) /\ at'[d] = at[d]
  BY OthersStay, AdaptersAssumption DEF WalkInv, Actors
<1>2. SpanTypes'
  BY DEF SpanInv, SpanTypes, Registered
<1> QED
  BY <1>1, <1>2, NoCallReturns

(* createSpan(), as far as who has which span.                             *)
LEMMA CreatingSpans ==
  ASSUME SpanTypes, NEW owner \in Actors, NEW trace \in Nat, NEW parent \in SUBSET Nat,
         Observing!CreateSpan(owner, trace, parent)
  PROVE  /\ ids' = ids + 1 /\ ids \notin DOMAIN spans /\ ids \in DOMAIN spans'
         /\ DOMAIN spans' \subseteq DOMAIN spans \cup {ids}
         /\ spans' \in [DOMAIN spans' -> [trace : Nat, parent : SUBSET Nat, of : Actors, ended : BOOLEAN,
                                          status : {"ok", "error"}, result : SUBSET Actors]]
         /\ DOMAIN spans' \subseteq 0 .. ids' - 1
         /\ \A k \in DOMAIN spans' \ {ids} : spans'[k] = spans[k]
         /\ spans'[ids].of = owner /\ spans'[ids].parent = parent /\ spans'[ids].result = {}
<1> DEFINE Span == [trace : Nat, parent : SUBSET Nat, of : Actors, ended : BOOLEAN,
                    status : {"ok", "error"}, result : SUBSET Actors]
           span == [trace |-> trace, parent |-> parent, of |-> owner,
                    ended |-> FALSE, status |-> "ok", result |-> Observing!Nobody]
<1>1. span \in Span /\ span.of = owner /\ span.parent = parent /\ span.result = {}
  BY DEF Observing!Nobody
<1>2. spans \in [DOMAIN spans -> Span] /\ ids \in Nat /\ DOMAIN spans \subseteq 0 .. ids - 1
  BY DEF SpanTypes
<1>3. PICK older \in SUBSET DOMAIN spans :
        spans' = [k \in older \cup {ids} |-> IF k = ids THEN span ELSE spans[k]]
  BY DEF Observing!CreateSpan
<1>4. ids' = ids + 1
  BY DEF Observing!CreateSpan
<1> HIDE DEF Span, span
<1>5. DOMAIN spans' = older \cup {ids} /\ spans' \in [DOMAIN spans' -> Span]
  BY <1>1, <1>2, <1>3
<1>6. /\ \A k \in DOMAIN spans' \ {ids} : spans'[k] = spans[k]
      /\ spans'[ids] = span
  BY <1>3
<1>7. ids \notin DOMAIN spans /\ DOMAIN spans' \subseteq 0 .. ids' - 1
  BY <1>2, <1>4, <1>5
<1> QED
  BY <1>1, <1>4, <1>5, <1>6, <1>7 DEF Span

(* onRequest() puts a root span in the place of the session's.             *)
LEMMA OnRequestKeepsSpans ==
  ASSUME WalkInv, SpanInv, NEW r \in ObservedRuns, NEW place, NEW i, Observing!Goes(r, place, i),
         UNCHANGED <<order, session, tool, runOf, origin, under, layer, shared>>,
         Registered("observability"), Observing!OnRequest(r)
  PROVE  SpanInv'
<1> USE DEF SpanInv, Observing!OnRequest
<1>1. \A d \in ObservedCalls : (Holding(d)' <=> Holding(d)) /\ (Reported(d)' <=> Reported(d)) /\ at'[d] = at[d]
  BY OthersStay, AdaptersAssumption DEF WalkInv, Actors
<1>2. ids \in Nat /\ Observing!CreateSpan(r, ids, {})
  BY DEF SpanTypes
<1>3. /\ ids' = ids + 1 /\ DOMAIN spans' \subseteq DOMAIN spans \cup {ids}
      /\ spans' \in [DOMAIN spans' -> [trace : Nat, parent : SUBSET Nat, of : Actors, ended : BOOLEAN,
                                       status : {"ok", "error"}, result : SUBSET Actors]]
      /\ DOMAIN spans' \subseteq 0 .. ids' - 1
      /\ \A k \in DOMAIN spans' \ {ids} : spans'[k] = spans[k]
      /\ spans'[ids].of = r
  BY <1>2, CreatingSpans DEF Actors
<1>4. SpanTypes'
  <2>1. 0 .. ids - 1 \subseteq 0 .. ids' - 1 /\ ids \in 0 .. ids' - 1 /\ session[r] \in ObservedSessions
    BY <1>2, <1>3 DEF WalkInv, WalkTypes
  <2>2. active' \in [ObservedSessions -> SUBSET (0 .. ids' - 1)]
    BY <2>1 DEF SpanTypes
  <2>3. stack' \in [ObservedSessions -> [ObservedTools -> SUBSET (0 .. ids' - 1)]]
    BY <2>1 DEF SpanTypes
  <2>4. ids' \in Nat /\ Registered("observability")'
    BY <1>2, <1>3 DEF Registered
  <2> QED
    BY <1>3, <2>2, <2>3, <2>4 DEF SpanTypes
<1>5. \A s \in ObservedSessions : active'[s] \subseteq active[s] \cup {ids}
  BY DEF SpanTypes
<1> QED
  BY <1>1, <1>3, <1>4, <1>5, NoCallReturns

(* onResponse() ends the root span, which is no call's.                    *)
LEMMA OnResponseKeepsSpans ==
  ASSUME WalkInv, SpanInv, NEW r \in ObservedRuns, NEW place, NEW i, Observing!Goes(r, place, i),
         UNCHANGED <<order, session, tool, runOf, origin, under, layer, shared>>, Observing!OnResponse(r)
  PROVE  SpanInv'
<1> USE DEF SpanInv, Observing!OnResponse
<1>1. \A d \in ObservedCalls : (Holding(d)' <=> Holding(d)) /\ (Reported(d)' <=> Reported(d)) /\ at'[d] = at[d]
  BY OthersStay, AdaptersAssumption DEF WalkInv, Actors
<1>2. active' \in [ObservedSessions -> SUBSET (0 .. ids - 1)] /\ session[r] \in ObservedSessions
      /\ \A s \in ObservedSessions : active'[s] \subseteq active[s]
  BY DEF SpanTypes, WalkInv, WalkTypes
<1>3. CASE spans' = spans
  <2>1. SpanTypes'
    BY <1>2, <1>3 DEF SpanTypes, Registered
  <2> QED
    BY <1>1, <1>2, <1>3, <2>1, NoCallReturns
<1>4. CASE \E root \in active[session[r]] : spans' = Observing!Ended(root, "ok", {r})
  <2>1. PICK root \in active[session[r]] : spans' = Observing!Ended(root, "ok", {r})
    BY <1>4
  <2>0. {r} \in SUBSET Actors
    BY DEF Actors
  <2>2. /\ DOMAIN spans' = DOMAIN spans
        /\ spans' \in [DOMAIN spans' -> [trace : Nat, parent : SUBSET Nat, of : Actors, ended : BOOLEAN,
                                         status : {"ok", "error"}, result : SUBSET Actors]]
        /\ \A k \in DOMAIN spans : spans'[k].of = spans[k].of
        /\ \A k \in DOMAIN spans \ {root} : spans'[k] = spans[k]
    BY <2>0, <2>1, EndingSpans
  <2>3. root \in DOMAIN spans => spans[root].of \in ObservedRuns
    BY <1>2 DEF Owners
  <2>4. SpanTypes'
    BY <1>2, <2>2 DEF SpanTypes, Registered
  <2> QED
    BY <1>1, <1>2, <2>2, <2>3, <2>4, NoCallReturns
<1> QED
  BY <1>3, <1>4

(* onError() ends some open span of the session's trace, with no result,   *)
(* which is none of a call that returned.                                  *)
LEMMA OnErrorKeepsSpans ==
  ASSUME WalkInv, SpanInv, NEW s, Observing!OnError(s),
         UNCHANGED <<order, session, tool, runOf, origin, under, layer, shared>>,
         \A d \in ObservedCalls : /\ (Holding(d)' <=> Holding(d)) /\ (Reported(d)' <=> Reported(d))
                                  /\ at[d] \in {"toolError", "failed"} <=> at'[d] \in {"toolError", "failed"}
  PROVE  SpanInv'
<1> USE DEF SpanInv, Observing!OnError
<1>1. CASE spans' = spans
  <2>1. SpanTypes'
    BY <1>1 DEF SpanTypes, Registered
  <2> QED
    BY <1>1, <2>1, NoCallReturns
<1>2. CASE \E j \in DOMAIN spans : ~spans[j].ended /\ spans' = Observing!Ended(j, "error", Observing!Nobody)
  <2>1. PICK j \in DOMAIN spans : ~spans[j].ended /\ spans' = Observing!Ended(j, "error", {})
    BY <1>2 DEF Observing!Nobody
  <2>2. /\ DOMAIN spans' = DOMAIN spans
        /\ spans' \in [DOMAIN spans' -> [trace : Nat, parent : SUBSET Nat, of : Actors, ended : BOOLEAN,
                                         status : {"ok", "error"}, result : SUBSET Actors]]
        /\ \A k \in DOMAIN spans : spans'[k].of = spans[k].of
        /\ \A k \in DOMAIN spans \ {j} : spans'[k] = spans[k]
        /\ spans'[j].result = {}
    BY <2>1, EndingSpans
  <2>3. SpanTypes'
    BY <2>2 DEF SpanTypes, Registered
  <2>4. spans[j].of \in ObservedCalls \ shared => ~Reported(spans[j].of)
    BY <2>1 DEF Told
  <2>5. \A k \in DOMAIN spans : spans[k].of \in Actors
    BY DEF SpanTypes
  <2>6. \A k \in DOMAIN spans' :
          /\ k \in DOMAIN spans /\ spans'[k].of = spans[k].of
          /\ \/ spans'[k] = spans[k]
             \/ spans[k].of \in ObservedRuns \cup shared
             \/ spans'[k].result = {} /\ ~Reported(spans[k].of)
    BY <2>2, <2>4, <2>5 DEF Actors
  <2> QED
    BY <2>3, <2>6, NoCallReturns
<1> QED
  BY <1>1, <1>2

(* A set of numbers below another one has a greatest one.                  *)
LEMMA Greatest ==
  ASSUME NEW n \in Nat, NEW S \in SUBSET (0 .. n), S # {}
  PROVE  \E x \in S : \A y \in S : y <= x
<1> DEFINE T == {n - x : x \in S}
<1>1. T \in SUBSET Nat /\ T # {}
  <2>1. \A x \in S : n - x \in Nat
    OBVIOUS
  <2>2. PICK x \in S : TRUE
    OBVIOUS
  <2>3. n - x \in T
    BY <2>2
  <2> QED
    BY <2>1, <2>3
<1>2. PICK m \in T : \A y \in T : <<y, m>> \notin OpToRel(<, Nat)
  BY <1>1, WFMin, NatLessThanWellFounded, Zenon
<1>3. \A y \in T : ~(y < m)
  BY <1>1, <1>2, Zenon DEF OpToRel
<1>4. PICK x \in S : m = n - x
  BY <1>2
<1>5. ASSUME NEW y \in S PROVE y <= x
  <2>1. n - y \in T
    OBVIOUS
  <2>2. ~(n - y < n - x)
    BY <1>3, <1>4, <2>1
  <2> QED
    BY <2>2
<1> QED
  BY <1>5

(* Calls under another key are not concerned, those under the same key     *)
(* that are told of met no call that is under way but their own chain's.   *)
LEMMA OthersOfKey ==
  ASSUME WalkInv, NEW c \in ObservedCalls, Observing!Active(c), NEW d \in ObservedCalls \ shared, d # c
  PROVE  /\ d \in SameKey(c) => ~Holding(d) \/ origin[d] = origin[c]
         /\ d \notin SameKey(c) => c \notin SameKey(d) /\ (under[d] # under[c] \/ tool[d] # tool[c])
         /\ d \in SameKey(c) => c \in SameKey(d) /\ under[d] = under[c] /\ tool[d] = tool[c]
<1>1. ASSUME d \in SameKey(c), Holding(d) PROVE origin[d] = origin[c]
  <2>1. Observing!Active(d) /\ d \notin ObservedRuns
    BY <1>1, AdaptersAssumption, HoldersAreActive
  <2>2. Observing!Meets(d) = {}
    BY <2>1 DEF WalkInv, Alone, Actors
  <2> QED
    BY <1>1, <2>1, <2>2 DEF SameKey, Observing!Meets, Observing!Disturbs, Observing!Actors
<1> QED
  BY <1>1 DEF SameKey

(* While a call passes its hooks none is under way inside it, and those    *)
(* that hold a span of its chain are around it.                            *)
LEMMA PassingHooks ==
  ASSUME WalkInv, NEW c \in ObservedCalls, at[c] \in {"beforeTool", "afterTool"}
  PROVE  /\ Within(c) = {}
         /\ \A d \in ObservedCalls \ {c} : Holding(d) /\ origin[d] = origin[c] => layer[c] < layer[d]
<1>1. Observing!Active(c) /\ Started(c) /\ layer[c] \in Nat
  BY DEF Started, Observing!Active, Observing!Quiet, WalkInv, WalkTypes
<1>2. ASSUME NEW d \in ObservedCalls \ {c}, Holding(d), origin[d] = origin[c] PROVE layer[c] < layer[d]
  <2>1. Observing!Active(d)
    BY <1>2, HoldersAreActive
  <2>2. /\ layer[d] \in Nat /\ layer[d] # layer[c]
        /\ layer[d] < layer[c] => at[c] = "body"
    BY <1>1, <1>2, <2>1, AroundOneUnderWay
  <2> QED
    BY <1>1, <2>2
<1>3. ASSUME NEW d \in Within(c) PROVE FALSE
  <2>1. d \in ObservedCalls /\ Holding(d) /\ origin[d] = origin[c] /\ layer[d] < layer[c] /\ layer[d] \in Nat
    BY DEF Within, Returning, SameKey, MayReturn, WalkInv, WalkTypes
  <2> QED
    BY <1>1, <1>2, <2>1
<1> QED
  BY <1>2, <1>3

(* Who has failed inside whom does not change with a hook of a call whose  *)
(* tool has not thrown.                                                    *)
LEMMA FailedInsideStays ==
  ASSUME UNCHANGED <<origin, layer>>, NEW c \in ObservedCalls,
         {at[c], at'[c]} \cap {"toolError", "failed"} = {},
         \A d \in ObservedCalls \ {c} : at'[d] = at[d] /\ (Holding(d)' <=> Holding(d))
  PROVE  /\ \A d \in ObservedCalls : FailedInside(d)' <=> FailedInside(d)
         /\ \A d \in ObservedCalls \ {c} : MayReturn(d)' <=> MayReturn(d)
<1>1. \A d \in ObservedCalls : at[d] \in {"toolError", "failed"} <=> at'[d] \in {"toolError", "failed"}
  OBVIOUS
<1>2. \A d \in ObservedCalls : FailedInside(d)' <=> FailedInside(d)
  BY <1>1 DEF FailedInside
<1> QED
  BY <1>2 DEF MayReturn

(* onToolStart() puts the span of the call on top of the stack.            *)
LEMMA OnToolStartKeepsSpans ==
  ASSUME WalkInv, SpanInv, NEW c \in ObservedCalls, Observing!Hook(c), Registered("observability"),
         at[c] = "beforeTool", order[pos[c]] = "observability", Observing!OnToolStart(c)
  PROVE  SpanInv'
<1> DEFINE s == under[c]
<1> USE DEF SpanInv
<1>1. /\ UNCHANGED <<order, session, tool, runOf, origin, under, layer, shared>> /\ Observing!Active(c)
      /\ at'[c] \in {"beforeTool", "body"} /\ ~Holding(c) /\ ~Reported(c) /\ Holding(c)' /\ ~Reported(c)'
  BY CallInHook
<1>2. \A d \in ObservedCalls \ {c} : (Holding(d)' <=> Holding(d)) /\ (Reported(d)' <=> Reported(d)) /\ at'[d] = at[d]
  <2>1. \E place, i : Observing!Goes(c, place, i)
    BY CallInHook
  <2> QED
    BY <1>1, <2>1, OthersStay DEF WalkInv, Actors
<1>0. /\ MayReturn(c)' /\ ~MayReturn(c) /\ Within(c) = {}
      /\ \A d \in ObservedCalls \ {c} : MayReturn(d)' <=> MayReturn(d)
  <2>1. ~FailedInside(c) /\ Within(c) = {}
    BY NoneFailedInside, PassingHooks
  <2> QED
    BY <1>1, <1>2, <2>1, FailedInsideStays DEF MayReturn
<1>3. s \in ObservedSessions /\ tool[c] \in ObservedTools /\ ids \in Nat
  BY DEF WalkInv, WalkTypes, SpanTypes
<1>4. PICK trace \in Nat, parent \in SUBSET Nat : Observing!CreateSpan(c, trace, parent)
  <2>1. active[s] \in SUBSET Nat
    BY <1>3 DEF SpanTypes
  <2>2. (IF active[s] = {} THEN ids ELSE CHOOSE id_ \in active[s] : TRUE) \in Nat
    <3>1. active[s] # {} => (CHOOSE id_ \in active[s] : TRUE) \in active[s]
      OBVIOUS
    <3> QED
      BY <1>3, <2>1, <3>1
  <2> QED
    BY <2>1, <2>2 DEF Observing!OnToolStart
<1>5. /\ ids' = ids + 1 /\ ids \notin DOMAIN spans
      /\ DOMAIN spans' \subseteq DOMAIN spans \cup {ids} /\ DOMAIN spans' \subseteq 0 .. ids' - 1
      /\ spans' \in [DOMAIN spans' -> [trace : Nat, parent : SUBSET Nat, of : Actors, ended : BOOLEAN,
                                       status : {"ok", "error"}, result : SUBSET Actors]]
      /\ \A k \in DOMAIN spans' \ {ids} : spans'[k] = spans[k]
      /\ spans'[ids].of = c /\ spans'[ids].result = {}
  BY <1>4, CreatingSpans DEF Actors
<1>6. /\ stack' = [stack EXCEPT ![s][tool[c]] = @ \cup {ids}] /\ active' = active
      /\ StackOf(c)' = StackOf(c) \cup {ids}
  BY <1>1, <1>3 DEF Observing!OnToolStart, SpanTypes, StackOf
<1>7. SpanTypes'
  <2>1. 0 .. ids - 1 \subseteq 0 .. ids' - 1 /\ ids \in 0 .. ids' - 1
    BY <1>3, <1>5
  <2>2. active' \in [ObservedSessions -> SUBSET (0 .. ids' - 1)]
    BY <1>6, <2>1 DEF SpanTypes
  <2>3. stack' \in [ObservedSessions -> [ObservedTools -> SUBSET (0 .. ids' - 1)]]
    BY <1>3, <1>6, <2>1 DEF SpanTypes
  <2>4. ids' \in Nat /\ Registered("observability")'
    BY <1>1, <1>3, <1>5 DEF Registered
  <2> QED
    BY <1>5, <2>2, <2>3, <2>4 DEF SpanTypes
<1>8. /\ \A e \in ObservedSessions : ids \notin active[e]
      /\ \A e \in ObservedSessions, t \in ObservedTools : ids \notin stack[e][t]
  BY <1>3 DEF SpanTypes
<1>9. \A k \in DOMAIN spans : spans[k].of # c
  BY <1>1 DEF Owners
<1>10. Owners'
  <2>1. \A e \in ObservedSessions : \A k \in active'[e] \cap DOMAIN spans' : spans'[k].of \in ObservedRuns
    BY <1>5, <1>6, <1>8 DEF Owners
  <2>2. ASSUME NEW e \in ObservedSessions, NEW t \in ObservedTools, NEW k \in stack'[e][t] \cap DOMAIN spans'
        PROVE  spans'[k].of \in ObservedCalls /\ under[spans'[k].of] = e /\ tool[spans'[k].of] = t
    <3>1. CASE k = ids
      <4>1. e = s /\ t = tool[c]
        BY <1>3, <1>6, <1>8, <2>2, <3>1 DEF SpanTypes
      <4> QED
        BY <1>5, <3>1, <4>1
    <3>2. CASE k # ids
      <4>1. k \in stack[e][t] \cap DOMAIN spans /\ spans'[k] = spans[k]
        BY <1>3, <1>5, <1>6, <2>2, <3>2 DEF SpanTypes
      <4> QED
        BY <4>1 DEF Owners
    <3> QED
      BY <3>1, <3>2
  <2>3. ASSUME NEW k \in DOMAIN spans', spans'[k].of \in ObservedCalls
        PROVE  Holding(spans[k].of)' \/ Reported(spans[k].of)' \/ at'[spans'[k].of] \in {"toolError", "failed"}
    <3>1. CASE k = ids
      BY <1>1, <1>5, <3>1
    <3>2. CASE k # ids
      <4>1. PICK d \in ObservedCalls \ {c} : d = spans[k].of /\ d = spans'[k].of
        BY <1>5, <1>9, <2>3, <3>2
      <4>2. Holding(d) \/ Reported(d) \/ at[d] \in {"toolError", "failed"}
        BY <1>5, <2>3, <3>2, <4>1 DEF Owners
      <4>3. Holding(d)' \/ Reported(d)' \/ at'[d] \in {"toolError", "failed"}
        BY <1>2, <4>2
      <4> QED
        BY <4>1, <4>3
    <3> QED
      BY <3>1, <3>2
  <2> QED
    BY <1>1, <2>1, <2>2, <2>3 DEF Owners
<1>11. ASSUME NEW k \in DOMAIN spans', spans'[k].of \in ObservedCalls \ shared' PROVE Told(k, spans[k].of)'
  <2>1. CASE k = ids
    <3>1. StackOf(c) \subseteq 0 .. ids - 1
      BY <1>3 DEF SpanTypes, StackOf
    <3>2. \A j \in StackOf(c)' : ~(j > k)
      BY <1>3, <1>6, <2>1, <3>1
    <3>3. AboveIn(StackOf(c), k)' = {} /\ k \in StackOf(c)'
      BY <1>6, <2>1, <3>2 DEF AboveIn
    <3>4. Within(c)' = {}
      BY <1>0, <1>1, AdaptersAssumption DEF Within, Returning, SameKey, WalkInv, WalkTypes
    <3>5. Told(k, c)'
      BY <1>0, <1>1, <1>5, <2>1, <3>3, <3>4 DEF Told
    <3> QED
      BY <1>5, <2>1, <3>5
  <2>2. CASE k # ids
    <3>1. PICK d \in ObservedCalls \ {c} : d = spans[k].of /\ d = spans'[k].of /\ k \in DOMAIN spans
                                          /\ d \notin shared /\ Told(k, d) /\ spans'[k] = spans[k]
      BY <1>1, <1>5, <1>9, <1>11, <2>2
    <3>2. under[d] \in ObservedSessions /\ tool[d] \in ObservedTools
      BY <3>1 DEF WalkInv, WalkTypes
    <3>3. IsFiniteSet(StackOf(d)) /\ StackOf(d) \subseteq 0 .. ids - 1
      BY <3>2, StacksAreFinite DEF StackOf
    <3>4. CASE d \notin SameKey(c)
      <4>1. c \notin SameKey(d) /\ (under[d] # s \/ tool[d] # tool[c])
        BY <1>1, <3>1, <3>4, OthersOfKey
      <4>2. StackOf(d)' = StackOf(d)
        BY <1>1, <1>3, <1>6, <3>2, <4>1 DEF StackOf, SpanTypes
      <4>3. Returning(d)' = Returning(d) /\ Within(d)' = Within(d)
        BY <1>0, <1>1, <4>1 DEF Returning, SameKey, Within
      <4>4. Told(k, d)'
        BY <1>0, <1>2, <3>1, <3>3, <4>2, <4>3, ToldStays
      <4> QED
        BY <3>1, <4>4
    <3>5. CASE d \in SameKey(c)
      <4>1. /\ ~Holding(d) \/ origin[d] = origin[c]
            /\ c \in SameKey(d) /\ under[d] = s /\ tool[d] = tool[c]
        BY <1>1, <3>1, <3>5, OthersOfKey
      <4>2. StackOf(d)' = StackOf(d) \cup {ids}
        BY <1>1, <1>6, <4>1 DEF StackOf
      <4>3. k \in 0 .. ids - 1 /\ k # ids
        BY <1>3, <3>1 DEF SpanTypes
      <4>4. AboveIn(StackOf(d), k)' = AboveIn(StackOf(d), k) \cup {ids} /\ ids \notin AboveIn(StackOf(d), k)
        BY <1>3, <3>3, <4>2, <4>3 DEF AboveIn
      <4>5. Returning(d)' = Returning(d) \cup {c} /\ c \notin Returning(d)
        BY <1>0, <1>1, <4>1 DEF Returning, SameKey
      <4>6. /\ IsFiniteSet(Returning(d)) /\ IsFiniteSet(AboveIn(StackOf(d), k))
        BY <3>3, AdaptersAssumption, FS_Subset DEF Returning, SameKey, AboveIn
      <4>7. /\ Cardinality(Returning(d)') = Cardinality(Returning(d)) + 1
            /\ Cardinality(AboveIn(StackOf(d), k)') = Cardinality(AboveIn(StackOf(d), k)) + 1
            /\ Cardinality(Returning(d)) \in Nat /\ Cardinality(AboveIn(StackOf(d), k)) \in Nat
        BY <4>4, <4>5, <4>6, FS_AddElement, FS_CardinalityType
      <4>8. k \in StackOf(d)' <=> k \in StackOf(d)
        BY <4>2, <4>3
      <4>9. k \in StackOf(d)' /\ ~MayReturn(d) => Cardinality(Returning(d)') <= Cardinality(AboveIn(StackOf(d), k)')
        BY <3>1, <4>7, <4>8 DEF Told
      <4>11. MayReturn(d) => Cardinality(Within(d)') = Cardinality(Within(d)) + 1
        <5> SUFFICES ASSUME MayReturn(d) PROVE Cardinality(Within(d)') = Cardinality(Within(d)) + 1
          OBVIOUS
        <5>1. origin[d] = origin[c] /\ layer[c] < layer[d]
          BY <3>1, <4>1, PassingHooks DEF MayReturn
        <5>2. Within(d)' = Within(d) \cup {c} /\ c \notin Within(d)
          BY <1>1, <4>5, <5>1 DEF Within
        <5>3. IsFiniteSet(Within(d))
          BY <4>6, FS_Subset DEF Within
        <5> QED
          BY <5>2, <5>3, FS_AddElement
      <4>10. Told(k, d)'
        BY <1>0, <1>2, <3>1, <4>7, <4>8, <4>9, <4>11 DEF Told
      <4> QED
        BY <3>1, <4>10
    <3> QED
      BY <3>4, <3>5
  <2> QED
    BY <2>1, <2>2
<1> QED
  BY <1>7, <1>10, <1>11

(* onToolEnd() takes the top of the stack: its own span, unless the call   *)
(* met another one; whatever failed calls left lies below.                 *)
LEMMA OnToolEndKeepsSpans ==
  ASSUME WalkInv, SpanInv, NEW c \in ObservedCalls, Observing!Hook(c), Registered("observability"),
         at[c] = "afterTool", order[pos[c]] = "observability", Observing!OnToolEnd(c)
  PROVE  SpanInv'
<1> DEFINE s == under[c]
<1> USE DEF SpanInv
<1>1. /\ UNCHANGED <<order, session, tool, runOf, origin, under, layer, shared>> /\ Observing!Active(c)
      /\ at'[c] \in {"afterTool", "done"} /\ Holding(c) /\ ~Reported(c) /\ ~Holding(c)' /\ Reported(c)'
  BY CallInHook
<1>2. \A d \in ObservedCalls \ {c} : (Holding(d)' <=> Holding(d)) /\ (Reported(d)' <=> Reported(d)) /\ at'[d] = at[d]
  <2>1. \E place, i : Observing!Goes(c, place, i)
    BY CallInHook
  <2> QED
    BY <1>1, <2>1, OthersStay DEF WalkInv, Actors
<1>0. /\ MayReturn(c) /\ ~MayReturn(c)' /\ Within(c) = {}
      /\ \A d \in ObservedCalls \ {c} : MayReturn(d)' <=> MayReturn(d)
  <2>1. ~FailedInside(c) /\ Within(c) = {}
    BY NoneFailedInside, PassingHooks
  <2> QED
    BY <1>1, <1>2, <2>1, FailedInsideStays DEF MayReturn
<1>3. s \in ObservedSessions /\ tool[c] \in ObservedTools /\ ids \in Nat /\ StackOf(c) \subseteq 0 .. ids - 1
  BY DEF WalkInv, WalkTypes, SpanTypes, StackOf
<1>4. UNCHANGED <<active, ids>>
  BY DEF Observing!OnToolEnd
<1>5. CASE StackOf(c) = {}
  <2>1. UNCHANGED <<spans, stack>>
    BY <1>5 DEF Observing!OnToolEnd, StackOf
  <2>2. SpanTypes'
    BY <1>1, <1>4, <2>1 DEF SpanTypes, Registered
  <2>3. Owners'
    BY <1>1, <1>2, <1>4, <2>1 DEF Owners
  <2>4. ASSUME NEW k \in DOMAIN spans', spans'[k].of \in ObservedCalls \ shared' PROVE Told(k, spans[k].of)'
    <3>1. PICK d \in ObservedCalls : d = spans[k].of /\ d = spans'[k].of /\ d \notin shared /\ Told(k, d)
      BY <1>1, <2>1, <2>4
    <3>2. d # c /\ (MayReturn(d) => d \notin SameKey(c))
      BY <1>0, <1>5, <3>1 DEF Told, SameKey, StackOf
    <3>3. under[d] \in ObservedSessions /\ tool[d] \in ObservedTools
      BY <3>1 DEF WalkInv, WalkTypes
    <3>4. IsFiniteSet(StackOf(d)) /\ StackOf(d)' = StackOf(d)
      BY <1>1, <2>1, <3>3, StacksAreFinite DEF StackOf
    <3>5. Returning(d)' \subseteq Returning(d) /\ (MayReturn(d) => Within(d)' = Within(d))
      BY <1>0, <1>1, <3>2 DEF Returning, SameKey, Within
    <3>6. Told(k, d)'
      BY <1>0, <1>2, <2>1, <3>1, <3>2, <3>4, <3>5, ToldStays
    <3> QED
      BY <3>1, <3>6
  <2> QED
    BY <2>2, <2>3, <2>4
<1>6. CASE StackOf(c) # {}
  <2>1. PICK top \in StackOf(c) :
          /\ \A j \in StackOf(c) : j <= top
          /\ spans' = Observing!Ended(top, "ok", {c})
          /\ stack' = [stack EXCEPT ![s][tool[c]] = @ \ {top}]
    <3>1. Observing!LastStarted(StackOf(c)) \in StackOf(c) /\ \A j \in StackOf(c) : j <= Observing!LastStarted(StackOf(c))
      <4>1. StackOf(c) \in SUBSET (0 .. ids)
        BY <1>3
      <4>2. \E x \in StackOf(c) : \A j \in StackOf(c) : j <= x
        BY <1>3, <1>6, <4>1, Greatest
      <4> QED
        BY <4>2 DEF Observing!LastStarted
    <3> QED
      BY <1>6, <3>1 DEF Observing!OnToolEnd, StackOf
  <2>2. /\ DOMAIN spans' = DOMAIN spans
        /\ spans' \in [DOMAIN spans' -> [trace : Nat, parent : SUBSET Nat, of : Actors, ended : BOOLEAN,
                                         status : {"ok", "error"}, result : SUBSET Actors]]
        /\ \A k \in DOMAIN spans : spans'[k].of = spans[k].of
        /\ \A k \in DOMAIN spans \ {top} : spans'[k] = spans[k]
        /\ top \in DOMAIN spans => spans'[top].ended /\ spans'[top].status = "ok" /\ spans'[top].result = {c}
    <3>1. {c} \in SUBSET Actors
      BY DEF Actors
    <3> QED
      BY <2>1, <3>1, EndingSpans
  <2>3. StackOf(c)' = StackOf(c) \ {top}
    BY <1>1, <1>3, <2>1 DEF StackOf, SpanTypes
  <2>4. SpanTypes'
    <3>1. stack' \in [ObservedSessions -> [ObservedTools -> SUBSET (0 .. ids' - 1)]]
      BY <1>3, <1>4, <2>1 DEF SpanTypes
    <3>2. Registered("observability")'
      BY <1>1 DEF Registered
    <3> QED
      BY <1>4, <2>2, <3>1, <3>2 DEF SpanTypes
  <2>5. Owners'
    <3>1. \A e \in ObservedSessions, t \in ObservedTools : stack'[e][t] \subseteq stack[e][t]
      BY <1>3, <2>1 DEF SpanTypes
    <3>2. ASSUME NEW k \in DOMAIN spans', spans'[k].of \in ObservedCalls
          PROVE  Holding(spans[k].of)' \/ Reported(spans[k].of)' \/ at'[spans'[k].of] \in {"toolError", "failed"}
      <4>1. PICK d \in ObservedCalls : d = spans[k].of /\ d = spans'[k].of
        BY <2>2, <3>2
      <4>2. Holding(d) \/ Reported(d) \/ at[d] \in {"toolError", "failed"}
        BY <2>2, <3>2, <4>1 DEF Owners
      <4>3. Holding(d)' \/ Reported(d)' \/ at'[d] \in {"toolError", "failed"}
        BY <1>1, <1>2, <4>2
      <4> QED
        BY <4>1, <4>3
    <3>3. \A e \in ObservedSessions : \A k \in active'[e] \cap DOMAIN spans' : spans'[k].of \in ObservedRuns
      BY <1>4, <2>2 DEF Owners
    <3>4. \A e \in ObservedSessions, t \in ObservedTools : \A k \in stack'[e][t] \cap DOMAIN spans' :
            LET d == spans'[k].of IN d \in ObservedCalls /\ under[d] = e /\ tool[d] = t
      BY <2>2, <3>1 DEF Owners
    <3> QED
      BY <1>1, <3>2, <3>3, <3>4 DEF Owners
  <2>6. ASSUME NEW k \in DOMAIN spans', spans'[k].of \in ObservedCalls \ shared' PROVE Told(k, spans[k].of)'
    <3>1. PICK d \in ObservedCalls : d = spans[k].of /\ d = spans'[k].of /\ k \in DOMAIN spans
                                     /\ d \notin shared /\ Told(k, d)
      BY <1>1, <2>2, <2>6
    <3>2. under[d] \in ObservedSessions /\ tool[d] \in ObservedTools
      BY <3>1 DEF WalkInv, WalkTypes
    <3>3. IsFiniteSet(StackOf(d)) /\ StackOf(d) \subseteq 0 .. ids - 1
      BY <3>2, StacksAreFinite DEF StackOf
    <3>4. CASE d = c
      <4>1. k \in StackOf(c) /\ AboveIn(StackOf(c), k) = {}
        <5>1. k \in StackOf(c) /\ Cardinality(AboveIn(StackOf(c), k)) = Cardinality(Within(c))
          BY <1>0, <3>1, <3>4 DEF Told
        <5>2. IsFiniteSet(AboveIn(StackOf(c), k))
          BY <3>3, <3>4, FS_Subset DEF AboveIn
        <5> QED
          BY <1>0, <5>1, <5>2, FS_EmptySet
      <4>2. ~(top > k) /\ k <= top
        BY <2>1, <4>1 DEF AboveIn
      <4>3. k = top
        BY <1>3, <2>1, <4>1, <4>2
      <4>4. Told(k, c)'
        BY <1>0, <1>1, <2>2, <2>3, <3>1, <4>3 DEF Told
      <4> QED
        BY <3>1, <3>4, <4>4
    <3>5. CASE d \notin SameKey(c)
      <4>1. d # c
        BY <3>5 DEF SameKey
      <4>2. c \notin SameKey(d) /\ (under[d] # s \/ tool[d] # tool[c])
        BY <1>1, <3>1, <3>5, <4>1, OthersOfKey
      <4>3. StackOf(d)' = StackOf(d)
        BY <1>1, <1>3, <2>1, <3>2, <4>2 DEF StackOf, SpanTypes
      <4>4. Returning(d)' = Returning(d) /\ Within(d)' = Within(d)
        BY <1>0, <1>1, <4>1, <4>2 DEF Returning, SameKey, Within
      <4>5. k # top
        <5> SUFFICES ASSUME k = top PROVE FALSE
          OBVIOUS
        <5>1. top \in stack[s][tool[c]] \cap DOMAIN spans /\ spans[top].of = d
          BY <2>1, <3>1 DEF StackOf
        <5>2. under[d] = s /\ tool[d] = tool[c]
          BY <1>3, <5>1 DEF Owners
        <5> QED
          BY <4>2, <5>2
      <4>6. Told(k, d)'
        BY <1>0, <1>2, <2>2, <3>1, <3>3, <4>1, <4>3, <4>4, <4>5, ToldStays
      <4> QED
        BY <3>1, <4>6
    <3>6. CASE d \in SameKey(c) /\ d # c
      <4>1. /\ ~Holding(d) \/ origin[d] = origin[c]
            /\ c \in SameKey(d) /\ under[d] = s /\ tool[d] = tool[c]
        BY <1>1, <3>1, <3>6, OthersOfKey
      <4>2. StackOf(d) = StackOf(c) /\ StackOf(d)' = StackOf(d) \ {top}
        BY <1>1, <2>3, <4>1 DEF StackOf
      <4>3. Returning(d)' = Returning(d) \ {c} /\ c \in Returning(d)
        BY <1>0, <1>1, <3>6, <4>1 DEF Returning, SameKey
      <4>4. AboveIn(StackOf(d), k)' = AboveIn(StackOf(d), k) \ {top}
        BY <4>2 DEF AboveIn
      <4>5. IsFiniteSet(Returning(d)) /\ IsFiniteSet(AboveIn(StackOf(d), k))
        BY <3>3, AdaptersAssumption, FS_Subset DEF Returning, SameKey, AboveIn
      <4>6. Cardinality(Returning(d)) \in Nat \ {0} /\ Cardinality(AboveIn(StackOf(d), k)) \in Nat
        BY <4>3, <4>5, FS_CardinalityType, FS_EmptySet
      <4>7. Cardinality(Returning(d)') = Cardinality(Returning(d)) - 1
        BY <4>3, <4>5, FS_RemoveElement
      <4>10. MayReturn(d) => /\ IsFiniteSet(Within(d)) /\ c \in Within(d)
                            /\ Cardinality(Within(d)) \in Nat \ {0}
                            /\ Cardinality(Within(d)') = Cardinality(Within(d)) - 1
        <5> SUFFICES ASSUME MayReturn(d)
                     PROVE  /\ IsFiniteSet(Within(d)) /\ c \in Within(d)
                            /\ Cardinality(Within(d)) \in Nat \ {0}
                            /\ Cardinality(Within(d)') = Cardinality(Within(d)) - 1
          OBVIOUS
        <5>1. origin[d] = origin[c] /\ layer[c] < layer[d]
          BY <3>1, <3>6, <4>1, PassingHooks DEF MayReturn
        <5>2. Within(d)' = Within(d) \ {c} /\ c \in Within(d)
          BY <1>1, <4>3, <5>1 DEF Within
        <5>3. IsFiniteSet(Within(d))
          BY <4>5, FS_Subset DEF Within
        <5> QED
          BY <5>2, <5>3, FS_RemoveElement, FS_EmptySet, FS_CardinalityType
      <4>8. CASE k \in StackOf(d)
        <5>1. /\ MayReturn(d) => Cardinality(Within(d)) = Cardinality(AboveIn(StackOf(d), k))
              /\ ~MayReturn(d) => Cardinality(Returning(d)) <= Cardinality(AboveIn(StackOf(d), k))
          BY <3>1, <4>8 DEF Told
        <5>2. AboveIn(StackOf(d), k) # {}
          BY <4>5, <4>6, <4>10, <5>1, FS_EmptySet
        <5>3. top \in AboveIn(StackOf(d), k) /\ k # top
          <6>1. PICK j \in StackOf(d) : j > k
            BY <5>2 DEF AboveIn
          <6>2. j <= top /\ j \in Int /\ top \in Int /\ k \in Int /\ top \in StackOf(d)
            BY <1>3, <2>1, <3>3, <4>2, <4>8
          <6> QED
            BY <6>1, <6>2 DEF AboveIn
        <5>4. Cardinality(AboveIn(StackOf(d), k)') = Cardinality(AboveIn(StackOf(d), k)) - 1
          BY <4>4, <4>5, <5>3, FS_RemoveElement
        <5>5. /\ MayReturn(d) => Cardinality(Within(d)') = Cardinality(AboveIn(StackOf(d), k)')
              /\ ~MayReturn(d) => Cardinality(Returning(d)') <= Cardinality(AboveIn(StackOf(d), k)')
          BY <4>6, <4>7, <4>10, <5>1, <5>4
        <5>6. spans'[k] = spans[k] /\ ~Reported(d)
          BY <2>2, <3>1, <4>8, <5>3 DEF Told
        <5>7. Told(k, d)'
          BY <1>0, <1>2, <3>1, <3>6, <4>2, <4>8, <5>3, <5>5, <5>6 DEF Told
        <5> QED
          BY <3>1, <5>7
      <4>9. CASE k \notin StackOf(d)
        <5>1. k # top /\ spans'[k] = spans[k] /\ k \notin StackOf(d)'
          BY <2>1, <2>2, <3>1, <4>2, <4>9
        <5>2. Told(k, d)'
          BY <1>0, <1>2, <3>1, <3>6, <4>9, <5>1 DEF Told
        <5> QED
          BY <3>1, <5>2
      <4> QED
        BY <4>8, <4>9
    <3> QED
      BY <3>4, <3>5, <3>6
  <2> QED
    BY <2>4, <2>5, <2>6
<1> QED
  BY <1>5, <1>6

(* Every hook keeps the spans true.                                        *)
LEMMA HookKeepsSpans ==
  ASSUME WalkInv, SpanInv, NEW x \in Actors, Observing!Hook(x)
  PROVE  SpanInv'
<1>1. /\ at[x] \in Observing!Walks /\ pos[x] \in 1 .. Len(order)
      /\ UNCHANGED <<order, session, tool, runOf, origin, under, layer, shared>>
      /\ order[pos[x]] \in {"observability", "evals", "guardrails"}
  BY HookGoes
<1>2. \E place, i : Observing!Goes(x, place, i)
  BY <1>1, HookGoes, OnwardsGoes
<1>3. PICK place, i : Observing!Goes(x, place, i)
  BY <1>2
<1>4. CASE x \in ObservedRuns
  <2>1. at[x] \in {"beforeRun", "afterRun", "runError"}
    BY <1>1, <1>4 DEF WalkInv, WalkTypes, RunPlaces, Observing!Walks
  <2>2. CASE order[pos[x]] = "observability"
    <3>1. Registered("observability")
      BY <1>1, <2>2 DEF Registered
    <3>2. \A d \in ObservedCalls : (Holding(d)' <=> Holding(d)) /\ (Reported(d)' <=> Reported(d)) /\ at'[d] = at[d]
      BY <1>1, <1>3, <1>4, OthersStay, AdaptersAssumption DEF WalkInv, Actors
    <3>3. at[x] = "beforeRun" => Observing!OnRequest(x)
      BY <2>2 DEF Observing!Hook
    <3>4. at[x] = "afterRun" => Observing!OnResponse(x)
      BY <2>2 DEF Observing!Hook
    <3>5. at[x] = "runError" => Observing!OnError(session[x])
      BY <1>4, <2>2 DEF Observing!Hook
    <3> QED
      BY <1>1, <1>3, <1>4, <2>1, <3>1, <3>2, <3>3, <3>4, <3>5,
         OnRequestKeepsSpans, OnResponseKeepsSpans, OnErrorKeepsSpans
  <2>3. CASE order[pos[x]] # "observability"
    <3>1. UNCHANGED <<spans, active, stack, ids>>
      BY <2>3 DEF Observing!Hook, Observing!spanVars
    <3> QED
      BY <1>1, <1>3, <1>4, <3>1, RunsMoveOnInSpans
  <2> QED
    BY <2>2, <2>3
<1>5. CASE x \in ObservedCalls
  <2>1. at[x] \in {"beforeTool", "afterTool", "toolError"} /\ x \notin ObservedRuns
    BY <1>1, <1>5, AdaptersAssumption DEF WalkInv, WalkTypes, CallPlaces, Observing!Walks
  <2>2. CASE order[pos[x]] = "observability"
    <3>1. Registered("observability")
      BY <1>1, <2>2 DEF Registered
    <3>2. at[x] = "beforeTool" => Observing!OnToolStart(x)
      BY <2>2 DEF Observing!Hook
    <3>3. at[x] = "afterTool" => Observing!OnToolEnd(x)
      BY <2>2 DEF Observing!Hook
    <3>4. CASE at[x] = "toolError"
      <4>1. Observing!OnError(under[x])
        BY <2>1, <2>2, <3>4 DEF Observing!Hook
      <4>2. ~Holding(x) /\ ~Reported(x) /\ ~Holding(x)' /\ ~Reported(x)' /\ at'[x] \in {"toolError", "failed"}
        BY <1>5, <3>1, <3>4, CallInHook
      <4>3. \A d \in ObservedCalls \ {x} : (Holding(d)' <=> Holding(d)) /\ (Reported(d)' <=> Reported(d)) /\ at'[d] = at[d]
        BY <1>1, <1>3, OthersStay DEF WalkInv, Actors
      <4> QED
        BY <1>1, <3>4, <4>1, <4>2, <4>3, OnErrorKeepsSpans
    <3> QED
      BY <1>5, <2>1, <2>2, <3>1, <3>2, <3>3, <3>4, OnToolStartKeepsSpans, OnToolEndKeepsSpans
  <2>3. CASE order[pos[x]] # "observability"
    <3>1. UNCHANGED <<spans, active, stack, ids>>
      BY <2>3 DEF Observing!Hook, Observing!spanVars
    <3>2. at'[x] = place
      BY <1>1, <1>3, OthersStay DEF WalkInv
    <3>3. Registered("observability") => (Holding(x)' <=> Holding(x)) /\ (Reported(x)' <=> Reported(x))
      BY <1>5, <2>1, <2>3, <3>2, CallInHook
    <3>4. MovesOn(x, place)
      <4>1. Observing!Onwards(x)
        BY <2>1, HookGoes
      <4>2. PICK q, j : /\ Observing!Goes(x, q, j)
                        /\ \/ q = at[x]
                           \/ at[x] = "beforeTool" /\ q = "body"
                           \/ at[x] = "afterTool" /\ q = "done"
                           \/ at[x] = "toolError" /\ q = "failed"
        BY <1>1, <2>1, <4>1, OnwardsGoes
      <4>3. at'[x] = q
        BY <1>1, <4>2, OthersStay DEF WalkInv
      <4> QED
        BY <2>1, <3>2, <4>2, <4>3 DEF MovesOn
    <3> QED
      BY <1>1, <1>3, <1>5, <3>1, <3>3, <3>4, CallsMoveOnInSpans
  <2> QED
    BY <2>2, <2>3
<1> QED
  BY <1>4, <1>5 DEF Actors

(* Every step does.                                                        *)
LEMMA NextKeepsSpans ==
  ASSUME WalkInv, SpanInv, [Observing!Next]_obsVars
  PROVE  SpanInv'
<1> USE DEF Actors
<1>1. ASSUME NEW r \in ObservedRuns, Observing!RunStarts(r) PROVE SpanInv'
  <2>1. /\ Observing!Goes(r, "beforeRun", 1) /\ shared \subseteq shared'
        /\ UNCHANGED <<order, session, tool, runOf, origin, under, layer, spans, active, stack, ids>>
    BY <1>1 DEF Observing!RunStarts, Observing!Starts, Observing!spanVars, Observing!inputs
  <2> QED
    BY <2>1, RunsMoveOnInSpans
<1>2. ASSUME NEW r \in ObservedRuns, Observing!ModelAnswers(r) \/ Observing!Scored(r) \/ Observing!Refuses(r)
      PROVE  SpanInv'
  <2>1. UNCHANGED <<order, session, tool, runOf, origin, under, layer, shared, spans, active, stack, ids>>
    BY <1>2 DEF Observing!ModelAnswers, Observing!Scored, Observing!Refuses, Observing!spanVars, Observing!inputs
  <2>2. \E place, i : Observing!Goes(r, place, i)
    BY <1>2 DEF Observing!ModelAnswers, Observing!Scored, Observing!Refuses
  <2> QED
    BY <2>1, <2>2, RunsMoveOnInSpans
<1>3. ASSUME NEW c \in ObservedCalls, Observing!CallStarts(c) PROVE SpanInv'
  <2>1. /\ at[c] = "idle" /\ Observing!Goes(c, "beforeTool", 1) /\ shared \subseteq shared'
        /\ UNCHANGED <<order, session, tool, runOf, origin, under, spans, active, stack, ids>>
        /\ \A d \in ObservedCalls \ {c} : layer'[d] = layer[d]
    BY <1>3, CallStartsInside DEF Observing!Starts, Observing!spanVars, Observing!inputs
  <2>2. at'[c] = "beforeTool" /\ pos'[c] = 1
    BY <2>1, OthersStay DEF WalkInv
  <2>3. (Holding(c)' <=> Holding(c)) /\ (Reported(c)' <=> Reported(c))
    BY <2>1, <2>2 DEF Holding, Reported, Passed
  <2> QED
    BY <2>1, <2>3, CallsMoveOnInSpans
<1>4. ASSUME NEW c \in ObservedCalls, Observing!BodySettles(c) PROVE SpanInv'
  <2>1. at[c] = "body" /\ UNCHANGED <<order, session, tool, runOf, origin, under, layer, shared, spans, active, stack, ids>>
    BY <1>4 DEF Observing!BodySettles, Observing!spanVars, Observing!inputs
  <2>2. PICK place \in {"afterTool", "toolError"} : Observing!Goes(c, place, 1)
    BY <1>4 DEF Observing!BodySettles
  <2>3. at'[c] = place /\ pos'[c] = 1
    BY <2>1, <2>2, OthersStay DEF WalkInv
  <2>4. \/ (Holding(c)' <=> Holding(c)) /\ (Reported(c)' <=> Reported(c))
        \/ Holding(c) /\ place \in {"toolError", "failed"}
    BY <2>1, <2>3 DEF Holding, Reported, Passed
  <2>5. MovesOn(c, place)
    BY <1>4, <2>2, SettlesAsMade
  <2> QED
    BY <2>1, <2>2, <2>4, <2>5, CallsMoveOnInSpans
<1>5. ASSUME NEW c \in ObservedCalls, Observing!Refuses(c) PROVE SpanInv'
  <2>1. /\ at[c] \in {"beforeRun", "afterRun", "beforeTool"}
        /\ Observing!Goes(c, Observing!Thrown(at[c]), IF c \in ObservedRuns THEN 1 ELSE 0)
        /\ UNCHANGED <<order, session, tool, runOf, origin, under, layer, shared, spans, active, stack, ids>>
    BY <1>5 DEF Observing!Refuses, Observing!spanVars, Observing!inputs
  <2>2. at[c] = "beforeTool"
    BY <2>1 DEF WalkInv, WalkTypes, CallPlaces
  <2>3. Observing!Goes(c, "failed", 0)
    BY <2>1, <2>2, AdaptersAssumption DEF Observing!Thrown
  <2>4. at'[c] = "failed"
    BY <2>1, <2>3, OthersStay DEF WalkInv
  <2>5. \/ (Holding(c)' <=> Holding(c)) /\ (Reported(c)' <=> Reported(c))
        \/ Holding(c)
    BY <2>2, <2>4 DEF Holding, Reported
  <2>6. MovesOn(c, "failed")
    BY <2>2 DEF MovesOn
  <2> QED
    BY <2>1, <2>3, <2>5, <2>6, CallsMoveOnInSpans
<1>6. CASE Observing!ResetSpans
  <2>1. /\ UNCHANGED <<order, session, tool, runOf, origin, under, layer, at, pos, shared, ids>>
        /\ DOMAIN spans' = {} /\ spans' = <<>>
    BY <1>6 DEF Observing!ResetSpans, Observing!walkVars, Observing!inputs
  <2>2. SpanTypes'
    BY <1>6, <2>1 DEF SpanInv, SpanTypes, Observing!ResetSpans
  <2> QED
    BY <2>1, <2>2 DEF SpanInv, Owners
<1>7. CASE Observing!ResetCost \/ UNCHANGED obsVars
  <2>1. UNCHANGED <<order, session, tool, runOf, origin, under, layer, at, pos, shared, spans, active, stack, ids>>
    BY <1>7 DEF Observing!ResetCost, Observing!walkVars, Observing!inputs, Observing!spanVars, obsVars
  <2>2. SpanTypes'
    BY <2>1 DEF SpanInv, SpanTypes, Registered
  <2>3. \A c \in ObservedCalls : (Holding(c)' <=> Holding(c)) /\ (Reported(c)' <=> Reported(c))
    BY <2>1 DEF Holding, Reported, Passed
  <2> QED
    BY <2>1, <2>2, <2>3, NoCallReturns
<1> QED
  BY <1>1, <1>2, <1>3, <1>4, <1>5, <1>6, <1>7, HookKeepsSpans DEF Observing!Next, Observing!Actors

-----------------------------------------------------------------------------
(* The roots and the number of spans.                                      *)
LEMMA SpansCounted == \A S : Observing!Cardinality(S) = Cardinality(S)
BY Zenon DEF Observing!Cardinality, Cardinality

(* The oldest span makes room for a new one, and is a root no more.        *)
LEMMA CreatingKeepsRoots ==
  ASSUME SpanTypes, RootInv, NEW owner \in Actors, NEW trace \in Nat, NEW parent \in SUBSET Nat,
         Observing!CreateSpan(owner, trace, parent)
  PROVE  RootInv'
<1> DEFINE D == DOMAIN spans
           oldest == {i \in D : \A j \in D : i <= j}
           gone == IF Cardinality(D) >= MaxSpans THEN oldest ELSE {}
<1>1. D \subseteq 0 .. ids - 1 /\ ids \in Nat /\ IsFiniteSet(D) /\ Cardinality(D) \in Nat /\ MaxSpans \in Nat \ {0}
  <2>1. D \subseteq 0 .. ids - 1 /\ ids \in Nat
    BY DEF SpanTypes
  <2>2. IsFiniteSet(D)
    <3>1. IsFiniteSet(0 .. ids - 1)
      BY <2>1, FS_Interval
    <3> QED
      BY <2>1, <3>1, FS_Subset
  <2> QED
    BY <2>1, <2>2, AdaptersAssumption, FS_CardinalityType
<1>2. /\ DOMAIN spans' = (D \ gone) \cup {ids}
      /\ roots' = (roots \ gone) \cup IF parent = {} THEN {ids} ELSE {}
  BY SpansCounted DEF Observing!CreateSpan
<1>3. ids \notin D /\ \A k \in DOMAIN spans' \ {ids} : spans'[k] = spans[k]
  BY CreatingSpans
<1>4. spans'[ids].parent = parent
  BY CreatingSpans
<1>5. roots' = {k \in DOMAIN spans' : spans'[k].parent = {}}
  BY <1>2, <1>3, <1>4 DEF RootInv
<1>6. CASE Cardinality(D) < MaxSpans
  <2>1. DOMAIN spans' = D \cup {ids}
    BY <1>1, <1>2, <1>6
  <2>2. Cardinality(DOMAIN spans') = Cardinality(D) + 1
    BY <1>1, <1>3, <2>1, FS_AddElement
  <2> QED
    BY <1>1, <1>5, <1>6, <2>2 DEF RootInv
<1>7. CASE Cardinality(D) >= MaxSpans
  <2>1. D # {}
    BY <1>1, <1>7, FS_EmptySet
  <2>2. PICK x \in D : \A y \in D : ~(y < x)
    <3>1. D \in SUBSET Nat
      BY <1>1
    <3>2. PICK x \in D : \A y \in D : <<y, x>> \notin OpToRel(<, Nat)
      BY <2>1, <3>1, WFMin, NatLessThanWellFounded, Zenon
    <3>3. \A y \in D : ~(y < x)
      BY <3>1, <3>2, Zenon DEF OpToRel
    <3> QED
      BY <3>3
  <2>3. oldest = {x}
    BY <1>1, <2>2
  <2>4. DOMAIN spans' = (D \ {x}) \cup {ids}
    BY <1>1, <1>2, <1>7, <2>3
  <2>5. IsFiniteSet(D \ {x}) /\ Cardinality(D \ {x}) = Cardinality(D) - 1
    BY <1>1, FS_RemoveElement
  <2>6. Cardinality(DOMAIN spans') = Cardinality(D)
    <3>1. ids \notin D \ {x}
      BY <1>3
    <3>2. Cardinality((D \ {x}) \cup {ids}) = Cardinality(D \ {x}) + 1
      BY <2>5, <3>1, FS_AddElement
    <3> QED
      BY <1>1, <2>4, <2>5, <3>2
  <2> QED
    BY <1>5, <2>6 DEF RootInv
<1> QED
  BY <1>1, <1>6, <1>7

(* A span that ends stays in its place.                                    *)
LEMMA EndingKeepsRoots ==
  ASSUME SpanTypes, RootInv, NEW j, NEW status_ \in {"ok", "error"}, NEW result \in SUBSET Actors,
         spans' = Observing!Ended(j, status_, result), UNCHANGED roots
  PROVE  RootInv'
BY EndingSpans DEF RootInv

(* Every hook keeps the roots among the spans, within maxSpans.            *)
LEMMA HookKeepsRoots ==
  ASSUME WalkInv, SpanTypes, RootInv, NEW x \in Actors, Observing!Hook(x)
  PROVE  RootInv'
<1>1. CASE UNCHANGED <<spans, roots>>
  BY <1>1 DEF RootInv
<1>2. ASSUME NEW trace \in Nat, NEW parent \in SUBSET Nat, Observing!CreateSpan(x, trace, parent) PROVE RootInv'
  BY <1>2, CreatingKeepsRoots
<1>3. ASSUME NEW j, NEW status_ \in {"ok", "error"}, NEW result \in SUBSET Actors,
             spans' = Observing!Ended(j, status_, result), UNCHANGED roots
      PROVE  RootInv'
  BY <1>3, EndingKeepsRoots
<1>4. ids \in Nat /\ {x} \in SUBSET Actors /\ {} \in SUBSET Actors
  BY DEF SpanTypes
<1>5. CASE Observing!OnRequest(x)
  BY <1>2, <1>4, <1>5 DEF Observing!OnRequest
<1>6. CASE Observing!OnResponse(x)
  BY <1>1, <1>3, <1>4, <1>6 DEF Observing!OnResponse
<1>7. CASE Observing!OnToolStart(x) /\ x \in ObservedCalls
  <2>1. active[under[x]] \in SUBSET Nat
    BY <1>7 DEF SpanTypes, WalkInv, WalkTypes
  <2>2. (IF active[under[x]] = {} THEN ids ELSE CHOOSE k \in active[under[x]] : TRUE) \in Nat
    <3>1. active[under[x]] # {} =>
            (CHOOSE k \in active[under[x]] : TRUE) \in active[under[x]]
      OBVIOUS
    <3> QED
      BY <1>4, <2>1, <3>1
  <2> QED
    BY <1>2, <1>7, <2>1, <2>2 DEF Observing!OnToolStart
<1>8. CASE Observing!OnToolEnd(x)
  BY <1>1, <1>3, <1>4, <1>8 DEF Observing!OnToolEnd
<1>9. ASSUME NEW s, Observing!OnError(s) PROVE RootInv'
  BY <1>1, <1>3, <1>4, <1>9 DEF Observing!OnError, Observing!Nobody
<1>10. x \in ObservedRuns => at[x] \notin {"beforeTool", "afterTool"}
  BY DEF WalkInv, WalkTypes, RunPlaces
<1>11. at[x] \in {"beforeRun", "afterRun", "beforeTool", "afterTool", "runError", "toolError"}
  BY DEF Observing!Hook, Observing!Walks
<1>12. CASE order[pos[x]] = "observability"
  <2>1. /\ at[x] = "beforeRun" => Observing!OnRequest(x)
        /\ at[x] = "afterRun" => Observing!OnResponse(x)
    BY <1>12 DEF Observing!Hook
  <2>2. /\ at[x] = "beforeTool" => Observing!OnToolStart(x)
        /\ at[x] = "afterTool" => Observing!OnToolEnd(x)
    BY <1>12 DEF Observing!Hook
  <2>3. at[x] \in {"runError", "toolError"} => \E s : Observing!OnError(s)
    BY <1>12 DEF Observing!Hook
  <2> QED
    BY <1>5, <1>6, <1>7, <1>8, <1>9, <1>10, <1>11, <2>1, <2>2, <2>3 DEF Actors
<1>13. CASE order[pos[x]] # "observability"
  BY <1>1, <1>13 DEF Observing!Hook, Observing!spanVars
<1> QED
  BY <1>12, <1>13

(* Every step does.                                                        *)
LEMMA NextKeepsRoots ==
  ASSUME WalkInv, SpanTypes, RootInv, [Observing!Next]_obsVars
  PROVE  RootInv'
<1>1. CASE UNCHANGED <<spans, roots>>
  BY <1>1 DEF RootInv
<1>2. CASE Observing!ResetSpans
  <2>1. spans' = <<>> /\ roots' = {} /\ DOMAIN spans' = {}
    BY <1>2 DEF Observing!ResetSpans
  <2>2. Cardinality(DOMAIN spans') = 0 /\ MaxSpans \in Nat
    BY <2>1, FS_EmptySet, AdaptersAssumption
  <2> QED
    BY <2>1, <2>2 DEF RootInv
<1>3. CASE UNCHANGED obsVars
  BY <1>1, <1>3 DEF obsVars
<1> QED
  BY <1>1, <1>2, <1>3, HookKeepsRoots
  DEF Observing!Next, Observing!Actors, Actors, Observing!RunStarts, Observing!ModelAnswers, Observing!Scored,
      Observing!CallStarts, Observing!Enters, Observing!BodySettles, Observing!Refuses, Observing!ResetCost, Observing!Starts,
      Observing!spanVars, Observing!inputs

(* Over budget is told.                                                    *)
LEMMA NextKeepsCost ==
  ASSUME CostInv, [Observing!Next]_obsVars
  PROVE  CostInv'
<1> USE AdaptersAssumption DEF CostInv
<1>1. CASE UNCHANGED cost
  BY <1>1
<1>2. ASSUME NEW n \in {-1} \cup UsedTokens, Observing!RecordUsage(n) PROVE CostInv'
  <2>1. Observing!Clamped(n) \in Nat
    BY DEF Observing!Clamped
  <2>2. cost' = [total |-> cost.total + Observing!Clamped(n),
                 told |-> cost.told \/ cost.total + Observing!Clamped(n) > Budget]
    BY <1>2 DEF Observing!RecordUsage
  <2>3. cost.total \in Nat /\ cost.told \in BOOLEAN /\ (cost.told <=> cost.total > Budget)
    OBVIOUS
  <2>4. (cost.told \/ cost.total + Observing!Clamped(n) > Budget) <=> cost.total + Observing!Clamped(n) > Budget
    BY <2>1, <2>3
  <2>5. (cost.told \/ cost.total + Observing!Clamped(n) > Budget) \in BOOLEAN
        /\ cost.total + Observing!Clamped(n) \in Nat
    BY <2>1, <2>3
  <2>6. cost' \in [total : Nat, told : BOOLEAN] /\ cost'.total = cost.total + Observing!Clamped(n)
        /\ cost'.told = (cost.told \/ cost.total + Observing!Clamped(n) > Budget)
    BY <2>2, <2>5, Zenon
  <2>7. cost'.told <=> cost'.total > Budget
    BY <2>4, <2>6
  <2> QED
    BY <2>6, <2>7
<1>3. CASE Observing!ResetCost
  BY <1>3 DEF Observing!ResetCost
<1>4. ASSUME NEW r \in ObservedRuns, Observing!ModelAnswers(r) PROVE CostInv'
  BY <1>1, <1>2, <1>4 DEF Observing!ModelAnswers
<1>5. CASE UNCHANGED obsVars
  BY <1>1, <1>5 DEF obsVars
<1> QED
  BY <1>1, <1>3, <1>4, <1>5
  DEF Observing!Next, Observing!Hook, Observing!RunStarts, Observing!Scored, Observing!CallStarts,
      Observing!Enters, Observing!BodySettles, Observing!Refuses, Observing!ResetSpans, Observing!Starts

(* The invariant of the plugins that watch, for any runs, calls, sessions, *)
(* tools, limits and budget, whichever plugins there are, in any order.    *)
THEOREM ObserverInvariance == Observing!Init /\ [][Observing!Next]_obsVars => []ObserverInv
<1>1. Observing!Init => ObserverInv
  <2> SUFFICES ASSUME Observing!Init PROVE ObserverInv
    OBVIOUS
  <2> USE AdaptersAssumption DEF Observing!Init, Observing!Actors
  <2>1. order \in Observing!Orders /\ Len(order) \in Nat
    BY OrderOfPlugins
  <2>2. \A x \in Actors : at[x] = "idle" /\ pos[x] = 0
    BY DEF Actors
  <2>3. WalkTypes
    BY <2>1, <2>2 DEF WalkTypes, Actors, RunPlaces, CallPlaces, Observing!Walks
  <2>4. WalkInv
    BY <2>2, <2>3 DEF WalkInv, WalkTypes, CallsAreOfModels, Nested, Started, Alone,
                      Observing!Active, Observing!Quiet, Actors
  <2>5. EvalInv
    <3>1. EvalTypes /\ Len(results) = 0
      BY DEF EvalTypes
    <3>2. \A r \in ObservedRuns : ~Watched(r) /\ at[r] # "scores"
      BY <2>2 DEF Watched, Actors
    <3> QED
      BY <3>1, <3>2 DEF EvalInv
  <2>6. DOMAIN spans = {}
    OBVIOUS
  <2>7. SpanInv
    <3>1. SpanTypes
      BY <2>6 DEF SpanTypes
    <3> QED
      BY <2>6, <3>1 DEF SpanInv, Owners
  <2>8. RootInv
    BY <2>6, FS_EmptySet DEF RootInv
  <2>9. CostInv
    BY DEF CostInv
  <2> QED
    BY <2>4, <2>5, <2>7, <2>8, <2>9 DEF ObserverInv
<1>2. ObserverInv /\ [Observing!Next]_obsVars => ObserverInv'
  <2> SUFFICES ASSUME ObserverInv, [Observing!Next]_obsVars PROVE ObserverInv'
    OBVIOUS
  <2>1. WalkInv'
    BY HookKeepsWalk, OtherWalks DEF ObserverInv, Observing!Next, Observing!Actors, Actors
  <2> QED
    BY <2>1, NextKeepsEvals, NextKeepsSpans, NextKeepsRoots, NextKeepsCost DEF ObserverInv, SpanInv
<1> QED
  BY <1>1, <1>2, PTL

(* A run that met no other of its session is evaluated as what it was,     *)
(* each call counted in every wrapping of its session it returned through; *)
(* a call that met no other of its tool but its own chain has its own      *)
(* result in its span, whatever failed beside or inside it; the roots are  *)
(* those of the spans kept, and over budget is told once.                  *)
THEOREM RecordsStayTrue == Observing!Init /\ [][Observing!Next]_obsVars => []RecordsAreTrue
<1>1. ObserverInv => RecordsAreTrue
  <2> SUFFICES ASSUME ObserverInv PROVE RecordsAreTrue
    OBVIOUS
  <2> USE DEF ObserverInv
  <2>1. Observing!EvalsPairUp
    <3> SUFFICES ASSUME NEW i \in 1 .. Len(results), results[i].output \notin shared
                 PROVE  /\ results[i].prompt = {results[i].output}
                        /\ \A t \in ObservedTools : results[i].counts[t] =
                             Observing!Cardinality({c \in ObservedCalls :
                               /\ runOf[c] = results[i].output /\ under[c] = session[results[i].output]
                               /\ tool[c] = t /\ at[c] = "done"})
      BY DEF Observing!EvalsPairUp, EvalInv, EvalTypes
    <3>1. PICK r \in ObservedRuns : r = results[i].output
      <4>1. results[i] \in Result
        BY ElementOfSeq DEF EvalInv, EvalTypes
      <4> QED
        BY <4>1 DEF Result
    <3>2. at[r] \notin {"idle", "beforeRun", "model"} /\ results[i].prompt = {r} /\ results[i].counts = Counts(r)
      BY <3>1 DEF EvalInv, ResultIsTrue
    <3>3. \A c \in ObservedCalls : runOf[c] = r => (IsCounted(c) <=> at[c] = "done")
      BY <3>2 DEF WalkInv, CallsAreOfModels, IsCounted, Observing!Active, Observing!Quiet
    <3>4. ASSUME NEW t \in ObservedTools
          PROVE  results[i].counts[t] =
                   Cardinality({c \in ObservedCalls : /\ runOf[c] = r /\ under[c] = session[r]
                                                      /\ tool[c] = t /\ at[c] = "done"})
      <4>1. CountedOf(r, t) = {c \in ObservedCalls : /\ runOf[c] = r /\ under[c] = session[r]
                                                     /\ tool[c] = t /\ at[c] = "done"}
        BY <3>3 DEF CountedOf
      <4> QED
        BY <3>2, <4>1 DEF Counts
    <3> QED
      BY <3>1, <3>2, <3>4, SpansCounted
  <2>2. Observing!SpansTell
    BY DEF SpanInv, Told, Reported, Observing!SpansTell
  <2>3. Observing!RootsAreKept
    BY SpansCounted DEF RootInv, Observing!RootsAreKept
  <2>4. Observing!BudgetIsTold
    BY DEF CostInv, Observing!BudgetIsTold
  <2> QED
    BY <2>1, <2>2, <2>3, <2>4 DEF RecordsAreTrue, Observing!RecordsAreTrue
<1> QED
  BY <1>1, ObserverInvariance, PTL

-----------------------------------------------------------------------------
(* createEventStream(): what a client knows after some chunks, read one by *)
(* one.  The recursion is that of the model; that it is well-defined is    *)
(* shown by looking at the first place where it would not be.              *)
IsReading(known0, chunks, p) ==
  p = [i \in 0 .. Len(chunks) |-> IF i = 0 THEN known0 ELSE Stream!Reads(p[i - 1], chunks[i])]

(* A set of numbers that is not empty has a least one.                     *)
LEMMA Least ==
  ASSUME NEW S \in SUBSET Nat, S # {}
  PROVE  \E m \in S : \A y \in S : m <= y
<1>1. PICK m \in S : \A y \in S : <<y, m>> \notin OpToRel(<, Nat)
  BY WFMin, NatLessThanWellFounded, Zenon
<1>2. \A y \in S : ~(y < m)
  BY <1>1, Zenon DEF OpToRel
<1> QED
  BY <1>2

(* There is such a reading of any chunks.                                  *)
LEMMA ReadingExists ==
  ASSUME NEW known0, NEW chunks, Len(chunks) \in Nat
  PROVE  \E p : IsReading(known0, chunks, p)
<1> DEFINE Upto(n, p) == p = [i \in 0 .. n |-> IF i = 0 THEN known0 ELSE Stream!Reads(p[i - 1], chunks[i])]
           S == {n \in Nat : ~ \E p : Upto(n, p)}
<1> HIDE DEF Upto
<1>1. SUFFICES ASSUME S # {} PROVE FALSE
  <2>1. Len(chunks) \notin S
    BY <1>1
  <2> QED
    BY <2>1 DEF Upto, IsReading
<1>2. PICK m \in S : \A y \in S : m <= y
  BY <1>1, Least
<1>3. m # 0
  <2> DEFINE g0 == [i \in 0 .. 0 |-> known0]
  <2>1. Upto(0, g0)
    BY DEF Upto
  <2> QED
    BY <2>1
<1>4. m - 1 \in Nat /\ m - 1 \notin S
  BY <1>2, <1>3
<1>5. PICK p : Upto(m - 1, p)
  BY <1>4
<1> DEFINE q == [i \in 0 .. m |-> IF i = m THEN Stream!Reads(p[m - 1], chunks[m]) ELSE p[i]]
<1>6. Upto(m, q)
  <2>1. \A i \in 0 .. m - 1 : p[i] = IF i = 0 THEN known0 ELSE Stream!Reads(p[i - 1], chunks[i])
    BY <1>4, <1>5 DEF Upto
  <2>2. \A i \in 0 .. m : q[i] = IF i = 0 THEN known0 ELSE Stream!Reads(q[i - 1], chunks[i])
    BY <1>3, <2>1
  <2>3. q = [i \in 0 .. m |-> q[i]]
    OBVIOUS
  <2> HIDE DEF q
  <2> QED
    BY <2>2, <2>3 DEF Upto
<1> QED
  BY <1>2, <1>6

(* What the model calls the knowledge after some chunks is the end of one. *)
LEMMA AfterIsReading ==
  ASSUME NEW known0, NEW chunks, Len(chunks) \in Nat
  PROVE  \E p : IsReading(known0, chunks, p) /\ Stream!After(known0, chunks) = p[Len(chunks)]
<1> DEFINE p == CHOOSE p : IsReading(known0, chunks, p)
<1>1. IsReading(known0, chunks, p)
  BY ReadingExists
<1>2. Stream!After(known0, chunks) = p[Len(chunks)]
  BY DEF Stream!After, IsReading
<1> QED
  BY <1>1, <1>2

ReadsOn(p, n, chunks) == \A i \in 1 .. n : p[i] = Stream!Reads(p[i - 1], chunks[i])

(* Two readings of the same chunks that begin alike are the same.          *)
LEMMA ReadingsMeet ==
  ASSUME NEW n \in Nat, NEW p, NEW q, NEW chunks, p[0] = q[0], ReadsOn(p, n, chunks), ReadsOn(q, n, chunks)
  PROVE  \A i \in 0 .. n : p[i] = q[i]
<1> DEFINE S == {i \in 0 .. n : p[i] # q[i]}
<1> SUFFICES ASSUME S # {} PROVE FALSE
  OBVIOUS
<1>0. S \in SUBSET Nat
  OBVIOUS
<1>1. PICK m \in S : \A y \in S : m <= y
  <2> HIDE DEF S
  <2> QED
    BY <1>0, Least
<1>2. m \in 1 .. n
  <2>1. m \in 0 .. n /\ p[m] # q[m]
    OBVIOUS
  <2>2. m # 0
    BY <2>1
  <2> QED
    BY <2>1, <2>2
<1>3. m - 1 \in 0 .. n /\ m - 1 \notin S
  BY <1>1, <1>2
<1>4. p[m - 1] = q[m - 1]
  BY <1>3
<1> QED
  BY <1>1, <1>2, <1>4 DEF ReadsOn

(* Without a chunk nothing is learnt.                                      *)
LEMMA AfterNone ==
  ASSUME NEW known0
  PROVE  Stream!After(known0, <<>>) = known0
<1>1. PICK p : IsReading(known0, <<>>, p) /\ Stream!After(known0, <<>>) = p[Len(<<>>)]
  BY AfterIsReading
<1>2. Len(<<>>) = 0
  OBVIOUS
<1> QED
  BY <1>1, <1>2 DEF IsReading

(* One more chunk is read after the others.                                *)
LEMMA AfterOneMore ==
  ASSUME NEW C, NEW known0, NEW chunks \in Seq(C), NEW c \in C
  PROVE  Stream!After(known0, Append(chunks, c)) = Stream!Reads(Stream!After(known0, chunks), c)
<1> DEFINE n == Len(chunks)
<1>1. n \in Nat /\ Len(Append(chunks, c)) = n + 1 /\ Len(chunks) \in Nat /\ Len(Append(chunks, c)) \in Nat
  OBVIOUS
<1>2. PICK q : IsReading(known0, chunks, q) /\ Stream!After(known0, chunks) = q[n]
  BY <1>1, AfterIsReading
<1>3. PICK p : IsReading(known0, Append(chunks, c), p) /\ Stream!After(known0, Append(chunks, c)) = p[n + 1]
  BY <1>1, AfterIsReading
<1>4. \A i \in 0 .. n + 1 : p[i] = IF i = 0 THEN known0 ELSE Stream!Reads(p[i - 1], Append(chunks, c)[i])
  BY <1>1, <1>3 DEF IsReading
<1>5. \A i \in 0 .. n : q[i] = IF i = 0 THEN known0 ELSE Stream!Reads(q[i - 1], chunks[i])
  BY <1>1, <1>2 DEF IsReading
<1>6. \A i \in 1 .. n : Append(chunks, c)[i] = chunks[i] /\ Append(chunks, c)[n + 1] = c
  OBVIOUS
<1>7. \A i \in 0 .. n : p[i] = q[i]
  <2>1. p[0] = q[0]
    BY <1>1, <1>4, <1>5
  <2>2. ReadsOn(p, n, chunks)
    BY <1>1, <1>4, <1>6 DEF ReadsOn
  <2>3. ReadsOn(q, n, chunks)
    BY <1>1, <1>5 DEF ReadsOn
  <2> HIDE DEF n
  <2> QED
    BY <1>1, <2>1, <2>2, <2>3, ReadingsMeet
<1>8. p[n] = q[n] /\ p[n + 1] = Stream!Reads(p[n], c)
  <2>1. Append(chunks, c)[n + 1] = c
    OBVIOUS
  <2> QED
    BY <1>1, <1>4, <1>7, <2>1
<1> QED
  BY <1>2, <1>3, <1>8

(* The first chunk is read before the others.                              *)
LEMMA AfterFirst ==
  ASSUME NEW C, NEW known0, NEW chunks \in Seq(C), chunks # <<>>
  PROVE  Stream!After(known0, chunks) = Stream!After(Stream!Reads(known0, Head(chunks)), Tail(chunks))
<1> DEFINE n == Len(chunks)
           first == Stream!Reads(known0, Head(chunks))
<1>1. n \in Nat \ {0} /\ Len(Tail(chunks)) = n - 1 /\ Len(chunks) \in Nat /\ Len(Tail(chunks)) \in Nat /\ Head(chunks) = chunks[1]
      /\ \A i \in 1 .. n - 1 : Tail(chunks)[i] = chunks[i + 1]
  OBVIOUS
<1>2. PICK p : IsReading(known0, chunks, p) /\ Stream!After(known0, chunks) = p[n]
  BY <1>1, AfterIsReading
<1>3. PICK q : IsReading(first, Tail(chunks), q) /\ Stream!After(first, Tail(chunks)) = q[Len(Tail(chunks))]
  <2> HIDE DEF first
  <2> QED
    BY <1>1, AfterIsReading
<1>4. \A i \in 0 .. n : p[i] = IF i = 0 THEN known0 ELSE Stream!Reads(p[i - 1], chunks[i])
  BY <1>1, <1>2 DEF IsReading
<1>5. \A i \in 0 .. n - 1 : q[i] = IF i = 0 THEN first ELSE Stream!Reads(q[i - 1], Tail(chunks)[i])
  BY <1>1, <1>3 DEF IsReading
<1> DEFINE r == [i \in 0 .. n - 1 |-> p[i + 1]]
<1>6. r[0] = q[0]
  BY <1>1, <1>4, <1>5
<1>7. ASSUME NEW i \in 1 .. n - 1
      PROVE  r[i] = Stream!Reads(r[i - 1], Tail(chunks)[i]) /\ q[i] = Stream!Reads(q[i - 1], Tail(chunks)[i])
  <2>1. i + 1 \in 0 .. n /\ i + 1 # 0 /\ i \in 0 .. n - 1 /\ i # 0 /\ chunks[i + 1] = Tail(chunks)[i]
        /\ i - 1 \in 0 .. n - 1 /\ (i + 1) - 1 = i /\ (i - 1) + 1 = i
    BY <1>1
  <2>2. r[i] = p[i + 1] /\ r[i - 1] = p[i]
    BY <2>1
  <2>3. p[i + 1] = Stream!Reads(p[i], chunks[i + 1])
    BY <1>4, <2>1
  <2> QED
    BY <1>5, <2>1, <2>2, <2>3
<1>8. \A i \in 0 .. n - 1 : r[i] = q[i]
  <2> HIDE DEF r, first
  <2>1. ReadsOn(r, n - 1, Tail(chunks)) /\ ReadsOn(q, n - 1, Tail(chunks))
    BY <1>7 DEF ReadsOn
  <2>2. n - 1 \in Nat
    BY <1>1
  <2> HIDE DEF n
  <2> QED
    BY <1>6, <2>1, <2>2, ReadingsMeet
<1>9. p[n] = q[n - 1]
  <2>1. n - 1 \in 0 .. n - 1 /\ (n - 1) + 1 = n
    BY <1>1
  <2> QED
    BY <1>8, <2>1
<1> QED
  BY <1>1, <1>2, <1>3, <1>9

(* The chunks on their way are in the order of their ids, the encoder      *)
(* remembers the last event of a type, and the client will know, when it   *)
(* has read what waits for it, the last event of each type.                *)
EventFields == UNION {[D -> EventTimes \cup EventData \cup {Undefined}] : D \in SUBSET {"timestamp", "data"}}
EventChunk == [id : Nat, type : EventTypes, whole : BOOLEAN, fields : EventFields]
Ahead == queue \o kept

StreamTypes ==
  /\ id \in Nat /\ queue \in Seq(EventChunk) /\ kept \in Seq(EventChunk) /\ waiting \in BOOLEAN
  /\ mode \in {"full", "delta"} /\ lastSeen \in Seq([type : EventTypes, fields : EventFields])
  /\ client.id \in Nat /\ open \in BOOLEAN /\ dropped \in BOOLEAN
  /\ latest \in UNION {[D -> EventFields] : D \in SUBSET EventTypes}
  /\ Len(queue) <= 1 /\ Len(kept) <= BufferSize /\ (waiting => queue = <<>>)

InOrder(first, chunks, last) ==
  /\ first <= last
  /\ \A i \in 1 .. Len(chunks) : first < chunks[i].id /\ chunks[i].id <= last
  /\ \A i, j \in 1 .. Len(chunks) : i < j => chunks[i].id < chunks[j].id

Remembered ==
  /\ mode = "full" => lastSeen = <<>>
  /\ \A i \in 1 .. Len(lastSeen) :
       lastSeen[i].type \in DOMAIN latest /\ lastSeen[i].fields = latest[lastSeen[i].type]

StreamInv == StreamTypes /\ InOrder(client.id, Ahead, id) /\ Remembered /\ Stream!ClientCatchesUp

(* One more chunk, with the next id.                                       *)
LEMMA OrderAppend ==
  ASSUME NEW first \in Nat, NEW chunks \in Seq(EventChunk), NEW last \in Nat, NEW x \in EventChunk,
         InOrder(first, chunks, last), x.id = last + 1
  PROVE  InOrder(first, Append(chunks, x), last + 1)
<1>1. \A i \in 1 .. Len(chunks) : chunks[i].id \in Nat
  <2> TAKE i \in 1 .. Len(chunks)
  <2>1. chunks[i] \in EventChunk
    BY ElementOfSeq
  <2> QED
    BY <2>1 DEF EventChunk
<1>2. Len(Append(chunks, x)) = Len(chunks) + 1 /\ Append(chunks, x)[Len(chunks) + 1] = x
      /\ \A i \in 1 .. Len(chunks) : Append(chunks, x)[i] = chunks[i]
  OBVIOUS
<1>3. ASSUME NEW i \in 1 .. Len(Append(chunks, x))
      PROVE  first < Append(chunks, x)[i].id /\ Append(chunks, x)[i].id <= last + 1
  BY <1>1, <1>2 DEF InOrder
<1>4. ASSUME NEW i \in 1 .. Len(Append(chunks, x)), NEW j \in 1 .. Len(Append(chunks, x)), i < j
      PROVE  Append(chunks, x)[i].id < Append(chunks, x)[j].id
  <2>1. i \in 1 .. Len(chunks)
    BY <1>2, <1>4
  <2> QED
    BY <1>1, <1>2, <1>4, <2>1 DEF InOrder
<1> QED
  BY <1>3, <1>4 DEF InOrder

(* The first chunk is read, the others are in order.                       *)
LEMMA OrderTail ==
  ASSUME NEW first \in Nat, NEW chunks \in Seq(EventChunk), NEW last \in Nat, chunks # <<>>,
         InOrder(first, chunks, last)
  PROVE  Head(chunks).id \in Nat /\ InOrder(Head(chunks).id, Tail(chunks), last)
<1>1. \A i \in 1 .. Len(chunks) : chunks[i].id \in Nat
  <2> TAKE i \in 1 .. Len(chunks)
  <2>1. chunks[i] \in EventChunk
    BY ElementOfSeq
  <2> QED
    BY <2>1 DEF EventChunk
<1>2. Len(Tail(chunks)) = Len(chunks) - 1 /\ Head(chunks) = chunks[1] /\ 1 \in 1 .. Len(chunks)
      /\ \A i \in 1 .. Len(chunks) - 1 : Tail(chunks)[i] = chunks[i + 1]
  OBVIOUS
<1> QED
  BY <1>1, <1>2 DEF InOrder

(* Two sequences one after the other.                                      *)
LEMMA AheadHas ==
  ASSUME NEW C, NEW s \in Seq(C), NEW t \in Seq(C)
  PROVE  /\ s \o t \in Seq(C) /\ Len(s \o t) = Len(s) + Len(t)
         /\ \A i \in 1 .. Len(s) : (s \o t)[i] = s[i]
         /\ \A i \in 1 .. Len(t) : (s \o t)[Len(s) + i] = t[i]
OBVIOUS

(* The greater and the smaller of two numbers.                             *)
LEMMA OfTwo ==
  ASSUME NEW x \in Int, NEW y \in Int
  PROVE  /\ Stream!Max({x, y}) = IF x <= y THEN y ELSE x
         /\ Stream!Min({x, y}) = IF x <= y THEN x ELSE y
<1>1. Stream!Max({x, y}) = IF x <= y THEN y ELSE x
  <2>1. \E m \in {x, y} : \A n \in {x, y} : m >= n
    OBVIOUS
  <2>2. Stream!Max({x, y}) \in {x, y} /\ \A n \in {x, y} : Stream!Max({x, y}) >= n
    BY <2>1 DEF Stream!Max
  <2> QED
    BY <2>2
<1>2. Stream!Min({x, y}) = IF x <= y THEN x ELSE y
  <2>1. \E m \in {x, y} : \A n \in {x, y} : m <= n
    OBVIOUS
  <2>2. Stream!Min({x, y}) \in {x, y} /\ \A n \in {x, y} : Stream!Min({x, y}) <= n
    BY <2>1 DEF Stream!Min
  <2> QED
    BY <2>2
<1> QED
  BY <1>1, <1>2

(* Of a sequence, what comes up to a place.                                *)
LEMMA UpTo ==
  ASSUME NEW C, NEW s \in Seq(C), NEW n \in 0 .. Len(s)
  PROVE  /\ SubSeq(s, 1, n) \in Seq(C) /\ Len(SubSeq(s, 1, n)) = n
         /\ \A i \in 1 .. n : SubSeq(s, 1, n)[i] = s[i]
<1>1. Len(s) \in Nat /\ n \in Nat
  OBVIOUS
<1> QED
  BY <1>1, SubSeqProperties

(* Of a sequence, what comes from a place on.                              *)
LEMMA FromOn ==
  ASSUME NEW C, NEW s \in Seq(C), NEW m \in 1 .. Len(s) + 1
  PROVE  /\ SubSeq(s, m, Len(s)) \in Seq(C) /\ Len(SubSeq(s, m, Len(s))) = Len(s) + 1 - m
         /\ \A i \in 1 .. Len(s) + 1 - m : SubSeq(s, m, Len(s))[i] = s[m + i - 1]
<1>1. Len(s) \in Nat /\ m \in Nat
  OBVIOUS
<1> QED
  BY <1>1, SubSeqProperties

(* Sequences with the same elements are the same.                          *)
LEMMA SameSeq ==
  ASSUME NEW C, NEW s \in Seq(C), NEW t \in Seq(C), Len(s) = Len(t), \A i \in 1 .. Len(s) : s[i] = t[i]
  PROVE  s = t
OBVIOUS

(* A sequence cut in two is the two parts, and its tail is the tail of the *)
(* first one with the second.                                              *)
LEMMA CutInTwo ==
  ASSUME NEW C, NEW s \in Seq(C), NEW m \in 1 .. Len(s)
  PROVE  /\ SubSeq(s, 1, m) \in Seq(C) /\ Len(SubSeq(s, 1, m)) = m
         /\ SubSeq(s, 1, m) # <<>> /\ Head(SubSeq(s, 1, m)) = Head(s)
         /\ SubSeq(s, m + 1, Len(s)) \in Seq(C) /\ Len(SubSeq(s, m + 1, Len(s))) = Len(s) - m
         /\ SubSeq(s, 1, m) \o SubSeq(s, m + 1, Len(s)) = s
         /\ Tail(SubSeq(s, 1, m)) \o SubSeq(s, m + 1, Len(s)) = Tail(s)
<1> DEFINE l == SubSeq(s, 1, m)
           k == m + 1
           r == SubSeq(s, k, Len(s))
<1>0. m \in Nat /\ Len(s) \in Nat /\ m <= Len(s) /\ m \in 0 .. Len(s)
  OBVIOUS
<1>1. l \in Seq(C) /\ Len(l) = m /\ \A i \in 1 .. m : l[i] = s[i]
  BY <1>0, UpTo
<1>2. k \in 1 .. Len(s) + 1 /\ k = m + 1
  OBVIOUS
<1> HIDE DEF k
<1>3. r \in Seq(C) /\ Len(r) = Len(s) + 1 - k /\ \A i \in 1 .. Len(s) + 1 - k : r[i] = s[k + i - 1]
  BY <1>2, FromOn
<1> HIDE DEF l, r
<1>4. Len(r) = Len(s) - m /\ \A i \in 1 .. Len(s) - m : r[i] = s[m + i]
  <2>1. \A i \in 1 .. Len(s) - m : k + i - 1 = m + i
    BY <1>0, <1>2
  <2>2. Len(s) + 1 - k = Len(s) - m
    BY <1>0, <1>2
  <2> QED
    BY <1>3, <2>1, <2>2
<1>5. l # <<>> /\ Head(l) = Head(s)
  BY <1>0, <1>1
<1>6. l \o r = s
  <2>1. l \o r \in Seq(C) /\ Len(l \o r) = Len(s)
    <3>1. l \o r \in Seq(C) /\ Len(l \o r) = Len(l) + Len(r)
      BY <1>1, <1>3, AheadHas
    <3> QED
      BY <1>0, <1>1, <1>4, <3>1
  <2>2. ASSUME NEW i \in 1 .. Len(s) PROVE (l \o r)[i] = s[i]
    <3>1. CASE i <= m
      BY <1>0, <1>1, <1>3, <1>4, <3>1
    <3>2. CASE ~(i <= m)
      <4>1. i - m \in 1 .. Len(s) - m /\ m + (i - m) = i
        BY <1>0, <3>2
      <4>2. (l \o r)[i] = r[i - m]
        BY <1>0, <1>1, <1>3, <1>4, <3>2
      <4> QED
        BY <1>4, <4>1, <4>2
    <3> QED
      BY <3>1, <3>2
  <2> QED
    BY <2>1, <2>2, SameSeq
<1>7. Tail(l) \o r = Tail(s)
  <2>1. Tail(l) \in Seq(C) /\ Len(Tail(l)) = m - 1 /\ \A i \in 1 .. m - 1 : Tail(l)[i] = l[i + 1]
    BY <1>0, <1>1, <1>5
  <2>2. Tail(s) \in Seq(C) /\ Len(Tail(s)) = Len(s) - 1 /\ \A i \in 1 .. Len(s) - 1 : Tail(s)[i] = s[i + 1]
    BY <1>0
  <2>3. Tail(l) \o r \in Seq(C) /\ Len(Tail(l) \o r) = Len(s) - 1
    <3>1. Tail(l) \o r \in Seq(C) /\ Len(Tail(l) \o r) = Len(Tail(l)) + Len(r)
      BY <1>3, <2>1, AheadHas
    <3> QED
      <4>1. (m - 1) + (Len(s) - m) = Len(s) - 1
        BY <1>0
      <4> QED
        BY <1>4, <2>1, <3>1, <4>1
  <2>4. ASSUME NEW i \in 1 .. Len(s) - 1 PROVE (Tail(l) \o r)[i] = Tail(s)[i]
    <3>1. CASE i <= m - 1
      BY <1>0, <1>1, <1>3, <2>1, <2>2, <3>1
    <3>2. CASE ~(i <= m - 1)
      <4>1. i - (m - 1) \in 1 .. Len(s) - m /\ m + (i - (m - 1)) = i + 1
        BY <1>0, <3>2
      <4>2. (Tail(l) \o r)[i] = r[i - (m - 1)]
        BY <1>0, <1>3, <1>4, <2>1, <3>2
      <4> QED
        BY <1>4, <2>2, <4>1, <4>2
    <3> QED
      BY <3>1, <3>2
  <2> QED
    BY <2>2, <2>3, <2>4, SameSeq
<1> QED
  BY <1>1, <1>3, <1>4, <1>5, <1>6, <1>7 DEF l, r, k

(* A chunk appended to the second of two sequences comes last.             *)
LEMMA AppendJoins ==
  ASSUME NEW s \in Seq(EventChunk), NEW t \in Seq(EventChunk), NEW c \in EventChunk
  PROVE  Append(s \o t, c) = s \o Append(t, c)
<1>1. /\ Append(s \o t, c) \in Seq(EventChunk) /\ s \o Append(t, c) \in Seq(EventChunk)
      /\ Len(Append(s \o t, c)) = Len(s) + Len(t) + 1 /\ Len(s \o Append(t, c)) = Len(s) + Len(t) + 1
      /\ Len(s) \in Nat /\ Len(t) \in Nat
  OBVIOUS
<1>2. ASSUME NEW i \in 1 .. Len(s) + Len(t) + 1 PROVE Append(s \o t, c)[i] = (s \o Append(t, c))[i]
  <2>1. CASE i <= Len(s)
    BY <1>1, <2>1
  <2>2. CASE i > Len(s) /\ i # Len(s) + Len(t) + 1
    BY <1>1, <2>2
  <2>3. CASE i = Len(s) + Len(t) + 1
    BY <1>1, <2>3
  <2> QED
    BY <1>1, <2>1, <2>2, <2>3
<1> QED
  BY <1>1, <1>2, SameSeq

(* The chunks of t are those of s with some left out.                      *)
LeavesOut(t, s) ==
  \E place \in [1 .. Len(t) -> 1 .. Len(s)] :
    /\ \A i \in 1 .. Len(t) : t[i] = s[place[i]]
    /\ \A i, j \in 1 .. Len(t) : i < j => place[i] < place[j]

(* The last chunk is left out.                                             *)
LEMMA LeavesOutLast ==
  ASSUME NEW C, NEW s \in Seq(C), NEW c \in C
  PROVE  LeavesOut(s, Append(s, c))
<1> DEFINE place == [i \in 1 .. Len(s) |-> i]
<1>1. /\ place \in [1 .. Len(s) -> 1 .. Len(Append(s, c))]
      /\ \A i \in 1 .. Len(s) : s[i] = Append(s, c)[place[i]]
      /\ \A i, j \in 1 .. Len(s) : i < j => place[i] < place[j]
  OBVIOUS
<1> HIDE DEF place
<1> QED
  BY <1>1 DEF LeavesOut

(* The first chunk of the second sequence is left out.                     *)
LEMMA LeavesOutFirst ==
  ASSUME NEW C, NEW s \in Seq(C), NEW t \in Seq(C), t # <<>>
  PROVE  LeavesOut(s \o Tail(t), s \o t)
<1> DEFINE q == Len(s)
           n == Len(t)
           place == [i \in 1 .. q + n - 1 |-> IF i <= q THEN i ELSE i + 1]
<1>1. /\ q \in Nat /\ n \in Nat \ {0} /\ Len(s \o Tail(t)) = q + n - 1 /\ Len(s \o t) = q + n
      /\ Tail(t) \in Seq(C) /\ Len(Tail(t)) = n - 1
      /\ \A i \in 1 .. n - 1 : Tail(t)[i] = t[i + 1]
  OBVIOUS
<1>2. ASSUME NEW i \in 1 .. q + n - 1 PROVE (s \o Tail(t))[i] = (s \o t)[place[i]]
  <2>1. CASE i <= q
    BY <1>1, <2>1
  <2>2. CASE i > q
    <3>1. (s \o Tail(t))[i] = Tail(t)[i - q]
      BY <1>1, <2>2
    <3>2. i - q \in 1 .. n - 1 /\ (i - q) + 1 = (i + 1) - q
      BY <1>1, <2>2
    <3>3. (s \o t)[i + 1] = t[(i + 1) - q]
      BY <1>1, <2>2
    <3> QED
      BY <1>1, <2>2, <3>1, <3>2, <3>3
  <2> QED
    BY <1>1, <2>1, <2>2
<1>3. place \in [1 .. q + n - 1 -> 1 .. q + n] /\ \A i, j \in 1 .. q + n - 1 : i < j => place[i] < place[j]
  BY <1>1
<1> HIDE DEF place
<1> QED
  BY <1>1, <1>2, <1>3 DEF LeavesOut

(* Some chunks are left out, the others are in order.                      *)
LEMMA OrderFewer ==
  ASSUME NEW first \in Nat, NEW chunks \in Seq(EventChunk), NEW last \in Nat, NEW fewer \in Seq(EventChunk),
         LeavesOut(fewer, chunks), InOrder(first, chunks, last)
  PROVE  InOrder(first, fewer, last)
<1>0. PICK place \in [1 .. Len(fewer) -> 1 .. Len(chunks)] :
        /\ \A i \in 1 .. Len(fewer) : fewer[i] = chunks[place[i]]
        /\ \A i, j \in 1 .. Len(fewer) : i < j => place[i] < place[j]
  BY DEF LeavesOut
<1>1. ASSUME NEW i \in 1 .. Len(fewer) PROVE first < fewer[i].id /\ fewer[i].id <= last
  <2>1. place[i] \in 1 .. Len(chunks)
    BY <1>1
  <2> QED
    BY <1>0, <2>1 DEF InOrder
<1>2. ASSUME NEW i \in 1 .. Len(fewer), NEW j \in 1 .. Len(fewer), i < j PROVE fewer[i].id < fewer[j].id
  <2>1. place[i] \in 1 .. Len(chunks) /\ place[j] \in 1 .. Len(chunks) /\ place[i] < place[j]
    BY <1>0, <1>2
  <2> QED
    BY <1>0, <2>1 DEF InOrder
<1> QED
  BY <1>1, <1>2 DEF InOrder

(* What becomes of the chunks when one more is handled: it comes last;     *)
(* the first one is read by a client that waits; or some are dropped.      *)
Handled(c) ==
  \/ client' = client /\ Ahead' = Append(Ahead, c)
  \/ client' = Stream!Reads(client, Head(Append(Ahead, c))) /\ Ahead' = Tail(Append(Ahead, c))
  \/ client' = client /\ dropped' /\ LeavesOut(Ahead', Append(Ahead, c))

HandledTypes ==
  /\ queue' \in Seq(EventChunk) /\ kept' \in Seq(EventChunk) /\ waiting' \in BOOLEAN /\ dropped' \in BOOLEAN
  /\ Len(queue') <= 1 /\ Len(kept') <= BufferSize /\ (waiting' => queue' = <<>>)

(* A handler without room that drops: the new chunk is left out.           *)
LEMMA HandleDrops ==
  ASSUME StreamTypes, NEW c \in EventChunk, dropped', UNCHANGED <<queue, kept, waiting, client>>, dropped' \in BOOLEAN
  PROVE  Handled(c) /\ HandledTypes
<1>1. Ahead \in Seq(EventChunk) /\ Ahead' = Ahead
  BY DEF StreamTypes, Ahead
<1>2. LeavesOut(Ahead', Append(Ahead, c))
  BY <1>1, LeavesOutLast
<1> QED
  BY <1>2 DEF Handled, HandledTypes, StreamTypes

(* A handler without room that buffers: the new chunk comes last, and the  *)
(* oldest one of a full buffer is left out.                                *)
LEMMA HandleKeeps ==
  ASSUME StreamTypes, NEW c \in EventChunk, BufferSize \in Nat,
         kept' = SubSeq(Append(kept, c), Stream!Max({1, Len(kept) + 2 - BufferSize}), Len(kept) + 1),
         dropped' \in BOOLEAN, Len(kept) = BufferSize => dropped',
         UNCHANGED <<queue, waiting, client>>
  PROVE  Handled(c) /\ HandledTypes
<1>1. PICK all \in Seq(EventChunk) : all = Append(kept, c)
  <2>1. Append(kept, c) \in Seq(EventChunk)
    BY DEF StreamTypes
  <2> QED
    BY <2>1, Zenon
<1>2. PICK n \in Nat : n = Len(kept)
  BY DEF StreamTypes
<1>3. n <= BufferSize /\ Len(all) = n + 1 /\ queue \in Seq(EventChunk) /\ kept \in Seq(EventChunk) /\ all # <<>>
  BY <1>1, <1>2 DEF StreamTypes
<1>4. PICK m \in Int : m = n + 2 - BufferSize
  BY <1>2
<1>5. Stream!Max({1, m}) = IF 1 <= m THEN m ELSE 1
  BY OfTwo
<1>6. kept' = SubSeq(all, IF 1 <= m THEN m ELSE 1, n + 1)
  BY <1>1, <1>2, <1>4, <1>5
<1>7. Append(Ahead, c) = queue \o all
  <2>1. Append(queue \o kept, c) = queue \o Append(kept, c)
    <3>1. queue \in Seq(EventChunk) /\ kept \in Seq(EventChunk)
      BY <1>3
    <3> QED
      BY <3>1, AppendJoins
  <2> QED
    BY <1>1, <2>1 DEF Ahead
<1>8. CASE n # BufferSize
  <2>1. kept' = SubSeq(all, 1, Len(all))
    <3>1. (IF 1 <= m THEN m ELSE 1) = 1
      BY <1>3, <1>4, <1>8
    <3> QED
      BY <1>3, <1>6, <3>1
  <2>2. kept' = all
    BY <2>1, SubSeqFull
  <2>3. Ahead' = Append(Ahead, c)
    BY <1>7, <2>2 DEF Ahead
  <2>4. HandledTypes
    <3>1. Len(kept') <= BufferSize /\ kept' \in Seq(EventChunk)
      <4>1. Len(all) <= BufferSize
        BY <1>2, <1>3, <1>8
      <4> QED
        BY <2>2, <4>1
    <3> QED
      BY <3>1 DEF HandledTypes, StreamTypes
  <2> QED
    BY <2>3, <2>4 DEF Handled
<1>9. CASE n = BufferSize
  <2>1. kept' = SubSeq(all, 2, Len(all))
    <3>1. (IF 1 <= m THEN m ELSE 1) = 2
      BY <1>3, <1>4, <1>9
    <3> QED
      BY <1>3, <1>6, <3>1
  <2>2. kept' = Tail(all)
    <3>1. 1 \in 1 .. Len(all)
      BY <1>3
    <3>2. PICK r : r = SubSeq(all, 1 + 1, Len(all)) /\ r \in Seq(EventChunk) /\ Tail(SubSeq(all, 1, 1)) \o r = Tail(all)
                   /\ Len(SubSeq(all, 1, 1)) = 1 /\ SubSeq(all, 1, 1) \in Seq(EventChunk)
      BY <3>1, CutInTwo
    <3>3. Tail(SubSeq(all, 1, 1)) = <<>>
      BY <3>2
    <3>4. r = Tail(all)
      BY <3>2, <3>3
    <3>5. SubSeq(all, 1 + 1, Len(all)) = SubSeq(all, 2, Len(all))
      OBVIOUS
    <3> QED
      BY <2>1, <3>2, <3>4, <3>5
  <2>3. LeavesOut(queue \o Tail(all), queue \o all)
    BY <1>3, LeavesOutFirst
  <2>4. Ahead' = queue \o Tail(all)
    BY <2>2 DEF Ahead
  <2>5. Handled(c)
    BY <1>2, <1>7, <1>9, <2>3, <2>4 DEF Handled
  <2>6. HandledTypes
    <3>1. Len(kept') <= BufferSize /\ kept' \in Seq(EventChunk)
      <4>1. Tail(all) \in Seq(EventChunk) /\ Len(Tail(all)) = n
        BY <1>3
      <4>2. Len(Tail(all)) <= BufferSize
        BY <1>3, <4>1
      <4> QED
        BY <2>2, <4>1, <4>2
    <3> QED
      BY <3>1 DEF HandledTypes, StreamTypes
  <2> QED
    BY <2>5, <2>6
<1> QED
  BY <1>8, <1>9

(* A handler with room: buffered chunks go first, and a client that waits  *)
(* reads the first of them.                                                *)
LEMMA HandleSends ==
  ASSUME StreamTypes, NEW c \in EventChunk, NEW room \in {1, 2}, Stream!Room = room,
         Stream!Enqueue(SubSeq(Append(kept, c), 1, Stream!Min({room, Len(Append(kept, c))}))),
         kept' = SubSeq(Append(kept, c), Stream!Min({room, Len(Append(kept, c))}) + 1, Len(Append(kept, c))),
         dropped' \in BOOLEAN, BufferSize \in Nat
  PROVE  Handled(c) /\ HandledTypes
<1>1. PICK all \in Seq(EventChunk) : all = Append(kept, c)
  <2>1. Append(kept, c) \in Seq(EventChunk)
    BY DEF StreamTypes
  <2> QED
    BY <2>1, Zenon
<1>2. /\ kept \in Seq(EventChunk) /\ Len(kept) <= BufferSize /\ Len(all) = Len(kept) + 1
      /\ queue \in Seq(EventChunk) /\ Len(queue) \in Nat /\ waiting \in BOOLEAN /\ (waiting => queue = <<>>)
  BY <1>1 DEF StreamTypes
<1>3. queue = <<>> /\ (room = 2 <=> waiting)
  <2>1. Len(queue) = 0 /\ (room = 2 <=> waiting)
    BY <1>2 DEF Stream!Room
  <2> QED
    BY <1>2, <2>1
<1>4. PICK m \in 1 .. Len(all) : m = Stream!Min({room, Len(all)}) /\ m <= room
  <2>1. PICK n \in Nat \ {0} : n = Len(all)
    BY <1>2
  <2>2. room \in Int /\ n \in Int
    BY <2>1
  <2>3. Stream!Min({room, n}) = IF room <= n THEN room ELSE n
    BY <2>2, OfTwo
  <2> QED
    BY <2>1, <2>3
<1>5. PICK now : /\ now = SubSeq(all, 1, m) /\ now \in Seq(EventChunk) /\ Len(now) = m /\ now # <<>> /\ Head(now) = Head(all)
                 /\ now \o SubSeq(all, m + 1, Len(all)) = all
                 /\ Tail(now) \o SubSeq(all, m + 1, Len(all)) = Tail(all)
                 /\ SubSeq(all, m + 1, Len(all)) \in Seq(EventChunk)
                 /\ Len(SubSeq(all, m + 1, Len(all))) = Len(all) - m
  <2> DEFINE now == SubSeq(all, 1, m)
  <2>1. /\ now \in Seq(EventChunk) /\ Len(now) = m /\ now # <<>> /\ Head(now) = Head(all)
        /\ now \o SubSeq(all, m + 1, Len(all)) = all
        /\ Tail(now) \o SubSeq(all, m + 1, Len(all)) = Tail(all)
        /\ SubSeq(all, m + 1, Len(all)) \in Seq(EventChunk)
        /\ Len(SubSeq(all, m + 1, Len(all))) = Len(all) - m
    BY CutInTwo, Zenon
  <2> QED
    BY <2>1, Zenon
<1>6. kept' = SubSeq(all, m + 1, Len(all)) /\ Stream!Enqueue(now)
  <2>1. /\ kept' = SubSeq(all, Stream!Min({room, Len(all)}) + 1, Len(all))
        /\ Stream!Enqueue(SubSeq(all, 1, Stream!Min({room, Len(all)})))
    BY <1>1, Zenon
  <2> QED
    BY <1>4, <1>5, <2>1, Zenon
<1>7. kept' \in Seq(EventChunk) /\ Len(kept') <= BufferSize
  <2>1. PICK r : r = SubSeq(all, m + 1, Len(all)) /\ r \in Seq(EventChunk) /\ Len(r) = Len(all) - m
    BY <1>5, Zenon
  <2>2. Len(kept) \in Nat /\ Len(r) <= Len(kept)
    BY <1>2, <1>4, <2>1
  <2>3. Len(r) <= BufferSize
    BY <1>2, <2>1, <2>2
  <2> QED
    BY <1>6, <2>1, <2>3
<1>8. Append(Ahead, c) = all
  <2>1. Ahead = kept
    BY <1>2, <1>3 DEF Ahead
  <2> QED
    BY <1>1, <2>1
<1>9. CASE waiting
  <2>1. waiting' = FALSE /\ client' = Stream!Reads(client, Head(now)) /\ queue' = queue \o Tail(now)
    BY <1>5, <1>6, <1>9 DEF Stream!Enqueue
  <2>2. queue' = Tail(now) /\ Tail(now) \in Seq(EventChunk) /\ Len(Tail(now)) = m - 1
    BY <1>3, <1>5, <2>1
  <2>3. Ahead' = Tail(all)
    BY <1>5, <1>6, <2>2 DEF Ahead
  <2>4. Handled(c)
    BY <1>5, <1>8, <2>1, <2>3 DEF Handled
  <2>5. Len(queue') <= 1 /\ queue' \in Seq(EventChunk)
    BY <1>4, <2>2
  <2> QED
    BY <1>7, <2>1, <2>4, <2>5 DEF HandledTypes
<1>10. CASE ~waiting
  <2>1. UNCHANGED <<waiting, client>> /\ queue' = queue \o now /\ m = 1
    BY <1>3, <1>4, <1>6, <1>10 DEF Stream!Enqueue
  <2>2. queue' = now
    BY <1>3, <1>5, <2>1
  <2>3. Ahead' = all
    BY <1>5, <1>6, <2>2 DEF Ahead
  <2>4. Handled(c)
    BY <1>8, <2>1, <2>3 DEF Handled
  <2>5. Len(queue') <= 1 /\ queue' \in Seq(EventChunk)
    <3>1. Len(now) <= 1 /\ now \in Seq(EventChunk)
      BY <1>5, <2>1
    <3> QED
      BY <2>2, <3>1
  <2> QED
    <3>1. waiting' = FALSE
      BY <1>2, <1>10, <2>1
    <3> QED
      BY <1>7, <2>4, <2>5, <3>1 DEF HandledTypes
<1> QED
  BY <1>9, <1>10

(* Whatever the handler does, it is one of these.                          *)
LEMMA HandleDoes ==
  ASSUME StreamTypes, NEW c \in EventChunk, NEW gone \in BOOLEAN, Stream!Handle(c, gone)
  PROVE  Handled(c) /\ HandledTypes /\ (dropped \/ gone => dropped')
<1> USE AdaptersAssumption
<1>1. Stream!Room \in {0, 1, 2}
  <2>1. PICK n \in Nat : n = Len(queue)
    BY DEF StreamTypes
  <2>2. n <= 1 /\ (waiting => n = 0)
    BY <2>1 DEF StreamTypes
  <2> QED
    BY <2>1, <2>2 DEF Stream!Room
<1>2. dropped \in BOOLEAN
  BY DEF StreamTypes
<1>3. CASE Stream!Room = 0 /\ strategy = "drop"
  BY <1>2, <1>3, HandleDrops DEF Stream!Handle
<1>4. CASE Stream!Room = 0 /\ strategy # "drop"
  <2>1. /\ kept' = SubSeq(Append(kept, c), Stream!Max({1, Len(kept) + 2 - BufferSize}), Len(kept) + 1)
        /\ dropped' = (dropped \/ gone \/ Len(kept) = BufferSize)
        /\ UNCHANGED <<queue, waiting, client>>
    BY <1>4 DEF Stream!Handle
  <2> QED
    BY <1>2, <2>1, HandleKeeps
<1>5. CASE Stream!Room # 0
  <2> DEFINE all == Append(kept, c)
  <2>1. PICK room \in {1, 2} : Stream!Room = room
    BY <1>1, <1>5
  <2>2. /\ Stream!Enqueue(SubSeq(all, 1, Stream!Min({room, Len(all)})))
        /\ kept' = SubSeq(all, Stream!Min({room, Len(all)}) + 1, Len(all))
        /\ dropped' = (dropped \/ gone)
    BY <1>5, <2>1 DEF Stream!Handle
  <2> QED
    BY <1>2, <2>1, <2>2, HandleSends
<1> QED
  BY <1>3, <1>4, <1>5

(* Json() of some fields of an event.                                      *)
LEMMA JsonTypes ==
  ASSUME NEW g, DOMAIN g \subseteq {"timestamp", "data"},
         \A f \in DOMAIN g : g[f] \in EventTimes \cup EventData \cup {Undefined}
  PROVE  Stream!Json(g) \in EventFields
<1> DEFINE D == {f \in DOMAIN g : g[f] # Undefined}
<1>1. D \in SUBSET {"timestamp", "data"} /\ Stream!Json(g) \in [D -> EventTimes \cup EventData \cup {Undefined}]
  BY DEF Stream!Json
<1> HIDE DEF D
<1> QED
  BY <1>1 DEF EventFields

(* What the encoder sends.                                                 *)
LEMMA EncodedIs ==
  ASSUME StreamTypes, Remembered, NEW p \in EventTypes, NEW fields \in Stream!Events, Stream!Encoded(p, fields) # {}
  PROVE  \E e \in Stream!Encoded(p, fields) :
           /\ Stream!Encoded(p, fields) = {e} /\ e.whole \in BOOLEAN /\ e.fields \in EventFields
           /\ \/ e.whole /\ e.fields = Stream!Json(fields)
              \/ /\ ~e.whole /\ p \in DOMAIN latest
                 /\ Stream!Vanishes(p, fields) \/ Stream!Spread(latest[p], e.fields) = Stream!Json(fields)
<1>1. /\ DOMAIN fields = {"timestamp", "data"}
      /\ \A f \in DOMAIN fields : fields[f] \in EventTimes \cup EventData \cup {Undefined}
  BY DEF Stream!Events
<1>2. CASE mode = "full" \/ Stream!Seen(p) = {}
  <2>1. Stream!Encoded(p, fields) = {[whole |-> TRUE, fields |-> Stream!Json(fields)]}
    BY <1>2 DEF Stream!Encoded
  <2>2. Stream!Json(fields) \in EventFields
    BY <1>1, JsonTypes
  <2> QED
    BY <2>1, <2>2
<1>3. CASE ~(mode = "full" \/ Stream!Seen(p) = {})
  <2>1. PICK i \in Stream!Seen(p) : i = CHOOSE j \in Stream!Seen(p) : TRUE
    BY <1>3
  <2>2. i \in 1 .. Len(lastSeen) /\ lastSeen[i].type = p /\ p \in DOMAIN latest /\ lastSeen[i].fields = latest[p]
    BY <2>1 DEF Stream!Seen, Remembered, StreamTypes
  <2>3. PICK prev : prev = lastSeen[i].fields /\ prev = latest[p]
    BY <2>2
  <2>4. PICK changed : changed = {f \in DOMAIN fields : f \notin DOMAIN prev \/ fields[f] # prev[f]}
    OBVIOUS
  <2>5. PICK g : g = [f \in changed |-> fields[f]]
    OBVIOUS
  <2>6. Stream!Encoded(p, fields) = {[whole |-> FALSE, fields |-> Stream!Json(g)]}
    BY <1>3, <2>1, <2>3, <2>4, <2>5 DEF Stream!Encoded
  <2>7. Stream!Json(g) \in EventFields
    BY <1>1, <2>4, <2>5, JsonTypes
  <2>8. ASSUME ~Stream!Vanishes(p, fields) PROVE Stream!Spread(prev, Stream!Json(g)) = Stream!Json(fields)
    <3>1. DOMAIN prev \subseteq DOMAIN Stream!Json(fields)
      BY <1>3, <2>1, <2>3, <2>8 DEF Stream!Vanishes, StreamTypes
    <3> QED
      BY <2>4, <2>5, <3>1 DEF Stream!Spread, Stream!Json
  <2> QED
    BY <2>2, <2>3, <2>6, <2>7, <2>8
<1> QED
  BY <1>2, <1>3

(* The encoder's Map stays what it is when an event is remembered.         *)
LEMMA RememberKeeps ==
  ASSUME StreamTypes, Remembered, MaxEntries \in Nat \ {0}, NEW p \in EventTypes, NEW fields \in Stream!Events,
         latest' = Stream!Spread(latest, Stream!Only(p, Stream!Json(fields))), UNCHANGED mode,
         lastSeen' = IF mode = "delta" THEN Stream!Remember(p, fields) ELSE lastSeen
  PROVE  /\ Remembered' /\ lastSeen' \in Seq([type : EventTypes, fields : EventFields])
         /\ latest' \in UNION {[D -> EventFields] : D \in SUBSET EventTypes}
<1>1. /\ DOMAIN fields = {"timestamp", "data"}
      /\ \A f \in DOMAIN fields : fields[f] \in EventTimes \cup EventData \cup {Undefined}
  BY DEF Stream!Events
<1>2. PICK now \in EventFields : now = Stream!Json(fields)
  <2>1. Stream!Json(fields) \in EventFields
    BY <1>1, JsonTypes
  <2> QED
    BY <2>1, Zenon
<1>3. latest' \in UNION {[D -> EventFields] : D \in SUBSET EventTypes} /\ p \in DOMAIN latest' /\ latest'[p] = now
      /\ \A q \in DOMAIN latest : q # p => q \in DOMAIN latest' /\ latest'[q] = latest[q]
  <2>1. PICK D \in SUBSET EventTypes : latest \in [D -> EventFields]
    BY DEF StreamTypes
  <2>2. PICK E \in SUBSET EventTypes : E = D \cup {p}
    OBVIOUS
  <2>3. latest' \in [E -> EventFields]
    BY <1>2, <2>1, <2>2 DEF Stream!Spread, Stream!Only
  <2>4. p \in DOMAIN latest' /\ latest'[p] = now
        /\ \A q \in DOMAIN latest : q # p => q \in DOMAIN latest' /\ latest'[q] = latest[q]
    BY <1>2, <2>1, <2>2 DEF Stream!Spread, Stream!Only
  <2> QED
    BY <2>3, <2>4
<1>4. CASE mode # "delta"
  <2>1. lastSeen' = <<>>
    BY <1>4 DEF Remembered, StreamTypes
  <2> QED
    <3>1. lastSeen' \in Seq([type : EventTypes, fields : EventFields]) /\ Len(lastSeen') = 0
      <4>1. \A S : <<>> \in Seq(S)
        OBVIOUS
      <4>2. Len(<<>>) = 0
        OBVIOUS
      <4> QED
        BY <2>1, <4>1, <4>2
    <3>2. Remembered'
      BY <2>1, <3>1 DEF Remembered
    <3> QED
      BY <1>3, <3>1, <3>2
<1>5. CASE mode = "delta"
  <2> DEFINE Entry == [type : EventTypes, fields : EventFields]
  <2>1. PICK entry \in Entry : entry = [type |-> p, fields |-> now]
    BY <1>2
  <2>2. lastSeen \in Seq(Entry) /\ Len(lastSeen) \in Nat /\ DOMAIN lastSeen = 1 .. Len(lastSeen)
    BY DEF StreamTypes
  <2>3. \A i \in 1 .. Len(lastSeen) : lastSeen[i] \in Entry
    <3> HIDE DEF Entry
    <3> QED
      BY <2>2, ElementOfSeq
  <2>4. CASE Stream!Seen(p) # {}
    <3>1. lastSeen' = [i \in 1 .. Len(lastSeen) |-> IF i \in Stream!Seen(p) THEN entry ELSE lastSeen[i]]
      BY <1>2, <1>5, <2>1, <2>2, <2>4 DEF Stream!Remember
    <3>2. PICK n \in Nat : n = Len(lastSeen)
      BY <2>2
    <3>3. lastSeen' \in [1 .. n -> Entry]
      <4> HIDE DEF Entry
      <4> QED
        BY <2>3, <3>1, <3>2
    <3>4. lastSeen' \in Seq(Entry) /\ Len(lastSeen') = n
      <4> HIDE DEF Entry
      <4> QED
        BY <3>2, <3>3
    <3>5. ASSUME NEW i \in 1 .. n
          PROVE  lastSeen'[i].type \in DOMAIN latest' /\ lastSeen'[i].fields = latest'[lastSeen'[i].type]
      <4>1. CASE i \in Stream!Seen(p)
        <5>1. lastSeen'[i] = entry
          BY <3>1, <3>2, <4>1
        <5> QED
          BY <1>3, <2>1, <5>1
      <4>2. CASE i \notin Stream!Seen(p)
        <5>1. lastSeen'[i] = lastSeen[i] /\ lastSeen[i].type # p
          BY <2>2, <3>1, <3>2, <4>2 DEF Stream!Seen
        <5>2. lastSeen[i].type \in DOMAIN latest /\ lastSeen[i].fields = latest[lastSeen[i].type]
          BY <3>2 DEF Remembered
        <5> QED
          BY <1>3, <5>1, <5>2
      <4> QED
        BY <4>1, <4>2
    <3> QED
      BY <1>3, <1>5, <3>4, <3>5 DEF Remembered
  <2>5. CASE Stream!Seen(p) = {}
    <3>1. PICK old : old = IF Len(lastSeen) >= MaxEntries THEN Tail(lastSeen) ELSE lastSeen
      OBVIOUS
    <3>2. lastSeen' = Append(old, entry)
      BY <1>2, <1>5, <2>1, <2>5, <3>1 DEF Stream!Remember
    <3>3. old \in Seq(Entry) /\ \A i \in 1 .. Len(old) : \E j \in 1 .. Len(lastSeen) : old[i] = lastSeen[j]
      <4> HIDE DEF Entry
      <4>1. CASE Len(lastSeen) >= MaxEntries
        <5>1. lastSeen # <<>> /\ old = Tail(lastSeen)
          BY <2>2, <3>1, <4>1
        <5>2. old \in Seq(Entry) /\ Len(old) = Len(lastSeen) - 1 /\ \A i \in 1 .. Len(lastSeen) - 1 : old[i] = lastSeen[i + 1]
          BY <2>2, <5>1
        <5>3. \A i \in 1 .. Len(lastSeen) - 1 : i + 1 \in 1 .. Len(lastSeen)
          BY <2>2
        <5> QED
          BY <5>2, <5>3
      <4>2. CASE ~(Len(lastSeen) >= MaxEntries)
        <5>1. old = lastSeen
          BY <3>1, <4>2
        <5> QED
          BY <2>2, <5>1
      <4> QED
        BY <4>1, <4>2
    <3>4. PICK n \in Nat : n = Len(old)
      BY <3>3
    <3>5. lastSeen' \in Seq(Entry) /\ Len(lastSeen') = n + 1 /\ lastSeen'[n + 1] = entry
          /\ \A i \in 1 .. n : lastSeen'[i] = old[i]
      <4> HIDE DEF Entry
      <4>1. old \in Seq(Entry)
        BY <3>3
      <4>2. Append(old, entry) \in Seq(Entry) /\ Len(Append(old, entry)) = Len(old) + 1
            /\ Append(old, entry)[Len(old) + 1] = entry /\ \A i \in 1 .. Len(old) : Append(old, entry)[i] = old[i]
        BY <4>1
      <4> QED
        BY <3>2, <3>4, <4>2
    <3>6. ASSUME NEW i \in 1 .. n + 1
          PROVE  lastSeen'[i].type \in DOMAIN latest' /\ lastSeen'[i].fields = latest'[lastSeen'[i].type]
      <4>1. CASE i = n + 1
        BY <1>3, <2>1, <3>5, <4>1
      <4>2. CASE i # n + 1
        <5>1. PICK j \in 1 .. Len(lastSeen) : lastSeen'[i] = lastSeen[j]
          BY <3>3, <3>4, <3>5, <4>2
        <5>2. lastSeen[j].type # p
          BY <2>2, <2>5 DEF Stream!Seen
        <5>3. lastSeen[j].type \in DOMAIN latest /\ lastSeen[j].fields = latest[lastSeen[j].type]
          BY DEF Remembered
        <5> QED
          BY <1>3, <5>1, <5>2, <5>3
      <4> QED
        BY <4>1, <4>2
    <3> QED
      BY <1>3, <1>5, <3>5, <3>6 DEF Remembered
  <2> QED
    BY <2>4, <2>5
<1> QED
  BY <1>4, <1>5

(* The stream's handler: what it sends, keeps or drops.                    *)
LEMMA DispatchKeeps ==
  ASSUME StreamInv, NEW p \in EventTypes, NEW fields \in Stream!Events, Stream!Dispatch(p, fields),
         UNCHANGED <<mode, strategy, open>>
  PROVE  StreamInv'
<1> USE AdaptersAssumption
<1>1. CASE ~open
  <2>1. UNCHANGED <<id, lastSeen, queue, kept, waiting, client, latest, dropped>>
    BY <1>1 DEF Stream!Dispatch
  <2> QED
    BY <1>1, <2>1 DEF StreamInv, StreamTypes, InOrder, Remembered, Ahead, Stream!ClientCatchesUp
<1>2. CASE open
  <2>1. /\ latest' = Stream!Spread(latest, Stream!Only(p, Stream!Json(fields)))
        /\ lastSeen' = IF mode = "delta" THEN Stream!Remember(p, fields) ELSE lastSeen
    BY <1>2 DEF Stream!Dispatch
  <2>2. /\ Remembered' /\ lastSeen' \in Seq([type : EventTypes, fields : EventFields])
        /\ latest' \in UNION {[D -> EventFields] : D \in SUBSET EventTypes}
    BY <2>1, RememberKeeps DEF StreamInv
  <2>3. CASE Stream!Encoded(p, fields) = {}
    <3>1. UNCHANGED <<id, queue, kept, waiting, client, dropped>>
      BY <1>2, <2>3 DEF Stream!Dispatch
    <3>2. latest' = latest
      <4>1. ~(mode = "full" \/ Stream!Seen(p) = {})
        BY <2>3 DEF Stream!Encoded
      <4>2. PICK i \in Stream!Seen(p) : i = CHOOSE j \in Stream!Seen(p) : TRUE
        BY <4>1
      <4>3. i \in 1 .. Len(lastSeen) /\ lastSeen[i].type = p /\ p \in DOMAIN latest /\ lastSeen[i].fields = latest[p]
        BY <4>2 DEF Stream!Seen, Remembered, StreamInv, StreamTypes
      <4>4. latest[p] = Stream!Json(fields)
        BY <2>3, <4>1, <4>2, <4>3 DEF Stream!Encoded
      <4>5. PICK D \in SUBSET EventTypes : latest \in [D -> EventFields]
        BY DEF StreamInv, StreamTypes
      <4> QED
        BY <2>1, <4>3, <4>4, <4>5 DEF Stream!Spread, Stream!Only
    <3>3. StreamTypes'
      BY <2>2, <3>1 DEF StreamInv, StreamTypes
    <3>4. InOrder(client.id, Ahead, id)' /\ Stream!ClientCatchesUp'
      BY <3>1, <3>2 DEF StreamInv, InOrder, Ahead, Stream!ClientCatchesUp
    <3> QED
      BY <2>2, <3>3, <3>4 DEF StreamInv
  <2>4. CASE Stream!Encoded(p, fields) # {}
    <3>1. PICK e \in Stream!Encoded(p, fields) :
            /\ Stream!Encoded(p, fields) = {e} /\ e.whole \in BOOLEAN /\ e.fields \in EventFields
            /\ \/ e.whole /\ e.fields = Stream!Json(fields)
               \/ /\ ~e.whole /\ p \in DOMAIN latest
                  /\ Stream!Vanishes(p, fields) \/ Stream!Spread(latest[p], e.fields) = Stream!Json(fields)
      BY <2>4, EncodedIs DEF StreamInv
    <3>2. PICK c : c = [id |-> id + 1, type |-> p, whole |-> e.whole, fields |-> e.fields]
      OBVIOUS
    <3>3. c \in EventChunk /\ c.id = id + 1 /\ id \in Nat
      BY <3>1, <3>2 DEF EventChunk, StreamInv, StreamTypes
    <3>4. PICK gone \in BOOLEAN : gone = Stream!Vanishes(p, fields)
      BY DEF Stream!Vanishes
    <3>5. id' = id + 1 /\ Stream!Handle(c, gone)
      <4>1. e = CHOOSE x \in Stream!Encoded(p, fields) : TRUE
        BY <3>1
      <4> QED
        BY <1>2, <2>4, <3>2, <3>4, <4>1 DEF Stream!Dispatch
    <3>6. Handled(c) /\ HandledTypes /\ (dropped \/ gone => dropped')
      BY <3>3, <3>5, HandleDoes DEF StreamInv
    <3>7. Ahead \in Seq(EventChunk) /\ client.id \in Nat /\ InOrder(client.id, Ahead, id)
      BY DEF Ahead, StreamInv, StreamTypes
    <3>8. PICK more \in Seq(EventChunk) : more = Append(Ahead, c) /\ more # <<>>
      <4>1. Append(Ahead, c) \in Seq(EventChunk) /\ Append(Ahead, c) # <<>>
        BY <3>3, <3>7
      <4> QED
        BY <4>1, Zenon
    <3>9. InOrder(client.id, more, id + 1)
      BY <3>3, <3>7, <3>8, OrderAppend
    <3>10. Head(more).id \in Nat /\ InOrder(Head(more).id, Tail(more), id + 1)
      <4>1. PICK first \in Nat, last \in Nat : first = client.id /\ last = id + 1
        BY <3>3, <3>7
      <4>2. InOrder(first, more, last) /\ more # <<>>
        BY <3>8, <3>9, <4>1
      <4>3. Head(more).id \in Nat /\ InOrder(Head(more).id, Tail(more), last)
        BY ONLY <4>2, OrderTail, first \in Nat, last \in Nat, more \in Seq(EventChunk)
      <4> QED
        BY <4>1, <4>3
    <3>11. client'.id \in Nat /\ InOrder(client.id, Ahead, id)'
      <4>1. CASE client' = client /\ Ahead' = more
        BY <3>5, <3>7, <3>9, <4>1 DEF InOrder
      <4>2. CASE client' = Stream!Reads(client, Head(more)) /\ Ahead' = Tail(more)
        <5>1. client'.id = Head(more).id
          BY <4>2 DEF Stream!Reads
        <5> QED
          BY <3>5, <3>10, <4>2, <5>1 DEF InOrder
      <4>3. CASE client' = client /\ dropped' /\ LeavesOut(Ahead', more)
        <5>1. Ahead' \in Seq(EventChunk)
          BY <3>6 DEF HandledTypes, Ahead
        <5>2. PICK fewer \in Seq(EventChunk) : fewer = Ahead'
          BY <5>1, Zenon
        <5>3. id + 1 \in Nat
          BY <3>3
        <5>4. InOrder(client.id, fewer, id + 1)
          BY <3>7, <3>8, <3>9, <4>3, <5>2, <5>3, OrderFewer
        <5> QED
          BY <3>5, <3>7, <4>3, <5>2, <5>4 DEF InOrder
      <4> QED
        BY <3>6, <3>8, <4>1, <4>2, <4>3 DEF Handled
    <3>12. StreamTypes'
      BY <2>2, <3>3, <3>5, <3>6, <3>11 DEF HandledTypes, StreamInv, StreamTypes
    <3>13. ASSUME ~dropped' PROVE Stream!After(client', Ahead').knows = latest'
      <4>1. ~dropped /\ ~gone
        BY <3>6, <3>13
      <4>2. PICK know : know = Stream!After(client, Ahead)
        OBVIOUS
      <4>3. know.knows = latest
        BY <1>2, <4>1, <4>2 DEF StreamInv, Stream!ClientCatchesUp, Ahead
      <4>4. Stream!After(client, more) = Stream!Reads(know, c)
        BY <3>3, <3>7, <3>8, <4>2, AfterOneMore
      <4>5. Stream!After(client', Ahead') = Stream!Reads(know, c)
        <5>1. Stream!After(client, more) = Stream!After(Stream!Reads(client, Head(more)), Tail(more))
          BY <3>8, AfterFirst
        <5>2. \/ client' = client /\ Ahead' = more
              \/ client' = Stream!Reads(client, Head(more)) /\ Ahead' = Tail(more)
          BY <3>6, <3>8, <3>13 DEF Handled
        <5> QED
          BY <4>4, <5>1, <5>2
      <4>6. Stream!Reads(know, c).knows
              = Stream!Spread(latest, Stream!Only(p, IF e.whole \/ p \notin DOMAIN latest THEN e.fields
                                                     ELSE Stream!Spread(latest[p], e.fields)))
        BY <3>2, <4>3 DEF Stream!Reads
      <4>7. (IF e.whole \/ p \notin DOMAIN latest THEN e.fields ELSE Stream!Spread(latest[p], e.fields)) = Stream!Json(fields)
        BY <3>1, <3>4, <4>1
      <4> QED
        BY <2>1, <4>5, <4>6, <4>7
    <3>14. Stream!ClientCatchesUp'
      BY <3>13 DEF Stream!ClientCatchesUp, Ahead
    <3> QED
      BY <2>2, <3>11, <3>12, <3>14 DEF StreamInv
  <2> QED
    BY <2>3, <2>4
<1> QED
  BY <1>1, <1>2

(* The client reads what is queued, or waits.                              *)
LEMMA ReadKeeps ==
  ASSUME StreamInv, Stream!Read
  PROVE  StreamInv'
<1>1. /\ open /\ ~waiting /\ UNCHANGED <<mode, strategy, open, bubbles, id, lastSeen, kept, latest, dropped>>
      /\ Remembered'
  BY DEF Stream!Read, StreamInv, Remembered
<1>2. queue \in Seq(EventChunk) /\ kept \in Seq(EventChunk) /\ Ahead \in Seq(EventChunk) /\ client.id \in Nat /\ id \in Nat
      /\ InOrder(client.id, Ahead, id) /\ Len(queue) <= 1 /\ Len(queue) \in Nat
  BY DEF StreamInv, StreamTypes, Ahead
<1>3. CASE queue = <<>>
  <2>1. waiting' = TRUE /\ UNCHANGED <<queue, client>>
    BY <1>3 DEF Stream!Read
  <2>2. StreamTypes'
    <3>1. StreamTypes
      BY ONLY StreamInv DEF StreamInv
    <3>2. latest' \in UNION {[D -> EventFields] : D \in SUBSET EventTypes}
      BY ONLY <1>1, <3>1, Zenon DEF StreamTypes
    <3>3. /\ id' \in Nat /\ queue' \in Seq(EventChunk) /\ kept' \in Seq(EventChunk) /\ waiting' \in BOOLEAN
          /\ mode' \in {"full", "delta"} /\ lastSeen' \in Seq([type : EventTypes, fields : EventFields])
          /\ client'.id \in Nat /\ open' \in BOOLEAN /\ dropped' \in BOOLEAN
          /\ Len(queue') <= 1 /\ Len(kept') <= BufferSize /\ (waiting' => queue' = <<>>)
      <4>1. /\ id \in Nat /\ queue \in Seq(EventChunk) /\ kept \in Seq(EventChunk)
            /\ mode \in {"full", "delta"} /\ lastSeen \in Seq([type : EventTypes, fields : EventFields])
            /\ client.id \in Nat /\ dropped \in BOOLEAN /\ Len(queue) <= 1 /\ Len(kept) <= BufferSize
        BY ONLY <3>1, Zenon DEF StreamTypes
      <4> QED
        BY ONLY <1>1, <1>3, <2>1, <4>1, Zenon
    <3> QED
      BY ONLY <3>2, <3>3, Zenon DEF StreamTypes
  <2> QED
    BY <1>1, <2>1, <2>2 DEF StreamInv, InOrder, Ahead, Stream!ClientCatchesUp
<1>4. CASE queue # <<>>
  <2>1. client' = Stream!Reads(client, Head(queue)) /\ queue' = Tail(queue) /\ UNCHANGED waiting
    BY <1>4 DEF Stream!Read
  <2>2. Ahead # <<>> /\ Head(Ahead) = Head(queue) /\ Tail(Ahead) = Tail(queue) \o kept
    BY <1>2, <1>4 DEF Ahead
  <2>3. Ahead' = Tail(Ahead)
    BY <1>1, <2>1, <2>2 DEF Ahead
  <2>4. Head(Ahead).id \in Nat /\ InOrder(Head(Ahead).id, Tail(Ahead), id)
    BY <1>2, <2>2, OrderTail
  <2>5. client'.id = Head(Ahead).id
    BY <2>1, <2>2 DEF Stream!Reads
  <2>6. InOrder(client.id, Ahead, id)'
    BY <1>1, <2>3, <2>4, <2>5 DEF InOrder
  <2>7. StreamTypes'
    <3>1. Tail(queue) \in Seq(EventChunk) /\ Len(Tail(queue)) <= 1
      BY <1>2, <1>4
    <3>2. StreamTypes
      BY ONLY StreamInv DEF StreamInv
    <3>3. id' \in Nat /\ queue' \in Seq(EventChunk) /\ kept' \in Seq(EventChunk) /\ waiting' \in BOOLEAN
      <4>1. id \in Nat /\ kept \in Seq(EventChunk) /\ waiting \in BOOLEAN
        BY ONLY <3>2, Zenon DEF StreamTypes
      <4> QED
        BY ONLY <1>1, <2>1, <3>1, <4>1, Zenon
    <3>4. /\ mode' \in {"full", "delta"} /\ lastSeen' \in Seq([type : EventTypes, fields : EventFields])
          /\ client'.id \in Nat /\ open' \in BOOLEAN /\ dropped' \in BOOLEAN
      <4>1. /\ mode \in {"full", "delta"} /\ lastSeen \in Seq([type : EventTypes, fields : EventFields])
            /\ open \in BOOLEAN /\ dropped \in BOOLEAN
        BY ONLY <3>2, Zenon DEF StreamTypes
      <4> QED
        BY ONLY <1>1, <2>4, <2>5, <4>1, Zenon
    <3>5. latest' \in UNION {[D -> EventFields] : D \in SUBSET EventTypes}
      BY ONLY <1>1, <3>2, Zenon DEF StreamTypes
    <3>6. Len(queue') <= 1 /\ Len(kept') <= BufferSize /\ (waiting' => queue' = <<>>)
      <4>1. Len(kept) <= BufferSize
        BY ONLY <3>2, Zenon DEF StreamTypes
      <4> QED
        BY ONLY <1>1, <2>1, <3>1, <4>1, Zenon
    <3> QED
      BY ONLY <3>3, <3>4, <3>5, <3>6, Zenon DEF StreamTypes
  <2>8. Stream!After(client', Ahead') = Stream!After(client, Ahead)
    <3>1. Stream!After(client, Ahead) = Stream!After(Stream!Reads(client, Head(Ahead)), Tail(Ahead))
      BY <1>2, <2>2, AfterFirst
    <3> QED
      BY <2>1, <2>2, <2>3, <3>1
  <2> QED
    BY <1>1, <2>6, <2>7, <2>8 DEF StreamInv, Stream!ClientCatchesUp, Ahead
<1> QED
  BY <1>3, <1>4

(* The client goes: the stream's own queue is forgotten.                   *)
LEMMA CancelKeeps ==
  ASSUME StreamInv, Stream!Cancel
  PROVE  StreamInv'
<1>1. /\ open' = FALSE /\ queue' = <<>> /\ waiting' = FALSE
      /\ UNCHANGED <<mode, strategy, bubbles, id, lastSeen, kept, client, latest, dropped>>
  BY DEF Stream!Cancel
<1>2. StreamTypes' /\ Remembered' /\ Stream!ClientCatchesUp'
  <2>1. StreamTypes'
    <3>1. StreamTypes
      BY ONLY StreamInv DEF StreamInv
    <3>2. id' \in Nat /\ queue' \in Seq(EventChunk) /\ kept' \in Seq(EventChunk) /\ waiting' \in BOOLEAN
      <4>1. id \in Nat /\ kept \in Seq(EventChunk)
        BY ONLY <3>1, Zenon DEF StreamTypes
      <4>2. \A S : <<>> \in Seq(S)
        OBVIOUS
      <4> QED
        BY ONLY <1>1, <4>1, <4>2, Zenon
    <3>3. /\ mode' \in {"full", "delta"} /\ lastSeen' \in Seq([type : EventTypes, fields : EventFields])
          /\ client'.id \in Nat /\ open' \in BOOLEAN /\ dropped' \in BOOLEAN
      <4>1. /\ mode \in {"full", "delta"} /\ lastSeen \in Seq([type : EventTypes, fields : EventFields])
            /\ client.id \in Nat /\ dropped \in BOOLEAN
        BY ONLY <3>1, Zenon DEF StreamTypes
      <4> QED
        BY ONLY <1>1, <4>1, Zenon
    <3>4. latest' \in UNION {[D -> EventFields] : D \in SUBSET EventTypes}
      BY ONLY <1>1, <3>1, Zenon DEF StreamTypes
    <3>5. Len(queue') <= 1 /\ Len(kept') <= BufferSize /\ (waiting' => queue' = <<>>)
      <4>1. Len(kept) <= BufferSize
        BY ONLY <3>1, Zenon DEF StreamTypes
      <4>2. Len(<<>>) <= 1
        OBVIOUS
      <4> QED
        BY ONLY <1>1, <4>1, <4>2, Zenon
    <3> QED
      BY ONLY <3>2, <3>3, <3>4, <3>5, Zenon DEF StreamTypes
  <2>2. Remembered'
    <3>1. Remembered
      BY ONLY StreamInv DEF StreamInv
    <3> QED
      BY ONLY <1>1, <3>1 DEF Remembered
  <2>3. Stream!ClientCatchesUp'
    BY <1>1 DEF Stream!ClientCatchesUp
  <2> QED
    BY <2>1, <2>2, <2>3
<1>3. queue \in Seq(EventChunk) /\ kept \in Seq(EventChunk) /\ client.id \in Nat /\ id \in Nat /\ InOrder(client.id, Ahead, id)
  BY DEF StreamInv, StreamTypes
<1>4. Ahead' = kept
  BY <1>1, <1>3 DEF Ahead
<1>5. InOrder(client.id, kept, id)
  <2>1. /\ Len(Ahead) = Len(queue) + Len(kept) /\ Len(queue) \in Nat /\ Len(kept) \in Nat
        /\ \A i \in 1 .. Len(kept) : Ahead[Len(queue) + i] = kept[i]
    BY <1>3, AheadHas DEF Ahead
  <2>2. \A i \in 1 .. Len(kept) : Len(queue) + i \in 1 .. Len(Ahead)
    BY <2>1
  <2>3. \A i, j \in 1 .. Len(kept) : i < j => Len(queue) + i < Len(queue) + j
    BY <2>1
  <2> QED
    BY <1>3, <2>1, <2>2, <2>3 DEF InOrder
<1> QED
  BY <1>1, <1>2, <1>4, <1>5 DEF StreamInv, InOrder

(* Nothing is known and nothing is on its way at the beginning.            *)
LEMMA StreamStart ==
  ASSUME Stream!Init
  PROVE  StreamInv
<1> USE AdaptersAssumption
<1>1. StreamTypes /\ Remembered
  <2>1. latest \in [{} -> EventFields]
    BY DEF Stream!Init, Stream!Unknown
  <2>2. latest \in UNION {[D -> EventFields] : D \in SUBSET EventTypes}
    BY <2>1
  <2>3. Remembered
    BY DEF Stream!Init, Remembered
  <2>4. StreamTypes
    <3>1. /\ mode \in {"full", "delta"} /\ open = TRUE /\ id = 0 /\ lastSeen = <<>> /\ queue = <<>> /\ kept = <<>>
          /\ waiting = FALSE /\ client.id = 0 /\ dropped = FALSE
      BY ONLY Stream!Init DEF Stream!Init
    <3>2. \A S : <<>> \in Seq(S)
      OBVIOUS
    <3>3. Len(queue) <= 1 /\ Len(kept) <= BufferSize /\ id \in Nat /\ client.id \in Nat
      BY ONLY <3>1, AdaptersAssumption DEF AdaptersAssumption
    <3> QED
      BY ONLY <2>2, <3>1, <3>2, <3>3, Zenon DEF StreamTypes
  <2> QED
    BY <2>3, <2>4
<1>2. queue \o kept = <<>>
  BY DEF Stream!Init
<1>3. InOrder(client.id, Ahead, id)
  BY <1>2 DEF Stream!Init, InOrder, Ahead
<1>4. Stream!ClientCatchesUp
  BY <1>2, AfterNone DEF Stream!Init, Stream!ClientCatchesUp
<1> QED
  BY <1>1, <1>3, <1>4 DEF StreamInv

(* Every step of the stream keeps its invariant.                           *)
LEMMA StreamStep ==
  ASSUME StreamInv, [Stream!Next]_streamVars
  PROVE  StreamInv'
<1>1. ASSUME NEW p \in EventTypes, NEW fields \in Stream!Events, Stream!Emit(p, fields) PROVE StreamInv'
  BY <1>1, DispatchKeeps DEF Stream!Emit
<1>2. ASSUME NEW p \in EventTypes, NEW fields \in Stream!Events, NEW child \in Children, Stream!EmitInChild(child, p, fields)
      PROVE  StreamInv'
  <2>1. CASE bubbles[child] < MaxBubbles
    BY <1>2, <2>1, DispatchKeeps DEF Stream!EmitInChild
  <2>2. CASE ~(bubbles[child] < MaxBubbles)
    BY <1>2, <2>2 DEF Stream!EmitInChild, StreamInv, StreamTypes, InOrder, Remembered, Ahead, Stream!ClientCatchesUp
  <2> QED
    BY <2>1, <2>2
<1>3. ASSUME NEW child \in Children, Stream!NewSecond(child) PROVE StreamInv'
  BY <1>3 DEF Stream!NewSecond, StreamInv, StreamTypes, InOrder, Remembered, Ahead, Stream!ClientCatchesUp
<1>4. CASE UNCHANGED streamVars
  BY <1>4 DEF streamVars, StreamInv, StreamTypes, InOrder, Remembered, Ahead, Stream!ClientCatchesUp
<1> QED
  BY <1>1, <1>2, <1>3, <1>4, ReadKeeps, CancelKeeps DEF Stream!Next

(* What the invariant says to those who read the stream.                   *)
LEMMA StreamShows ==
  ASSUME StreamInv
  PROVE  Stream!ClientKeepsUp
<1>1. queue \in Seq(EventChunk) /\ kept \in Seq(EventChunk) /\ Ahead \in Seq(EventChunk) /\ client.id \in Nat /\ id \in Nat
      /\ InOrder(client.id, Ahead, id) /\ Len(queue) <= 1 /\ Len(kept) <= BufferSize
  BY DEF StreamInv, StreamTypes, Ahead
<1> DEFINE C == EventChunk \cup {client}
           line == <<client>> \o queue \o kept
<1>2. PICK n \in Nat : n = Len(Ahead)
  BY <1>1
<1>3. line = <<client>> \o Ahead
  <2>1. <<client>> \in Seq(C) /\ queue \in Seq(C) /\ kept \in Seq(C)
    BY <1>1, SeqMonotonic
  <2> HIDE DEF C
  <2> QED
    BY <2>1, ConcatAssociative DEF Ahead
<1>4. /\ DOMAIN line = 1 .. n + 1 /\ line[1] = client
      /\ \A i \in 1 .. n : line[1 + i] = Ahead[i]
  <2>1. <<client>> \in Seq(C) /\ Ahead \in Seq(C) /\ Len(<<client>>) = 1 /\ <<client>>[1] = client
    BY <1>1, SeqMonotonic
  <2> HIDE DEF C
  <2>2. /\ <<client>> \o Ahead \in Seq(C) /\ Len(<<client>> \o Ahead) = 1 + n
        /\ (<<client>> \o Ahead)[1] = client /\ \A i \in 1 .. n : (<<client>> \o Ahead)[1 + i] = Ahead[i]
    BY <1>2, <2>1
  <2> QED
    BY <1>2, <1>3, <2>2
<1> HIDE DEF line
<1>5. ASSUME NEW i \in 1 .. n + 1, NEW j \in 1 .. n + 1, i < j PROVE line[i].id < line[j].id
  <2>1. j - 1 \in 1 .. n /\ 1 + (j - 1) = j
    BY <1>5
  <2>2. line[j] = Ahead[j - 1]
    BY <1>4, <2>1
  <2>3. CASE i = 1
    BY <1>1, <1>2, <1>4, <2>1, <2>2, <2>3 DEF InOrder
  <2>4. CASE i # 1
    <3>1. i - 1 \in 1 .. n /\ 1 + (i - 1) = i /\ i - 1 < j - 1
      BY <1>5, <2>4
    <3>2. line[i] = Ahead[i - 1]
      BY <1>4, <3>1
    <3> QED
      BY <1>1, <1>2, <2>1, <2>2, <3>1, <3>2 DEF InOrder
  <2> QED
    BY <2>3, <2>4
<1>6. Stream!StreamKeepsOrder
  BY <1>1, <1>4, <1>5 DEF Stream!StreamKeepsOrder, line
<1> QED
  BY <1>6 DEF Stream!ClientKeepsUp, StreamInv

(* Who subscribed did so after some of the events; every post is of a later*)
(* one; and who is subscribed was posted what it wants, once.              *)
Subscription == [nth : Nat, config : Webhooks, since : Nat]
PostTypes == [to : Subscription, number : Nat, status : Push!Types, place : {"sent", "over"}]

Posted(all, s, n) == {p \in all : p.to = s /\ p.number = n}
PostedOnce(all, s, n, event) ==
  \E place \in {"sent", "over"} : Posted(all, s, n) = {[to |-> s, number |-> n, status |-> event, place |-> place]}
PostedRight(all, s, n, event) ==
  IF n > s.since /\ event \in s.config.events THEN PostedOnce(all, s, n, event) ELSE Posted(all, s, n) = {}

PushTypes ==
  /\ known \in {"absent"} \cup Push!Types /\ emitted \in Seq(Push!Types)
  /\ subscriptions \subseteq Subscription /\ posts \subseteq PostTypes
  /\ known # "absent" => emitted # <<>> /\ known = Push!Newest

PushInv ==
  /\ PushTypes
  /\ \A s \in subscriptions : s.since <= Len(emitted)
  /\ \A p \in posts : p.to.since < p.number /\ p.number <= Len(emitted)
  /\ \A s \in subscriptions, n \in 1 .. Len(emitted) : PostedRight(posts, s, n, emitted[n])

(* The events a turn emits are posted to those who are subscribed.         *)
LEMMA EmitsKeep ==
  ASSUME PushInv, NEW more \in Seq(Push!Types), more # <<>>, Push!Emits(more), UNCHANGED subscriptions,
         known' = more[Len(more)]
  PROVE  PushInv'
<1> DEFINE New(q) == \E i \in 1 .. Len(more) : \E s \in subscriptions :
                       more[i] \in s.config.events /\ q = [to |-> s, number |-> Len(emitted) + i, status |-> more[i], place |-> "sent"]
<1>1. PICK first \in Nat : first = Len(emitted)
  BY DEF PushInv, PushTypes
<1>2. PICK k \in Nat \ {0} : k = Len(more)
  OBVIOUS
<1>3. emitted' = emitted \o more /\ posts' = posts \cup UNION {Push!Posts(more[i], first + i) : i \in DOMAIN more}
  BY <1>1 DEF Push!Emits
<1>4. /\ emitted' \in Seq(Push!Types) /\ Len(emitted') = first + k
      /\ \A i \in 1 .. first : emitted'[i] = emitted[i]
      /\ \A i \in 1 .. k : emitted'[first + i] = more[i]
  <2>1. emitted \in Seq(Push!Types)
    BY DEF PushInv, PushTypes
  <2>2. /\ emitted \o more \in Seq(Push!Types) /\ Len(emitted \o more) = first + k
        /\ \A i \in 1 .. first : (emitted \o more)[i] = emitted[i]
        /\ \A i \in 1 .. k : (emitted \o more)[first + i] = more[i]
    BY <1>1, <1>2, <2>1
  <2> QED
    BY <1>3, <2>2
<1>5. DOMAIN more = 1 .. k /\ \A i \in 1 .. k : more[i] \in Push!Types
  <2>1. \A i \in 1 .. Len(more) : more[i] \in Push!Types
    BY ElementOfSeq
  <2> QED
    BY <1>2, <2>1
<1>6. \A q : q \in posts' <=> q \in posts \/ New(q)
  <2>1. ASSUME NEW q, q \in posts', q \notin posts PROVE New(q)
    <3>1. PICK i \in 1 .. k : q \in Push!Posts(more[i], first + i)
      BY <1>3, <1>5, <2>1
    <3> QED
      BY <1>1, <1>2, <3>1 DEF Push!Posts
  <2>2. ASSUME NEW q, New(q) PROVE q \in posts'
    <3>1. PICK i \in 1 .. k : \E s \in subscriptions :
            more[i] \in s.config.events /\ q = [to |-> s, number |-> first + i, status |-> more[i], place |-> "sent"]
      BY <1>1, <1>2, <2>2
    <3>2. q \in Push!Posts(more[i], first + i)
      BY <3>1 DEF Push!Posts
    <3> QED
      BY <1>3, <1>5, <3>2
  <2>3. posts \subseteq posts'
    BY <1>3
  <2> QED
    BY <2>1, <2>2, <2>3
<1>7. subscriptions \subseteq Subscription /\ posts \subseteq PostTypes /\ \A s \in subscriptions : s.since \in Nat /\ s.since <= first
  BY <1>1 DEF PushInv, PushTypes, Subscription
<1>8. PushTypes'
  <2>1. ASSUME NEW q \in posts' PROVE q \in PostTypes
    <3>1. CASE q \in posts
      BY <1>7, <3>1
    <3>2. CASE New(q)
      BY <1>1, <1>2, <1>5, <1>7, <3>2 DEF PostTypes
    <3> QED
      BY <1>6, <3>1, <3>2
  <2>2. known' \in Push!Types /\ emitted'[Len(emitted')] = known' /\ emitted' # <<>>
    <3>1. first + k \in Nat \ {0} /\ k \in 1 .. k
      BY <1>1, <1>2
    <3> QED
      BY <1>2, <1>4, <1>5, <3>1
  <2> QED
    BY <1>4, <1>7, <2>1, <2>2 DEF PushTypes, Push!Newest
<1>9. ASSUME NEW q \in posts' PROVE q.to.since < q.number /\ q.number <= first + k
  <2>1. CASE q \in posts
    BY <1>1, <1>2, <1>7, <2>1 DEF PushInv, PostTypes
  <2>2. CASE New(q)
    BY <1>1, <1>2, <1>7, <2>2
  <2> QED
    BY <1>6, <2>1, <2>2
<1>10. ASSUME NEW s \in subscriptions, NEW n \in 1 .. first + k
       PROVE  PostedRight(posts', s, n, emitted'[n])
  <2>1. CASE n <= first
    <3>1. n \in 1 .. Len(emitted) /\ emitted'[n] = emitted[n]
      BY <1>1, <1>4, <2>1
    <3>2. Posted(posts', s, n) = Posted(posts, s, n)
      <4>1. \A q : New(q) => q.number # n
        BY <1>1, <2>1
      <4> QED
        BY <1>6, <4>1 DEF Posted
    <3>3. PostedRight(posts, s, n, emitted[n])
      BY <3>1 DEF PushInv
    <3> QED
      BY <3>1, <3>2, <3>3 DEF PostedRight, PostedOnce
  <2>2. CASE ~(n <= first)
    <3>1. PICK j \in 1 .. k : n = first + j /\ emitted'[n] = more[j] /\ n > s.since
      <4>1. n - first \in 1 .. k /\ n = first + (n - first) /\ n > s.since
        BY <1>1, <1>2, <1>7, <2>2
      <4> QED
        BY <1>4, <4>1
    <3>2. \A q \in posts : q.number # n
      BY <1>1, <1>7, <2>2 DEF PushInv, PostTypes
    <3>3. \A q : q \in Posted(posts', s, n) <=> more[j] \in s.config.events
                                        /\ q = [to |-> s, number |-> n, status |-> more[j], place |-> "sent"]
      <4>1. ASSUME NEW q, q \in Posted(posts', s, n) PROVE more[j] \in s.config.events
                                        /\ q = [to |-> s, number |-> n, status |-> more[j], place |-> "sent"]
        <5>1. q.to = s /\ q.number = n /\ New(q)
          BY <1>6, <3>2, <4>1 DEF Posted
        <5>2. PICK i \in 1 .. k : more[i] \in s.config.events /\ q = [to |-> s, number |-> first + i, status |-> more[i], place |-> "sent"]
          BY <1>1, <1>2, <5>1
        <5>3. i = j
          BY <1>1, <3>1, <5>1, <5>2
        <5> QED
          BY <3>1, <5>2, <5>3
      <4>2. ASSUME NEW q, more[j] \in s.config.events, q = [to |-> s, number |-> n, status |-> more[j], place |-> "sent"]
            PROVE  q \in Posted(posts', s, n)
        <5>1. New(q)
          BY <1>1, <1>2, <3>1, <4>2
        <5> QED
          BY <1>6, <4>2, <5>1 DEF Posted
      <4> QED
        BY <4>1, <4>2
    <3>4. CASE more[j] \in s.config.events
      <4>1. Posted(posts', s, n) = {[to |-> s, number |-> n, status |-> more[j], place |-> "sent"]}
        BY <3>3, <3>4
      <4>2. PostedOnce(posts', s, n, emitted'[n])
        BY <3>1, <4>1 DEF PostedOnce
      <4> QED
        BY <3>1, <3>4, <4>2 DEF PostedRight
    <3>5. CASE more[j] \notin s.config.events
      <4>1. Posted(posts', s, n) = {}
        BY <3>3, <3>5
      <4> QED
        BY <3>1, <3>5, <4>1 DEF PostedRight
    <3> QED
      BY <3>4, <3>5
  <2> QED
    BY <2>1, <2>2
<1>11. \A s \in subscriptions' : s.since <= Len(emitted')
  BY <1>1, <1>2, <1>4, <1>7
<1> QED
  BY <1>4, <1>8, <1>9, <1>10, <1>11 DEF PushInv

(* Who subscribes is posted nothing from before.                           *)
LEMMA SubscribeKeeps ==
  ASSUME PushInv, NEW c \in Webhooks, Push!Subscribe(c), MaxWebhooks \in Nat
  PROVE  PushInv'
<1>1. PICK n \in Nat : n \in Push!Unused /\ n = CHOOSE m \in Push!Unused : TRUE
  BY DEF Push!Subscribe, Push!Unused
<1>2. PICK new : new = [nth |-> n, config |-> c, since |-> Len(emitted)]
  OBVIOUS
<1>3. subscriptions' = subscriptions \cup {new} /\ UNCHANGED <<known, emitted, posts>>
  BY <1>1, <1>2 DEF Push!Subscribe
<1>4. Len(emitted) \in Nat
  BY DEF PushInv, PushTypes
<1>5. new \in Subscription /\ new.since = Len(emitted)
  BY <1>2, <1>4 DEF Subscription
<1>6. \A m \in 1 .. Len(emitted) : Posted(posts, new, m) = {}
  BY <1>4, <1>5 DEF Posted, PushInv, PushTypes, PostTypes, Subscription
<1>7. PushTypes'
  BY <1>3, <1>5 DEF PushInv, PushTypes, Push!Newest
<1>9. ASSUME NEW s \in subscriptions', NEW m \in 1 .. Len(emitted)
      PROVE  PostedRight(posts', s, m, emitted'[m])
  <2>1. CASE s = new
    <3>1. ~(m > s.since)
      BY <1>4, <1>5, <2>1
    <3> QED
      BY <1>3, <1>6, <2>1, <3>1 DEF PostedRight
  <2>2. CASE s \in subscriptions
    BY <1>3, <2>2 DEF PushInv
  <2> QED
    BY <1>3, <2>1, <2>2
<1>10. /\ \A s \in subscriptions' : s.since <= Len(emitted')
       /\ \A p \in posts' : p.to.since < p.number /\ p.number <= Len(emitted')
  BY <1>3, <1>4, <1>5 DEF PushInv
<1> QED
  BY <1>3, <1>7, <1>9, <1>10 DEF PushInv

(* Who leaves, and an entry that is evicted, take nothing along.           *)
LEMMA FewerKeep ==
  ASSUME PushInv, subscriptions' \subseteq subscriptions, UNCHANGED <<emitted, posts>>, known' \in {known, "absent"}
  PROVE  PushInv'
<1>2. PushTypes'
  BY DEF PushInv, PushTypes, Push!Newest
<1> QED
  BY <1>2 DEF PushInv

(* A fetch is over.                                                        *)
LEMMA OverKeeps ==
  ASSUME PushInv, NEW p \in posts, Push!Over(p)
  PROVE  PushInv'
<1>1. PICK over : over = [p EXCEPT !.place = "over"]
  OBVIOUS
<1>2. posts' = (posts \ {p}) \cup {over} /\ UNCHANGED <<known, subscriptions, emitted>>
  BY <1>1 DEF Push!Over
<1>3. p \in PostTypes
  BY DEF PushInv, PushTypes
<1>4. over \in PostTypes /\ over = [to |-> p.to, number |-> p.number, status |-> p.status, place |-> "over"]
  BY <1>1, <1>3 DEF PostTypes
<1>5. PushTypes'
  BY <1>2, <1>4 DEF PushInv, PushTypes, Push!Newest
<1>6. ASSUME NEW q \in posts' PROVE q.to.since < q.number /\ q.number <= Len(emitted')
  <2>1. CASE q \in posts
    BY <1>2, <2>1 DEF PushInv
  <2>2. CASE q = over
    <3>1. p.to.since < p.number /\ p.number <= Len(emitted)
      BY DEF PushInv
    <3> QED
      BY <1>2, <1>4, <2>2, <3>1
  <2> QED
    BY <1>2, <2>1, <2>2
<1>7. ASSUME NEW s \in subscriptions', NEW n \in 1 .. Len(emitted')
      PROVE  PostedRight(posts', s, n, emitted'[n])
  <2>1. s \in subscriptions /\ n \in 1 .. Len(emitted) /\ emitted'[n] = emitted[n]
    BY <1>2
  <2>2. PostedRight(posts, s, n, emitted[n])
    BY <2>1 DEF PushInv
  <2>3. CASE p.to = s /\ p.number = n
    <3>1. p \in Posted(posts, s, n)
      BY <2>3 DEF Posted
    <3>2. n > s.since /\ emitted[n] \in s.config.events
      BY <2>2, <3>1 DEF PostedRight
    <3>3. Posted(posts, s, n) = {p} /\ p.status = emitted[n]
      BY <2>2, <3>1, <3>2 DEF PostedRight, PostedOnce
    <3>4. Posted(posts', s, n) = {over}
      BY <1>2, <1>4, <2>3, <3>3 DEF Posted
    <3>5. PostedOnce(posts', s, n, emitted[n])
      BY <1>4, <2>3, <3>3, <3>4 DEF PostedOnce
    <3> QED
      BY <2>1, <3>2, <3>5 DEF PostedRight
  <2>4. CASE ~(p.to = s /\ p.number = n)
    <3>1. Posted(posts', s, n) = Posted(posts, s, n)
      BY <1>2, <1>4, <2>4 DEF Posted
    <3> QED
      BY <2>1, <2>2, <3>1 DEF PostedRight, PostedOnce
  <2> QED
    BY <2>3, <2>4
<1>8. \A s \in subscriptions' : s.since <= Len(emitted')
  BY <1>2 DEF PushInv
<1> QED
  BY <1>5, <1>6, <1>7, <1>8 DEF PushInv

(* Nobody is subscribed at the beginning.                                  *)
LEMMA PushStart ==
  ASSUME Push!Init
  PROVE  PushInv
BY DEF Push!Init, PushInv, PushTypes

(* Every step of the notifier keeps its invariant.                         *)
LEMMA PushStep ==
  ASSUME PushInv, [Push!Next]_pushVars, MaxWebhooks \in Nat
  PROVE  PushInv'
<1>1. ASSUME NEW c \in Webhooks, Push!Subscribe(c) PROVE PushInv'
  BY <1>1, SubscribeKeeps
<1>2. ASSUME NEW s \in subscriptions, Push!Unsubscribe(s.config.url) PROVE PushInv'
  BY <1>2, FewerKeep DEF Push!Unsubscribe
<1>3. CASE Push!SendTask
  <2>1. <<"queued", "running">> \in Seq(Push!Types) /\ <<"queued", "running">> # <<>>
        /\ Len(<<"queued", "running">>) = 2 /\ <<"queued", "running">>[2] = "running"
    BY DEF Push!Types
  <2> QED
    BY <1>3, <2>1, EmitsKeep DEF Push!SendTask
<1>4. ASSUME NEW s \in {"running", "completed", "failed"}, Push!Mark(s) PROVE PushInv'
  <2>1. <<s>> \in Seq(Push!Types) /\ <<s>> # <<>> /\ Len(<<s>>) = 1 /\ <<s>>[1] = s
    BY DEF Push!Types
  <2> QED
    BY <1>4, <2>1, EmitsKeep DEF Push!Mark
<1>5. CASE Push!CancelTask
  <2>1. <<"cancelled">> \in Seq(Push!Types) /\ <<"cancelled">> # <<>>
        /\ Len(<<"cancelled">>) = 1 /\ <<"cancelled">>[1] = "cancelled"
    BY DEF Push!Types
  <2> QED
    BY <1>5, <2>1, EmitsKeep DEF Push!CancelTask
<1>6. CASE Push!Evict
  BY <1>6, FewerKeep DEF Push!Evict
<1>7. ASSUME NEW p \in posts, Push!Over(p) PROVE PushInv'
  BY <1>7, OverKeeps
<1>8. CASE UNCHANGED pushVars
  BY <1>8, FewerKeep DEF pushVars
<1> QED
  BY <1>1, <1>2, <1>3, <1>4, <1>5, <1>6, <1>7, <1>8 DEF Push!Next

(* What the invariant says to those who subscribed.                        *)
LEMMA PushShows ==
  ASSUME PushInv
  PROVE  Push!WebhooksAreTold
<1>1. DOMAIN emitted = 1 .. Len(emitted)
  BY DEF PushInv, PushTypes
<1> QED
  BY <1>1 DEF PushInv, PushTypes, Push!WebhooksAreTold, PostedRight, PostedOnce, Posted

-----------------------------------------------------------------------------
(* For any types, times and data of events, any children, bubbles per      *)
(* second, buffer and entries of the encoder: the chunks on their way are  *)
(* in the order of their ids, and reading them leads to what happened last *)
(* unless some were dropped.                                               *)
THEOREM StreamInvariance == Stream!Init /\ [][Stream!Next]_streamVars => []StreamInv
BY StreamStart, StreamStep, PTL

(* For any webhooks: the posts are those of the events since who they are  *)
(* for subscribed, each that is wanted once.                               *)
THEOREM PushInvariance == Push!Init /\ [][Push!Next]_pushVars => []PushInv
BY PushStart, PushStep, AdaptersAssumption, PTL

(* A client of the stream and the webhooks of a task are told what         *)
(* happened: in order, once, and up to the last of it.                     *)
THEOREM TheyAreTold ==
  Stream!Init /\ [][Stream!Next]_streamVars /\ Push!Init /\ [][Push!Next]_pushVars => []ClientsAreTold
<1>1. StreamInv /\ PushInv => ClientsAreTold
  BY StreamShows, PushShows DEF ClientsAreTold
<1> QED
  BY <1>1, StreamInvariance, PushInvariance, PTL

-----------------------------------------------------------------------------
(* Paths, segment after segment.  The same path leads to the same place in *)
(* both kinds of filesystem, unless it is refused or leaves its zone.      *)
Segments == FileNames \cup Trees!Idle \cup {Trees!Up, "base", "transient", "persistent"}
Keys == Seq(Segments)

IsNormal(f, path, n) ==
  f = [k \in 0 .. n |-> IF k = 0 THEN <<>>
                        ELSE IF path[k] \in Trees!Idle THEN f[k - 1]
                        ELSE IF path[k] # Trees!Up THEN Append(f[k - 1], path[k])
                        ELSE SubSeq(f[k - 1], 1, Len(f[k - 1]) - 1)]

(* There is such a walk along any path.                                    *)
LEMMA NormalExists ==
  ASSUME NEW path, NEW n \in Nat
  PROVE  \E f : IsNormal(f, path, n)
<1> DEFINE S == {m \in Nat : ~ \E f : IsNormal(f, path, m)}
<1> SUFFICES ASSUME S # {} PROVE FALSE
  OBVIOUS
<1>1. PICK m \in S : \A y \in S : m <= y
  BY Least
<1>2. m # 0
  <2> DEFINE g0 == [k \in 0 .. 0 |-> <<>>]
  <2>1. IsNormal(g0, path, 0)
    BY DEF IsNormal
  <2> QED
    BY <2>1
<1>3. m - 1 \in Nat /\ m - 1 \notin S
  BY <1>1, <1>2
<1>4. PICK f : IsNormal(f, path, m - 1)
  BY <1>3
<1> DEFINE g == [k \in 0 .. m |-> IF k # m THEN f[k]
                                  ELSE IF path[m] \in Trees!Idle THEN f[m - 1]
                                  ELSE IF path[m] # Trees!Up THEN Append(f[m - 1], path[m])
                                  ELSE SubSeq(f[m - 1], 1, Len(f[m - 1]) - 1)]
<1>5. IsNormal(g, path, m)
  <2>1. \A k \in 0 .. m - 1 : f[k] = IF k = 0 THEN <<>>
                        ELSE IF path[k] \in Trees!Idle THEN f[k - 1]
                        ELSE IF path[k] # Trees!Up THEN Append(f[k - 1], path[k])
                        ELSE SubSeq(f[k - 1], 1, Len(f[k - 1]) - 1)
    BY <1>3, <1>4 DEF IsNormal
  <2>2. \A k \in 0 .. m : g[k] = IF k = 0 THEN <<>>
                        ELSE IF path[k] \in Trees!Idle THEN g[k - 1]
                        ELSE IF path[k] # Trees!Up THEN Append(g[k - 1], path[k])
                        ELSE SubSeq(g[k - 1], 1, Len(g[k - 1]) - 1)
    BY <1>2, <2>1
  <2>3. g = [k \in 0 .. m |-> g[k]]
    OBVIOUS
  <2> HIDE DEF g
  <2> QED
    BY <2>2, <2>3 DEF IsNormal
<1> QED
  BY <1>1, <1>5

(* What the model calls the normalised path is the end of one.             *)
LEMMA NormalizedIs ==
  ASSUME NEW path, Len(path) \in Nat
  PROVE  \E f : IsNormal(f, path, Len(path)) /\ Trees!Normalized(path) = f[Len(path)]
<1> DEFINE f == CHOOSE f : IsNormal(f, path, Len(path))
<1>1. IsNormal(f, path, Len(path))
  BY NormalExists
<1>2. Trees!Normalized(path) = f[Len(path)]
  BY DEF Trees!Normalized, IsNormal
<1> QED
  BY <1>1, <1>2

(* A key without its last segment.                                         *)
LEMMA Chopped ==
  ASSUME NEW s \in Keys
  PROVE  /\ SubSeq(s, 1, Len(s) - 1) \in Keys
         /\ Len(SubSeq(s, 1, Len(s) - 1)) = IF Len(s) = 0 THEN 0 ELSE Len(s) - 1
         /\ \A i \in 1 .. Len(s) - 1 : SubSeq(s, 1, Len(s) - 1)[i] = s[i]
<1>0. Len(s) \in Nat
  BY DEF Keys
<1>1. PICK n \in Int : n = Len(s) - 1 /\ n >= -1
  BY <1>0
<1>2. \A i \in 1 .. n : s[i] \in Segments
  BY <1>1 DEF Keys
<1>3. /\ SubSeq(s, 1, n) \in Seq(Segments) /\ Len(SubSeq(s, 1, n)) = (IF 1 <= n THEN n - 1 + 1 ELSE 0)
      /\ \A i \in 1 .. n - 1 + 1 : SubSeq(s, 1, n)[i] = s[1 + i - 1]
  BY <1>1, <1>2, SubSeqProperties
<1>4. \A i \in 1 .. n : i \in 1 .. n - 1 + 1 /\ 1 + i - 1 = i
  BY <1>1
<1>5. \A i \in 1 .. n : SubSeq(s, 1, n)[i] = s[i]
  BY <1>3, <1>4
<1>6. (IF 1 <= n THEN n - 1 + 1 ELSE 0) = IF Len(s) = 0 THEN 0 ELSE Len(s) - 1
  BY <1>1 DEF Keys
<1> QED
  BY <1>1, <1>3, <1>5, <1>6 DEF Keys

(* Keys of the same segments.                                              *)
LEMMA SameKeys ==
  ASSUME NEW s \in Keys, NEW t \in Keys, Len(s) = Len(t), \A i \in 1 .. Len(t) : s[i] = t[i]
  PROVE  s = t
BY SeqEqual DEF Keys

(* One more segment.                                                       *)
LEMMA Lengthened ==
  ASSUME NEW s \in Keys, NEW seg \in Segments
  PROVE  /\ Append(s, seg) \in Keys /\ Len(Append(s, seg)) = Len(s) + 1
         /\ Append(s, seg)[Len(s) + 1] = seg /\ \A i \in 1 .. Len(s) : Append(s, seg)[i] = s[i]
BY AppendProperties DEF Keys

(* Every place of the walk is a key.                                       *)
LEMMA NormalTypes ==
  ASSUME NEW n \in Nat, NEW path, \A i \in 1 .. n : path[i] \in Segments, NEW f, IsNormal(f, path, n)
  PROVE  \A k \in 0 .. n : f[k] \in Keys
<1>1. \A k \in 0 .. n : f[k] = IF k = 0 THEN <<>>
                        ELSE IF path[k] \in Trees!Idle THEN f[k - 1]
                        ELSE IF path[k] # Trees!Up THEN Append(f[k - 1], path[k])
                        ELSE SubSeq(f[k - 1], 1, Len(f[k - 1]) - 1)
  BY DEF IsNormal
<1> DEFINE S == {k \in 0 .. n : f[k] \notin Keys}
<1> SUFFICES ASSUME S # {} PROVE FALSE
  OBVIOUS
<1>2. PICK m \in S : \A y \in S : m <= y
  <2>1. S \in SUBSET Nat
    OBVIOUS
  <2> HIDE DEF S
  <2> QED
    BY <2>1, Least
<1>3. m \in 0 .. n /\ f[m] \notin Keys
  OBVIOUS
<1>4. m # 0
  BY <1>1, EmptySeq DEF Keys
<1>5. m - 1 \in 0 .. n /\ m \in 1 .. n /\ f[m - 1] \in Keys
  <2>1. m - 1 \in 0 .. n /\ m \in 1 .. n
    BY <1>3, <1>4
  <2>2. m - 1 \notin S
    BY <1>2, <2>1
  <2> QED
    BY <2>1, <2>2
<1>6. f[m] \in Keys
  BY <1>1, <1>3, <1>4, <1>5, Chopped, Lengthened
<1> QED
  BY <1>3, <1>6

(* Where a path leads from the root of a zone, by the root and its names,  *)
(* or away from it.                                                        *)
OnRoot(zone, t, v) ==
  Len(t) = Len(v) + 2 /\ t[1] = "base" /\ t[2] = zone /\ \A i \in 1 .. Len(v) : t[i + 2] = v[i]
Away(zone, t) == Len(t) < 2 \/ t[2] # zone

(* One segment, from the root and from nowhere.                            *)
LEMMA OneSegment ==
  ASSUME NEW zone \in {"transient", "persistent"}, NEW seg \in Segments \ {zone}, NEW t \in Keys, NEW v \in Keys,
         OnRoot(zone, t, v) \/ Away(zone, t)
  PROVE  /\ OnRoot(zone, Append(t, seg), Append(v, seg)) \/ Away(zone, Append(t, seg))
         /\ \/ OnRoot(zone, SubSeq(t, 1, Len(t) - 1), SubSeq(v, 1, Len(v) - 1))
            \/ Away(zone, SubSeq(t, 1, Len(t) - 1))
<1>0. Len(t) \in Nat /\ Len(v) \in Nat
  BY DEF Keys
<1>1. PICK t1 \in Keys : /\ t1 = Append(t, seg) /\ Len(t1) = Len(t) + 1 /\ t1[Len(t) + 1] = seg
                         /\ \A i \in 1 .. Len(t) : t1[i] = t[i]
  BY Lengthened
<1>2. PICK v1 \in Keys : /\ v1 = Append(v, seg) /\ Len(v1) = Len(v) + 1 /\ v1[Len(v) + 1] = seg
                         /\ \A i \in 1 .. Len(v) : v1[i] = v[i]
  BY Lengthened
<1>3. PICK t2 \in Keys : /\ t2 = SubSeq(t, 1, Len(t) - 1) /\ Len(t2) = (IF Len(t) = 0 THEN 0 ELSE Len(t) - 1)
                         /\ \A i \in 1 .. Len(t) - 1 : t2[i] = t[i]
  BY Chopped
<1>4. PICK v2 \in Keys : /\ v2 = SubSeq(v, 1, Len(v) - 1) /\ Len(v2) = (IF Len(v) = 0 THEN 0 ELSE Len(v) - 1)
                         /\ \A i \in 1 .. Len(v) - 1 : v2[i] = v[i]
  BY Chopped
<1>5. CASE OnRoot(zone, t, v)
  <2>1. Len(t) = Len(v) + 2 /\ t[1] = "base" /\ t[2] = zone /\ \A i \in 1 .. Len(v) : t[i + 2] = v[i]
    BY <1>5 DEF OnRoot
  <2>2. OnRoot(zone, t1, v1)
    <3>1. Len(t1) = Len(v1) + 2 /\ t1[1] = "base" /\ t1[2] = zone
      BY <1>0, <1>1, <1>2, <2>1
    <3>2. ASSUME NEW i \in 1 .. Len(v1) PROVE t1[i + 2] = v1[i]
      <4>1. CASE i = Len(v) + 1
        <5>1. i + 2 = Len(t) + 1
          BY <1>0, <2>1, <4>1
        <5> QED
          BY <1>1, <1>2, <4>1, <5>1
      <4>2. CASE i # Len(v) + 1
        <5>1. i \in 1 .. Len(v) /\ i + 2 \in 1 .. Len(t)
          BY <1>0, <1>2, <2>1, <4>2
        <5> QED
          BY <1>1, <1>2, <2>1, <5>1
      <4> QED
        BY <4>1, <4>2
    <3> QED
      BY <3>1, <3>2 DEF OnRoot
  <2>3. CASE Len(v) = 0
    <3>1. Len(t2) < 2
      BY <1>0, <1>3, <2>1, <2>3
    <3> QED
      BY <1>1, <1>2, <1>3, <2>2, <3>1 DEF Away
  <2>4. CASE Len(v) # 0
    <3>1. Len(t2) = Len(v2) + 2 /\ t2[1] = "base" /\ t2[2] = zone
      BY <1>0, <1>3, <1>4, <2>1, <2>4
    <3>2. ASSUME NEW i \in 1 .. Len(v2) PROVE t2[i + 2] = v2[i]
      <4>1. i \in 1 .. Len(v) - 1 /\ i \in 1 .. Len(v) /\ i + 2 \in 1 .. Len(t) - 1
        BY <1>0, <1>4, <2>1, <2>4
      <4> QED
        BY <1>3, <1>4, <2>1, <4>1
    <3>3. OnRoot(zone, t2, v2)
      BY <3>1, <3>2 DEF OnRoot
    <3> QED
      BY <1>1, <1>2, <1>3, <1>4, <2>2, <3>3
  <2> QED
    BY <2>3, <2>4
<1>6. CASE Away(zone, t)
  <2>1. Away(zone, t1)
    BY <1>0, <1>1, <1>6 DEF Away
  <2>2. Away(zone, t2)
    BY <1>0, <1>3, <1>6 DEF Away
  <2> QED
    BY <1>1, <1>3, <2>1, <2>2
<1> QED
  BY <1>5, <1>6

(* A relative path leads to the same place in a tree as in a Map.          *)
LEMMA TreePathIs ==
  ASSUME NEW zone \in {"transient", "persistent"}, NEW path \in Seq(FileNames \cup Trees!Idle \cup {Trees!Up}),
         \A i \in DOMAIN path : path[i] # zone, ~Trees!Absolute(path), NEW x \in Trees!TreePath(zone, path)
  PROVE  x = Trees!Normalized(path)
<1> DEFINE root == <<"base", zone>>
<1>1. PICK n \in Nat : n = Len(path)
  OBVIOUS
<1>2. \A i \in 1 .. n : path[i] \in Segments \ {zone}
  BY <1>1, ElementOfSeq DEF Segments
<1>3. PICK long : long = root \o path
  OBVIOUS
<1>4. Len(long) = n + 2 /\ long[1] = "base" /\ long[2] = zone /\ \A i \in 1 .. n : long[i + 2] = path[i]
  <2>1. path \in Seq(Segments) /\ root \in Seq(Segments) /\ Len(root) = 2
    <3>1. path \in Seq(Segments)
      BY DEF Segments
    <3>2. root \in Seq(Segments) /\ Len(root) = 2
      BY DEF Segments
    <3> QED
      BY <3>1, <3>2
  <2>2. /\ Len(long) = 2 + n
        /\ \A i \in 1 .. 2 + n : long[i] = IF i <= 2 THEN root[i] ELSE path[i - 2]
    BY <1>1, <1>3, <2>1, ConcatProperties
  <2>3. 1 \in 1 .. 2 + n /\ 2 \in 1 .. 2 + n /\ \A i \in 1 .. n : i + 2 \in 1 .. 2 + n /\ ~(i + 2 <= 2) /\ i + 2 - 2 = i
    BY <1>1
  <2> QED
    BY <1>1, <2>2, <2>3
<1>5. PICK f : IsNormal(f, path, n) /\ Trees!Normalized(path) = f[n]
  BY <1>1, NormalizedIs
<1>6. PICK g : IsNormal(g, long, n + 2) /\ Trees!Normalized(long) = g[n + 2]
  <2>1. Len(long) \in Nat
    BY <1>1, <1>4
  <2> QED
    BY <1>4, <2>1, NormalizedIs
<1>7. \A k \in 0 .. n : f[k] \in Keys
  <2>1. \A i \in 1 .. n : path[i] \in Segments
    BY <1>2
  <2> QED
    BY <1>1, <1>5, <2>1, NormalTypes
<1>8. \A k \in 0 .. n + 2 : g[k] \in Keys
  <2>1. \A i \in 1 .. n + 2 : long[i] \in Segments
    <3> TAKE i \in 1 .. n + 2
    <3>1. CASE i \in 1 .. 2
      <4>1. i = 1 \/ i = 2
        BY <3>1
      <4> QED
        BY <1>4, <4>1 DEF Segments
    <3>2. CASE i \notin 1 .. 2
      <4>1. i - 2 \in 1 .. n /\ (i - 2) + 2 = i
        BY <1>1, <3>2
      <4> QED
        BY <1>2, <1>4, <4>1
    <3> QED
      BY <3>1, <3>2
  <2>2. n + 2 \in Nat
    BY <1>1
  <2> QED
    BY <1>6, <2>1, <2>2, NormalTypes
<1>9. \A k \in 0 .. n : f[k] = IF k = 0 THEN <<>>
                        ELSE IF path[k] \in Trees!Idle THEN f[k - 1]
                        ELSE IF path[k] # Trees!Up THEN Append(f[k - 1], path[k])
                        ELSE SubSeq(f[k - 1], 1, Len(f[k - 1]) - 1)
  BY <1>5 DEF IsNormal
<1>10. \A k \in 0 .. n + 2 : g[k] = IF k = 0 THEN <<>>
                        ELSE IF long[k] \in Trees!Idle THEN g[k - 1]
                        ELSE IF long[k] # Trees!Up THEN Append(g[k - 1], long[k])
                        ELSE SubSeq(g[k - 1], 1, Len(g[k - 1]) - 1)
  BY <1>6 DEF IsNormal
<1>11. Len(g[2]) = 2 /\ g[2][1] = "base" /\ g[2][2] = zone
  <2>0. /\ "base" \notin Trees!Idle /\ "base" # Trees!Up /\ zone \notin Trees!Idle /\ zone # Trees!Up
    BY Zenon DEF Trees!Idle, Trees!Up
  <2>1. g[0] = <<>>
    BY <1>1, <1>10
  <2>2. g[1] = Append(g[0], "base")
    <3>1. 1 \in 0 .. n + 2 /\ 1 - 1 = 0 /\ 1 # 0
      BY <1>1
    <3>2. g[1] = IF long[1] \in Trees!Idle THEN g[0] ELSE IF long[1] # Trees!Up THEN Append(g[0], long[1])
                 ELSE SubSeq(g[0], 1, Len(g[0]) - 1)
      BY <1>10, <3>1
    <3> QED
      BY <1>4, <2>0, <3>2, Zenon
  <2>3. g[2] = Append(g[1], zone)
    <3>1. 2 \in 0 .. n + 2 /\ 2 - 1 = 1 /\ 2 # 0
      BY <1>1
    <3>2. g[2] = IF long[2] \in Trees!Idle THEN g[1] ELSE IF long[2] # Trees!Up THEN Append(g[1], long[2])
                 ELSE SubSeq(g[1], 1, Len(g[1]) - 1)
      BY <1>10, <3>1
    <3> QED
      BY <1>4, <2>0, <3>2, Zenon
  <2>4. "base" \in Segments /\ zone \in Segments
    BY DEF Segments
  <2>5. g[0] \in Keys /\ g[1] \in Keys
    BY <1>1, <1>8
  <2>6. Len(g[1]) = 1 /\ g[1][1] = "base"
    <3>1. Len(g[0]) = 0
      BY <2>1
    <3> QED
      BY <2>2, <2>4, <2>5, <3>1, Lengthened
  <2> QED
    BY <2>3, <2>4, <2>5, <2>6, Lengthened
<1> DEFINE S == {k \in 0 .. n : ~(OnRoot(zone, g[k + 2], f[k]) \/ Away(zone, g[k + 2]))}
<1>12. S = {}
  <2> SUFFICES ASSUME S # {} PROVE FALSE
    OBVIOUS
  <2>1. PICK m \in S : \A y \in S : m <= y
    <3>1. S \in SUBSET Nat
      OBVIOUS
    <3> HIDE DEF S
    <3> QED
      BY <3>1, Least
  <2>2. m \in 0 .. n /\ ~(OnRoot(zone, g[m + 2], f[m]) \/ Away(zone, g[m + 2]))
    OBVIOUS
  <2>3. m # 0
    <3> SUFFICES ASSUME m = 0 PROVE FALSE
      OBVIOUS
    <3>1. Len(f[0]) = 0 /\ 0 + 2 = 2
      BY <1>1, <1>9
    <3>2. OnRoot(zone, g[0 + 2], f[0])
      BY <1>11, <3>1 DEF OnRoot
    <3> QED
      BY <2>2, <3>2
  <2>4. m - 1 \in 0 .. n /\ m \in 1 .. n /\ m - 1 \notin S
    <3>1. m - 1 \in 0 .. n /\ m \in 1 .. n
      BY <2>2, <2>3
    <3>2. ~(m <= m - 1)
      BY <2>2
    <3> QED
      BY <2>1, <3>1, <3>2
  <2>5. OnRoot(zone, g[m - 1 + 2], f[m - 1]) \/ Away(zone, g[m - 1 + 2])
    BY <2>4
  <2> HIDE DEF S
  <2>6. m + 2 \in 0 .. n + 2 /\ m + 2 # 0 /\ m + 2 - 1 = m - 1 + 2 /\ m - 1 + 2 \in 0 .. n + 2 /\ m # 0
    BY <1>1, <2>2, <2>3
  <2>7. long[m + 2] = path[m] /\ path[m] \in Segments \ {zone}
    BY <1>2, <1>4, <2>4
  <2>8. PICK t \in Keys, v \in Keys : t = g[m - 1 + 2] /\ v = f[m - 1]
    BY <1>7, <1>8, <2>4, <2>6
  <2>9. g[m + 2] = IF path[m] \in Trees!Idle THEN t ELSE IF path[m] # Trees!Up THEN Append(t, path[m])
                   ELSE SubSeq(t, 1, Len(t) - 1)
    <3>1. PICK p \in Nat : p = m + 2 /\ p \in 0 .. n + 2 /\ p # 0 /\ p - 1 = m - 1 + 2
      <4>1. m \in Nat /\ m + 2 \in Nat
        BY <2>2
      <4> QED
        BY <2>6, <4>1
    <3>2. g[p] = IF long[p] \in Trees!Idle THEN g[p - 1] ELSE IF long[p] # Trees!Up THEN Append(g[p - 1], long[p])
                 ELSE SubSeq(g[p - 1], 1, Len(g[p - 1]) - 1)
      BY <1>10, <3>1
    <3> QED
      BY <2>7, <2>8, <3>1, <3>2, Zenon
  <2>10. f[m] = IF path[m] \in Trees!Idle THEN v ELSE IF path[m] # Trees!Up THEN Append(v, path[m])
                ELSE SubSeq(v, 1, Len(v) - 1)
    BY <1>9, <2>2, <2>6, <2>8
  <2>11. /\ OnRoot(zone, Append(t, path[m]), Append(v, path[m])) \/ Away(zone, Append(t, path[m]))
         /\ \/ OnRoot(zone, SubSeq(t, 1, Len(t) - 1), SubSeq(v, 1, Len(v) - 1))
            \/ Away(zone, SubSeq(t, 1, Len(t) - 1))
    BY <2>5, <2>7, <2>8, OneSegment
  <2> QED
    BY <2>2, <2>5, <2>8, <2>9, <2>10, <2>11, Zenon
<1>13. OnRoot(zone, g[n + 2], f[n]) \/ Away(zone, g[n + 2])
  BY <1>1, <1>12
<1>14. PICK there \in Keys, v \in Keys : there = g[n + 2] /\ v = f[n] /\ Len(there) \in Nat /\ Len(v) \in Nat
  BY <1>1, <1>7, <1>8 DEF Keys
<1>15. Trees!IsPrefix(root, there) /\ x = SubSeq(there, 3, Len(there))
  <2>1. there = Trees!Normalized(IF Trees!Absolute(path) THEN path ELSE root \o path)
    BY <1>3, <1>6, <1>14
  <2> HIDE DEF root
  <2> QED
    BY <2>1 DEF Trees!TreePath, root
<1>16. Len(there) >= 2 /\ there[2] = zone
  <2>1. Len(root) = 2 /\ 2 <= Len(there) /\ SubSeq(root, 1, 2) = SubSeq(there, 1, 2)
    BY <1>15 DEF Trees!IsPrefix
  <2>2. SubSeq(root, 1, 2)[2] = zone
    OBVIOUS
  <2>3. SubSeq(there, 1, 2)[2] = there[2]
    BY <1>14, <2>1 DEF Keys
  <2> QED
    BY <1>14, <2>1, <2>2, <2>3
<1>17. OnRoot(zone, there, v)
  BY <1>13, <1>14, <1>16 DEF Away
<1>18. SubSeq(there, 3, Len(there)) = v
  <2>1. Len(there) = Len(v) + 2 /\ \A i \in 1 .. Len(v) : there[i + 2] = v[i]
    BY <1>17 DEF OnRoot
  <2>2. \A i \in 3 .. Len(there) : there[i] \in Segments
    BY <1>14 DEF Keys
  <2>3. PICK r : r = SubSeq(there, 3, Len(there))
    OBVIOUS
  <2>4. /\ r \in Seq(Segments) /\ Len(r) = IF 3 <= Len(there) THEN Len(there) - 3 + 1 ELSE 0
        /\ \A i \in 1 .. Len(there) - 3 + 1 : r[i] = there[3 + i - 1]
    BY <1>14, <2>2, <2>3, SubSeqProperties
  <2>5. Len(r) = Len(v) /\ \A i \in 1 .. Len(v) : i \in 1 .. Len(there) - 3 + 1 /\ 3 + i - 1 = i + 2
    BY <1>14, <2>1, <2>4
  <2>6. \A i \in 1 .. Len(v) : r[i] = v[i]
    BY <2>1, <2>4, <2>5
  <2> QED
    BY <1>14, <2>3, <2>4, <2>5, <2>6, SameKeys DEF Keys
<1> QED
  BY <1>5, <1>14, <1>15, <1>18

(* A name of one key before another, index after index.                    *)
LEMMA PrefixIs ==
  ASSUME NEW s \in Keys, NEW t \in Keys
  PROVE  Trees!IsPrefix(s, t) <=> Len(s) <= Len(t) /\ \A i \in 1 .. Len(s) : t[i] = s[i]
<1>1. Len(s) \in Nat /\ Len(t) \in Nat
  BY DEF Keys
<1>2. ASSUME Len(s) <= Len(t) PROVE SubSeq(s, 1, Len(s)) = SubSeq(t, 1, Len(s)) <=> \A i \in 1 .. Len(s) : t[i] = s[i]
  <2>1. \A i \in 1 .. Len(s) : s[i] \in Segments /\ t[i] \in Segments
    BY <1>1, <1>2 DEF Keys
  <2>2. PICK n \in Nat : n = Len(s)
    BY <1>1
  <2>3. PICK u : u = SubSeq(s, 1, n)
    OBVIOUS
  <2>4. PICK v : v = SubSeq(t, 1, n)
    OBVIOUS
  <2>5. /\ u \in Seq(Segments) /\ Len(u) = (IF 1 <= n THEN n - 1 + 1 ELSE 0)
        /\ \A i \in 1 .. n - 1 + 1 : u[i] = s[1 + i - 1]
    BY <2>1, <2>2, <2>3, SubSeqProperties
  <2>6. /\ v \in Seq(Segments) /\ Len(v) = (IF 1 <= n THEN n - 1 + 1 ELSE 0)
        /\ \A i \in 1 .. n - 1 + 1 : v[i] = t[1 + i - 1]
    BY <2>1, <2>2, <2>4, SubSeqProperties
  <2>7. Len(u) = n /\ Len(v) = n /\ \A i \in 1 .. n : i \in 1 .. n - 1 + 1 /\ 1 + i - 1 = i
    BY <2>2, <2>5, <2>6
  <2>8. \A i \in 1 .. n : u[i] = s[i] /\ v[i] = t[i]
    BY <2>5, <2>6, <2>7
  <2>9. u = v <=> \A i \in 1 .. n : u[i] = v[i]
    BY <2>5, <2>6, <2>7, SeqEqual
  <2>10. u = v <=> \A i \in 1 .. n : t[i] = s[i]
    BY <2>8, <2>9
  <2> QED
    BY <2>2, <2>3, <2>4, <2>10, Zenon
<1> QED
  BY <1>2 DEF Trees!IsPrefix

(* What the first segments of a key make.                                  *)
LEMMA Headed ==
  ASSUME NEW t \in Keys, NEW n \in 0 .. Len(t)
  PROVE  /\ SubSeq(t, 1, n) \in Keys /\ Len(SubSeq(t, 1, n)) = n
         /\ \A i \in 1 .. n : SubSeq(t, 1, n)[i] = t[i]
<1>1. Len(t) \in Nat /\ n \in Nat
  BY DEF Keys
<1>2. \A i \in 1 .. n : t[i] \in Segments
  BY <1>1 DEF Keys
<1>3. PICK u : u = SubSeq(t, 1, n)
  OBVIOUS
<1>4. /\ u \in Seq(Segments) /\ Len(u) = (IF 1 <= n THEN n - 1 + 1 ELSE 0)
      /\ \A i \in 1 .. n - 1 + 1 : u[i] = t[1 + i - 1]
  BY <1>1, <1>2, <1>3, SubSeqProperties
<1>5. Len(u) = n /\ \A i \in 1 .. n : i \in 1 .. n - 1 + 1 /\ 1 + i - 1 = i
  BY <1>1, <1>4
<1>6. \A i \in 1 .. n : u[i] = t[i]
  BY <1>4, <1>5
<1> QED
  BY <1>3, <1>4, <1>5, <1>6, Zenon DEF Keys

(* The directories above a key are the shorter keys it begins with.        *)
LEMMA AboveIs ==
  ASSUME NEW t \in Keys, NEW x
  PROVE  x \in Trees!Above(t) <=>
           x \in Keys /\ Len(x) # 0 /\ Len(x) < Len(t) /\ \A i \in 1 .. Len(x) : x[i] = t[i]
<1>1. Len(t) \in Nat
  BY DEF Keys
<1>2. ASSUME x \in Trees!Above(t)
      PROVE  x \in Keys /\ Len(x) # 0 /\ Len(x) < Len(t) /\ \A i \in 1 .. Len(x) : x[i] = t[i]
  <2>1. PICK n \in 1 .. Len(t) - 1 : x = SubSeq(t, 1, n)
    BY <1>2 DEF Trees!Above
  <2>2. n \in 0 .. Len(t) /\ n # 0 /\ n < Len(t)
    BY <1>1
  <2> QED
    BY <2>1, <2>2, Headed
<1>3. ASSUME x \in Keys, Len(x) # 0, Len(x) < Len(t), \A i \in 1 .. Len(x) : x[i] = t[i]
      PROVE  x \in Trees!Above(t)
  <2>1. PICK n \in Nat : n = Len(x)
    BY <1>3 DEF Keys
  <2>2. n \in 0 .. Len(t) /\ n \in 1 .. Len(t) - 1
    BY <1>1, <1>3, <2>1
  <2>3. x = SubSeq(t, 1, n)
    <3>1. /\ SubSeq(t, 1, n) \in Keys /\ Len(SubSeq(t, 1, n)) = n
          /\ \A i \in 1 .. n : SubSeq(t, 1, n)[i] = t[i]
      BY <2>2, Headed
    <3> QED
      BY <1>3, <2>1, <3>1, SameKeys
  <2> QED
    BY <2>2, <2>3 DEF Trees!Above
<1> QED
  BY <1>2, <1>3

(* What is above a directory is above what lies in it, and what begins with*)
(* a location lies below it.                                               *)
LEMMA AboveAbove ==
  ASSUME NEW t \in Keys, NEW x \in Trees!Above(t)
  PROVE  x \in Keys /\ x # t /\ Trees!Above(x) \subseteq Trees!Above(t)
<1>1. x \in Keys /\ Len(x) # 0 /\ Len(x) < Len(t) /\ \A i \in 1 .. Len(x) : x[i] = t[i]
  BY AboveIs
<1>2. Len(x) \in Nat /\ Len(t) \in Nat
  BY <1>1 DEF Keys
<1>3. ASSUME NEW y \in Trees!Above(x) PROVE y \in Trees!Above(t)
  <2>1. y \in Keys /\ Len(y) # 0 /\ Len(y) < Len(x) /\ \A i \in 1 .. Len(y) : y[i] = x[i]
    BY <1>1, AboveIs
  <2>2. Len(y) < Len(t) /\ \A i \in 1 .. Len(y) : i \in 1 .. Len(x)
    BY <1>1, <1>2, <2>1 DEF Keys
  <2>3. \A i \in 1 .. Len(y) : y[i] = t[i]
    BY <1>1, <2>1, <2>2
  <2> QED
    BY <2>1, <2>2, <2>3, AboveIs
<1> QED
  BY <1>1, <1>2, <1>3

(* What lies in a directory below a location lies below it too.            *)
LEMMA BelowDown ==
  ASSUME NEW at0 \in Keys, NEW t \in Keys, NEW x \in Trees!Above(t), Trees!Below(at0, x)
  PROVE  Trees!Below(at0, t)
<1>1. x \in Keys /\ Len(x) # 0 /\ Len(x) < Len(t) /\ \A i \in 1 .. Len(x) : x[i] = t[i]
  BY AboveIs
<1>2. Len(at0) <= Len(x) /\ \A i \in 1 .. Len(at0) : x[i] = at0[i]
  BY <1>1, PrefixIs DEF Trees!Below
<1>3. Len(at0) <= Len(t) /\ \A i \in 1 .. Len(at0) : i \in 1 .. Len(x)
  BY <1>1, <1>2 DEF Keys
<1>4. \A i \in 1 .. Len(at0) : t[i] = at0[i]
  BY <1>1, <1>2, <1>3
<1> QED
  BY <1>3, <1>4, PrefixIs DEF Trees!Below

-----------------------------------------------------------------------------
(* The Map: entries with keys of their own.                                *)
Kept == [at : Keys, is : FileContents \cup {"directory"}]
Apart(s) == \A i, j \in 1 .. Len(s) : s[i].at = s[j].at => i = j
Maps == {s \in Seq(Kept) : Apart(s)}

(* What is known of the entries of a Map and of its keys.                  *)
LEMMA MapTypes ==
  ASSUME NEW s \in Maps
  PROVE  /\ s \in Seq(Kept) /\ Len(s) \in Nat /\ DOMAIN s = 1 .. Len(s)
         /\ \A i \in 1 .. Len(s) : s[i] \in Kept /\ s[i].at \in Keys
         /\ \A i, j \in 1 .. Len(s) : s[i].at = s[j].at => i = j
         /\ \A x : x \in Trees!KeysOf(s) <=> \E i \in 1 .. Len(s) : s[i].at = x
<1>1. s \in Seq(Kept)
  BY DEF Maps
<1>2. Len(s) \in Nat /\ DOMAIN s = 1 .. Len(s)
  BY <1>1
<1>3. \A i \in 1 .. Len(s) : s[i] \in Kept
  BY <1>1, ElementOfSeq
<1>4. \A i \in 1 .. Len(s) : s[i].at \in Keys
  BY <1>3 DEF Kept
<1>5. \A i, j \in 1 .. Len(s) : s[i].at = s[j].at => i = j
  BY DEF Maps, Apart
<1>6. \A x : x \in Trees!KeysOf(s) <=> \E i \in 1 .. Len(s) : s[i].at = x
  BY <1>2 DEF Trees!KeysOf
<1> QED
  BY <1>1, <1>2, <1>3, <1>4, <1>5, <1>6

(* A key that is new goes to the end.                                      *)
LEMMA Ended ==
  ASSUME NEW s \in Maps, NEW e \in Kept, e.at \notin Trees!KeysOf(s)
  PROVE  /\ Append(s, e) \in Maps /\ Len(Append(s, e)) = Len(s) + 1 /\ Append(s, e)[Len(s) + 1] = e
         /\ \A i \in 1 .. Len(s) : Append(s, e)[i] = s[i]
         /\ Trees!KeysOf(Append(s, e)) = Trees!KeysOf(s) \cup {e.at}
<1>1. /\ s \in Seq(Kept) /\ Len(s) \in Nat
      /\ \A i, j \in 1 .. Len(s) : s[i].at = s[j].at => i = j
      /\ \A x : x \in Trees!KeysOf(s) <=> \E i \in 1 .. Len(s) : s[i].at = x
  BY MapTypes
<1>2. PICK t : t = Append(s, e)
  OBVIOUS
<1>3. t \in Seq(Kept) /\ Len(t) = Len(s) + 1 /\ t[Len(s) + 1] = e /\ \A i \in 1 .. Len(s) : t[i] = s[i]
  BY <1>1, <1>2, AppendProperties
<1>4. \A i \in 1 .. Len(t) : i = Len(s) + 1 \/ i \in 1 .. Len(s)
  BY <1>1, <1>3
<1>5. Apart(t)
  BY <1>1, <1>3, <1>4 DEF Apart
<1>6. \A x : x \in Trees!KeysOf(t) <=> x \in Trees!KeysOf(s) \/ x = e.at
  <2>1. DOMAIN t = 1 .. Len(t) /\ Len(s) + 1 \in 1 .. Len(t) /\ \A i \in 1 .. Len(s) : i \in 1 .. Len(t)
    BY <1>1, <1>3
  <2> QED
    BY <1>1, <1>3, <1>4, <2>1 DEF Trees!KeysOf
<1> QED
  BY <1>2, <1>3, <1>5, <1>6 DEF Maps

(* set(): the entry takes the place of the one with its key, or the end.   *)
LEMMA PutIs ==
  ASSUME NEW s \in Maps, NEW e \in Kept
  PROVE  /\ Trees!Put(s, e) \in Maps /\ Len(s) <= Len(Trees!Put(s, e))
         /\ \A i \in 1 .. Len(s) : Trees!Put(s, e)[i] = IF s[i].at = e.at THEN e ELSE s[i]
         /\ \A i \in 1 .. Len(Trees!Put(s, e)) : i \notin 1 .. Len(s) => Trees!Put(s, e)[i] = e
         /\ Trees!KeysOf(Trees!Put(s, e)) = Trees!KeysOf(s) \cup {e.at}
<1>1. /\ s \in Seq(Kept) /\ Len(s) \in Nat /\ DOMAIN s = 1 .. Len(s)
      /\ \A i \in 1 .. Len(s) : s[i] \in Kept /\ s[i].at \in Keys
      /\ \A i, j \in 1 .. Len(s) : s[i].at = s[j].at => i = j
      /\ \A x : x \in Trees!KeysOf(s) <=> \E i \in 1 .. Len(s) : s[i].at = x
  BY MapTypes
<1>2. CASE e.at \notin Trees!KeysOf(s)
  <2>1. Trees!Put(s, e) = Append(s, e)
    BY <1>1, <1>2 DEF Trees!Put
  <2>2. PICK t : t = Append(s, e)
    OBVIOUS
  <2>3. /\ t \in Maps /\ Len(t) = Len(s) + 1 /\ t[Len(s) + 1] = e
        /\ \A i \in 1 .. Len(s) : t[i] = s[i]
        /\ Trees!KeysOf(t) = Trees!KeysOf(s) \cup {e.at}
    BY <1>2, <2>2, Ended
  <2>4. Len(s) <= Len(t) /\ \A i \in 1 .. Len(t) : i \notin 1 .. Len(s) => i = Len(s) + 1
    BY <1>1, <2>3
  <2>5. \A i \in 1 .. Len(s) : t[i] = IF s[i].at = e.at THEN e ELSE s[i]
    BY <1>1, <1>2, <2>3
  <2>6. \A i \in 1 .. Len(t) : i \notin 1 .. Len(s) => t[i] = e
    BY <2>3, <2>4
  <2> QED
    BY <2>1, <2>2, <2>3, <2>4, <2>5, <2>6
<1>3. CASE e.at \in Trees!KeysOf(s)
  <2>1. PICK j \in 1 .. Len(s) : s[j].at = e.at
    BY <1>1, <1>3
  <2>2. Trees!Put(s, e) = [i \in 1 .. Len(s) |-> IF s[i].at = e.at THEN e ELSE s[i]]
    BY <1>1, <2>1 DEF Trees!Put
  <2>3. PICK t : t = [i \in 1 .. Len(s) |-> IF s[i].at = e.at THEN e ELSE s[i]]
    OBVIOUS
  <2>4. t \in Seq(Kept) /\ Len(t) = Len(s) /\ \A i \in 1 .. Len(s) : t[i] = IF s[i].at = e.at THEN e ELSE s[i]
    <3>1. \A i \in 1 .. Len(s) : (IF s[i].at = e.at THEN e ELSE s[i]) \in Kept
      BY <1>1
    <3> QED
      BY <1>1, <2>3, <3>1
  <2>5. \A i \in 1 .. Len(s) : t[i].at = s[i].at
    BY <2>4
  <2>6. Apart(t)
    BY <1>1, <2>4, <2>5 DEF Apart
  <2>7. t \in Maps
    BY <2>4, <2>6 DEF Maps
  <2>8. \A x : x \in Trees!KeysOf(t) <=> x \in Trees!KeysOf(s)
    <3>1. \A x : x \in Trees!KeysOf(t) <=> \E i \in 1 .. Len(t) : t[i].at = x
      BY <2>7, MapTypes
    <3> QED
      BY <1>1, <2>4, <2>5, <3>1
  <2> QED
    BY <1>1, <1>3, <2>2, <2>3, <2>4, <2>7, <2>8
<1> QED
  BY <1>2, <1>3

(* The walk of ensureParentDirs() along a location.                        *)
Further(s, t, k) ==
  IF k = Len(t) \/ SubSeq(t, 1, k) \in Trees!KeysOf(s) THEN s
  ELSE Append(s, [at |-> SubSeq(t, 1, k), is |-> "directory"])
IsWalk(f, s, t, n) == f = [k \in 0 .. n |-> IF k = 0 THEN s ELSE Further(f[k - 1], t, k)]

(* There is such a walk along any location.                                *)
LEMMA WalkExists ==
  ASSUME NEW s, NEW t, NEW n \in Nat
  PROVE  \E f : IsWalk(f, s, t, n)
<1> DEFINE S == {m \in Nat : ~ \E f : IsWalk(f, s, t, m)}
<1> SUFFICES ASSUME S # {} PROVE FALSE
  OBVIOUS
<1>1. PICK m \in S : \A y \in S : m <= y
  BY Least
<1>2. m # 0
  <2> DEFINE g0 == [k \in 0 .. 0 |-> s]
  <2>1. IsWalk(g0, s, t, 0)
    BY DEF IsWalk
  <2> QED
    BY <2>1
<1>3. m - 1 \in Nat /\ m - 1 \notin S
  BY <1>1, <1>2
<1>4. PICK f : IsWalk(f, s, t, m - 1)
  BY <1>3
<1> DEFINE g == [k \in 0 .. m |-> IF k # m THEN f[k] ELSE Further(f[m - 1], t, m)]
<1>5. IsWalk(g, s, t, m)
  <2>1. \A k \in 0 .. m - 1 : f[k] = IF k = 0 THEN s ELSE Further(f[k - 1], t, k)
    BY <1>3, <1>4 DEF IsWalk
  <2>2. \A k \in 0 .. m : g[k] = IF k = 0 THEN s ELSE Further(g[k - 1], t, k)
    BY <1>2, <2>1
  <2>3. g = [k \in 0 .. m |-> g[k]]
    OBVIOUS
  <2> HIDE DEF g
  <2> QED
    BY <2>2, <2>3 DEF IsWalk
<1> QED
  BY <1>1, <1>5

(* What the model calls the Map with the parents is the end of one.        *)
LEMMA WalkIs ==
  ASSUME NEW s, NEW t, Len(t) \in Nat
  PROVE  \E f : IsWalk(f, s, t, Len(t)) /\ Trees!EnsureParentDirs(s, t) = f[Len(t)]
<1> DEFINE f == CHOOSE f : IsWalk(f, s, t, Len(t))
<1>1. IsWalk(f, s, t, Len(t))
  BY WalkExists
<1>2. Trees!EnsureParentDirs(s, t) = f[Len(t)]
  BY DEF Trees!EnsureParentDirs, IsWalk, Further, Trees!Dir
<1> QED
  BY <1>1, <1>2

(* A Map with some of the directories above a location, the first k there. *)
Extended(s, r, t, k) ==
  /\ s \in Maps /\ Len(r) <= Len(s) /\ \A i \in 1 .. Len(r) : s[i] = r[i]
  /\ \A i \in 1 .. Len(s) : i \notin 1 .. Len(r) => s[i].is = "directory" /\ s[i].at \in Trees!Above(t)
  /\ \A j \in 1 .. k : j # Len(t) => SubSeq(t, 1, j) \in Trees!KeysOf(s)

(* One directory of the walk.                                              *)
LEMMA OneParent ==
  ASSUME NEW r \in Maps, NEW t \in Keys, NEW k \in 1 .. Len(t), NEW s, Extended(s, r, t, k - 1)
  PROVE  Extended(Further(s, t, k), r, t, k)
<1>0. Len(t) \in Nat /\ k \in Nat
  BY DEF Keys
<1>1. /\ s \in Maps /\ Len(r) <= Len(s) /\ \A i \in 1 .. Len(r) : s[i] = r[i]
      /\ \A i \in 1 .. Len(s) : i \notin 1 .. Len(r) => s[i].is = "directory" /\ s[i].at \in Trees!Above(t)
      /\ \A j \in 1 .. k - 1 : j # Len(t) => SubSeq(t, 1, j) \in Trees!KeysOf(s)
  BY DEF Extended
<1>2. \A j \in 1 .. k : j = k \/ j \in 1 .. k - 1
  BY <1>0
<1>3. CASE k = Len(t) \/ SubSeq(t, 1, k) \in Trees!KeysOf(s)
  BY <1>1, <1>2, <1>3 DEF Extended, Further
<1>4. CASE ~(k = Len(t) \/ SubSeq(t, 1, k) \in Trees!KeysOf(s))
  <2>1. SubSeq(t, 1, k) \in Keys /\ SubSeq(t, 1, k) \in Trees!Above(t)
    <3>1. k \in 0 .. Len(t) /\ k \in 1 .. Len(t) - 1
      BY <1>0, <1>4
    <3> QED
      BY <3>1, Headed DEF Trees!Above
  <2>2. PICK e : e = [at |-> SubSeq(t, 1, k), is |-> "directory"]
    OBVIOUS
  <2>3. e \in Kept /\ e.at = SubSeq(t, 1, k) /\ e.is = "directory"
    BY <2>1, <2>2 DEF Kept
  <2>4. PICK u : u = Append(s, e)
    OBVIOUS
  <2>5. /\ u \in Maps /\ Len(u) = Len(s) + 1 /\ u[Len(s) + 1] = e
        /\ \A i \in 1 .. Len(s) : u[i] = s[i]
        /\ Trees!KeysOf(u) = Trees!KeysOf(s) \cup {e.at}
    BY <1>1, <1>4, <2>3, <2>4, Ended
  <2>6. Len(s) \in Nat /\ Len(r) \in Nat
    BY <1>1, MapTypes
  <2>7. /\ Len(r) <= Len(u) /\ \A i \in 1 .. Len(r) : i \in 1 .. Len(s)
        /\ \A i \in 1 .. Len(u) : i = Len(s) + 1 \/ i \in 1 .. Len(s)
    BY <1>1, <2>5, <2>6
  <2>8. Extended(u, r, t, k)
    <3>1. \A i \in 1 .. Len(r) : u[i] = r[i]
      BY <1>1, <2>5, <2>7
    <3>2. \A i \in 1 .. Len(u) : i \notin 1 .. Len(r) => u[i].is = "directory" /\ u[i].at \in Trees!Above(t)
      BY <1>1, <2>1, <2>3, <2>5, <2>7
    <3>3. \A j \in 1 .. k : j # Len(t) => SubSeq(t, 1, j) \in Trees!KeysOf(u)
      BY <1>1, <1>2, <2>3, <2>5
    <3> QED
      BY <2>5, <2>7, <3>1, <3>2, <3>3 DEF Extended
  <2> QED
    BY <1>4, <2>2, <2>4, <2>8 DEF Further
<1> QED
  BY <1>3, <1>4

(* The whole walk: the parents are there, behind what was there.           *)
LEMMA ParentsIs ==
  ASSUME NEW r \in Maps, NEW t \in Keys
  PROVE  Extended(Trees!EnsureParentDirs(r, t), r, t, Len(t))
<1>0. PICK n \in Nat : n = Len(t)
  BY DEF Keys
<1>1. PICK f : IsWalk(f, r, t, n) /\ Trees!EnsureParentDirs(r, t) = f[n]
  BY <1>0, WalkIs
<1>2. \A k \in 0 .. n : f[k] = IF k = 0 THEN r ELSE Further(f[k - 1], t, k)
  BY <1>1 DEF IsWalk
<1> DEFINE S == {k \in 0 .. n : ~Extended(f[k], r, t, k)}
<1>3. S = {}
  <2> SUFFICES ASSUME S # {} PROVE FALSE
    OBVIOUS
  <2>1. PICK m \in S : \A y \in S : m <= y
    <3>1. S \in SUBSET Nat
      OBVIOUS
    <3> HIDE DEF S
    <3> QED
      BY <3>1, Least
  <2>2. m \in 0 .. n /\ ~Extended(f[m], r, t, m)
    OBVIOUS
  <2>3. m # 0
    <3>1. Extended(r, r, t, 0)
      <4>1. Len(r) \in Nat
        BY MapTypes
      <4> QED
        BY <4>1 DEF Extended
    <3>2. f[0] = r
      BY <1>0, <1>2
    <3> QED
      BY <2>2, <3>1, <3>2
  <2>4. m - 1 \in 0 .. n /\ m \in 1 .. n /\ m - 1 \notin S
    <3>1. m - 1 \in 0 .. n /\ m \in 1 .. n
      BY <2>2, <2>3
    <3>2. ~(m <= m - 1)
      BY <2>2
    <3> QED
      BY <2>1, <3>1, <3>2
  <2>5. Extended(f[m - 1], r, t, m - 1)
    BY <2>4
  <2> HIDE DEF S
  <2>6. PICK u : u = f[m - 1]
    OBVIOUS
  <2>7. Extended(Further(u, t, m), r, t, m)
    BY <1>0, <2>4, <2>5, <2>6, OneParent
  <2>8. f[m] = Further(u, t, m)
    BY <1>2, <2>2, <2>3, <2>6
  <2> QED
    BY <2>2, <2>7, <2>8, Zenon
<1> QED
  BY <1>0, <1>1, <1>3

(* write(): the file and its directories, and the rest where it was.       *)
LEMMA Written ==
  ASSUME NEW r \in Maps, NEW t \in Keys, NEW c \in FileContents
  PROVE  \E w \in Maps : /\ w = Trees!VirtualWrite(r, t, c) /\ Len(r) <= Len(w)
                         /\ \A i \in 1 .. Len(r) : w[i] = IF r[i].at = t THEN [at |-> t, is |-> c] ELSE r[i]
                         /\ \A i \in 1 .. Len(w) : i \notin 1 .. Len(r) =>
                              w[i] = [at |-> t, is |-> c] \/ (w[i].is = "directory" /\ w[i].at \in Trees!Above(t))
                         /\ Trees!KeysOf(w) = Trees!KeysOf(r) \cup Trees!Above(t) \cup {t}
<1>1. PICK u : u = Trees!EnsureParentDirs(r, t)
  OBVIOUS
<1>2. Extended(u, r, t, Len(t))
  BY <1>1, ParentsIs
<1>3. /\ u \in Maps /\ Len(r) <= Len(u) /\ \A i \in 1 .. Len(r) : u[i] = r[i]
      /\ \A i \in 1 .. Len(u) : i \notin 1 .. Len(r) => u[i].is = "directory" /\ u[i].at \in Trees!Above(t)
      /\ \A j \in 1 .. Len(t) : j # Len(t) => SubSeq(t, 1, j) \in Trees!KeysOf(u)
  BY <1>2 DEF Extended
<1>4. Len(r) \in Nat /\ Len(u) \in Nat /\ Len(t) \in Nat
  BY <1>3, MapTypes DEF Keys
<1>5. Trees!Above(t) \subseteq Trees!KeysOf(u)
  <2> SUFFICES ASSUME NEW x \in Trees!Above(t) PROVE x \in Trees!KeysOf(u)
    OBVIOUS
  <2>1. PICK j \in 1 .. Len(t) - 1 : x = SubSeq(t, 1, j)
    BY DEF Trees!Above
  <2>2. j \in 1 .. Len(t) /\ j # Len(t)
    BY <1>4
  <2> QED
    BY <1>3, <2>1, <2>2
<1>6. Trees!KeysOf(u) = Trees!KeysOf(r) \cup Trees!Above(t)
  <2>1. \A x : x \in Trees!KeysOf(r) <=> \E i \in 1 .. Len(r) : r[i].at = x
    BY MapTypes
  <2>2. \A x : x \in Trees!KeysOf(u) <=> \E i \in 1 .. Len(u) : u[i].at = x
    BY <1>3, MapTypes
  <2>3. \A i \in 1 .. Len(r) : i \in 1 .. Len(u)
    BY <1>3, <1>4
  <2> QED
    BY <1>3, <1>5, <2>1, <2>2, <2>3
<1>7. PICK e : e = [at |-> t, is |-> c]
  OBVIOUS
<1>8. e \in Kept /\ e.at = t
  BY <1>7 DEF Kept
<1>9. PICK w : w = Trees!Put(u, e)
  OBVIOUS
<1>10. /\ w \in Maps /\ Len(u) <= Len(w)
       /\ \A i \in 1 .. Len(u) : w[i] = IF u[i].at = t THEN e ELSE u[i]
       /\ \A i \in 1 .. Len(w) : i \notin 1 .. Len(u) => w[i] = e
       /\ Trees!KeysOf(w) = Trees!KeysOf(u) \cup {t}
  BY <1>3, <1>8, <1>9, PutIs
<1>11. Len(w) \in Nat
  BY <1>10, MapTypes
<1>12. Len(r) <= Len(w) /\ \A i \in 1 .. Len(r) : i \in 1 .. Len(u)
  BY <1>3, <1>4, <1>10, <1>11
<1>13. \A i \in 1 .. Len(r) : w[i] = IF r[i].at = t THEN e ELSE r[i]
  BY <1>3, <1>10, <1>12
<1>14. \A i \in 1 .. Len(w) : i \notin 1 .. Len(r) =>
         w[i] = e \/ (w[i].is = "directory" /\ w[i].at \in Trees!Above(t))
  <2> SUFFICES ASSUME NEW i \in 1 .. Len(w), i \notin 1 .. Len(r)
               PROVE  w[i] = e \/ (w[i].is = "directory" /\ w[i].at \in Trees!Above(t))
    OBVIOUS
  <2>1. CASE i \in 1 .. Len(u)
    <3>1. u[i].is = "directory" /\ u[i].at \in Trees!Above(t)
      BY <1>3, <2>1
    <3>2. w[i] = IF u[i].at = t THEN e ELSE u[i]
      BY <1>10, <2>1
    <3> QED
      BY <3>1, <3>2, Zenon
  <2>2. CASE i \notin 1 .. Len(u)
    BY <1>10, <2>2, Zenon
  <2> QED
    BY <2>1, <2>2
<1>15. w = Trees!VirtualWrite(r, t, c)
  BY <1>1, <1>7, <1>9 DEF Trees!VirtualWrite
<1>16. Trees!KeysOf(w) = Trees!KeysOf(r) \cup Trees!Above(t) \cup {t}
  BY <1>6, <1>10
<1> QED
  BY <1>7, <1>10, <1>12, <1>13, <1>14, <1>15, <1>16

(* One entry more of what a deletion leaves.                               *)
Spared(s, t, e) == IF Trees!Goes(t, e.at) THEN s ELSE Append(s, e)
IsLeft(f, s, t, n) == f = [k \in 0 .. n |-> IF k = 0 THEN <<>> ELSE Spared(f[k - 1], t, s[k])]

(* There is such a sequence for any entries.                               *)
LEMMA LeftExists ==
  ASSUME NEW s, NEW t, NEW n \in Nat
  PROVE  \E f : IsLeft(f, s, t, n)
<1> DEFINE S == {m \in Nat : ~ \E f : IsLeft(f, s, t, m)}
<1> SUFFICES ASSUME S # {} PROVE FALSE
  OBVIOUS
<1>1. PICK m \in S : \A y \in S : m <= y
  BY Least
<1>2. m # 0
  <2> DEFINE g0 == [k \in 0 .. 0 |-> <<>>]
  <2>1. IsLeft(g0, s, t, 0)
    BY DEF IsLeft
  <2> QED
    BY <2>1
<1>3. m - 1 \in Nat /\ m - 1 \notin S
  BY <1>1, <1>2
<1>4. PICK f : IsLeft(f, s, t, m - 1)
  BY <1>3
<1> DEFINE g == [k \in 0 .. m |-> IF k # m THEN f[k] ELSE Spared(f[m - 1], t, s[m])]
<1>5. IsLeft(g, s, t, m)
  <2>1. \A k \in 0 .. m - 1 : f[k] = IF k = 0 THEN <<>> ELSE Spared(f[k - 1], t, s[k])
    BY <1>3, <1>4 DEF IsLeft
  <2>2. \A k \in 0 .. m : g[k] = IF k = 0 THEN <<>> ELSE Spared(g[k - 1], t, s[k])
    BY <1>2, <2>1
  <2>3. g = [k \in 0 .. m |-> g[k]]
    OBVIOUS
  <2> HIDE DEF g
  <2> QED
    BY <2>2, <2>3 DEF IsLeft
<1> QED
  BY <1>1, <1>5

(* What the model calls left is one.                                       *)
LEMMA LeftIs ==
  ASSUME NEW s, NEW t, Len(s) \in Nat
  PROVE  IsLeft(Trees!Left(s, t), s, t, Len(s))
<1> DEFINE f == CHOOSE f : IsLeft(f, s, t, Len(s))
<1>1. IsLeft(f, s, t, Len(s))
  BY LeftExists
<1>2. Trees!Left(s, t) = f
  BY DEF Trees!Left, IsLeft, Spared
<1> QED
  BY <1>1, <1>2

(* What is left of the first k entries: those that do not go, each once.   *)
Remains(u, s, t, k) ==
  /\ u \in Maps
  /\ \A i \in 1 .. Len(u) : \E j \in 1 .. k : u[i] = s[j] /\ ~Trees!Goes(t, s[j].at)
  /\ \A j \in 1 .. k : ~Trees!Goes(t, s[j].at) => \E i \in 1 .. Len(u) : u[i] = s[j]

(* One entry of a deletion.                                                *)
LEMMA OneLeft ==
  ASSUME NEW s \in Maps, NEW t, NEW k \in 1 .. Len(s), NEW u, Remains(u, s, t, k - 1)
  PROVE  Remains(Spared(u, t, s[k]), s, t, k)
<1>0. k \in Nat /\ Len(s) \in Nat /\ s[k] \in Kept
  BY MapTypes
<1>1. /\ u \in Maps
      /\ \A i \in 1 .. Len(u) : \E j \in 1 .. k - 1 : u[i] = s[j] /\ ~Trees!Goes(t, s[j].at)
      /\ \A j \in 1 .. k - 1 : ~Trees!Goes(t, s[j].at) => \E i \in 1 .. Len(u) : u[i] = s[j]
  BY DEF Remains
<1>2. /\ \A j \in 1 .. k : j = k \/ j \in 1 .. k - 1
      /\ \A j \in 1 .. k - 1 : j \in 1 .. k /\ j # k /\ j \in 1 .. Len(s)
      /\ k \in 1 .. k
  BY <1>0
<1>3. CASE Trees!Goes(t, s[k].at)
  BY <1>1, <1>2, <1>3 DEF Remains, Spared
<1>4. CASE ~Trees!Goes(t, s[k].at)
  <2>1. s[k].at \notin Trees!KeysOf(u)
    <3> SUFFICES ASSUME s[k].at \in Trees!KeysOf(u) PROVE FALSE
      OBVIOUS
    <3>1. PICK i \in 1 .. Len(u) : u[i].at = s[k].at
      BY <1>1, MapTypes
    <3>2. PICK j \in 1 .. k - 1 : u[i] = s[j]
      BY <1>1
    <3>3. s[j].at = s[k].at /\ j # k /\ j \in 1 .. Len(s)
      BY <1>2, <3>1, <3>2
    <3> QED
      BY <3>3, MapTypes
  <2>2. PICK v : v = Append(u, s[k])
    OBVIOUS
  <2>3. v \in Maps /\ Len(v) = Len(u) + 1 /\ v[Len(u) + 1] = s[k] /\ \A i \in 1 .. Len(u) : v[i] = u[i]
    BY <1>0, <1>1, <2>1, <2>2, Ended
  <2>4. Len(u) \in Nat
    BY <1>1, MapTypes
  <2>5. /\ Len(u) + 1 \in 1 .. Len(v) /\ \A i \in 1 .. Len(v) : i = Len(u) + 1 \/ i \in 1 .. Len(u)
        /\ \A i \in 1 .. Len(u) : i \in 1 .. Len(v)
    BY <2>3, <2>4
  <2>6. \A i \in 1 .. Len(v) : \E j \in 1 .. k : v[i] = s[j] /\ ~Trees!Goes(t, s[j].at)
    <3> TAKE i \in 1 .. Len(v)
    <3>1. CASE i = Len(u) + 1
      BY <1>2, <1>4, <2>3, <3>1
    <3>2. CASE i \in 1 .. Len(u)
      <4>1. PICK j \in 1 .. k - 1 : u[i] = s[j] /\ ~Trees!Goes(t, s[j].at)
        BY <1>1, <3>2
      <4> QED
        BY <1>2, <2>3, <3>2, <4>1
    <3> QED
      BY <2>5, <3>1, <3>2
  <2>7. \A j \in 1 .. k : ~Trees!Goes(t, s[j].at) => \E i \in 1 .. Len(v) : v[i] = s[j]
    <3> SUFFICES ASSUME NEW j \in 1 .. k, ~Trees!Goes(t, s[j].at) PROVE \E i \in 1 .. Len(v) : v[i] = s[j]
      OBVIOUS
    <3>1. CASE j = k
      BY <2>3, <2>5, <3>1
    <3>2. CASE j \in 1 .. k - 1
      <4>1. PICK i \in 1 .. Len(u) : u[i] = s[j]
        BY <1>1, <3>2
      <4> QED
        BY <2>3, <2>5, <4>1
    <3> QED
      BY <1>2, <3>1, <3>2
  <2> QED
    BY <1>4, <2>2, <2>3, <2>6, <2>7 DEF Remains, Spared
<1> QED
  BY <1>3, <1>4

(* All of them.                                                            *)
LEMMA LeftRemains ==
  ASSUME NEW s \in Maps, NEW t, NEW k \in 0 .. Len(s)
  PROVE  Remains(Trees!Left(s, t)[k], s, t, k)
<1>0. PICK n \in Nat : n = Len(s)
  BY MapTypes
<1>1. PICK f : f = Trees!Left(s, t)
  OBVIOUS
<1>2. \A j \in 0 .. n : f[j] = IF j = 0 THEN <<>> ELSE Spared(f[j - 1], t, s[j])
  <2>1. IsLeft(f, s, t, n)
    BY <1>0, <1>1, LeftIs
  <2> QED
    BY <2>1 DEF IsLeft
<1> DEFINE S == {j \in 0 .. n : ~Remains(f[j], s, t, j)}
<1>3. S = {}
  <2> SUFFICES ASSUME S # {} PROVE FALSE
    OBVIOUS
  <2>1. PICK m \in S : \A y \in S : m <= y
    <3>1. S \in SUBSET Nat
      OBVIOUS
    <3> HIDE DEF S
    <3> QED
      BY <3>1, Least
  <2>2. m \in 0 .. n /\ ~Remains(f[m], s, t, m)
    OBVIOUS
  <2>3. m # 0
    <3>1. Remains(<<>>, s, t, 0)
      <4>1. <<>> \in Maps
        BY DEF Maps, Apart
      <4> QED
        BY <4>1 DEF Remains
    <3>2. f[0] = <<>>
      BY <1>0, <1>2
    <3> QED
      BY <2>2, <3>1, <3>2
  <2>4. m - 1 \in 0 .. n /\ m \in 1 .. n /\ m - 1 \notin S
    <3>1. m - 1 \in 0 .. n /\ m \in 1 .. n
      BY <2>2, <2>3
    <3>2. ~(m <= m - 1)
      BY <2>2
    <3> QED
      BY <2>1, <3>1, <3>2
  <2>5. Remains(f[m - 1], s, t, m - 1)
    BY <2>4
  <2> HIDE DEF S
  <2>6. PICK u : u = f[m - 1]
    OBVIOUS
  <2>7. Remains(Spared(u, t, s[m]), s, t, m)
    BY <1>0, <2>4, <2>5, <2>6, OneLeft
  <2>8. f[m] = Spared(u, t, s[m])
    BY <1>2, <2>2, <2>3, <2>6
  <2> QED
    BY <2>2, <2>7, <2>8, Zenon
<1> QED
  BY <1>0, <1>1, <1>3

(* What is left of fewer entries begins what is left of more.              *)
Begins(u, v) == Len(u) <= Len(v) /\ \A i \in 1 .. Len(u) : v[i] = u[i]

(* A walk over fewer entries leaves a beginning of what one over more does.*)
LEMMA LeftBegins ==
  ASSUME NEW s \in Maps, NEW t, NEW k \in 0 .. Len(s)
  PROVE  Begins(Trees!Left(s, t)[k], Trees!Left(s, t)[Len(s)])
<1>0. PICK n \in Nat : n = Len(s)
  BY MapTypes
<1>1. PICK f : f = Trees!Left(s, t)
  OBVIOUS
<1>2. \A j \in 0 .. n : f[j] = IF j = 0 THEN <<>> ELSE Spared(f[j - 1], t, s[j])
  <2>1. IsLeft(f, s, t, n)
    BY <1>0, <1>1, LeftIs
  <2> QED
    BY <2>1 DEF IsLeft
<1>3. \A j \in 0 .. n : f[j] \in Maps
  BY <1>0, <1>1, LeftRemains DEF Remains
<1> DEFINE S == {j \in k .. n : ~Begins(f[k], f[j])}
<1>4. S = {}
  <2> SUFFICES ASSUME S # {} PROVE FALSE
    OBVIOUS
  <2>1. PICK m \in S : \A y \in S : m <= y
    <3>1. S \in SUBSET Nat
      BY <1>0
    <3> HIDE DEF S
    <3> QED
      BY <3>1, Least
  <2>2. m \in k .. n /\ ~Begins(f[k], f[m])
    OBVIOUS
  <2>3. PICK w \in Maps : w = f[k]
    BY <1>0, <1>3
  <2>4. Len(w) \in Nat
    BY <2>3, MapTypes
  <2>5. m # k
    BY <2>2, <2>3, <2>4 DEF Begins
  <2>6. m - 1 \in k .. n /\ m \in 1 .. n /\ m - 1 \in 0 .. n /\ m \in 0 .. n /\ m # 0 /\ m - 1 \notin S
    <3>1. m - 1 \in k .. n /\ m \in 1 .. n /\ m - 1 \in 0 .. n /\ m \in 0 .. n /\ m # 0
      BY <1>0, <2>2, <2>5
    <3>2. ~(m <= m - 1)
      BY <1>0, <2>2
    <3> QED
      BY <2>1, <3>1, <3>2
  <2>7. Begins(f[k], f[m - 1])
    BY <2>6
  <2> HIDE DEF S
  <2>8. PICK u \in Maps : u = f[m - 1]
    BY <1>3, <2>6
  <2>9. f[m] = u \/ f[m] = Append(u, s[m])
    BY <1>2, <2>6, <2>8 DEF Spared
  <2>10. u \in Seq(Kept) /\ Len(u) \in Nat /\ s[m] \in Kept
    BY <1>0, <2>6, <2>8, MapTypes
  <2>11. PICK v : v = Append(u, s[m])
    OBVIOUS
  <2>12. Len(v) = Len(u) + 1 /\ \A i \in 1 .. Len(u) : v[i] = u[i]
    BY <2>10, <2>11, AppendProperties
  <2>13. Len(w) <= Len(u) /\ \A i \in 1 .. Len(w) : u[i] = w[i]
    BY <2>3, <2>7, <2>8 DEF Begins
  <2>14. Len(w) <= Len(v) /\ \A i \in 1 .. Len(w) : i \in 1 .. Len(u)
    BY <2>4, <2>10, <2>12, <2>13
  <2>15. Begins(w, v) /\ Begins(w, u)
    BY <2>12, <2>13, <2>14 DEF Begins
  <2> QED
    BY <2>2, <2>3, <2>8, <2>9, <2>11, <2>15, Zenon
<1>5. n \in k .. n
  BY <1>0
<1> QED
  BY <1>0, <1>1, <1>4, <1>5

(* A Map and a tree of the same files, in directories that are there.      *)
Alike(s, t) ==
  /\ \A i \in 1 .. Len(s) : s[i].at \in DOMAIN t /\ t[s[i].at] = s[i].is
  /\ \A x \in DOMAIN t : x \in Trees!KeysOf(s) /\ x # <<>>
  /\ \A x \in DOMAIN t : \A y \in Trees!Above(x) : y \in DOMAIN t /\ t[y] = "directory"

(* Where they are alike, they answer alike.                                *)
LEMMA SameReads ==
  ASSUME NEW s \in Maps, NEW t, Alike(s, t), NEW x
  PROVE  Trees!VirtualRead(s, x) = Trees!TreeRead(t, x)
<1>1. /\ DOMAIN s = 1 .. Len(s)
      /\ \A i, j \in 1 .. Len(s) : s[i].at = s[j].at => i = j
      /\ \A y : y \in Trees!KeysOf(s) <=> \E i \in 1 .. Len(s) : s[i].at = y
  BY MapTypes
<1>2. \A v : v \in Trees!VirtualRead(s, x) <=>
               \E i \in 1 .. Len(s) : s[i].at = x /\ s[i].is # "directory" /\ v = s[i].is
  BY <1>1 DEF Trees!VirtualRead, Trees!Range, Trees!Dir
<1>3. \A v : v \in Trees!TreeRead(t, x) <=> x \in DOMAIN t /\ t[x] # "directory" /\ v = t[x]
  BY DEF Trees!TreeRead, Trees!IsFile, Trees!Dir
<1>4. x \in DOMAIN t => \E i \in 1 .. Len(s) : s[i].at = x
  BY <1>1 DEF Alike
<1>5. \A i \in 1 .. Len(s) : s[i].at \in DOMAIN t /\ t[s[i].at] = s[i].is
  BY DEF Alike
<1>6. ASSUME NEW v \in Trees!VirtualRead(s, x) PROVE v \in Trees!TreeRead(t, x)
  <2>1. PICK i \in 1 .. Len(s) : s[i].at = x /\ s[i].is # "directory" /\ v = s[i].is
    BY <1>2
  <2> QED
    BY <1>3, <1>5, <2>1
<1>7. ASSUME NEW v \in Trees!TreeRead(t, x) PROVE v \in Trees!VirtualRead(s, x)
  <2>1. x \in DOMAIN t /\ t[x] # "directory" /\ v = t[x]
    BY <1>3
  <2>2. PICK i \in 1 .. Len(s) : s[i].at = x
    BY <1>4, <2>1
  <2> QED
    BY <1>2, <1>5, <2>1, <2>2
<1> QED
  BY <1>6, <1>7

(* A walk down such a tree enters every directory on its way.              *)
LEMMA AllEntered ==
  ASSUME NEW s \in Maps, NEW t, Alike(s, t), NEW x \in DOMAIN t, NEW i \in 1 .. Len(x) - 1
  PROVE  Trees!Entered(t, x, i)
<1>1. SubSeq(x, 1, i) \in Trees!Above(x)
  BY DEF Trees!Above
<1> QED
  BY <1>1 DEF Trees!Entered, Alike, Trees!Dir

(* The files that glob() and search() look through are the same.           *)
LEMMA SameFiles ==
  ASSUME NEW s \in Maps, NEW t, Alike(s, t)
  PROVE  Trees!VirtualFiles(s) = Trees!TreeFiles(t)
<1>1. /\ DOMAIN s = 1 .. Len(s)
      /\ \A y : y \in Trees!KeysOf(s) <=> \E i \in 1 .. Len(s) : s[i].at = y
  BY MapTypes
<1>2. \A v : v \in Trees!VirtualFiles(s) <=> \E i \in 1 .. Len(s) : s[i].is # "directory" /\ v = s[i].at
  BY <1>1 DEF Trees!VirtualFiles, Trees!Range, Trees!Dir
<1>3. \A v : v \in Trees!TreeFiles(t) <=>
               v \in DOMAIN t /\ t[v] # "directory" /\ v # <<>> /\ \A i \in 1 .. Len(v) - 1 : Trees!Entered(t, v, i)
  BY DEF Trees!TreeFiles, Trees!Dir
<1>4. \A v \in DOMAIN t : v # <<>> /\ (\E i \in 1 .. Len(s) : s[i].at = v)
  BY <1>1 DEF Alike
<1>5. \A v \in DOMAIN t : \A i \in 1 .. Len(v) - 1 : Trees!Entered(t, v, i)
  BY AllEntered
<1>6. \A i \in 1 .. Len(s) : s[i].at \in DOMAIN t /\ t[s[i].at] = s[i].is
  BY DEF Alike
<1>7. ASSUME NEW v \in Trees!VirtualFiles(s) PROVE v \in Trees!TreeFiles(t)
  <2>1. PICK i \in 1 .. Len(s) : s[i].is # "directory" /\ v = s[i].at
    BY <1>2
  <2>2. v \in DOMAIN t /\ t[v] # "directory"
    BY <1>6, <2>1
  <2> QED
    BY <1>3, <1>4, <1>5, <2>2
<1>8. ASSUME NEW v \in Trees!TreeFiles(t) PROVE v \in Trees!VirtualFiles(s)
  <2>1. v \in DOMAIN t /\ t[v] # "directory"
    BY <1>3
  <2>2. PICK i \in 1 .. Len(s) : s[i].at = v
    BY <1>4, <2>1
  <2> QED
    BY <1>2, <1>6, <2>1, <2>2
<1> QED
  BY <1>7, <1>8

(* list() of a location, with or without a depth.                          *)
Listed(x, y, o) ==
  /\ Trees!Below(x, y) /\ y # x /\ Trees!Reaches(o, Len(y) - Len(x))
  /\ o.includeHidden \/ \A i \in Len(x) + 1 .. Len(y) : y[i] \notin HiddenNames

(* list() shows the same of any directory.                                 *)
LEMMA SameLists ==
  ASSUME NEW s \in Maps, NEW t, Alike(s, t), NEW x \in Keys,
         NEW o \in [recursive : BOOLEAN, maxDepth : 0 .. 2, includeHidden : BOOLEAN], o.recursive \/ o.maxDepth = 0
  PROVE  Trees!VirtualList(s, x, o) = Trees!TreeList(t, x, o)
<1>1. /\ DOMAIN s = 1 .. Len(s)
      /\ \A y : y \in Trees!KeysOf(s) <=> \E i \in 1 .. Len(s) : s[i].at = y
      /\ \A i \in 1 .. Len(s) : s[i].at \in Keys
  BY MapTypes
<1>2. \A d : Trees!Enters(o, d) <=> Trees!Reaches(o, d)
  BY DEF Trees!Enters, Trees!Reaches
<1>3. \A i \in 1 .. Len(s) : s[i].at \in DOMAIN t /\ t[s[i].at] = s[i].is
  BY DEF Alike
<1>4. \A y \in DOMAIN t : \E i \in 1 .. Len(s) : s[i].at = y
  BY <1>1 DEF Alike
<1>5. \A y \in DOMAIN t : \A i \in Len(x) + 1 .. Len(y) - 1 : Trees!Entered(t, y, i)
  <2> TAKE y \in DOMAIN t
  <2>1. y \in Keys
    BY <1>1, <1>4
  <2>2. \A i \in Len(x) + 1 .. Len(y) - 1 : i \in 1 .. Len(y) - 1
    BY <2>1 DEF Keys
  <2> QED
    BY <2>2, AllEntered
<1>6. \A v : v \in Trees!VirtualList(s, x, o) <=>
               \E i \in 1 .. Len(s) : /\ Listed(x, s[i].at, o)
                                      /\ v = <<SubSeq(s[i].at, Len(x) + 1, Len(s[i].at)), s[i].is = "directory">>
  <2>1. \A e : e \in Trees!Range(s) <=> \E i \in 1 .. Len(s) : e = s[i]
    BY <1>1 DEF Trees!Range
  <2>2. \A v : v \in Trees!VirtualList(s, x, o) <=>
               \E e \in Trees!Range(s) : /\ Listed(x, e.at, o)
                                         /\ v = <<SubSeq(e.at, Len(x) + 1, Len(e.at)), e.is = "directory">>
    BY DEF Trees!VirtualList, Trees!Dir, Listed
  <2> DEFINE Shown(v, e) == /\ Listed(x, e.at, o)
                            /\ v = <<SubSeq(e.at, Len(x) + 1, Len(e.at)), e.is = "directory">>
  <2>3. \A v : v \in Trees!VirtualList(s, x, o) <=> \E e \in Trees!Range(s) : Shown(v, e)
    BY <2>2
  <2>4. \A v : v \in Trees!VirtualList(s, x, o) <=> \E i \in 1 .. Len(s) : Shown(v, s[i])
    <3> HIDE DEF Shown
    <3> QED
      BY <2>1, <2>3
  <2> QED
    BY <2>4
<1>7. \A v : v \in Trees!TreeList(t, x, o) <=>
               \E y \in DOMAIN t : /\ Listed(x, y, o)
                                   /\ v = <<SubSeq(y, Len(x) + 1, Len(y)), t[y] = "directory">>
  BY <1>2, <1>5 DEF Trees!TreeList, Trees!Dir, Listed
<1>8. ASSUME NEW v \in Trees!VirtualList(s, x, o) PROVE v \in Trees!TreeList(t, x, o)
  <2>1. PICK i \in 1 .. Len(s) : /\ Listed(x, s[i].at, o)
                                 /\ v = <<SubSeq(s[i].at, Len(x) + 1, Len(s[i].at)), s[i].is = "directory">>
    BY <1>6
  <2>2. PICK y \in DOMAIN t : y = s[i].at /\ t[y] = s[i].is
    BY <1>3
  <2>3. Listed(x, y, o) /\ v = <<SubSeq(y, Len(x) + 1, Len(y)), t[y] = "directory">>
    BY <2>1, <2>2
  <2> QED
    BY <1>7, <2>3
<1>9. ASSUME NEW v \in Trees!TreeList(t, x, o) PROVE v \in Trees!VirtualList(s, x, o)
  <2>1. PICK y \in DOMAIN t : /\ Listed(x, y, o)
                              /\ v = <<SubSeq(y, Len(x) + 1, Len(y)), t[y] = "directory">>
    BY <1>7
  <2>2. PICK i \in 1 .. Len(s) : s[i].at = y /\ t[y] = s[i].is
    BY <1>3, <1>4
  <2>3. Listed(x, s[i].at, o) /\ v = <<SubSeq(s[i].at, Len(x) + 1, Len(s[i].at)), s[i].is = "directory">>
    BY <2>1, <2>2, Zenon
  <2> QED
    BY <1>6, <2>3
<1> QED
  BY <1>8, <1>9

(* A file that a tree takes makes them alike again.                        *)
LEMMA WriteAlike ==
  ASSUME NEW s \in Maps, NEW t, Alike(s, t), NEW x \in Keys, Trees!TreeTakes(t, x), NEW c \in FileContents
  PROVE  Alike(Trees!VirtualWrite(s, x, c), Trees!TreeWrite(t, x, c))
<1>1. PICK w \in Maps : /\ w = Trees!VirtualWrite(s, x, c) /\ Len(s) <= Len(w)
                        /\ \A i \in 1 .. Len(s) : w[i] = IF s[i].at = x THEN [at |-> x, is |-> c] ELSE s[i]
                        /\ \A i \in 1 .. Len(w) : i \notin 1 .. Len(s) =>
                             w[i] = [at |-> x, is |-> c] \/ (w[i].is = "directory" /\ w[i].at \in Trees!Above(x))
                        /\ Trees!KeysOf(w) = Trees!KeysOf(s) \cup Trees!Above(x) \cup {x}
  BY Written
<1>2. PICK e : e = [at |-> x, is |-> c]
  OBVIOUS
<1>3. e.at = x /\ e.is = c
  BY <1>2
<1>4. PICK u : u = Trees!TreeWrite(t, x, c)
  OBVIOUS
<1>5. /\ DOMAIN u = {x} \cup Trees!Above(x) \cup DOMAIN t
      /\ u[x] = c
      /\ \A y \in DOMAIN t : y # x => u[y] = t[y]
      /\ \A y \in Trees!Above(x) : y # x /\ y \notin DOMAIN t => u[y] = "directory"
  BY <1>4 DEF Trees!TreeWrite, Trees!Dir
<1>6. /\ x # <<>> /\ (x \in DOMAIN t => t[x] # "directory")
      /\ \A y \in Trees!Above(x) : y \in DOMAIN t => t[y] = "directory"
  BY DEF Trees!TreeTakes, Trees!IsFile, Trees!Dir
<1>7. \A y \in Trees!Above(x) : y \in Keys /\ y # x /\ Trees!Above(y) \subseteq Trees!Above(x)
  BY AboveAbove
<1>8. \A y \in Trees!Above(x) : y \in DOMAIN u /\ u[y] = "directory"
  BY <1>5, <1>6, <1>7
<1>9. /\ \A i \in 1 .. Len(s) : s[i].at \in DOMAIN t /\ t[s[i].at] = s[i].is
      /\ \A y \in DOMAIN t : y \in Trees!KeysOf(s) /\ y # <<>>
      /\ \A y \in DOMAIN t : \A z \in Trees!Above(y) : z \in DOMAIN t /\ t[z] = "directory"
  BY DEF Alike
<1>10. ASSUME NEW i \in 1 .. Len(w) PROVE w[i].at \in DOMAIN u /\ u[w[i].at] = w[i].is
  <2>1. CASE w[i] = e
    BY <1>3, <1>5, <2>1
  <2>2. CASE i \in 1 .. Len(s) /\ s[i].at # x
    <3>1. w[i] = s[i]
      BY <1>1, <2>2
    <3> QED
      BY <1>5, <1>9, <2>2, <3>1
  <2>3. CASE w[i].is = "directory" /\ w[i].at \in Trees!Above(x)
    BY <1>8, <2>3
  <2>4. i \in 1 .. Len(s) => w[i] = e \/ s[i].at # x
    BY <1>1, <1>2
  <2>5. i \notin 1 .. Len(s) => w[i] = e \/ (w[i].is = "directory" /\ w[i].at \in Trees!Above(x))
    BY <1>1, <1>2, Zenon
  <2> QED
    BY <2>1, <2>2, <2>3, <2>4, <2>5, Zenon
<1>11. \A y \in DOMAIN u : y \in Trees!KeysOf(w) /\ y # <<>>
  <2>1. \A y \in Trees!Above(x) : y # <<>>
    BY AboveIs
  <2> QED
    BY <1>1, <1>5, <1>6, <1>9, <2>1
<1>12. ASSUME NEW y \in DOMAIN u, NEW z \in Trees!Above(y) PROVE z \in DOMAIN u /\ u[z] = "directory"
  <2>1. CASE y = x \/ y \in Trees!Above(x)
    <3>1. z \in Trees!Above(x)
      BY <1>7, <2>1
    <3> QED
      BY <1>8, <3>1
  <2>2. CASE y \in DOMAIN t
    <3>1. z \in DOMAIN t /\ t[z] = "directory"
      BY <1>9, <2>2
    <3>2. z # x
      BY <1>6, <3>1
    <3> QED
      BY <1>5, <3>1, <3>2
  <2> QED
    BY <1>5, <2>1, <2>2
<1>13. Alike(w, u)
  BY <1>10, <1>11, <1>12 DEF Alike
<1> QED
  BY <1>1, <1>4, <1>13

(* So does what is deleted, unless it is a whole zone.                     *)
LEMMA DeleteAlike ==
  ASSUME NEW s \in Maps, NEW t, Alike(s, t), NEW x \in Keys, x = <<>> => DOMAIN t = {}
  PROVE  Alike(Trees!VirtualDelete(s, x), Trees!TreeDelete(t, x))
<1>0. PICK n \in Nat : n = Len(s)
  BY MapTypes
<1>1. PICK w : w = Trees!VirtualDelete(s, x)
  OBVIOUS
<1>2. PICK u : u = Trees!TreeDelete(t, x)
  OBVIOUS
<1>3. Remains(w, s, x, n)
  BY <1>0, <1>1, LeftRemains DEF Trees!VirtualDelete
<1>4. /\ w \in Maps
      /\ \A i \in 1 .. Len(w) : \E j \in 1 .. n : w[i] = s[j] /\ ~Trees!Goes(x, s[j].at)
      /\ \A j \in 1 .. n : ~Trees!Goes(x, s[j].at) => \E i \in 1 .. Len(w) : w[i] = s[j]
  BY <1>3 DEF Remains
<1>5. DOMAIN u = {y \in DOMAIN t : ~Trees!Below(x, y)} /\ \A y \in DOMAIN u : u[y] = t[y]
  BY <1>2 DEF Trees!TreeDelete
<1>6. /\ \A i \in 1 .. n : s[i].at \in DOMAIN t /\ t[s[i].at] = s[i].is
      /\ \A y \in DOMAIN t : y \in Trees!KeysOf(s) /\ y # <<>>
      /\ \A y \in DOMAIN t : \A z \in Trees!Above(y) : z \in DOMAIN t /\ t[z] = "directory"
  BY <1>0 DEF Alike
<1>7. \A y : y \in Trees!KeysOf(s) <=> \E i \in 1 .. n : s[i].at = y
  BY <1>0, MapTypes
<1>8. \A y : y \in Trees!KeysOf(w) <=> \E i \in 1 .. Len(w) : w[i].at = y
  BY <1>4, MapTypes
<1>9. \A y \in DOMAIN t : Trees!Goes(x, y) <=> Trees!Below(x, y)
  BY DEF Trees!Goes
<1>10. \A i \in 1 .. Len(w) : w[i].at \in DOMAIN u /\ u[w[i].at] = w[i].is
  BY <1>4, <1>5, <1>6, <1>9
<1>11. \A y \in DOMAIN u : y \in Trees!KeysOf(w) /\ y # <<>>
  <2> TAKE y \in DOMAIN u
  <2>1. y \in DOMAIN t /\ ~Trees!Goes(x, y)
    BY <1>5, <1>9
  <2>2. PICK j \in 1 .. n : s[j].at = y
    BY <1>6, <1>7, <2>1
  <2>3. PICK i \in 1 .. Len(w) : w[i] = s[j]
    BY <1>4, <2>1, <2>2
  <2> QED
    BY <1>6, <1>8, <2>1, <2>2, <2>3
<1>12. ASSUME NEW y \in DOMAIN u, NEW z \in Trees!Above(y) PROVE z \in DOMAIN u /\ u[z] = "directory"
  <2>0. \A j \in 1 .. n : s[j].at \in Keys
    BY <1>0, MapTypes
  <2>1. y \in DOMAIN t /\ ~Trees!Below(x, y) /\ y \in Keys
    BY <1>5, <1>6, <1>7, <2>0
  <2>2. ~Trees!Below(x, z)
    BY <2>1, BelowDown
  <2> QED
    BY <1>5, <1>6, <2>1, <2>2
<1>13. Alike(w, u)
  BY <1>10, <1>11, <1>12 DEF Alike
<1> QED
  BY <1>1, <1>2, <1>13

-----------------------------------------------------------------------------
(* What a walk up to an entry has put on disk, of the files nobody changed.*)
Covers(s, k, ch, d) ==
  /\ k \in Nat \ {0} /\ k <= Len(s) + 1
  /\ \A i \in 1 .. Len(s) : i < k /\ s[i].is # "directory" /\ s[i].at \notin ch =>
                              s[i].at \in DOMAIN d /\ d[s[i].at] = s[i].is

(* A file written under the walk of a sync leaves it covered: it counts as *)
(* changed.                                                                *)
LEMMA WriteCovers ==
  ASSUME NEW s \in Maps, NEW x \in Keys, NEW c \in FileContents, NEW k, NEW ch, NEW d, Covers(s, k, ch, d)
  PROVE  Covers(Trees!VirtualWrite(s, x, c), k, ch \cup {x}, d)
<1>1. PICK w \in Maps : /\ w = Trees!VirtualWrite(s, x, c) /\ Len(s) <= Len(w)
                        /\ \A i \in 1 .. Len(s) : w[i] = IF s[i].at = x THEN [at |-> x, is |-> c] ELSE s[i]
  BY Written
<1>2. /\ k \in Nat \ {0} /\ k <= Len(s) + 1
      /\ \A i \in 1 .. Len(s) : i < k /\ s[i].is # "directory" /\ s[i].at \notin ch =>
                              s[i].at \in DOMAIN d /\ d[s[i].at] = s[i].is
  BY DEF Covers
<1>3. Len(s) \in Nat /\ Len(w) \in Nat
  BY <1>1, MapTypes
<1>4. ASSUME NEW i \in 1 .. Len(w), i < k, w[i].is # "directory", w[i].at \notin ch \cup {x}
      PROVE  w[i].at \in DOMAIN d /\ d[w[i].at] = w[i].is
  <2>1. i \in 1 .. Len(s)
    BY <1>2, <1>3, <1>4
  <2>2. s[i].at # x
    <3> SUFFICES ASSUME s[i].at = x PROVE FALSE
      OBVIOUS
    <3>1. w[i] = [at |-> x, is |-> c]
      BY <1>1, <2>1
    <3>2. w[i].at = x
      BY <3>1
    <3> QED
      BY <1>4, <3>2
  <2>3. w[i] = s[i]
    BY <1>1, <2>1, <2>2
  <2> QED
    BY <1>2, <1>4, <2>1, <2>3
<1>5. k <= Len(w) + 1
  BY <1>1, <1>2, <1>3
<1> QED
  BY <1>1, <1>2, <1>4, <1>5 DEF Covers

(* So does a deletion, which moves the walk back by what went before it.   *)
LEMMA DeleteCovers ==
  ASSUME NEW s \in Maps, NEW x \in Keys, NEW k, NEW ch, NEW d, Covers(s, k, ch, d), NEW gone
  PROVE  Covers(Trees!VirtualDelete(s, x), Len(Trees!Left(s, x)[k - 1]) + 1, ch \cup gone, d)
<1>0. PICK n \in Nat : n = Len(s)
  BY MapTypes
<1>1. /\ k \in Nat \ {0} /\ k <= n + 1
      /\ \A i \in 1 .. n : i < k /\ s[i].is # "directory" /\ s[i].at \notin ch =>
                              s[i].at \in DOMAIN d /\ d[s[i].at] = s[i].is
  BY <1>0 DEF Covers
<1>2. PICK w : w = Trees!VirtualDelete(s, x)
  OBVIOUS
<1>3. PICK u : u = Trees!Left(s, x)[k - 1]
  OBVIOUS
<1>4. k - 1 \in 0 .. n /\ n \in 0 .. n
  BY <1>0, <1>1
<1>5. Remains(u, s, x, k - 1) /\ Remains(w, s, x, n) /\ Begins(u, w)
  BY <1>0, <1>2, <1>3, <1>4, LeftRemains, LeftBegins DEF Trees!VirtualDelete
<1>6. u \in Maps /\ w \in Maps /\ \A i \in 1 .. Len(u) : \E j \in 1 .. k - 1 : u[i] = s[j]
  BY <1>5 DEF Remains
<1>7. Len(u) <= Len(w) /\ \A i \in 1 .. Len(u) : w[i] = u[i]
  BY <1>5 DEF Begins
<1>8. Len(u) \in Nat /\ Len(w) \in Nat
  BY <1>6, MapTypes
<1>9. ASSUME NEW i \in 1 .. Len(w), i < Len(u) + 1, w[i].is # "directory", w[i].at \notin ch \cup gone
      PROVE  w[i].at \in DOMAIN d /\ d[w[i].at] = w[i].is
  <2>1. i \in 1 .. Len(u)
    BY <1>8, <1>9
  <2>2. PICK j \in 1 .. k - 1 : w[i] = s[j]
    BY <1>6, <1>7, <2>1
  <2>3. j \in 1 .. n /\ j < k
    BY <1>0, <1>1, <2>2
  <2> QED
    BY <1>1, <1>9, <2>2, <2>3
<1>10. Len(u) + 1 \in Nat \ {0} /\ Len(u) + 1 <= Len(w) + 1
  BY <1>7, <1>8
<1>11. Covers(w, Len(u) + 1, ch \cup gone, d)
  BY <1>9, <1>10 DEF Covers
<1> QED
  BY <1>2, <1>3, <1>11

(* And a turn of the walk, which has put its file on disk.                 *)
LEMMA TurnCovers ==
  ASSUME NEW s \in Maps, NEW k, NEW ch, NEW d, Covers(s, k, ch, d), k <= Len(s), NEW e, e = s[k], NEW written,
         written = IF e.is = "directory" THEN d ELSE [x \in {e.at} \cup DOMAIN d |-> IF x = e.at THEN e.is ELSE d[x]]
  PROVE  Covers(s, k + 1, ch, written)
<1>0. PICK n \in Nat : n = Len(s)
  BY MapTypes
<1>1. /\ k \in Nat \ {0} /\ k <= n
      /\ \A i \in 1 .. n : i < k /\ s[i].is # "directory" /\ s[i].at \notin ch =>
                              s[i].at \in DOMAIN d /\ d[s[i].at] = s[i].is
  BY <1>0 DEF Covers
<1>2. k \in 1 .. n /\ k + 1 \in Nat \ {0} /\ k + 1 <= n + 1
  BY <1>0, <1>1
<1>3. \A i \in 1 .. n : s[i].at = s[k].at => i = k
  BY <1>0, <1>2, MapTypes
<1>4. ASSUME NEW i \in 1 .. n, i < k + 1, s[i].is # "directory", s[i].at \notin ch
      PROVE  s[i].at \in DOMAIN written /\ written[s[i].at] = s[i].is
  <2>1. CASE i = k
    BY <1>4, <2>1
  <2>2. CASE i # k
    <3>1. i < k
      BY <1>1, <1>4, <2>2
    <3>2. s[i].at \in DOMAIN d /\ d[s[i].at] = s[i].is
      BY <1>1, <1>4, <3>1
    <3>3. s[i].at # e.at
      BY <1>3, <2>2
    <3> QED
      BY <3>2, <3>3
  <2> QED
    BY <2>1, <2>2
<1> QED
  BY <1>0, <1>2, <1>4 DEF Covers

(* A Map that is written is a Map.                                         *)
LEMMA WriteTypes ==
  ASSUME NEW s \in Maps, NEW x \in Keys, NEW c \in FileContents
  PROVE  Trees!VirtualWrite(s, x, c) \in Maps
<1>1. PICK w \in Maps : /\ w = Trees!VirtualWrite(s, x, c) /\ Len(s) <= Len(w)
                        /\ \A i \in 1 .. Len(s) : w[i] = IF s[i].at = x THEN [at |-> x, is |-> c] ELSE s[i]
  BY Written
<1> QED
  BY <1>1

(* A normalised path is a key.                                             *)
LEMMA NormalizedTypes ==
  ASSUME NEW path \in Seq(FileNames \cup Trees!Idle \cup {Trees!Up})
  PROVE  Trees!Normalized(path) \in Keys
<1>1. PICK n \in Nat : n = Len(path)
  OBVIOUS
<1>2. \A i \in 1 .. n : path[i] \in Segments
  BY <1>1, ElementOfSeq DEF Segments
<1>3. PICK f : IsNormal(f, path, n) /\ Trees!Normalized(path) = f[n]
  BY <1>1, NormalizedIs
<1>4. \A k \in 0 .. n : f[k] \in Keys
  BY <1>2, <1>3, NormalTypes
<1> QED
  BY <1>1, <1>3, <1>4

(* Where a call that no tree refuses leads, in each of them.               *)
LEMMA LocatedIs ==
  ASSUME NEW zone \in {"transient", "persistent"}, NEW path \in Seq(FileNames \cup Trees!Idle \cup {Trees!Up}),
         \A i \in DOMAIN path : path[i] # zone, ~Trees!Absolute(path), NEW x \in Trees!Located(zone, path)
  PROVE  x = Trees!Normalized(path)
<1>1. CASE kind = "opfs"
  BY <1>1 DEF Trees!Located, Trees!OpfsPath
<1>2. CASE kind # "opfs"
  <2>1. x \in Trees!TreePath(zone, path)
    BY <1>2 DEF Trees!Located
  <2> QED
    BY <2>1, TreePathIs
<1> QED
  BY <1>1, <1>2

-----------------------------------------------------------------------------
(* Zones that are alike while neither kind refused what the other took, and*)
(* a walk that has covered what it passed.                                 *)
FilesInv ==
  /\ virt \in [{"transient", "persistent"} -> Maps] /\ DOMAIN tree = {"transient", "persistent"}
  /\ tree = [z \in {"transient", "persistent"} |-> tree[z]]
  /\ agreed \in BOOLEAN
  /\ agreed => \A z \in {"transient", "persistent"} : Alike(virt[z], tree[z])
  /\ sync \in [on : BOOLEAN, cursor : Nat \ {0}, changed : SUBSET Keys, covered : {TRUE}]
  /\ IF sync.on THEN Covers(virt["persistent"], sync.cursor, sync.changed, disk) ELSE sync.cursor = 1

(* It holds of empty zones.                                                *)
LEMMA FilesStart == Trees!Init => FilesInv
<1> SUFFICES ASSUME Trees!Init PROVE FilesInv
  OBVIOUS
<1>1. /\ virt = [z \in {"transient", "persistent"} |-> <<>>] /\ tree = [z \in {"transient", "persistent"} |-> <<>>]
      /\ agreed = TRUE /\ sync = [on |-> FALSE, cursor |-> 1, changed |-> {}, covered |-> TRUE]
  BY DEF Trees!Init, Trees!Zones, Trees!NotSyncing
<1>2. <<>> \in Maps
  BY DEF Maps, Apart
<1>3. Alike(<<>>, <<>>)
  BY DEF Alike
<1>4. virt \in [{"transient", "persistent"} -> Maps] /\ DOMAIN tree = {"transient", "persistent"}
  BY <1>1, <1>2
<1>5. \A z \in {"transient", "persistent"} : Alike(virt[z], tree[z])
  BY <1>1, <1>3
<1>6. sync \in [on : BOOLEAN, cursor : Nat \ {0}, changed : SUBSET Keys, covered : {TRUE}] /\ ~sync.on /\ sync.cursor = 1
  BY <1>1
<1>7. tree = [z \in {"transient", "persistent"} |-> tree[z]]
  BY <1>1
<1> QED
  BY <1>1, <1>4, <1>5, <1>6, <1>7 DEF FilesInv

(* What Touch does to the Maps and to the walk.                            *)
LEMMA Touched ==
  ASSUME FilesInv, NEW zone \in {"transient", "persistent"}, NEW s \in Maps, NEW k, NEW ch \in SUBSET Keys,
         Trees!Touch(zone, s, k, ch), disk' = disk,
         zone = "persistent" /\ sync.on => Covers(s, k, sync.changed \cup ch, disk)
  PROVE  /\ virt' \in [{"transient", "persistent"} -> Maps] /\ virt'[zone] = s
         /\ \A z \in {"transient", "persistent"} : z # zone => virt'[z] = virt[z]
         /\ sync' \in [on : BOOLEAN, cursor : Nat \ {0}, changed : SUBSET Keys, covered : {TRUE}]
         /\ IF sync'.on THEN Covers(virt'["persistent"], sync'.cursor, sync'.changed, disk') ELSE sync'.cursor = 1
<1>1. /\ virt \in [{"transient", "persistent"} -> Maps]
      /\ sync \in [on : BOOLEAN, cursor : Nat \ {0}, changed : SUBSET Keys, covered : {TRUE}]
      /\ IF sync.on THEN Covers(virt["persistent"], sync.cursor, sync.changed, disk) ELSE sync.cursor = 1
  BY DEF FilesInv
<1>2. /\ virt' = [virt EXCEPT ![zone] = s]
      /\ sync' = IF ~sync.on \/ zone # "persistent" THEN sync
                 ELSE [sync EXCEPT !.changed = sync.changed \cup ch, !.cursor = k]
  BY DEF Trees!Touch
<1>3. /\ virt' \in [{"transient", "persistent"} -> Maps] /\ virt'[zone] = s
      /\ \A z \in {"transient", "persistent"} : z # zone => virt'[z] = virt[z]
  BY <1>1, <1>2
<1>4. CASE ~sync.on \/ zone # "persistent"
  <2>1. sync' = sync
    BY <1>2, <1>4
  <2>2. sync.on => virt'["persistent"] = virt["persistent"]
    BY <1>3, <1>4
  <2> QED
    BY <1>1, <1>3, <2>1, <2>2
<1>5. CASE sync.on /\ zone = "persistent"
  <2>1. sync' = [sync EXCEPT !.changed = sync.changed \cup ch, !.cursor = k]
    BY <1>2, <1>5
  <2>2. Covers(s, k, sync.changed \cup ch, disk)
    BY <1>5
  <2>3. k \in Nat \ {0}
    BY <2>2 DEF Covers
  <2>4. sync'.on = sync.on /\ sync'.cursor = k /\ sync'.changed = sync.changed \cup ch
    BY <1>1, <2>1
  <2>5. sync' \in [on : BOOLEAN, cursor : Nat \ {0}, changed : SUBSET Keys, covered : {TRUE}]
    BY <1>1, <2>1, <2>3
  <2> QED
    BY <1>3, <1>5, <2>2, <2>4, <2>5
<1> QED
  BY <1>3, <1>4, <1>5

(* write().                                                                *)
LEMMA WriteStep ==
  ASSUME FilesInv, NEW zone \in {"transient", "persistent"}, NEW path \in Seq(FileNames \cup Trees!Idle \cup {Trees!Up}),
         \A i \in DOMAIN path : path[i] # zone, NEW c \in FileContents, Trees!Write(zone, path, c)
  PROVE  FilesInv'
<1> DEFINE here == {x \in Trees!Located(zone, path) : Trees!TreeTakes(tree[zone], x)}
<1>1. /\ virt \in [{"transient", "persistent"} -> Maps] /\ DOMAIN tree = {"transient", "persistent"}
      /\ tree = [z \in {"transient", "persistent"} |-> tree[z]]
      /\ agreed \in BOOLEAN
      /\ agreed => \A z \in {"transient", "persistent"} : Alike(virt[z], tree[z])
      /\ IF sync.on THEN Covers(virt["persistent"], sync.cursor, sync.changed, disk) ELSE sync.cursor = 1
  BY DEF FilesInv
<1>2. PICK x \in Keys : x = Trees!Normalized(path)
  BY NormalizedTypes
<1>3. PICK s \in Maps : s = virt[zone]
  BY <1>1
<1>4. PICK w \in Maps : w = Trees!VirtualWrite(s, x, c)
  <2>1. Trees!VirtualWrite(s, x, c) \in Maps
    BY WriteTypes
  <2> QED
    BY <2>1
<1>5. /\ Trees!Touch(zone, w, sync.cursor, {x})
      /\ tree' = [tree EXCEPT ![zone] = IF here = {} THEN tree[zone]
                                        ELSE Trees!TreeWrite(tree[zone], CHOOSE y \in here : TRUE, c)]
      /\ agreed' = (agreed /\ here # {} /\ ~Trees!Absolute(path))
      /\ disk' = disk
  BY <1>2, <1>3, <1>4 DEF Trees!Write
<1>6. zone = "persistent" /\ sync.on => Covers(w, sync.cursor, sync.changed \cup {x}, disk)
  BY <1>1, <1>3, <1>4, WriteCovers
<1>7. /\ virt' \in [{"transient", "persistent"} -> Maps] /\ virt'[zone] = w
      /\ \A z \in {"transient", "persistent"} : z # zone => virt'[z] = virt[z]
      /\ sync' \in [on : BOOLEAN, cursor : Nat \ {0}, changed : SUBSET Keys, covered : {TRUE}]
      /\ IF sync'.on THEN Covers(virt'["persistent"], sync'.cursor, sync'.changed, disk') ELSE sync'.cursor = 1
  BY <1>5, <1>6, Touched
<1> DEFINE t2 == IF here = {} THEN tree[zone] ELSE Trees!TreeWrite(tree[zone], CHOOSE y \in here : TRUE, c)
<1>8. /\ DOMAIN tree' = {"transient", "persistent"} /\ tree' = [z \in {"transient", "persistent"} |-> tree'[z]]
      /\ tree'[zone] = t2
      /\ \A z \in {"transient", "persistent"} : z # zone => tree'[z] = tree[z]
  <2> HIDE DEF t2
  <2>1. tree' = [tree EXCEPT ![zone] = t2]
    BY <1>5 DEF t2
  <2> QED
    BY <1>1, <2>1
<1>9. ASSUME agreed' PROVE Alike(w, t2)
  <2>1. agreed /\ here # {} /\ ~Trees!Absolute(path)
    BY <1>5, <1>9
  <2>2. (CHOOSE y \in here : TRUE) \in here
    BY <2>1
  <2>3. PICK y \in here : y = CHOOSE z \in here : TRUE
    BY <2>2
  <2>4. y = x /\ Trees!TreeTakes(tree[zone], x)
    BY <1>2, <2>1, LocatedIs
  <2>5. t2 = Trees!TreeWrite(tree[zone], x, c)
    BY <2>1, <2>3, <2>4
  <2>6. Alike(s, tree[zone])
    BY <1>1, <1>3, <2>1
  <2> QED
    BY <1>4, <2>4, <2>5, <2>6, WriteAlike
<1>10. agreed' \in BOOLEAN /\ (agreed' => agreed)
  BY <1>5
<1>11. agreed' => \A z \in {"transient", "persistent"} : Alike(virt'[z], tree'[z])
  <2> HIDE DEF t2
  <2> QED
    BY <1>1, <1>7, <1>8, <1>9, <1>10
<1> QED
  BY <1>7, <1>8, <1>10, <1>11 DEF FilesInv

(* delete().                                                               *)
LEMMA DeleteStep ==
  ASSUME FilesInv, NEW zone \in {"transient", "persistent"}, NEW path \in Seq(FileNames \cup Trees!Idle \cup {Trees!Up}),
         \A i \in DOMAIN path : path[i] # zone, Trees!Delete(zone, path)
  PROVE  FilesInv'
<1> DEFINE located == Trees!Located(zone, path)
<1>1. /\ virt \in [{"transient", "persistent"} -> Maps] /\ DOMAIN tree = {"transient", "persistent"}
      /\ tree = [z \in {"transient", "persistent"} |-> tree[z]]
      /\ agreed \in BOOLEAN
      /\ agreed => \A z \in {"transient", "persistent"} : Alike(virt[z], tree[z])
      /\ IF sync.on THEN Covers(virt["persistent"], sync.cursor, sync.changed, disk) ELSE sync.cursor = 1
  BY DEF FilesInv
<1>2. PICK x \in Keys : x = Trees!Normalized(path)
  BY NormalizedTypes
<1>3. PICK s \in Maps : s = virt[zone]
  BY <1>1
<1>4. PICK w \in Maps : w = Trees!VirtualDelete(s, x)
  <2>1. Len(s) \in Nat
    BY MapTypes
  <2>2. Remains(Trees!Left(s, x)[Len(s)], s, x, Len(s))
    BY <2>1, LeftRemains
  <2> QED
    BY <2>2 DEF Remains, Trees!VirtualDelete
<1>5. PICK k, gone : k = Len(Trees!Left(s, x)[sync.cursor - 1]) + 1 /\ gone = Trees!KeysOf(s) \ Trees!KeysOf(w)
  OBVIOUS
<1>6. /\ Trees!Touch(zone, w, k, gone)
      /\ tree' = [tree EXCEPT ![zone] = IF located = {} THEN tree[zone]
                                        ELSE Trees!TreeDelete(tree[zone], CHOOSE y \in located : TRUE)]
      /\ agreed' = (/\ agreed /\ ~(<<>> \in located /\ DOMAIN tree[zone] # {})
                    /\ (located = {} => w = s) /\ ~Trees!Absolute(path))
      /\ disk' = disk
  BY <1>2, <1>3, <1>4, <1>5 DEF Trees!Delete
<1>7. gone \in SUBSET Keys
  BY <1>5, MapTypes
<1>8. zone = "persistent" /\ sync.on => Covers(w, k, sync.changed \cup gone, disk)
  BY <1>1, <1>3, <1>4, <1>5, DeleteCovers
<1>9. /\ virt' \in [{"transient", "persistent"} -> Maps] /\ virt'[zone] = w
      /\ \A z \in {"transient", "persistent"} : z # zone => virt'[z] = virt[z]
      /\ sync' \in [on : BOOLEAN, cursor : Nat \ {0}, changed : SUBSET Keys, covered : {TRUE}]
      /\ IF sync'.on THEN Covers(virt'["persistent"], sync'.cursor, sync'.changed, disk') ELSE sync'.cursor = 1
  BY <1>6, <1>7, <1>8, Touched
<1> DEFINE t2 == IF located = {} THEN tree[zone] ELSE Trees!TreeDelete(tree[zone], CHOOSE y \in located : TRUE)
<1>10. /\ DOMAIN tree' = {"transient", "persistent"} /\ tree' = [z \in {"transient", "persistent"} |-> tree'[z]]
       /\ tree'[zone] = t2
       /\ \A z \in {"transient", "persistent"} : z # zone => tree'[z] = tree[z]
  <2> HIDE DEF t2
  <2>1. tree' = [tree EXCEPT ![zone] = t2]
    BY <1>6 DEF t2
  <2> QED
    BY <1>1, <2>1
<1>11. ASSUME agreed' PROVE Alike(w, t2)
  <2>1. /\ agreed /\ ~(<<>> \in located /\ DOMAIN tree[zone] # {})
        /\ (located = {} => w = s) /\ ~Trees!Absolute(path)
    BY <1>6, <1>11
  <2>2. Alike(s, tree[zone])
    BY <1>1, <1>3, <2>1
  <2>3. CASE located = {}
    BY <2>1, <2>2, <2>3
  <2>4. CASE located # {}
    <3>1. (CHOOSE y \in located : TRUE) \in located
      BY <2>4
    <3>2. PICK y \in located : y = CHOOSE z \in located : TRUE
      BY <3>1
    <3>3. y = x
      BY <1>2, <2>1, LocatedIs
    <3>4. t2 = Trees!TreeDelete(tree[zone], x)
      BY <2>4, <3>2, <3>3
    <3>5. x = <<>> => DOMAIN tree[zone] = {}
      BY <2>1, <3>2, <3>3
    <3> QED
      BY <1>4, <2>2, <3>4, <3>5, DeleteAlike
  <2> QED
    BY <2>3, <2>4
<1>12. agreed' \in BOOLEAN /\ (agreed' => agreed)
  BY <1>6
<1>13. agreed' => \A z \in {"transient", "persistent"} : Alike(virt'[z], tree'[z])
  <2> HIDE DEF t2
  <2> QED
    BY <1>1, <1>9, <1>10, <1>11, <1>12
<1> QED
  BY <1>9, <1>10, <1>12, <1>13 DEF FilesInv

(* clearTransient().                                                       *)
LEMMA ClearStep == FilesInv /\ Trees!ClearTransient => FilesInv'
<1> SUFFICES ASSUME FilesInv, Trees!ClearTransient PROVE FilesInv'
  OBVIOUS
<1>1. /\ virt \in [{"transient", "persistent"} -> Maps] /\ DOMAIN tree = {"transient", "persistent"}
      /\ tree = [z \in {"transient", "persistent"} |-> tree[z]]
      /\ agreed \in BOOLEAN
      /\ agreed => \A z \in {"transient", "persistent"} : Alike(virt[z], tree[z])
  BY DEF FilesInv
<1>2. /\ Trees!Touch("transient", <<>>, 1, {}) /\ tree' = [tree EXCEPT !["transient"] = <<>>]
      /\ agreed' = agreed /\ disk' = disk
  BY DEF Trees!ClearTransient
<1>3. <<>> \in Maps /\ Alike(<<>>, <<>>) /\ {} \in SUBSET Keys /\ "transient" # "persistent"
  BY DEF Maps, Apart, Alike
<1>4. /\ virt' \in [{"transient", "persistent"} -> Maps] /\ virt'["transient"] = <<>>
      /\ \A z \in {"transient", "persistent"} : z # "transient" => virt'[z] = virt[z]
      /\ sync' \in [on : BOOLEAN, cursor : Nat \ {0}, changed : SUBSET Keys, covered : {TRUE}]
      /\ IF sync'.on THEN Covers(virt'["persistent"], sync'.cursor, sync'.changed, disk') ELSE sync'.cursor = 1
  BY <1>2, <1>3, Touched
<1>5. /\ DOMAIN tree' = {"transient", "persistent"} /\ tree' = [z \in {"transient", "persistent"} |-> tree'[z]]
      /\ tree'["transient"] = <<>>
      /\ \A z \in {"transient", "persistent"} : z # "transient" => tree'[z] = tree[z]
  BY <1>1, <1>2
<1>6. agreed' => \A z \in {"transient", "persistent"} : Alike(virt'[z], tree'[z])
  BY <1>1, <1>2, <1>3, <1>4, <1>5
<1> QED
  BY <1>1, <1>2, <1>4, <1>5, <1>6 DEF FilesInv

(* syncToPersistent(): its begin, its turns, its end and its failure.      *)
LEMMA SyncStep ==
  ASSUME FilesInv, Trees!SyncBegins \/ Trees!SyncStep \/ Trees!SyncFails
  PROVE  FilesInv'
<1>1. /\ virt \in [{"transient", "persistent"} -> Maps]
      /\ sync \in [on : BOOLEAN, cursor : Nat \ {0}, changed : SUBSET Keys, covered : {TRUE}]
      /\ IF sync.on THEN Covers(virt["persistent"], sync.cursor, sync.changed, disk) ELSE sync.cursor = 1
  BY DEF FilesInv
<1>2. virt' = virt /\ tree' = tree /\ agreed' = agreed
  BY DEF Trees!SyncBegins, Trees!SyncStep, Trees!SyncFails
<1>3. PICK s \in Maps : s = virt["persistent"]
  BY <1>1
<1>4. PICK n \in Nat : n = Len(s)
  BY MapTypes
<1> DEFINE Sound == /\ sync' \in [on : BOOLEAN, cursor : Nat \ {0}, changed : SUBSET Keys, covered : {TRUE}]
                    /\ IF sync'.on THEN Covers(virt'["persistent"], sync'.cursor, sync'.changed, disk')
                       ELSE sync'.cursor = 1
<1>5. ASSUME Trees!SyncBegins PROVE Sound
  <2>1. sync' = [on |-> TRUE, cursor |-> 1, changed |-> {}, covered |-> TRUE]
    BY <1>5 DEF Trees!SyncBegins, Trees!NotSyncing
  <2>2. Covers(s, 1, {}, disk')
    BY <1>4 DEF Covers
  <2> QED
    BY <1>2, <1>3, <2>1, <2>2
<1>6. ASSUME Trees!SyncFails PROVE Sound
  <2>1. sync' = [on |-> FALSE, cursor |-> 1, changed |-> {}, covered |-> TRUE]
    BY <1>6 DEF Trees!SyncFails, Trees!NotSyncing
  <2> QED
    BY <2>1
<1>7. ASSUME Trees!SyncStep /\ sync.cursor > n PROVE Sound
  <2>1. sync.on /\ sync' = [Trees!NotSyncing EXCEPT !.covered = \A e \in Trees!Range(s) : Trees!Unchanged(e) => Trees!OnDisk(e)]
    BY <1>3, <1>4, <1>7 DEF Trees!SyncStep
  <2>2. Covers(s, sync.cursor, sync.changed, disk)
    BY <1>1, <1>3, <2>1
  <2>3. \A e \in Trees!Range(s) : Trees!Unchanged(e) => Trees!OnDisk(e)
    <3>1. DOMAIN s = 1 .. n
      BY <1>4, MapTypes
    <3>2. \A i \in 1 .. n : i < sync.cursor
      BY <1>1, <1>4, <1>7
    <3>3. \A i \in 1 .. n : Trees!Unchanged(s[i]) => Trees!OnDisk(s[i])
      BY <1>4, <2>2, <3>2 DEF Covers, Trees!Unchanged, Trees!OnDisk, Trees!Dir
    <3> QED
      BY <3>1, <3>3 DEF Trees!Range
  <2>4. sync' = [Trees!NotSyncing EXCEPT !.covered = TRUE]
    BY <2>1, <2>3
  <2>5. sync' = [on |-> FALSE, cursor |-> 1, changed |-> {}, covered |-> TRUE]
    BY <2>4 DEF Trees!NotSyncing
  <2> QED
    BY <2>5
<1>8. ASSUME Trees!SyncStep /\ ~(sync.cursor > n) PROVE Sound
  <2>1. PICK e : e = s[sync.cursor]
    OBVIOUS
  <2>2. /\ sync.on /\ sync' = [sync EXCEPT !.cursor = sync.cursor + 1]
        /\ disk' = IF e.is = "directory" THEN disk
                   ELSE [x \in {e.at} \cup DOMAIN disk |-> IF x = e.at THEN e.is ELSE disk[x]]
    BY <1>3, <1>4, <1>8, <2>1 DEF Trees!SyncStep, Trees!Dir
  <2>3. sync.cursor <= Len(s)
    BY <1>1, <1>4, <1>8
  <2>4. Covers(s, sync.cursor, sync.changed, disk)
    BY <1>1, <1>3, <2>2
  <2>5. PICK k, ch, old, new : k = sync.cursor /\ ch = sync.changed /\ old = disk /\ new = disk'
    OBVIOUS
  <2>6. Covers(s, k + 1, ch, new)
    BY <2>1, <2>2, <2>3, <2>4, <2>5, TurnCovers
  <2>7. sync'.on = sync.on /\ sync'.cursor = k + 1 /\ sync'.changed = ch
    BY <1>1, <2>2, <2>5
  <2>8. sync' \in [on : BOOLEAN, cursor : Nat \ {0}, changed : SUBSET Keys, covered : {TRUE}]
    <3>1. sync.cursor + 1 \in Nat \ {0} /\ sync' = [sync EXCEPT !.cursor = sync.cursor + 1]
      BY <1>1, <2>2
    <3> QED
      BY <1>1, <3>1
  <2> QED
    BY <1>2, <1>3, <2>2, <2>5, <2>6, <2>7, <2>8
<1>9. Sound
  <2> HIDE DEF Sound
  <2> QED
    BY <1>5, <1>6, <1>7, <1>8
<1> QED
  BY <1>2, <1>9 DEF FilesInv

(* Every call and every turn keeps it.                                     *)
LEMMA FilesStep == FilesInv /\ [Trees!Next]_fsVars => FilesInv'
<1> SUFFICES ASSUME FilesInv, [Trees!Next]_fsVars PROVE FilesInv'
  OBVIOUS
<1>1. CASE UNCHANGED fsVars
  BY <1>1 DEF FilesInv, fsVars
<1>2. ASSUME NEW asked \in FileCalls,
             \/ asked.do = "write" /\ \E c \in FileContents : Trees!Write(asked.zone, asked.path, c)
             \/ asked.do = "delete" /\ Trees!Delete(asked.zone, asked.path)
      PROVE  FilesInv'
  <2>1. /\ asked.zone \in {"transient", "persistent"} /\ asked.path \in Seq(FileNames \cup Trees!Idle \cup {Trees!Up})
        /\ \A i \in DOMAIN asked.path : asked.path[i] # asked.zone
    BY FilesAssumption
  <2>2. PICK zone \in {"transient", "persistent"}, path \in Seq(FileNames \cup Trees!Idle \cup {Trees!Up}) :
          zone = asked.zone /\ path = asked.path /\ \A i \in DOMAIN path : path[i] # zone
    BY <2>1
  <2>3. (\E c \in FileContents : Trees!Write(zone, path, c)) \/ Trees!Delete(zone, path)
    BY <1>2, <2>2
  <2> QED
    BY <2>2, <2>3, WriteStep, DeleteStep
<1>3. CASE Trees!ClearTransient
  BY <1>3, ClearStep
<1>4. CASE Trees!SyncBegins \/ Trees!SyncStep \/ Trees!SyncFails
  BY <1>4, SyncStep
<1> QED
  BY <1>1, <1>2, <1>3, <1>4 DEF Trees!Next

(* Alike zones answer alike, and a covered walk has covered.               *)
LEMMA FilesShow == FilesInv => FilesAgree
<1> SUFFICES ASSUME FilesInv PROVE FilesAgree
  OBVIOUS
<1>1. /\ virt \in [{"transient", "persistent"} -> Maps]
      /\ agreed => \A z \in {"transient", "persistent"} : Alike(virt[z], tree[z])
      /\ sync \in [on : BOOLEAN, cursor : Nat \ {0}, changed : SUBSET Keys, covered : {TRUE}]
  BY DEF FilesInv
<1>2. Trees!SyncCovers
  BY <1>1 DEF Trees!SyncCovers
<1>3. ASSUME agreed, NEW z \in {"transient", "persistent"}
      PROVE  /\ \A x \in Trees!KeysOf(virt[z]) \cup DOMAIN tree[z] :
                  Trees!VirtualRead(virt[z], x) = Trees!TreeRead(tree[z], x)
             /\ Trees!VirtualFiles(virt[z]) = Trees!TreeFiles(tree[z])
             /\ \A x \in {<<>>} \cup {x \in DOMAIN tree[z] : tree[z][x] = Trees!Dir},
                   o \in [recursive : BOOLEAN, maxDepth : 0 .. 2, includeHidden : BOOLEAN] :
                  o.recursive \/ o.maxDepth = 0 =>
                    Trees!VirtualList(virt[z], x, o) = Trees!TreeList(tree[z], x, o)
  <2>1. PICK s \in Maps : s = virt[z]
    BY <1>1
  <2>2. PICK t : t = tree[z]
    OBVIOUS
  <2>3. Alike(s, t)
    BY <1>1, <1>3, <2>1, <2>2
  <2>4. \A x \in {<<>>} \cup {x \in DOMAIN t : t[x] = Trees!Dir} : x \in Keys
    <3>1. \A x \in DOMAIN t : x \in Keys
      BY <2>3, MapTypes DEF Alike
    <3>2. <<>> \in Keys
      BY DEF Keys
    <3> QED
      BY <3>1, <3>2
  <2>5. \A x : Trees!VirtualRead(s, x) = Trees!TreeRead(t, x)
    BY <2>3, SameReads
  <2>6. Trees!VirtualFiles(s) = Trees!TreeFiles(t)
    BY <2>3, SameFiles
  <2>7. \A x \in {<<>>} \cup {x \in DOMAIN t : t[x] = Trees!Dir},
           o \in [recursive : BOOLEAN, maxDepth : 0 .. 2, includeHidden : BOOLEAN] :
          o.recursive \/ o.maxDepth = 0 => Trees!VirtualList(s, x, o) = Trees!TreeList(t, x, o)
    BY <2>3, <2>4, SameLists
  <2> QED
    BY <2>1, <2>2, <2>5, <2>6, <2>7
<1>4. Trees!AdaptersAgree
  BY <1>3 DEF Trees!AdaptersAgree, Trees!Zones
<1> QED
  BY <1>2, <1>4 DEF FilesAgree, Trees!FilesAgree

(* For any calls, names and contents: while every call was taken by both,  *)
(* a Map and a tree hold the same files in directories that are there, and *)
(* a sync has copied what it passed.                                       *)
THEOREM FilesInvariance == Trees!Init /\ [][Trees!Next]_fsVars => []FilesInv
BY FilesStart, FilesStep, PTL

(* The adapters of the filesystem port can stand in for each other: reads, *)
(* lists and searches agree, and a sync that ends has covered the zone.    *)
THEOREM FilesDoAgree == Trees!Init /\ [][Trees!Next]_fsVars => []FilesAgree
BY FilesInvariance, FilesShow, PTL
=============================================================================
