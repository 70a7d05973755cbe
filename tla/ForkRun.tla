------------------------------- MODULE ForkRun -------------------------------
(***************************************************************************)
(* A fork of an agent graph: several agents answer the same prompt, a      *)
(* ForkCoordinator decides when enough of them have, and a ConsensusPort   *)
(* makes one answer of their answers (executeForkTask() in                 *)
(* src/graph/graph-executor.ts, fork-coordinator.ts, agent-node.ts and     *)
(* src/adapters/consensus/).                                               *)
(***************************************************************************)
EXTENDS Integers, SequencesExt

CONSTANTS
  Nodes,              \* the agents of the fork
  Texts,              \* what an agent or the model of a ConsensusPort may say
  Empty,              \* the one of them that is the empty string
  MaxRounds           \* of a debate

VARIABLES
  consensus,          \* the fork's ConsensusPort, "none" without one
  node,               \* running, written (to the shared context), done, failed
  output,             \* what an agent said
  results, errors,    \* of the coordinator: nodes in the order of completion
  outcome,            \* "open" as long as the coordinator is not settled
  taken,              \* the results its promise was resolved with
  stage,              \* of executeForkTask()
  said,               \* what the model said in the debate or as a judge
  answer

agents == <<node, output>>
coordinator == <<results, errors, outcome, taken>>
evaluation == <<stage, said, answer>>
vars == <<consensus, agents, coordinator, evaluation>>

Total == Cardinality(Nodes)
MinResults == Max({1, (Total + 1) \div 2})

Init ==
  /\ consensus \in {"none", "vote", "judge", "debate"}
  /\ node = [n \in Nodes |-> "running"]
  /\ output = [n \in Nodes |-> Empty]
  /\ results = <<>> /\ errors = {}
  /\ outcome = "open" /\ taken = <<>>
  /\ stage = "waiting" /\ said = <<>> /\ answer = Empty

-----------------------------------------------------------------------------
(* The coordinator, with the results and the errors it now has.            *)

Enough(res) == Len(res) >= MinResults
AllReported(res, err) == Len(res) + Cardinality(err) = Total

Resolves(res, err) == AllReported(res, err) /\ Enough(res)

(* Variant: it gives up one failure early.                                 *)
RejectsEarly(err) == Cardinality(err) >= Total - MinResults

Rejects(err) == Cardinality(err) > Total - MinResults

Settle(how, res) == outcome' = how /\ taken' = res

OnNodeComplete(n) ==
  IF outcome # "open" THEN UNCHANGED coordinator
  ELSE /\ results' = Append(results, n) /\ UNCHANGED errors
       /\ IF Resolves(results', errors) THEN Settle("resolved", results') ELSE UNCHANGED <<outcome, taken>>

OnNodeError(n) ==
  IF outcome # "open" THEN UNCHANGED coordinator
  ELSE /\ errors' = errors \cup {n} /\ UNCHANGED results
       /\ IF Rejects(errors') THEN Settle("rejected", <<>>)
          ELSE IF Resolves(results, errors') THEN Settle("resolved", results)
          ELSE UNCHANGED <<outcome, taken>>

Timeout ==
  /\ outcome = "open"
  /\ IF Enough(results) THEN Settle("resolved", results) ELSE Settle("rejected", <<>>)
  /\ UNCHANGED <<consensus, agents, results, errors, evaluation>>

-----------------------------------------------------------------------------
(* AgentNode.run(): the answer goes to the shared context before the agent *)
(* is disposed, which may fail as well.                                    *)

Write(n, text) ==
  /\ node[n] = "running"
  /\ node' = [node EXCEPT ![n] = "written"]
  /\ output' = [output EXCEPT ![n] = text]
  /\ UNCHANGED <<consensus, coordinator, evaluation>>

Complete(n) ==
  /\ node[n] = "written"
  /\ node' = [node EXCEPT ![n] = "done"]
  /\ OnNodeComplete(n)
  /\ UNCHANGED <<consensus, output, evaluation>>

Fail(n) ==
  /\ node[n] \in {"running", "written"}
  /\ node' = [node EXCEPT ![n] = "failed"]
  /\ OnNodeError(n)
  /\ UNCHANGED <<consensus, output, evaluation>>

-----------------------------------------------------------------------------
(* executeForkTask() once the coordinator's promise is settled: it waits   *)
(* for the stragglers, whose answers are too late.                         *)

NoneRunning == \A n \in Nodes : node[n] \in {"done", "failed"}

GoesOn == outcome # "open" /\ NoneRunning

Saying(text) == {n \in Range(taken) : output[n] = text}

(* The first of the largest groups, in the order in which their first      *)
(* members completed.                                                      *)
Majority ==
  LET size(i) == Cardinality(Saying(output[taken[i]]))
  IN output[taken[Min({i \in DOMAIN taken : \A j \in DOMAIN taken : size(j) <= size(i)})]]

Return(text) == stage' = "returned" /\ answer' = text

Collect ==
  /\ stage = "waiting" /\ GoesOn
  /\ IF outcome = "rejected" THEN stage' = "thrown" /\ UNCHANGED answer
     ELSE IF consensus = "none" \/ (Len(taken) = 1 /\ consensus # "vote") THEN Return(output[taken[1]])
     ELSE IF consensus = "vote" THEN Return(Majority)
     ELSE stage' = "evaluating" /\ UNCHANGED answer
  /\ UNCHANGED <<consensus, agents, coordinator, said>>

(* The judge merges, names a winner, or names none that took part.         *)
Judge ==
  /\ stage = "evaluating" /\ consensus = "judge"
  /\ \/ \E text \in Texts : said' = <<text>> /\ Return(text)
     \/ \E i \in DOMAIN taken : Return(output[taken[i]]) /\ UNCHANGED said
  /\ UNCHANGED <<consensus, agents, coordinator>>

JudgeFails ==
  /\ stage = "evaluating" /\ consensus = "judge"
  /\ Return(output[taken[1]])
  /\ UNCHANGED <<consensus, agents, coordinator, said>>

Synthesis == IF said = <<>> THEN Empty ELSE Last(said)

(* A debate ends with its rounds or when the model repeats itself; an      *)
(* empty synthesis repeats the one there is not yet.                       *)
Debate(text) ==
  /\ stage = "evaluating" /\ consensus = "debate"
  /\ said' = Append(said, text)
  /\ IF text = Synthesis \/ Len(said') = MaxRounds THEN Return(text) ELSE UNCHANGED <<stage, answer>>
  /\ UNCHANGED <<consensus, agents, coordinator>>

DebateFails ==
  /\ stage = "evaluating" /\ consensus = "debate"
  /\ Return(IF Synthesis = Empty THEN output[taken[1]] ELSE Synthesis)
  /\ UNCHANGED <<consensus, agents, coordinator, said>>

Next ==
  \/ \E n \in Nodes : Complete(n) \/ Fail(n) \/ \E text \in Texts : Write(n, text)
  \/ Timeout \/ Collect
  \/ Judge \/ JudgeFails \/ DebateFails
  \/ \E text \in Texts : Debate(text)

Spec == Init /\ [][Next]_vars

-----------------------------------------------------------------------------
(* A fork returns exactly if the half of its agents that is needed had     *)
(* completed when the coordinator settled - by the last report, by one     *)
(* failure too many or by its timer, whichever came first - and then no    *)
(* agent of it runs any more and no answer that came later has a part in   *)
(* the result: it is the most frequent one, one that was given, or the     *)
(* last thing the model said, which an error replaces by the first answer  *)
(* only if it was empty (executeForkTask, ForkCoordinator).                *)
ForkAnswers ==
  /\ outcome = "resolved" => Enough(taken) /\ results = taken
  /\ outcome = "rejected" => ~Enough(results) /\ stage \notin {"evaluating", "returned"}
  /\ stage # "waiting" => NoneRunning
  /\ stage = "returned" =>
       LET heard == Range(taken) IN
       /\ \A n \in heard : node[n] = "done"
       /\ consensus = "vote" =>
            \A t \in Texts : Cardinality({n \in heard : output[n] = t})
                               <= Cardinality({n \in heard : output[n] = answer})
       /\ answer \in {output[n] : n \in heard} \cup Range(said)
       /\ consensus = "debate" /\ said # <<>> =>
            answer = Last(said) \/ (Last(said) = Empty /\ answer = output[taken[1]])
=============================================================================
