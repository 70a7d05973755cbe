---------------------------- MODULE MCResilience ----------------------------
(* Small instances for TLC: three operations in flight around one breaker, *)
(* and beside it, never together, two calls of a tool whose wrappings each *)
(* have one, a conversation in the window of its model, and three calls of *)
(* the knowledge tools.                                                    *)
EXTENDS CircuitBreaker, Sequences

CONSTANTS
  c1, c2, c3, k1, k2,
  Callers, Keys, MaxRuns, CacheSize, Ttl,        \* of the tool
  Threshold, ResetAfter, Window                  \* of its breaker
CONSTANTS
  Preserves, Sizes, Reference, SummarySizes, OffloadAbove, SummarizeAbove, TruncateAbove,
  MaxSaid, MaxSystem,                            \* of the conversation
  Askers, Documents                              \* of the knowledge

ASSUME ResilienceAssumption ==
  /\ MaxRuns \in Nat /\ CacheSize \in Nat \ {0} /\ Ttl \in Nat
  /\ Threshold \in Nat \ {0} /\ ResetAfter \in Nat \ {0} /\ Window \in Nat \ {0}
  /\ Preserves \subseteq Nat /\ Sizes \subseteq Nat \ {0} /\ Reference \in Nat \ {0}
  /\ SummarySizes \subseteq Nat \ {0} /\ TruncateAbove \in Nat

VARIABLES part,
  circuit, failed, sinceFailed, testing, entered, polled,
  auto, wrapped, at, key, layer, depth, value, cache,
  preserve, said, system, spoken, summed, leftOut,
  installed, knowledge, chunks, asking, learnt

Tool == INSTANCE ToolPipeline WITH Reset <- ResetAfter
Talking == INSTANCE Conversation
Knowing == INSTANCE Knowledge WITH Calls <- Askers, call <- asking, entered <- learnt

\* What the schema of rag:ingest lets through.
ASSUME KnowledgeAssumption ==
  \A d \in Documents :
    /\ d.text \in Seq({d.text[i] : i \in DOMAIN d.text})
    /\ d.strategy \in Knowing!Strategies /\ d.max \in Nat \ {0} /\ d.overlap \in Nat

(* All texts of at most four different words, cut in all ways; and a small *)
(* one for calls that interleave.                                          *)
AllDocuments ==
  LET texts == UNION {{[i \in 1 .. n |-> [word |-> i, gap |-> g[i]]] : g \in [1 .. n -> Knowing!Gaps]} :
                      n \in 0 .. 4}
  IN  {d \in [text : texts, strategy : Knowing!Strategies, max : 1 .. 3, overlap : 0 .. 2] :
         d.strategy # "sliding-window" => d.overlap = 0}
Small == [text |-> [i \in 1 .. 2 |-> [word |-> i, gap |-> "space"]],
          strategy |-> "fixed", max |-> 1, overlap |-> 0]
Meeting == INSTANCE Knowledge WITH
  Calls <- Askers, Documents <- {Small}, call <- asking, entered <- learnt

toolVars == <<circuit, failed, sinceFailed, testing, entered, polled,
              auto, wrapped, at, key, layer, depth, value, cache>>
talkVars == <<preserve, said, system, spoken, summed, leftOut>>
knowVars == <<installed, knowledge, chunks, asking, learnt>>
mcVars == <<part, vars, toolVars, talkVars, knowVars>>

MCInit ==
  /\ part \in {"breaker", "tool", "conversation", "knowledge"}
  /\ Init /\ Tool!Init /\ Talking!Init /\ Knowing!Init
  /\ key[c1] = k1
  /\ part # "tool" => auto /\ key[c2] = k1
  /\ part # "conversation" => preserve = 0 /\ system[1].size = 1
  /\ part # "knowledge" => installed

(* All documents are cut by the first call, the small one by calls that meet. *)
Asks ==
  IF \A c \in Askers : asking[c].at = "idle"
    THEN Knowing!Next /\ asking'[c1].at # "idle"
    ELSE (\A i \in DOMAIN chunks : chunks[i].document = Small) /\ Meeting!Next

MCNext ==
  \/ part = "breaker" /\ Next /\ UNCHANGED <<part, toolVars, talkVars, knowVars>>
  \/ part = "tool" /\ Tool!Next /\ UNCHANGED <<part, vars, talkVars, knowVars>>
  \/ part = "conversation" /\ Talking!Next /\ UNCHANGED <<part, vars, toolVars, knowVars>>
  \/ part = "knowledge" /\ Asks /\ UNCHANGED <<part, vars, toolVars, talkVars>>

MCFairness == (part = "breaker" => Fairness) /\ (part = "tool" => Tool!Fairness)

MCSpec == MCInit /\ [][MCNext]_mcVars /\ MCFairness

(* The guards of a tool do what they are there for: its breaker            *)
(* (ToolPipeline.BreakerIsUsed) and its cache (AnswersAreFresh).           *)
GuardsHold == Tool!BreakerIsUsed /\ Tool!AnswersAreFresh

(* The model reads a conversation without gaps (Conversation).             *)
ConversationIsWhole == Talking!ConversationIsWhole

(* Questions are answered from all that was taken in (Knowledge).          *)
RetrievalIsWhole == Knowing!RetrievalIsWhole

CallsAreAnswered == Tool!CallsAreAnswered
=============================================================================
