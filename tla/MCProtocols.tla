---------------------------- MODULE MCProtocols -----------------------------
(* Small instances for TLC: the task table of the A2A server, and beside   *)
(* it, never together, the wire of that protocol, the two sides of MCP and *)
(* the host of an MCP server.                                              *)
(* The table: a tasks/send and a stream over a table of two that may hold  *)
(* an older task; they may share an id, reuse the older one, or find the   *)
(* table full.                                                             *)
EXTENDS A2ATasks

CONSTANTS Connects, Executes, MaxSessions,       \* of the MCP link
          Callers, MaxAdapters, MaxLines,       \* of the MCP host
          MaxTasks, MaxEvents                   \* of the wire

ASSUME McpAssumption == /\ Connects \cap Executes = {}
                        /\ MaxAdapters \in Nat

VARIABLES part,
  features, tasks, tool, wireRequest, started, wirePhase, response, sent, wireOpen, position, wireBuffer, wireHeard,
  sessions, sessionsMade, sessionsEnded, link, phase, session, mcpAnswer, ran,
  adapter, made, stdio, http, caller, overlapped, piece, buffer, working, answers

MCUses == [c \in {"s", "v"} |-> IF c = "s" THEN {"a", "c"} ELSE {"a", "b", "c"}]

Wire == INSTANCE A2AWire WITH request <- wireRequest, phase <- wirePhase, open <- wireOpen, buffer <- wireBuffer,
                              heard <- wireHeard
Link == INSTANCE McpLink WITH made <- sessionsMade, ended <- sessionsEnded,
                              answer <- mcpAnswer
Host == INSTANCE McpHost

wireVars == <<features, tasks, tool, wireRequest, started, wirePhase, response, sent, wireOpen, position, wireBuffer,
              wireHeard>>
linkVars == <<sessions, sessionsMade, sessionsEnded, link, phase, session, mcpAnswer, ran>>
hostVars == <<adapter, made, stdio, http, caller, overlapped, piece, buffer, working, answers>>
mcVars == <<part, vars, wireVars, linkVars, hostVars>>

\* What a part does not look at is the same at its beginning.
MCInit ==
  /\ part \in {"tasks", "wire", "link", "host"}
  /\ Init /\ Wire!Init /\ Link!Init /\ Host!Init
  /\ part # "tasks" => hooked /\ status["c"] = "absent"
  /\ part # "wire" => features = {} /\ tasks = 0

MCNext ==
  \/ part = "tasks" /\ Next /\ UNCHANGED <<part, wireVars, linkVars, hostVars>>
  \/ part = "wire" /\ Wire!Next /\ UNCHANGED <<part, vars, linkVars, hostVars>>
  \/ part = "link" /\ Link!Next /\ UNCHANGED <<part, vars, wireVars, hostVars>>
  \/ part = "host" /\ Host!Next /\ UNCHANGED <<part, vars, wireVars, linkVars>>

MCFairness == part = "tasks" => Fairness

MCSpec == MCInit /\ [][MCNext]_mcVars /\ MCFairness

(* The two ends of an A2A call agree on what happened (A2AWire).           *)
PeersAgree == Wire!PeersAgree

(* MCP serves what it is asked: each call runs once (McpLink.CallsRunOnce) *)
(* and one server answers it (McpHost.OneServerAnswers).                   *)
McpServes == Link!CallsRunOnce /\ Host!OneServerAnswers
=============================================================================
