------------------------------- MODULE McpLink -------------------------------
(***************************************************************************)
(* MCP over streamable HTTP: StreamableHttpMcpAdapter, through which an    *)
(* agent uses the tools of a server (src/adapters/mcp/), and the session   *)
(* handler with the McpServer behind it that serves the tools of another   *)
(* agent (src/server/).  Requests and answers may be lost, sessions are    *)
(* deleted, and the server process may die and come back.                  *)
(***************************************************************************)
EXTENDS Integers, FiniteSets

CONSTANTS
  Connects, Executes, \* the calls of connect() and of executeTool()
  MaxSessions         \* bounds the sessions made

Calls == Connects \cup Executes
NoSession == 0        \* also: the client does not know the server

VARIABLES
  sessions, made,     \* the server's Set of session ids; those made so far
  ended,              \* history: sessions deleted, or lost with the process
  link,               \* this.servers: the session of the entry
  phase,              \* of each call; which request of it is on its way
  session,            \* what the call sends in mcp-session-id
  answer,             \* the response to the request on its way
  ran                 \* history: how often the call's tool was executed

server == <<sessions, made, ended>>
call == <<phase, session, answer>>
vars == <<server, link, call, ran>>

Init ==
  /\ sessions = {} /\ made = 0 /\ ended = {}
  /\ link = NoSession
  /\ phase = [c \in Calls |-> "idle"]
  /\ session = [c \in Calls |-> NoSession]
  /\ answer = [c \in Calls |-> "none"]
  /\ ran = [c \in Calls |-> 0]

-----------------------------------------------------------------------------
(* The client.  Every call reads the entry once, before its first await.   *)

Send(c, request, s) ==
  /\ phase' = [phase EXCEPT ![c] = request]
  /\ session' = [session EXCEPT ![c] = s]
  /\ answer' = [answer EXCEPT ![c] = "none"]

End(c, how) ==
  /\ phase' = [phase EXCEPT ![c] = how]
  /\ UNCHANGED <<session, answer>>

Connect(c) ==
  /\ phase[c] = "idle"
  /\ Send(c, "initialize", NoSession)
  /\ UNCHANGED <<server, link, ran>>

\* The entry is made only after the notification, whose status nobody reads.
Notify(c) ==
  /\ phase[c] = "initialize" /\ answer[c] = "initialized"
  /\ Send(c, "notification", session[c])
  /\ UNCHANGED <<server, link, ran>>

Connected(c) ==
  /\ phase[c] = "notification" /\ answer[c] # "none"
  /\ link' = session[c]
  /\ End(c, "connected")
  /\ UNCHANGED <<server, ran>>

Execute(c) ==
  /\ phase[c] = "idle"
  /\ IF link = NoSession THEN End(c, "not connected") ELSE Send(c, "tools/call", link)
  /\ UNCHANGED <<server, link, ran>>

\* A tool's failure, an unknown tool, and a refusal, which throws.
Executed(c) ==
  /\ phase[c] = "tools/call" /\ answer[c] # "none"
  /\ End(c, CASE answer[c] = "401" -> "refused"
              [] answer[c] = "unknown tool" -> "error"
              [] answer[c] = "failed" -> "isError"
              [] answer[c] = "result" -> "ok")
  /\ UNCHANGED <<server, link, ran>>

Disconnect ==
  /\ link # NoSession
  /\ link' = NoSession
  /\ UNCHANGED <<server, call, ran>>

Waiting(c) == phase[c] \in {"initialize", "notification", "tools/call", "running"}

\* fetch() or the reading of its response rejects, on the way there or back.
Lost(c) ==
  /\ Waiting(c)
  /\ End(c, "lost")
  /\ UNCHANGED <<server, link, ran>>

-----------------------------------------------------------------------------
(* The server.                                                             *)

Reply(c, what) == answer' = [answer EXCEPT ![c] = what]

Initialize(c) ==
  /\ phase[c] = "initialize" /\ answer[c] = "none" /\ made < MaxSessions
  /\ made' = made + 1 /\ sessions' = sessions \cup {made + 1}
  /\ session' = [session EXCEPT ![c] = made + 1]
  /\ Reply(c, "initialized")
  /\ UNCHANGED <<ended, link, phase, ran>>

Valid(c) == session[c] \in sessions

\* A notification is answered and goes no further.
Accept(c) ==
  /\ phase[c] = "notification" /\ answer[c] = "none"
  /\ Reply(c, IF Valid(c) THEN "202" ELSE "401")
  /\ UNCHANGED <<server, link, phase, session, ran>>

Refuse(c) ==
  /\ phase[c] = "tools/call" /\ answer[c] = "none"
  /\ \/ session[c] \notin sessions /\ Reply(c, "401")
     \/ session[c] \in sessions /\ Reply(c, "unknown tool")
  /\ UNCHANGED <<server, link, phase, session, ran>>

Run(c) ==
  /\ phase[c] = "tools/call" /\ answer[c] = "none" /\ Valid(c)
  /\ phase' = [phase EXCEPT ![c] = "running"]
  /\ ran' = [ran EXCEPT ![c] = @ + 1]
  /\ UNCHANGED <<server, link, session, answer>>

(* Variant: the session is looked at again when the tool has run.          *)
OutcomesOfLive(c) == IF Valid(c) THEN {"result", "failed"} ELSE {"401"}

Outcomes(c) == {"result", "failed"}

\* The end of the session while the tool runs changes nothing.
Ran(c) ==
  /\ phase[c] = "running"
  /\ phase' = [phase EXCEPT ![c] = "tools/call"]
  /\ \E what \in Outcomes(c) : Reply(c, what)
  /\ UNCHANGED <<server, link, session, ran>>

Delete(s) ==
  /\ s \in sessions
  /\ sessions' = sessions \ {s} /\ ended' = ended \cup {s}
  /\ UNCHANGED <<made, link, call, ran>>

\* The process of the server dies with its sessions and its connections.
Restart ==
  /\ sessions # {}
  /\ ended' = ended \cup sessions /\ sessions' = {}
  /\ phase' = [c \in Calls |-> IF Waiting(c) /\ answer[c] = "none" THEN "lost" ELSE phase[c]]
  /\ UNCHANGED <<made, link, session, answer, ran>>

Next ==
  \/ \E c \in Connects : Connect(c) \/ Notify(c) \/ Connected(c) \/ Initialize(c) \/ Accept(c)
  \/ \E c \in Executes : Execute(c) \/ Executed(c) \/ Refuse(c) \/ Run(c) \/ Ran(c)
  \/ \E c \in Calls : Lost(c)
  \/ \E s \in 1..MaxSessions : Delete(s)
  \/ Disconnect \/ Restart

-----------------------------------------------------------------------------
(* A tool runs at most once for a call of executeTool(), and the caller is *)
(* told the truth: a result or a failure of the tool comes from its one    *)
(* run, and a call that was refused, for want of a session or of the tool, *)
(* has run nothing; only a lost connection leaves it open.  The session an *)
(* entry is made with is good until it is deleted or the process dies, and *)
(* it is the one a connect() that has ended was given.                     *)
CallsRunOnce ==
  /\ \A c \in Executes :
       /\ ran[c] <= 1
       /\ phase[c] \in {"ok", "isError"} => ran[c] = 1
       /\ phase[c] \in {"not connected", "refused", "error"} => ran[c] = 0
  /\ link # NoSession => link \in sessions \cup ended /\ \E c \in Connects : phase[c] = "connected" /\ session[c] = link
=============================================================================
