------------------------------- MODULE McpHost -------------------------------
(***************************************************************************)
(* The MCP server of an agent: the tools mcp:start-server and              *)
(* mcp:stop-server (src/plugins/mcp-server.plugin.ts), which the model may *)
(* call together, and the DefaultMcpServerAdapter they make, which answers *)
(* the lines of stdin or listens on a port (src/adapters/mcp-server/).     *)
(***************************************************************************)
EXTENDS Integers, FiniteSets, Sequences

CONSTANTS
  Callers,            \* of the two tools and of dispose()
  MaxAdapters,        \* bounds the adapters made
  MaxLines            \* bounds the lines of stdin, each of which comes in two pieces

VARIABLES
  adapter, made,      \* this.adapter; the number of adapters made
  stdio,              \* the adapters with a listener on stdin
  http,               \* of each adapter: none, listening, closing, or dead: never listened
  caller,             \* of each caller: what it does, and the adapter it awaits
  overlapped,         \* history: two callers were in their calls at a time
  piece,              \* how many pieces of lines stdin has had
  buffer,             \* stdinBuffer of each adapter: the pieces in it
  working,            \* lines in processStdioLine(), by adapter
  answers             \* history: the lines written to stdout, by adapter

plugin == <<adapter, made, caller, overlapped>>
hosts == <<stdio, http>>
lines == <<piece, buffer, working, answers>>
vars == <<plugin, hosts, lines>>

Adapters == 1..MaxAdapters
NoAdapter == 0
Idle == [does |-> "nothing", with |-> NoAdapter]

Init ==
  /\ adapter = NoAdapter /\ made = 0
  /\ stdio = {} /\ http = [x \in Adapters |-> "none"]
  /\ caller = [c \in Callers |-> Idle] /\ overlapped = FALSE
  /\ piece = 0 /\ buffer = [x \in Adapters |-> <<>>]
  /\ working = {} /\ answers = <<>>

-----------------------------------------------------------------------------
(* The adapter.                                                            *)

\* stop() up to its await: the listener goes at once, with what it has of a
\* line; closing a server that does not listen rejects.
Stopping(x) ==
  /\ stdio' = stdio \ {x}
  /\ buffer' = IF x \in stdio THEN [buffer EXCEPT ![x] = <<>>] ELSE buffer
  /\ http' = [http EXCEPT ![x] = IF @ = "listening" THEN "closing" ELSE @]

StopRejects(x) == http[x] \in {"closing", "dead"}

Become(c, what, x) ==
  /\ caller' = [caller EXCEPT ![c] = [does |-> what, with |-> x]]
  /\ overlapped' = (overlapped \/ (what # "nothing" /\ \E d \in Callers \ {c} : caller[d] # Idle))

(* Both tools first stop the adapter there is, if any.                     *)
Begin(c, what) ==
  /\ caller[c] = Idle /\ adapter # NoAdapter
  /\ Stopping(adapter)
  /\ IF StopRejects(adapter) THEN Become(c, "nothing", NoAdapter) ELSE Become(c, what, adapter)
  /\ UNCHANGED <<adapter, made, piece, working, answers>>

\* The port is closed when its connections are: close() calls back.
Closed(x) ==
  /\ http[x] = "closing"
  /\ http' = [http EXCEPT ![x] = "none"]
  /\ UNCHANGED <<plugin, stdio, lines>>

GoesOn(c) == http[caller[c].with] # "closing"

\* mcp:stop-server and dispose() forget whatever adapter there is by then.
Stopped(c) ==
  /\ caller[c].does = "stop" /\ GoesOn(c)
  /\ adapter' = NoAdapter
  /\ Become(c, "nothing", NoAdapter)
  /\ UNCHANGED <<made, hosts, lines>>

\* The new adapter takes the place of the one there is, and starts.
Create(c) ==
  /\ IF caller[c] = Idle THEN adapter = NoAdapter ELSE caller[c].does = "start" /\ GoesOn(c)
  /\ made < MaxAdapters
  /\ made' = made + 1 /\ adapter' = made + 1
  /\ \/ /\ stdio' = stdio \cup {made + 1} /\ UNCHANGED http
        /\ Become(c, "nothing", NoAdapter)
     \/ http' = [http EXCEPT ![made + 1] = "dead"] /\ Become(c, "listen", made + 1) /\ UNCHANGED stdio
  /\ UNCHANGED lines

\* The port may be taken: the adapter stays, with a server that never was.
Listen(c) ==
  /\ caller[c].does = "listen"
  /\ http' = [http EXCEPT ![caller[c].with] = IF @ = "dead" THEN "listening" ELSE @]
  /\ Become(c, "nothing", NoAdapter)
  /\ UNCHANGED <<adapter, made, stdio, lines>>

ListenFails(c) ==
  /\ caller[c].does = "listen"
  /\ Become(c, "nothing", NoAdapter)
  /\ UNCHANGED <<adapter, made, hosts, lines>>

-----------------------------------------------------------------------------
(* The lines.  The second piece of a line ends with its newline.           *)

LineOf(n) == (n + 1) \div 2

Arrive ==
  /\ piece < 2 * MaxLines
  /\ piece' = piece + 1
  /\ LET ends == piece' % 2 = 0
         all(x) == Append(buffer[x], piece')
     IN /\ buffer' = [x \in Adapters |-> IF x \notin stdio THEN buffer[x]
                                         ELSE IF ends THEN <<>> ELSE all(x)]
        /\ working' = working \cup
             {[by |-> x, line |-> LineOf(piece'), whole |-> Len(all(x)) = 2] : x \in {y \in stdio : ends}}
  /\ UNCHANGED <<plugin, hosts, answers>>

\* The answers come in the order in which the tools end, also when the server
\* was stopped meanwhile; half a line is answered as a parse error.
Answer(w) ==
  /\ w \in working
  /\ working' = working \ {w}
  /\ answers' = Append(answers, w)
  /\ UNCHANGED <<plugin, hosts, piece, buffer>>

Next ==
  \/ \E c \in Callers : Begin(c, "start") \/ Begin(c, "stop") \/ Stopped(c) \/ Create(c) \/ Listen(c) \/ ListenFails(c)
  \/ \E x \in Adapters : Closed(x)
  \/ Arrive
  \/ \E w \in working : Answer(w)

-----------------------------------------------------------------------------
(* As long as the model never starts and stops the server in calls that    *)
(* overlap, at most the adapter the plugin knows has a listener or a port, *)
(* so that every line is answered at most once - whatever was stopped in   *)
(* the middle of a line or of an answer, and though the start of a server  *)
(* may fail.  In any case no adapter answers a line twice, and one that    *)
(* was there for all of it reads it whole.                                 *)
OneServerAnswers ==
  /\ ~overlapped =>
       /\ stdio \cup {x \in Adapters : http[x] = "listening"} \subseteq {adapter}
       /\ \A i, j \in DOMAIN answers : i # j => answers[i].line # answers[j].line
  /\ \A i, j \in DOMAIN answers : i # j => answers[i] # answers[j]
  /\ \A x \in stdio : Len(buffer[x]) <= 1
=============================================================================
