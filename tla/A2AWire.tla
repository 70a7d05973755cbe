------------------------------- MODULE A2AWire -------------------------------
(***************************************************************************)
(* The wire of the A2A protocol: the tools a2a:call, a2a:delegate,         *)
(* a2a:discover and a2a:subscribe of one agent (a2a.plugin.ts and          *)
(* a2a-delegation.ts in src/plugins/) and the HTTP and JSON-RPC handlers   *)
(* of another (a2a-handler.ts), whose answers may be late or lost and      *)
(* whose event streams arrive in pieces of any size.                       *)
(***************************************************************************)
EXTENDS Integers, SequencesExt

CONSTANTS
  MaxTasks,           \* what the server's table takes
  MaxEvents           \* bounds the events of a stream

VARIABLES
  features,           \* of the server: the handlers it was given
  tasks,              \* how many tasks it has been sent
  tool, request,      \* of the client: the tool, and what it last sent
  started,            \* history: the request has started a task
  phase,              \* of the tool: idle, sent, reading, or how it ended
  response,           \* of the server, on its way
  sent, open,         \* the stream: its events; whether more may come
  position,           \* how many of the stream's tokens have arrived
  buffer, heard       \* the client's unfinished line, and the events it knows

server == <<features, tasks, started>>
stream == <<sent, open, position, buffer, heard>>
vars == <<server, tool, request, phase, response, stream>>

Nothing == [status |-> 0, code |-> 0, events |-> FALSE]
Bodies == {"garbage", "array", "scalar", "object"}
Methods == {"tasks/send", "tasks/get", "tasks/list", "tasks/cancel", "agent/card", "tasks/sendSubscribe",
            "health", "unknown"}
Optional == {"tasks/list", "tasks/cancel", "agent/card", "sse"}

(* params: absent or no object; without what the method requires; with an  *)
(* id or metadata of the wrong type; right.                                *)
Params == {"none", "lacking", "mistyped", "right"}

Rpc(method, params) ==
  [verb |-> "POST", path |-> "/a2a", body |-> "object", version |-> TRUE, method |-> method, id |-> TRUE,
   params |-> params]

Init ==
  /\ features \in SUBSET Optional
  /\ tasks \in {0, MaxTasks} /\ started = FALSE
  /\ tool = "none" /\ request = Rpc("health", "none") /\ phase = "idle" /\ response = Nothing
  /\ sent = <<>> /\ open = FALSE /\ position = 0 /\ buffer = <<>> /\ heard = <<>>

-----------------------------------------------------------------------------
(* createA2AJsonRpcHandler().  A response: an HTTP status, and the result  *)
(* or the error code of the JSON-RPC answer, if there is one.              *)

NeedsParams == {"tasks/send", "tasks/get", "tasks/cancel", "tasks/sendSubscribe"}
Typed == {"tasks/send", "tasks/sendSubscribe"}      \* with an id and metadata to look at

Unsupported(r) ==
  \/ r.method \in Optional \ features \/ r.method = "unknown"
  \/ r.method = "tasks/sendSubscribe" /\ "sse" \notin features

Invalid(r) ==
  r.method \in NeedsParams /\ (r.params \in {"none", "lacking"} \/ (r.params = "mistyped" /\ r.method \in Typed))

\* What the handler may answer, and whether it starts a task: it does so
\* before the table may refuse it.
Outcomes(r) ==
  IF ~r.version THEN {-32600}
  ELSE IF Unsupported(r) THEN {-32601}
  ELSE IF Invalid(r) THEN {-32602}
  ELSE CASE r.method = "tasks/send" -> IF tasks < MaxTasks THEN {0, -32603} ELSE {-32603}
         [] r.method \in {"tasks/get", "tasks/cancel"} -> {0, -32004}
         [] r.method = "tasks/sendSubscribe" -> {-32601}
         [] r.method = "agent/card" -> {0, -32603}
         [] OTHER -> {0}

(* Variant: the router starts the task before it validates the request.    *)
StartsUnchecked(r) == r.method = "tasks/send" /\ tasks < MaxTasks

Starts(r) ==
  r.version /\ ~Invalid(r) /\ r.method = "tasks/send" /\ tasks < MaxTasks

Answer(status, code) == response' = [status |-> status, code |-> code, events |-> FALSE]

Does(starts) ==
  /\ started' = starts
  /\ tasks' = IF starts THEN tasks + 1 ELSE tasks
  /\ UNCHANGED <<features, tool, request, phase, position, buffer, heard>>

(* createA2AHttpHandler(): discovery, refusals, subscriptions, JSON-RPC.   *)
Discovery(r) == r.verb = "GET" /\ r.path = "/.well-known/agent.json"

ServeDiscovery ==
  /\ phase = "sent" /\ response = Nothing /\ Discovery(request)
  /\ \/ "agent/card" \in features /\ Answer(200, 0)
     \/ Answer(500, 0)
  /\ Does(FALSE) /\ UNCHANGED <<sent, open>>

Refuse ==
  /\ phase = "sent" /\ response = Nothing /\ ~Discovery(request)
  /\ \/ request.verb # "POST" /\ Answer(405, 0)
     \/ request.verb = "POST" /\ request.body = "garbage" /\ Answer(400, -32700)
     \/ request.verb = "POST" /\ request.body \in {"array", "scalar"} /\ Answer(400, -32600)
  /\ Does(FALSE) /\ UNCHANGED <<sent, open>>

Parsed(r) == r.verb = "POST" /\ r.body = "object"
Subscribes(r) == Parsed(r) /\ r.method = "tasks/sendSubscribe" /\ "sse" \in features

\* A subscription is no JSON-RPC call: neither its version nor the types of
\* its id and metadata are looked at.  A full table is told in the stream.
ServeSubscription ==
  /\ phase = "sent" /\ response = Nothing /\ Subscribes(request)
  /\ IF request.params \in {"none", "lacking"}
     THEN Answer(400, 0) /\ Does(FALSE) /\ UNCHANGED <<sent, open>>
     ELSE /\ response' = [status |-> 200, code |-> 0, events |-> TRUE]
          /\ Does(tasks < MaxTasks)
          /\ open' = (tasks < MaxTasks)
          /\ sent' = IF tasks < MaxTasks THEN <<"progress">> ELSE <<"error">>

ServeRpc ==
  /\ phase = "sent" /\ response = Nothing /\ Parsed(request) /\ ~Subscribes(request)
  /\ \E code \in Outcomes(request) :
       IF request.id THEN Answer(IF code = 0 THEN 200 ELSE 400, code) ELSE Answer(202, 0)
  /\ Does(Starts(request)) /\ UNCHANGED <<sent, open>>

-----------------------------------------------------------------------------
(* The server's stream of events.  There may be two ends, of a task that   *)
(* is cancelled and completes, and progress behind the first, of one whose *)
(* hooks mark it running again.  An event is three lines: its name, its    *)
(* data, which the wire may cut in two, and an empty one.                  *)

Ends(s) == \E i \in DOMAIN s : s[i] = "terminal"

Emit ==
  /\ open /\ Len(sent) < MaxEvents
  /\ \E e \in {"progress", "terminal"} : sent' = Append(sent, e)
  /\ UNCHANGED <<server, tool, request, phase, response, open, position, buffer, heard>>

Close ==
  /\ open /\ Ends(sent)
  /\ open' = FALSE
  /\ UNCHANGED <<server, tool, request, phase, response, sent, position, buffer, heard>>

Newline == [data |-> 0, half |-> 0]
Lines(i) == <<[data |-> 0, half |-> 1], Newline, [data |-> i, half |-> 1], [data |-> i, half |-> 2], Newline, Newline>>
Tokens(s) == [k \in 1 .. 6 * Len(s) |-> Lines(((k - 1) \div 6) + 1)[((k - 1) % 6) + 1]]

-----------------------------------------------------------------------------
(* The client's tools.                                                     *)

\* Any request, also one no tool of this agent would send.
Probe(r) ==
  /\ phase = "idle"
  /\ tool' = "probe" /\ request' = r /\ phase' = "sent"
  /\ UNCHANGED <<server, response, stream>>

Call(t, r) ==
  /\ phase = "idle"
  /\ tool' = t /\ request' = r /\ phase' = "sent"
  /\ UNCHANGED <<server, response, stream>>

Discover == Call("discover", [Rpc("agent/card", "none") EXCEPT !.verb = "GET", !.path = "/.well-known/agent.json"])

\* discoverAgent() asks again, by JSON-RPC, if its first request failed in
\* any way.
FallBack ==
  /\ tool = "discover" /\ Discovery(request)
  /\ request' = Rpc("agent/card", "none")
  /\ response' = Nothing /\ started' = FALSE
  /\ UNCHANGED <<features, tasks, tool, phase, stream>>

Finish(how) ==
  /\ phase' = how
  /\ UNCHANGED <<server, tool, request, response, stream>>

Fails ==
  IF tool = "discover" /\ Discovery(request) THEN FallBack ELSE Finish("failed")

Receive ==
  /\ phase = "sent" /\ response # Nothing
  /\ IF response.status \notin {200, 202} \/ response.code # 0 THEN Fails
     ELSE IF tool = "subscribe" THEN Finish("reading")
     ELSE Finish("done")

(* The timer of the request aborts it, or the connection is lost; what the *)
(* server does is its own.                                                 *)
Abort ==
  /\ phase \in {"sent", "reading"}
  /\ Fails

\* What follows the last newline.
Rest(tokens) ==
  LET last == Max({0} \cup {i \in DOMAIN tokens : tokens[i] = Newline})
  IN SubSeq(tokens, last + 1, Len(tokens))

\* A line of data, whole, ends with the k-th token.
DataEnds(tokens, k) ==
  /\ k > 2 /\ tokens[k] = Newline
  /\ tokens[k - 1].half = 2 /\ tokens[k - 2].half = 1 /\ tokens[k - 2].data # 0

\* The data of the lines that are whole, line after line.
Data(tokens) ==
  LET data[k \in 0 .. Len(tokens)] ==
        IF k = 0 THEN <<>>
        ELSE IF DataEnds(tokens, k) THEN Append(data[k - 1], tokens[k - 2].data) ELSE data[k - 1]
  IN data[Len(tokens)]

Read(n) ==
  /\ phase = "reading" /\ position + n <= Len(Tokens(sent))
  /\ position' = position + n
  /\ LET tokens == buffer \o SubSeq(Tokens(sent), position + 1, position + n)
         events == [k \in DOMAIN Data(tokens) |-> sent[Data(tokens)[k]]]
     IN /\ heard' = heard \o events
        /\ buffer' = Rest(tokens)
        /\ phase' = IF Ends(events) THEN "done" ELSE phase
  /\ UNCHANGED <<server, tool, request, response, sent, open>>

ReadEnd ==
  /\ phase = "reading" /\ ~open /\ position = Len(Tokens(sent))
  /\ Finish("done")

Next ==
  \/ \E m \in Methods, p \in Params, v, i \in BOOLEAN :
       Probe([Rpc(m, p) EXCEPT !.version = v, !.id = i])
  \/ \E v \in {"GET", "POST"}, b \in Bodies : Probe([Rpc("tasks/send", "right") EXCEPT !.verb = v, !.body = b])
  \/ \E m \in Methods \ {"tasks/sendSubscribe", "unknown"}, p \in {"lacking", "right"} : Call("call", Rpc(m, p))
  \/ Call("delegate", Rpc("tasks/send", "right"))
  \/ Discover \/ Call("subscribe", Rpc("tasks/sendSubscribe", "right"))
  \/ ServeDiscovery \/ Refuse \/ ServeSubscription \/ ServeRpc
  \/ Emit \/ Close
  \/ Receive \/ Abort \/ ReadEnd
  \/ \E n \in 1..Len(Tokens(sent)) : Read(n)

-----------------------------------------------------------------------------
(* Properties                                                              *)

(* A request that is refused - for its form, its method or its parameters -*)
(* has started no task: an error after which a task may run all the same   *)
(* is an internal one (-32603), and nothing starts behind a GET.           *)
RefusedHasNoEffect ==
  response # Nothing /\ started => response.status \in {200, 202} \/ response.code = -32603

(* However the wire cuts the stream, a subscriber knows the events whose   *)
(* lines have arrived, in their order and once; it is done as soon as one  *)
(* of them is an end, and if the stream closed it has heard all of it.     *)
SubscriberHears ==
  LET arrived == Data(SubSeq(Tokens(sent), 1, position)) IN
  /\ heard = [k \in DOMAIN arrived |-> sent[arrived[k]]]
  /\ phase = "reading" => ~Ends(heard)
  /\ tool = "subscribe" /\ phase = "done" => Ends(heard) \/ heard = sent

(* The two ends of an A2A call agree on what happened: a refused request   *)
(* did nothing, and a subscriber hears the events up to the end            *)
(* (createA2AHttpHandler, callRemoteEndpointSse).                          *)
PeersAgree == RefusedHasNoEffect /\ SubscriberHears
=============================================================================
