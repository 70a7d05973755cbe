----------------------------- MODULE RestServer -----------------------------
(***************************************************************************)
(* GaussFlowServer: the REST API (src/rest/).  Each request is a handler   *)
(* of its own, which makes an agent for itself, answers, and disposes of   *)
(* the agent; the server is closed when its connections are.  A client may *)
(* leave at any time; its handler learns nothing of it and goes on.        *)
(***************************************************************************)
EXTENDS Integers, Sequences

CONSTANTS
  Requests,
  MaxTokens           \* bounds the text of a stream

VARIABLES
  options,            \* apiKey and cors set, an agent given
  server,             \* "new", "starting", "listening", "closing", "stopping", "closed"
  request,            \* of each request: what the client sent
  left,               \* the requests whose connection is closed before the answer
  stage,              \* where its handler is
  status,             \* the status that was sent, 0 before
  ended,              \* res.end() was called
  agent,              \* of the handler: none, live, disposed
  events              \* of a stream: what was written

handler == <<stage, status, ended, agent, events>>
vars == <<options, server, request, left, handler>>

Public == {"/api/health", "/health"}
Gets(o) == {"/api/health", "/api/info"} \cup IF o.agent THEN {"/health"} ELSE {}
Posts == {"/api/run", "/api/stream", "/api/graph/run"}

(* "blank" lacks nothing, but its instructions are the empty string; "//"  *)
(* is an address, or comes with a host, of which URL makes nothing.        *)
Sent ==
  [method : {"POST"}, path : Posts, key : {"right"}, body : {"garbage", "huge", "null", "lacking", "blank", "right"}]
  \cup [method : {"POST"}, path : Posts, key : {"wrong"}, body : {"right"}]
  \cup [method : {"GET", "OPTIONS"}, path : {"/api/info", "/health", "/api/run"}, key : {"none", "right"},
        body : {"none"}]
  \cup [method : {"GET"}, path : {"//"}, key : {"none"}, body : {"none"}]

NoRequest == [method |-> "none", path |-> "none", key |-> "none", body |-> "none"]

Init ==
  /\ options \in [apiKey : BOOLEAN, cors : BOOLEAN, agent : BOOLEAN]
  /\ server = "new"
  /\ request = [r \in Requests |-> NoRequest] /\ left = {}
  /\ stage = [r \in Requests |-> "none"]
  /\ status = [r \in Requests |-> 0] /\ ended = [r \in Requests |-> FALSE]
  /\ agent = [r \in Requests |-> "none"]
  /\ events = [r \in Requests |-> <<>>]

-----------------------------------------------------------------------------
Respond(r, code) ==
  /\ status' = [status EXCEPT ![r] = code]
  /\ ended' = [ended EXCEPT ![r] = TRUE]
  /\ UNCHANGED events

Moves(r, to) == stage' = [stage EXCEPT ![r] = to] /\ UNCHANGED <<options, server, request>>

Goes(r, to) == Moves(r, to) /\ UNCHANGED left

(* handleRequest().  Preflights are authenticated like the rest.           *)
Authentic(r) == request[r].path \in Public \/ ~options.apiKey \/ request[r].key = "right"

Found(r) ==
  CASE request[r].method = "GET" -> request[r].path \in Gets(options)
    [] request[r].method = "POST" -> request[r].path \in Posts
    [] request[r].method = "OPTIONS" -> options.cors /\ request[r].path \in Gets(options) \cup Posts

Came(r) == stage[r] # "none"
Open(r) == Came(r) /\ r \notin left

(* A server that is closing still hears the connections it has.  What new  *)
(* URL() throws is caught by nobody: the request gets no answer (unless    *)
(* somebody handles the rejection, the process ends here).                 *)
Receive(r, what) ==
  /\ server = "listening" \/ (server = "closing" /\ \E x \in Requests : Open(x))
  /\ ~Came(r)
  /\ request' = [request EXCEPT ![r] = what]
  /\ stage' = [stage EXCEPT ![r] = IF what.path = "//" THEN "hangs" ELSE "received"]
  /\ UNCHANGED <<options, server, left, status, ended, agent, events>>

(* The client disconnects before it has its answer.                        *)
Leave(r) ==
  /\ Open(r) /\ ~ended[r]
  /\ left' = left \cup {r}
  /\ UNCHANGED <<options, server, request, handler>>

Refuse(r) ==
  /\ stage[r] = "received" /\ ~(Authentic(r) /\ Found(r))
  /\ Respond(r, IF Authentic(r) THEN 404 ELSE 401)
  /\ Goes(r, "over") /\ UNCHANGED agent

Look(r) ==
  /\ stage[r] = "received" /\ Authentic(r) /\ Found(r) /\ request[r].method # "POST"
  /\ \E code \in (IF request[r].method = "OPTIONS" THEN {204} ELSE IF request[r].path = "/health" THEN {200, 500, 503} ELSE {200}) :
       Respond(r, code)
  /\ Goes(r, "over") /\ UNCHANGED agent

(* parseBody() and the handler up to the model: a body that is null fails  *)
(* behind the checks of the handler, and so does a graph's model.  A body  *)
(* of a client that left may be cut; one that is too long is cut by        *)
(* destroy(), which takes the connection along.                            *)
Posted(r) == stage[r] = "received" /\ Authentic(r) /\ Found(r) /\ request[r].method = "POST"

Parse(r) ==
  /\ Posted(r) /\ request[r].body \in {"blank", "right"}
  /\ Goes(r, "resolving")
  /\ UNCHANGED <<status, ended, events, agent>>

NotParsed(r) ==
  /\ Posted(r) /\ (request[r].body \in {"blank", "right"} => r \in left)
  /\ \E code \in (IF request[r].body = "null" THEN {500} ELSE {400}) \cup (IF r \in left THEN {400} ELSE {}) :
       Respond(r, code)
  /\ left' = IF request[r].body = "huge" THEN left \cup {r} ELSE left
  /\ Moves(r, "over") /\ UNCHANGED agent

NoModel(r) ==
  /\ stage[r] = "resolving"
  /\ Respond(r, IF request[r].path = "/api/graph/run" THEN 500 ELSE 400)
  /\ Goes(r, "over") /\ UNCHANGED agent

(* DeepAgent.auto() of blank instructions throws, outside the handler's    *)
(* try: the head of a stream is sent by then, and handleRequest() is       *)
(* silent.                                                                 *)
Blank(r) ==
  /\ stage[r] = "resolving" /\ request[r].body = "blank"
  /\ IF request[r].path = "/api/stream"
       THEN /\ status' = [status EXCEPT ![r] = 200] /\ Goes(r, "hangs")
            /\ UNCHANGED <<ended, events>>
       ELSE Respond(r, 500) /\ Goes(r, "over")
  /\ UNCHANGED agent

(* The agent of a graph is a matter of its nodes.                          *)
Begin(r) ==
  /\ stage[r] = "resolving" /\ request[r].body # "blank"
  /\ agent' = [agent EXCEPT ![r] = IF request[r].path = "/api/graph/run" THEN "none" ELSE "live"]
  /\ status' = [status EXCEPT ![r] = IF request[r].path = "/api/stream" THEN 200 ELSE 0]
  /\ Goes(r, "running") /\ UNCHANGED <<ended, events>>

Finishes(r) == IF agent[r] = "live" THEN "disposing" ELSE "over"

Finish(r, code) ==
  /\ stage[r] = "running" /\ request[r].path # "/api/stream"
  /\ Respond(r, code)
  /\ Goes(r, Finishes(r)) /\ UNCHANGED agent

Write(r, e) == events' = [events EXCEPT ![r] = Append(@, e)]

Token(r) ==
  /\ stage[r] = "running" /\ request[r].path = "/api/stream" /\ Len(events[r]) < MaxTokens
  /\ Write(r, "token")
  /\ UNCHANGED <<options, server, request, left, stage, status, ended, agent>>

FinishStream(r, e) ==
  /\ stage[r] = "running" /\ request[r].path = "/api/stream"
  /\ Write(r, e) /\ ended' = [ended EXCEPT ![r] = TRUE]
  /\ Goes(r, Finishes(r)) /\ UNCHANGED <<status, agent>>

(* The finally of the handler; what it throws comes too late to be told.   *)
Dispose(r) ==
  /\ stage[r] = "disposing"
  /\ agent' = [agent EXCEPT ![r] = "disposed"]
  /\ Goes(r, "over") /\ UNCHANGED <<status, ended, events>>

-----------------------------------------------------------------------------
(* listen() and close(), which waits for the connections: for those that   *)
(* were answered and those that were left, not for the handlers.           *)
Turns(from, to) ==
  /\ server = from
  /\ server' = to
  /\ UNCHANGED <<options, request, left, handler>>

Listen ==
  \/ options.agent /\ Turns("new", "starting")
  \/ ~options.agent /\ Turns("new", "listening")
  \/ Turns("starting", "listening")

(* Variant: close() does not wait.                                         *)
Unconnected == TRUE

Quiet == \A r \in Requests : Open(r) => ended[r]

Close ==
  \/ Turns("listening", "closing")
  \/ Quiet /\ Turns("closing", IF options.agent THEN "stopping" ELSE "closed")
  \/ Turns("stopping", "closed")

Next ==
  \/ \E r \in Requests :
       \/ \E what \in Sent : Receive(r, what)
       \/ Leave(r) \/ Refuse(r) \/ Look(r) \/ Parse(r) \/ NotParsed(r) \/ NoModel(r)
       \/ Blank(r) \/ Begin(r) \/ Token(r) \/ Dispose(r)
       \/ \E code \in {200, 500} : Finish(r, code)
       \/ \E e \in {"done", "error"} : FinishStream(r, e)
  \/ Listen \/ Close

-----------------------------------------------------------------------------
(* Two kinds of requests never get an answer.                              *)
Hopeless(what) == what.path = "//" \/ (what.path = "/api/stream" /\ what.body = "blank")

(* Whether its client is still there or not, a handler that is over has    *)
(* answered once and for all and has disposed of the agent it made,        *)
(* however its run ended; the only ones that stop before have made none. A *)
(* stream ends with its one done or error event, and the server's own      *)
(* agent is not shut down before every request has its answer that a       *)
(* client still waits for: runs whose clients have left may go on beside   *)
(* the shutdown and after it (handlers.ts, GaussFlowServer.close).         *)
HandlersCleanUp ==
  /\ \A r \in Requests :
       /\ stage[r] = "over" => ended[r] /\ status[r] # 0 /\ agent[r] # "live"
       /\ ended[r] <=> stage[r] \in {"disposing", "over"}
       /\ stage[r] = "hangs" => agent[r] = "none" /\ Hopeless(request[r])
       /\ \A i \in DOMAIN events[r] : events[r][i] # "token" <=> i = Len(events[r]) /\ ended[r]
  /\ server \in {"stopping", "closed"} => \A r \in Requests : Open(r) => ended[r]
=============================================================================
