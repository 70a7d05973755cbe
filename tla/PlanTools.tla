----------------------------- MODULE PlanTools ------------------------------
(***************************************************************************)
(* src/tools/planning: the tools that keep a plan in plan.json and todos   *)
(* in todos.json.  A call reads the file, edits what it read and writes it *)
(* back; the calls of one model step run concurrently, and nothing stops a *)
(* second one between the read and the write of a first.  The file is      *)
(* behind a FilesystemPort: VirtualFilesystem writes at once,              *)
(* LocalFilesystem truncates the file first and fills it later.            *)
(***************************************************************************)
EXTENDS PlanSchema

CONSTANTS
  Calls,              \* tool calls that may be under way at one time
  Requests,           \* what they are asked
  MaxVersion          \* bounds the edits of a plan

VARIABLES
  atomic,             \* which filesystem it is
  file,               \* the two files: parsed, missing, empty or spoilt
  call                \* what each call is doing, on which file, with what text

vars == <<atomic, file, call>>

Holds(text) == [state |-> "whole", text |-> text]
Missing == [state |-> "missing"]
Empty == [state |-> "empty"]
Spoilt == [state |-> "spoilt"]

Whole(f) == file[f].state = "whole"
Idle == [pc |-> "idle"]

Init ==
  /\ atomic \in BOOLEAN
  /\ file = [plan |-> Missing, todos |-> Missing]
  /\ call = [c \in Calls |-> Idle]

-----------------------------------------------------------------------------
(* The edits of plan_update: each is the set of plans it may write, empty  *)
(* when it is refused.                                                     *)
Bump(plan) == [plan EXCEPT !.version = @ + 1]

Find(plan, id) == SelectSeq(StepsOf(plan), LAMBDA s : s.id = id)

(* Edits are made in place, in the first phase of an id and in the first   *)
(* that has a step of an id.                                               *)
PhaseAt(plan, id) == Min({i \in DOMAIN plan.phases : plan.phases[i].id = id})
StepIn(plan, id) ==
  Min({i \in DOMAIN plan.phases : \E s \in ToSet(plan.phases[i].steps) : s.id = id})

EditPhase(plan, id, phase) == [plan EXCEPT !.phases[PhaseAt(plan, id)] = phase]

EditSteps(plan, id, steps) == [plan EXCEPT !.phases[StepIn(plan, id)].steps = steps]

EditStep(plan, id, step) ==
  LET steps == plan.phases[StepIn(plan, id)].steps
  IN EditSteps(plan, id, [steps EXCEPT ![Min({i \in DOMAIN steps : steps[i].id = id})] = step])

(* A field that is not given stays.                                        *)
Given(r, field, old) == IF field \in DOMAIN r THEN r[field] ELSE old

(* Neither the mode nor the dependencies are validated.                    *)
UpdateStep(plan, r) ==
  IF \/ Find(plan, r.step) = <<>>
     \/ LET s == Find(plan, r.step)[1]
        IN Given(r, "status", s.status) \notin MayFollow[s.status] \cup {s.status}
    THEN {}
    ELSE {Bump(EditStep(plan, r.step, [Find(plan, r.step)[1] EXCEPT
           !.status = Given(r, "status", @), !.mode = Given(r, "mode", @),
           !.deps = Given(r, "deps", @)]))}

HasPhase(plan, id) == id \in ToSet(PhaseIds(plan))

WithStep(plan, r) ==
  Bump(EditPhase(plan, r.phase,
                 [plan.phases[PhaseAt(plan, r.phase)] EXCEPT !.steps = Append(@, r.new)]))

(* The whole plan is validated: a fault that an earlier call left refuses  *)
(* every further step.                                                     *)
AddStepToPlan(plan, r) ==
  IF HasPhase(plan, r.phase) /\ ValidPlan(WithStep(plan, r)) THEN {WithStep(plan, r)} ELSE {}

(* What depends on the step is left as it is.                              *)
RemoveStep(plan, r) ==
  IF Find(plan, r.step) = <<>> THEN {}
  ELSE {Bump(EditSteps(plan, r.step,
          SelectSeq(plan.phases[StepIn(plan, r.step)].steps, LAMBDA s : s.id # r.step)))}

UpdatePhase(plan, r) ==
  IF ~HasPhase(plan, r.phase) THEN {}
  ELSE {Bump(EditPhase(plan, r.phase, [plan.phases[PhaseAt(plan, r.phase)] EXCEPT
         !.mode = Given(r, "mode", @), !.deps = Given(r, "deps", @)]))}

(* Nothing is validated: a phase of the same id may be there.              *)
AddPhase(plan, r) ==
  {Bump([plan EXCEPT !.phases = Append(@,
     Phase(r.phase, "sequential", Given(r, "order", Len(plan.phases)), r.deps, <<>>))])}

(* PLAN_STATUS_TRANSITIONS is not asked.                                   *)
UpdatePlanStatus(plan, r) == {Bump([plan EXCEPT !.status = r.status])}

(* The version stays.                                                      *)
SetResult(plan, r) ==
  IF Find(plan, r.step) = <<>> THEN {}
  ELSE {EditStep(plan, r.step, [Find(plan, r.step)[1] EXCEPT !.result = TRUE])}

EditedPlan(plan, r) ==
  CASE r.do = "update_step" -> UpdateStep(plan, r)
    [] r.do = "add_step" -> AddStepToPlan(plan, r)
    [] r.do = "remove_step" -> RemoveStep(plan, r)
    [] r.do = "update_phase" -> UpdatePhase(plan, r)
    [] r.do = "add_phase" -> AddPhase(plan, r)
    [] r.do = "update_plan_status" -> UpdatePlanStatus(plan, r)
    [] r.do = "set_result" -> SetResult(plan, r)

-----------------------------------------------------------------------------
(* write_todos: a todo with a known id is edited in its place.             *)
WriteTodos(todos, r) ==
  LET Fields(t, old) == [id |-> t.id, status |-> Given(t, "status", old.status),
                         deps |-> Given(t, "deps", old.deps)]
      Put(list, t) ==
        IF \E i \in DOMAIN list : list[i].id = t.id
          THEN [i \in DOMAIN list |-> IF list[i].id = t.id THEN Fields(t, list[i]) ELSE list[i]]
          ELSE Append(list, Fields(t, [status |-> "pending", deps |-> <<>>]))
  IN {FoldLeft(Put, todos, r.todos)}

(* review_todos: nothing is written when there are no todos; an unknown id *)
(* is passed over.                                                         *)
ReviewTodos(todos, r) ==
  IF todos = <<>> THEN {}
  ELSE {[i \in DOMAIN todos |->
          IF todos[i].id = r.todo THEN [todos[i] EXCEPT !.status = r.status] ELSE todos[i]]}

EditedTodos(todos, r) == IF r.do = "write_todos" THEN WriteTodos(todos, r) ELSE ReviewTodos(todos, r)

FileOf(r) == IF r.do \in {"write_todos", "review_todos"} THEN "todos" ELSE "plan"

Edited(f, text, r) == IF f = "plan" THEN EditedPlan(text, r) ELSE EditedTodos(text, r)

-----------------------------------------------------------------------------
(* fs.write(): at once, or in two steps.                                   *)
Write(c, f, text) ==
  IF atomic
    THEN /\ file' = [file EXCEPT ![f] = Holds(text)]
         /\ call' = [call EXCEPT ![c] = Idle]
    ELSE /\ file' = [file EXCEPT ![f] = Empty]
         /\ call' = [call EXCEPT ![c] = [pc |-> "writing", of |-> f, text |-> text]]

(* plan_create: what it makes is validated, and written over any plan.     *)
Created(r) == Plan("draft", 1, r.phases)

Create(c) ==
  /\ call[c].pc = "idle"
  /\ \E r \in Requests :
       /\ r.do = "create" /\ ValidPlan(Created(r))
       /\ Write(c, "plan", Created(r))
  /\ UNCHANGED atomic

(* loadPlan() and loadTodos(): without a plan there is nothing to edit,    *)
(* todos start from an empty list; what cannot be parsed ends the call.    *)
Read(c) ==
  /\ call[c].pc = "idle"
  /\ \/ \E f \in {"plan", "todos"} :
          /\ Whole(f)
          /\ f = "plan" => file[f].text.version < MaxVersion
          /\ call' = [call EXCEPT ![c] = [pc |-> "read", of |-> f, text |-> file[f].text]]
     \/ /\ file.todos = Missing
        /\ call' = [call EXCEPT ![c] = [pc |-> "read", of |-> "todos", text |-> <<>>]]
  /\ UNCHANGED <<atomic, file>>

Save(c) ==
  /\ call[c].pc = "read"
  /\ \E r \in Requests :
       /\ r.do # "create" /\ FileOf(r) = call[c].of
       /\ \E text \in Edited(call[c].of, call[c].text, r) : Write(c, call[c].of, text)
  /\ UNCHANGED atomic

Refuse(c) ==
  /\ call[c].pc = "read"
  /\ \E r \in Requests :
       /\ r.do # "create" /\ FileOf(r) = call[c].of
       /\ Edited(call[c].of, call[c].text, r) = {}
  /\ call' = [call EXCEPT ![c] = Idle]
  /\ UNCHANGED <<atomic, file>>

(* The text reaches the file.  Over what another call wrote since it was   *)
(* truncated, a shorter text leaves the other's end behind it.             *)
Fill(c) ==
  /\ call[c].pc = "writing"
  /\ LET f == call[c].of
     IN \E left \in {Holds(call[c].text)} \cup (IF file[f] = Empty THEN {} ELSE {Spoilt}) :
          file' = [file EXCEPT ![f] = left]
  /\ call' = [call EXCEPT ![c] = Idle]
  /\ UNCHANGED atomic

(* The process stops, and another one goes on with what is on the disk.    *)
Crash ==
  /\ ~atomic
  /\ \E c \in Calls : call[c] # Idle
  /\ call' = [c \in Calls |-> Idle]
  /\ UNCHANGED <<atomic, file>>

Next == Crash \/ \E c \in Calls : Create(c) \/ Read(c) \/ Save(c) \/ Refuse(c) \/ Fill(c)

Spec == Init /\ [][Next]_vars

-----------------------------------------------------------------------------

(* However the calls overlap, no two steps or sub-steps of a plan have the *)
(* same id: every tool finds steps by their id.                            *)
StepIdsUnique == Whole("plan") => IsInjective(AllIds(file.plan.text))

(* The plans there are: the one on file, and what the todos convert to.    *)
Plans ==
  (IF Whole("plan") THEN {file.plan.text} ELSE {})
    \cup (IF Whole("todos") THEN {TodosToPlan(file.todos.text)} ELSE {})

(* What plan_status reports agrees with itself: the plan is complete when  *)
(* every phase with steps is, and has failures when some phase does.       *)
ProgressAgrees ==
  \A plan \in Plans :
    LET progress == Progress(plan)
        full == {i \in DOMAIN plan.phases : plan.phases[i].steps # <<>>}
    IN /\ progress.completed = progress.total
            <=> \A i \in full : progress.phases[i] = "completed"
       /\ progress.failed > 0 <=> \E i \in full : progress.phases[i] = "failed"

(* Which node comes, by one edge or many, before which.                    *)
ComesBefore(built) ==
  FoldLeft(LAMBDA paths, n : paths \cup {<<x, y>> \in ToSet(built.nodes) \X ToSet(built.nodes) :
                                            <<x, n>> \in paths /\ <<n, y>> \in paths},
           ToSet(built.edges), built.nodes)

NodeOf(p, s) == IF Forked(p) THEN p.id ELSE s.id

(* The graph a valid plan is converted to can run, when it builds, and     *)
(* keeps the order of the plan: a phase runs after the phases it depends   *)
(* on that come before it, and a step after the steps it depends on, unless*)
(* it is a branch of a fork.                                               *)
GraphKeepsOrder ==
  \A plan \in Plans : ValidPlan(plan) =>
    LET built == PlanToGraph(plan)
        before == ComesBefore(built)
        phases == ToSet(plan.phases)
    IN Builds(built) =>
         /\ \A n \in ToSet(built.nodes) : <<n, n>> \notin before
         /\ \A p, q \in phases :
              q.id \in ToSet(p.deps) /\ q.order < p.order =>
                \A s \in ToSet(p.steps), t \in ToSet(q.steps) :
                  <<NodeOf(q, t), NodeOf(p, s)>> \in before
         /\ \A p \in {x \in phases : ~Forked(x)} : \A s \in ToSet(p.steps) :
              \A dep \in ToSet(s.deps) : <<dep, s.id>> \in before

(* A plan on disk keeps its ids apart, its progress consistent and its     *)
(* order when it is made a graph, whatever calls of the planning tools     *)
(* overlap and whatever they are given (loadPlan, savePlan, plan_update,   *)
(* planToGraph).                                                           *)
PlanStaysWhole == StepIdsUnique /\ ProgressAgrees /\ GraphKeepsOrder
=============================================================================
