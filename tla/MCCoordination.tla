--------------------------- MODULE MCCoordination ---------------------------
(* Small instances for TLC: a supervisor of three strategies, and beside   *)
(* it, never together, a fork and its consensus, the tools of the command  *)
(* line that ask, and the sessions of the shell.                           *)
EXTENDS AgentSupervisor, Sequences, FiniteSets

CONSTANTS
  Nodes, Texts, Empty, MaxRounds,                          \* of the fork
  Calls, Paths, Words, Requests, Namings,                  \* of the tools
  Shells, Providers, Models, Default, Env, Servers, MaxHistory, MaxSaid

ASSUME ForkAssumption == IsFiniteSet(Nodes) /\ Empty \in Texts

\* What each tool is given.
ASSUME CliAssumption ==
  \A r \in Requests :
    \/ r.does \in {"writeFile", "createFile", "bash"} /\ r.path \in Paths /\ r.text \in Seq(Words)
    \/ r.does = "editFile" /\ r.path \in Paths /\ r.word \in Words
    \/ r.does = "gitCommit" /\ r.paths \in SUBSET Paths /\ r.all \in BOOLEAN

ASSUME ReplAssumption == MaxHistory \in Nat

VARIABLES part,
  consensus, agent, output, results, errors, outcome, taken, stage, said, answer,
  mode, yolo, work, index, head, born, names, lock, released, call,
  rc, saving, at, todo, settings, history, clients, spoken, keys, clash

Fork == INSTANCE ForkRun WITH node <- agent
Cli == INSTANCE CliTools
Sessions == INSTANCE Repl WITH said <- spoken

(* What the tools of the command line may be asked.                        *)
Told ==
  {[does |-> "writeFile", path |-> "p", text |-> <<"x", "x">>],
   [does |-> "createFile", path |-> "p", text |-> <<"x", "y">>],
   [does |-> "editFile", path |-> "p", old |-> "x", word |-> "y"],
   [does |-> "bash", path |-> "q", text |-> <<"x">>],
   [does |-> "bash", path |-> "p", text |-> <<>>],
   [does |-> "gitCommit", paths |-> {"p"}, all |-> FALSE],
   [does |-> "gitCommit", paths |-> {"p", "q"}, all |-> TRUE]}

(* At the root of the repository, and in a directory where p is what the   *)
(* root calls q and another p is in git's way.                             *)
Directories == {[p |-> "p", q |-> "q"], [p |-> "q", q |-> "nowhere"]}

FirstModel == [v \in Providers |-> "m1"]

forkVars == <<consensus, agent, output, results, errors, outcome, taken, stage, said, answer>>
cliVars == <<mode, yolo, work, index, head, born, names, lock, released, call>>
replVars == <<rc, saving, at, todo, settings, history, clients, spoken, keys, clash>>
mcVars == <<part, vars, forkVars, cliVars, replVars>>

(* The modes differ where something is asked, the directories where        *)
(* something is committed.                                                 *)
MCInit ==
  /\ part \in {"supervisor", "fork", "cli", "repl"}
  /\ Init /\ Fork!Init /\ Cli!Init /\ Sessions!Init
  /\ part # "supervisor" => strategy = "one-for-one" /\ temporary = {} /\ escalation = "none"
  /\ part # "fork" => consensus = "none"
  /\ part # "cli" => mode = "repl" /\ yolo /\ born /\ names["p"] = "p"
  /\ (yolo => mode = "repl") /\ (born \/ names["p"] = "p")

(* A second session saves one server and no more; what is said, and what   *)
(* is switched to, is followed with no other process and no server there.  *)
Plain ==
  \A x \in Shells :
    /\ spoken[x] = <<>> /\ history[x] = <<>>
    /\ settings[x].provider # "none" => settings[x].client = <<"v1", "v1", "m1">>
Sits ==
  /\ Sessions!Next
  /\ clients'["two"] \subseteq {"s1"}
  /\ at'["two"] \in {"closing", "chatting"} => at["two"] = at'["two"]
  /\ ~Plain' => /\ at["two"] = "off" /\ clients["one"] = {} /\ rc.text.servers = <<>>
                /\ <<rc, saving, keys, clash>>' = <<rc, saving, keys, clash>>

(* The calls of tools differ in nothing but their names, so the first one  *)
(* to start is the first; one of them fails by what files and git do.      *)
Commands ==
  /\ Cli!Next
  /\ \A c, d \in Calls : c < d /\ call'[c].at = "idle" => call'[d].at = "idle"
  /\ Cardinality({c \in Calls : call'[c].at \in {"refused", "done"} /\ call'[c].failed}) < 2

MCNext ==
  \/ part = "supervisor" /\ Next /\ UNCHANGED <<part, forkVars, cliVars, replVars>>
  \/ part = "fork" /\ Fork!Next /\ UNCHANGED <<part, vars, cliVars, replVars>>
  \/ part = "cli" /\ Commands /\ UNCHANGED <<part, vars, forkVars, replVars>>
  \/ part = "repl" /\ Sits /\ UNCHANGED <<part, vars, forkVars, cliVars>>

MCSpec == MCInit /\ [][MCNext]_mcVars /\ Fairness

(* A fork answers from what was there when it settled (ForkRun).           *)
ForkAnswers == Fork!ForkAnswers

(* The user confirms one thing at a time (CliTools).                       *)
ConfirmedOneByOne == Cli!ConfirmedOneByOne

(* A session of the shell says what is so (Repl).                          *)
SessionIsTrue == Sessions!SessionIsTrue
=============================================================================
