------------------------------ MODULE CliTools ------------------------------
(***************************************************************************)
(* src/cli/tools.ts: the tools with which an agent on the command line     *)
(* changes files and commits them, and the questions that ask for each     *)
(* change: confirmAction() of src/cli/repl.ts, which asks one after the    *)
(* other, and confirm() of src/cli/commands/chat.ts, which does not.       *)
(*                                                                         *)
(* A model calls tools in parallel.  A call looks at the files, asks, and  *)
(* changes them when it is told to: as it had seen them.  A text is a      *)
(* sequence of words; git is external, and refuses what it likes (another  *)
(* process has its lock, a hook says no); hooks that change files are left *)
(* out.                                                                    *)
(***************************************************************************)
EXTENDS Integers, Sequences, FiniteSets

CONSTANTS
  Calls, Paths,
  Requests,   \* what calls may be asked: [does, path, text], and for an edit
              \* [does, path, old, word], for a commit [does, paths, all]
  Namings     \* what the names that git prints may name to git add: the same
              \* at the root of the repository, others or none below it

VARIABLES
  mode,       \* "repl", "chat", or "pipe": chat without a terminal
  yolo,
  work,       \* the files; <<>> is a file that is not there
  index,      \* what git has staged
  head,       \* what git has committed
  born,       \* there is a commit, if of nothing
  names,      \* how the directory of the session reads a name of git's
  lock,       \* confirmLock: the call it belongs to, if any
  released,   \* the calls that have released theirs
  call        \* where each call is, what it does and shows, what it saw

vars == <<mode, yolo, work, index, head, born, names, lock, released, call>>

Absent == <<>>
Nothing == [p \in Paths |-> Absent]
Seen == [work |-> work, index |-> index, head |-> head]

Init ==
  /\ mode \in {"repl", "chat", "pipe"} /\ yolo \in BOOLEAN
  /\ work = Nothing /\ index = Nothing /\ head = Nothing
  /\ born \in BOOLEAN /\ names \in Namings
  /\ lock = {} /\ released = {}
  /\ call = [c \in Calls |-> [at |-> "idle"]]

Pending(c) == call[c].at \in {"waits", "asked", "told"}

-----------------------------------------------------------------------------
(* What git does.                                                          *)
StagedFiles(i, h) == {p \in Paths : i[p] # h[p]}

(* add: a path that is neither in the files nor in the index refuses all,  *)
(* unless all paths are meant, whichever there are.                        *)
Known(ps, w, i) == \A p \in ps : w[p] # Absent \/ i[p] # Absent
Add(ps, w, i) == [p \in Paths |-> IF p \in ps THEN w[p] ELSE i[p]]

-----------------------------------------------------------------------------
(* What a call does up to its question: it ends at once, or shows what it  *)
(* would write.  An edit must match once.                                  *)
Matches(text, old) == {i \in DOMAIN text : text[i] = old}

Refuses(r) ==
  \/ r.does = "createFile" /\ work[r.path] # Absent
  \/ r.does = "editFile" /\ Cardinality(Matches(work[r.path], r.old)) # 1
  \/ r.does = "gitCommit" /\ ~r.all /\ ~Known(r.paths, work, index)
  \/ r.does = "gitCommit" /\ Add(r.paths, work, index) = head

Shown(r) ==
  CASE r.does = "editFile" ->
         [work[r.path] EXCEPT ![CHOOSE i \in Matches(work[r.path], r.old) : TRUE] = r.word]
    [] r.does \in {"writeFile", "createFile", "bash"} -> r.text
    [] r.does = "gitCommit" -> Absent

(* What it does in the end.  A declined commit unstages everything, which  *)
(* fails where nothing is committed yet and is the end of it then; it      *)
(* stages again the names that were, as the files are now, or none of them *)
(* where git add knows one of them not, which nobody looks at.             *)
Restored(staged) ==
  LET again == {names[p] : p \in staged}
  IN  IF again \subseteq Paths /\ Known(again, work, head) THEN Add(again, work, head) ELSE head

Declines(r, staged, i, failed) ==
  /\ IF r.does = "gitCommit" /\ ~failed THEN born /\ index' = Restored(staged) ELSE index' = i
  /\ failed => r.does = "gitCommit"
  /\ UNCHANGED <<work, head, born>>

(* A write that fails may have opened the file, which empties it, and have *)
(* written a part.                                                         *)
Emptied == <<"blank">>
Parts(text) == {Emptied} \cup {SubSeq(text, 1, n) : n \in 1 .. Len(text)}

Writes(r, shown, i, failed) ==
  /\ \E text \in IF failed THEN {work[r.path]} \cup Parts(shown) ELSE {shown} :
       work' = [work EXCEPT ![r.path] = text]
  /\ index' = i /\ UNCHANGED <<head, born>>

Commits(i, failed) ==
  /\ ~failed => i # head
  /\ head' = IF failed THEN head ELSE i
  /\ born' = (born \/ ~failed)
  /\ index' = i /\ UNCHANGED work

Acts(r, shown, staged, i, yes, failed) ==
  \/ ~yes /\ Declines(r, staged, i, failed)
  \/ yes /\ r.does # "gitCommit" /\ Writes(r, shown, i, failed)
  \/ yes /\ r.does = "gitCommit" /\ Commits(i, failed)

Snapshot(c, place, failed) ==
  [call[c] EXCEPT !.at = place, !.failed = failed,
                  !.to = [work |-> work', index |-> index', head |-> head']]

-----------------------------------------------------------------------------
(* Variant: the lock is taken when it is the call's turn.                  *)
LockedLate(c) == lock' = lock

Locked(c) == lock' = {c}

(* It looks at files or has git add some; either may fail.                 *)
FailsEarly(r) ==
  /\ r.does \in {"writeFile", "editFile", "gitCommit"}
  /\ \E some \in SUBSET (IF r.does = "gitCommit" THEN r.paths ELSE {}) :
       index' = Add(some, work, index)

Others(c) == {d \in Calls \ {c} : Pending(d)}

Start(c, r) ==
  LET staged == StagedFiles(index, head)
      adds == r.does = "gitCommit" /\ (r.all \/ Known(r.paths, work, index))
      i == IF adds THEN Add(r.paths, work, index) ELSE index
      made(place) ==
        [at |-> place, request |-> r, behind |-> lock, staged |-> staged, yes |-> FALSE,
         failed |-> FALSE, alone |-> FALSE, met |-> Others(c) # {}, from |-> Seen, to |-> Seen,
         shown |-> IF Refuses(r) THEN Absent ELSE Shown(r)]
      meeting(place) == [d \in Calls |-> IF d = c THEN made(place)
                                         ELSE IF Pending(d) THEN [call[d] EXCEPT !.met = TRUE]
                                         ELSE call[d]]
  IN  /\ call[c].at = "idle"
      /\ \A d \in Calls : call[d].at # "told"
      /\ UNCHANGED <<mode, yolo, names, released>>
      /\ \/ /\ \E failed \in BOOLEAN :
                 /\ IF failed THEN FailsEarly(r) ELSE Refuses(r) /\ index' = i
                 /\ call' = [meeting("refused") EXCEPT ![c].failed = failed]
            /\ UNCHANGED <<work, head, born, lock>>
         \/ /\ ~Refuses(r) /\ yolo
            /\ \E failed \in BOOLEAN :
                 /\ Acts(r, Shown(r), staged, i, TRUE, failed)
                 /\ call' = [meeting("done") EXCEPT ![c].yes = TRUE, ![c].failed = failed,
                              ![c].to = [work |-> work', index |-> index', head |-> head']]
            /\ UNCHANGED lock
         \/ /\ ~Refuses(r) /\ ~yolo
            /\ index' = i
            /\ call' = meeting(IF mode = "pipe" THEN "told" ELSE "waits")
            /\ IF mode = "repl" THEN Locked(c) ELSE UNCHANGED lock
            /\ UNCHANGED <<work, head, born>>

(* The question is asked: in the REPL once the one before is answered.     *)
Ask(c) ==
  /\ call[c].at = "waits"
  /\ mode = "repl" => call[c].behind \subseteq released
  /\ call' = [call EXCEPT ![c].at = "asked"]
  /\ UNCHANGED <<mode, yolo, work, index, head, born, names, lock, released>>

(* A line of the terminal answers every question that is open.             *)
Line(yes) ==
  LET open == {c \in Calls : call[c].at = "asked"}
  IN  /\ open # {}
      /\ call' = [c \in Calls |-> IF c \notin open THEN call[c]
                                  ELSE [call[c] EXCEPT !.at = "told", !.yes = yes,
                                                       !.alone = Cardinality(open) = 1]]
      /\ released' = released \cup open
      /\ UNCHANGED <<mode, yolo, work, index, head, born, names, lock>>

Act(c) ==
  /\ call[c].at = "told"
  /\ \E failed \in BOOLEAN :
       /\ Acts(call[c].request, call[c].shown, call[c].staged, index, call[c].yes, failed)
       /\ call' = [call EXCEPT ![c] = Snapshot(c, "done", failed)]
  /\ UNCHANGED <<mode, yolo, names, lock, released>>

Next ==
  \/ \E c \in Calls : Ask(c) \/ Act(c) \/ \E r \in Requests : Start(c, r)
  \/ \E yes \in BOOLEAN : Line(yes)

Spec == Init /\ [][Next]_vars

-----------------------------------------------------------------------------
(* In the REPL nothing is done that was not asked for by a question of its *)
(* own, however many tools the model calls at once.                        *)
AskedByItself ==
  /\ mode = "repl" => Cardinality({c \in Calls : call[c].at = "asked"}) <= 1
  /\ \A c \in Calls :
       call[c].at = "done" /\ call[c].to.work # call[c].from.work /\ ~call[c].met =>
         call[c].yes
  /\ \A c \in Calls :
       mode = "repl" /\ ~yolo /\ call[c].at = "done" /\ call[c].yes => call[c].alone

(* A call is told not to, and leaves everything as it was: the files, what *)
(* is committed, and which files are staged; but these only where their    *)
(* names still name them and their files are as they were staged, and not  *)
(* when it is git that fails: then there is more staged than was.  It is   *)
(* told to: it creates only what was not there and changes no file but its *)
(* own, an edit that does not fail changes one word, and a commit holds    *)
(* what was staged before and what it was asked to stage, or git refused   *)
(* it and these are staged and nothing else.                               *)
AsAsked(req, yes, failed, reads, from, to) ==
  LET staged == StagedFiles(from.index, from.head)
      commit == req.does = "gitCommit"
      changed == {p \in Paths : to.work[p] # from.work[p]}
  IN  /\ commit => to.work = from.work
      /\ ~commit => /\ to.index = from.index /\ to.head = from.head
                    /\ changed \subseteq {req.path}
      /\ commit /\ failed => /\ to.head = from.head
                             /\ StagedFiles(to.index, to.head) \subseteq staged \cup req.paths
      /\ ~yes => to.work = from.work /\ to.head = from.head
      /\ ~yes /\ ~failed /\ commit =>
           /\ StagedFiles(to.index, to.head) \subseteq {reads[p] : p \in staged}
           /\ (\A p \in staged : reads[p] = p /\ from.work[p] = from.index[p]) => to.index = from.index
      /\ yes /\ req.does = "createFile" => from.work[req.path] = Absent
      /\ yes /\ ~failed /\ req.does = "editFile" =>
           /\ Len(to.work[req.path]) = Len(from.work[req.path])
           /\ Cardinality({i \in DOMAIN to.work[req.path] :
                             to.work[req.path][i] # from.work[req.path][i]}) <= 1
      /\ yes /\ ~failed /\ commit =>
           /\ StagedFiles(to.head, from.head) \subseteq staged \cup req.paths
           /\ \A p \in req.paths : to.head[p] = from.work[p]

(* So does every call that met no other.                                   *)
AloneAsAsked ==
  \A c \in Calls : call[c].at = "done" /\ ~call[c].met =>
    AsAsked(call[c].request, call[c].yes, call[c].failed, names, call[c].from, call[c].to)

(* What the user is asked is asked alone, and what is confirmed is done as *)
(* it was shown if nothing else happened meanwhile, and nothing failed     *)
(* (confirmAction, createCliTools).                                       *)
ConfirmedOneByOne == AskedByItself /\ AloneAsAsked
=============================================================================
