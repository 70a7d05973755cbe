--------------------------- MODULE SharedContext ---------------------------
(***************************************************************************)
(* src/graph/shared-context.ts: one key of the context the nodes of a      *)
(* graph share, its file and its version counter, under concurrent         *)
(* operations.  The version lives in memory and moves synchronously; the   *)
(* value lives in a FilesystemPort whose every call is awaited, so other   *)
(* operations run between any two steps of one.                            *)
(*                                                                         *)
(* The value stored is abstracted to the set of writers it stems from:     *)
(* set() of w stores {w}; cas (getVersioned() then setVersioned()) and     *)
(* merge() add w to what they read.                                        *)
(***************************************************************************)
EXTENDS Integers, FiniteSets

CONSTANTS
  Writers,
  Operations,       \* the operations the writers may call
  MaxRetries        \* of merge(), 3 in the code

ASSUME ContextAssumption ==
  /\ Operations \subseteq {"set", "delete", "cas", "merge"}
  /\ MaxRetries \in Nat

VARIABLES
  op,               \* what each writer calls
  step,             \* where its operation is suspended
  file, version,
  got,              \* what its get() returned
  expected,         \* the version it checks against
  attempt,          \* of its merge()
  movedFrom         \* history: the version its operation replaced

vars == <<op, step, file, version, got, expected, attempt, movedFrom>>

NoValue == {}       \* no file; every stored value stems from somebody
Never == -1

(* The steps of an operation: exists() and read() of its get(), or the     *)
(* exists() of delete(); the return of that get(); the check of the        *)
(* version; exists() and read() of the get() inside setVersioned() and     *)
(* delete(); write() or delete(); the bump that follows it in set() and    *)
(* delete().                                                               *)
Steps == {"idle", "exists", "read", "return", "check", "existsAgain",
          "readAgain", "write", "bump", "done", "conflict", "error"}

Init ==
  /\ op \in [Writers -> Operations]
  /\ step = [w \in Writers |-> "idle"]
  /\ file = NoValue
  /\ version = 0
  /\ got = [w \in Writers |-> NoValue]
  /\ expected = [w \in Writers |-> Never]
  /\ attempt = [w \in Writers |-> 0]
  /\ movedFrom = [w \in Writers |-> Never]

-----------------------------------------------------------------------------
At(w, s) == step[w] = s
GoTo(w, s) == step' = [step EXCEPT ![w] = s]

(* The call.  Each attempt of merge() takes the version before it reads.   *)
Begin(w) ==
  /\ At(w, "idle")
  /\ GoTo(w, "exists")
  /\ expected' = [expected EXCEPT ![w] = IF op[w] = "merge" THEN version ELSE @]
  /\ UNCHANGED <<op, file, version, got, attempt, movedFrom>>

(* fs.exists().  Without a file there is nothing to read, and nothing for  *)
(* delete() to do.                                                         *)
Exists(w) ==
  /\ \/ /\ At(w, "exists") /\ file # NoValue
        /\ GoTo(w, IF op[w] = "delete" THEN "existsAgain" ELSE "read")
        /\ UNCHANGED got
     \/ /\ At(w, "exists") /\ file = NoValue
        /\ GoTo(w, IF op[w] = "delete" THEN "done" ELSE "return")
        /\ got' = [got EXCEPT ![w] = NoValue]
     \/ /\ At(w, "existsAgain")
        /\ GoTo(w, IF file = NoValue THEN "write" ELSE "readAgain")
        /\ UNCHANGED got
  /\ UNCHANGED <<op, file, version, expected, attempt, movedFrom>>

(* fs.read() rejects when the file went away since exists().  What the     *)
(* get() inside setVersioned() and delete() reads goes to the watchers     *)
(* only.                                                                   *)
Read(w) ==
  /\ \/ /\ step[w] \in {"read", "readAgain"} /\ file = NoValue
        /\ GoTo(w, "error")
        /\ UNCHANGED got
     \/ /\ At(w, "read") /\ file # NoValue
        /\ GoTo(w, "return")
        /\ got' = [got EXCEPT ![w] = file]
     \/ /\ At(w, "readAgain") /\ file # NoValue
        /\ GoTo(w, "write")
        /\ UNCHANGED got
  /\ UNCHANGED <<op, file, version, expected, attempt, movedFrom>>

(* get() returns.  getVersioned() pairs the value with the version of this *)
(* moment; of a missing key it returns null, and the caller expects 0.     *)
Return(w) ==
  /\ At(w, "return")
  /\ GoTo(w, IF op[w] \in {"cas", "merge"} THEN "check" ELSE "write")
  /\ expected' = [expected EXCEPT
       ![w] = IF op[w] # "cas" THEN @ ELSE IF got[w] = NoValue THEN 0 ELSE version]
  /\ UNCHANGED <<op, file, version, got, attempt, movedFrom>>

(* The first turn of setVersioned() when the versions differ: a merge()    *)
(* that has attempts left starts over.                                     *)
Conflict(w) ==
  /\ At(w, "check") /\ version # expected[w]
  /\ IF op[w] = "merge" /\ attempt[w] < MaxRetries
       THEN /\ GoTo(w, "exists")
            /\ attempt' = [attempt EXCEPT ![w] = @ + 1]
            /\ expected' = [expected EXCEPT ![w] = version]
       ELSE /\ GoTo(w, "conflict")
            /\ UNCHANGED <<attempt, expected>>
  /\ UNCHANGED <<op, file, version, got, movedFrom>>

(* Variant: the version moves when the write has landed, as in set().      *)
WinLate(w) ==
  /\ At(w, "check") /\ version = expected[w]
  /\ GoTo(w, "existsAgain")
  /\ movedFrom' = [movedFrom EXCEPT ![w] = version]
  /\ UNCHANGED <<op, file, version, got, expected, attempt>>

(* The first turn of setVersioned() when the versions agree: the version   *)
(* moves on before the value does.                                         *)
Win(w) ==
  /\ At(w, "check") /\ version = expected[w]
  /\ version' = version + 1
  /\ movedFrom' = [movedFrom EXCEPT ![w] = version]
  /\ GoTo(w, "existsAgain")
  /\ UNCHANGED <<op, file, got, expected, attempt>>

Stored(w) ==
  CASE op[w] = "delete" -> NoValue
    [] op[w] = "set" -> {w}
    [] op[w] \in {"cas", "merge"} -> got[w] \cup {w}

(* fs.write() or fs.delete() takes effect.                                 *)
Write(w) ==
  /\ At(w, "write")
  /\ file' = Stored(w)
  /\ GoTo(w, IF op[w] \in {"set", "delete"} THEN "bump" ELSE "done")
  /\ UNCHANGED <<op, version, got, expected, attempt, movedFrom>>

(* It rejects: set() and delete() leave everything as it was, the others   *)
(* have moved the version.                                                 *)
WriteRejects(w) ==
  /\ At(w, "write")
  /\ GoTo(w, "error")
  /\ UNCHANGED <<op, file, version, got, expected, attempt, movedFrom>>

(* set() and delete() move the version when the filesystem has answered.   *)
Bump(w) ==
  /\ At(w, "bump")
  /\ version' = version + 1
  /\ movedFrom' = [movedFrom EXCEPT ![w] = version]
  /\ GoTo(w, "done")
  /\ UNCHANGED <<op, file, got, expected, attempt>>

Step(w) ==
  \/ Begin(w) \/ Exists(w) \/ Read(w) \/ Return(w) \/ Conflict(w)
  \/ Win(w) \/ Write(w) \/ WriteRejects(w) \/ Bump(w)

Settled(w) == step[w] \in {"done", "conflict", "error"}

Next == \E w \in Writers : Step(w)

Spec == Init /\ [][Next]_vars

-----------------------------------------------------------------------------
TypeOK ==
  /\ op \in [Writers -> Operations]
  /\ step \in [Writers -> Steps]
  /\ file \in SUBSET Writers
  /\ version \in Nat
  /\ got \in [Writers -> SUBSET Writers]
  /\ expected \in [Writers -> Nat \cup {Never}]
  /\ attempt \in [Writers -> 0 .. MaxRetries]
  /\ movedFrom \in [Writers -> Nat \cup {Never}]

(* The writers whose operation has moved the version.                      *)
Moved == {w \in Writers : movedFrom[w] # Never}

(* No two operations replace the same version, so of those that check the  *)
(* same one at most one passes (shared-context.ts:185, "prevent concurrent *)
(* setVersioned from passing the same version check"), however sets and    *)
(* deletes interleave with them.                                           *)
OneWinnerPerVersion ==
  \A v, w \in Moved : v # w => movedFrom[v] # movedFrom[w]

(* A merge() that gives up met another operation's progress in each of its *)
(* attempts: it never fails on its own.                                    *)
GivesUpOnlyUnderContention ==
  \A w \in Writers :
    op[w] = "merge" /\ At(w, "conflict") => Cardinality(Moved \ {w}) > MaxRetries

(* Why they hold.  The version counts the operations that moved it.        *)
VersionCountsMoves ==
  /\ IsFiniteSet(Moved)
  /\ Cardinality(Moved) = version
  /\ \A w \in Writers : movedFrom[w] < version

(* An operation moves the version once, at its check or at its end.        *)
Unmoved(w) ==
  \/ step[w] \in {"idle", "exists", "read", "return", "check", "conflict"}
  \/ op[w] \in {"set", "delete"} /\ ~At(w, "done")

MovesOnce ==
  \A w \in Writers :
    /\ Unmoved(w) => movedFrom[w] = Never
    /\ At(w, "check") => op[w] \in {"cas", "merge"}
    /\ At(w, "bump") => op[w] \in {"set", "delete"}

(* The k-th retry of a merge() expects at least version k.                 *)
RetriesSeeProgress ==
  \A w \in Writers : op[w] = "merge" =>
    /\ At(w, "idle") => attempt[w] = 0
    /\ step[w] \in {"exists", "read", "return", "check"} =>
         attempt[w] <= expected[w] /\ expected[w] <= version
    /\ At(w, "conflict") => MaxRetries < version

IInv == TypeOK /\ VersionCountsMoves /\ MovesOnce /\ RetriesSeeProgress

(* When only merges run, every merge that succeeded is part of the value:  *)
(* CHANGELOG.md:39, "merge() now uses CAS retry loop (max 3 retries)       *)
(* instead of unsafe read-then-write".                                     *)
NoMergeLost ==
  (\A w \in Writers : Settled(w)) =>
    \A w \in Writers : op[w] = "merge" /\ At(w, "done") => w \in file
=============================================================================
