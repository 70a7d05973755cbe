------------------------------- MODULE Saga --------------------------------
(***************************************************************************)
(* What a workflow promises about the steps that can be undone             *)
(* (docs/docs/plugins/workflow.md, "Rollback Behavior"): they are done in  *)
(* turn, each at most once; a workflow that fails undoes all that were     *)
(* done, each once, the last one first, and only then reports; a workflow  *)
(* that completes undoes nothing.                                          *)
(***************************************************************************)
EXTENDS Naturals, Sequences

VARIABLES
  steps,  \* the definition
  done,   \* the places in it of what was done and not undone
  state

Init ==
  /\ done = {}
  /\ state = "forward"

Do(i) ==
  /\ state = "forward"
  /\ \A j \in done : j < i
  /\ done' = done \cup {i}
  /\ UNCHANGED <<steps, state>>

Abort ==
  /\ state = "forward"
  /\ state' = "backward"
  /\ UNCHANGED <<steps, done>>

UndoLast ==
  /\ state = "backward"
  /\ \E i \in done : (\A j \in done : j <= i) /\ done' = done \ {i}
  /\ UNCHANGED <<steps, state>>

End ==
  /\ \/ state = "forward" /\ state' = "completed"
     \/ state = "backward" /\ done = {} /\ state' = "failed"
  /\ UNCHANGED <<steps, done>>

Next == (\E i \in DOMAIN steps : Do(i)) \/ Abort \/ UndoLast \/ End

Spec == Init /\ [][Next]_<<steps, done, state>>
=============================================================================
