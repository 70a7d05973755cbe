----------------------------- MODULE BoundedPool -----------------------------
(***************************************************************************)
(* What a pool of workers promises to those who submit jobs, whatever the  *)
(* queue, the resizing and the failure handling behind it: a job only      *)
(* moves forward, so it is served at most once and never after it was      *)
(* withdrawn; no more than Most jobs are served at a time; and jobs are    *)
(* left pending only while at least Fewest are being served.               *)
(***************************************************************************)
EXTENDS Integers, FiniteSets

CONSTANTS Jobs, Fewest, Most

VARIABLE phase

Phases == {"new", "pending", "serving", "gone"}

Later == [new     |-> {"pending", "serving", "gone"},
          pending |-> {"serving", "gone"},
          serving |-> {"gone"},
          gone    |-> {}]

In(p) == {j \in Jobs : phase[j] = p}

Init == phase = [j \in Jobs |-> "new"]

Advance ==
  /\ phase' \in [Jobs -> Phases]
  /\ \A j \in Jobs : phase'[j] = phase[j] \/ phase'[j] \in Later[phase[j]]
  /\ Cardinality(In("serving")') <= Most
  /\ In("pending")' # {} => Cardinality(In("serving")') >= Fewest

Spec == Init /\ [][Advance]_phase
=============================================================================
