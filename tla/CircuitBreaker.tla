--------------------------- MODULE CircuitBreaker ---------------------------
(***************************************************************************)
(* src/adapters/resilience/circuit-breaker.ts, the breaker ToolManager     *)
(* puts around every tool.  All the tools of an agent share one breaker,   *)
(* so several operations are in flight at once and each settles in a turn  *)
(* of its own, whatever has become of the breaker since it was admitted.   *)
(*                                                                         *)
(* Time is counted in ticks.  The code compares timestamps with now; the   *)
(* model keeps the ages: failures[a] is the number of recorded failures a  *)
(* ticks old and sinceFailure the age of lastFailureTime, which stops at   *)
(* ResetTimeout.  Records that left the monitor window are dropped at once *)
(* (every reader calls cleanupOldFailures() first).                        *)
(***************************************************************************)
EXTENDS Integers, Functions

CONSTANTS
  Calls,                \* callers of execute()
  FailureThreshold, ResetTimeout, MonitorWindow

ASSUME BreakerAssumption ==
  /\ FailureThreshold \in Nat \ {0}
  /\ ResetTimeout \in Nat \ {0}
  /\ MonitorWindow \in Nat \ {0}

VARIABLES
  state,
  failures,
  sinceFailure,
  halfOpenTestInProgress,
  running,              \* calls whose operation() has not settled
  probePolled           \* history: since the last reset(), a getState()
                        \* has returned "half-open"

breakerVars == <<state, failures, sinceFailure, halfOpenTestInProgress>>
vars == <<breakerVars, running, probePolled>>

States == {"closed", "open", "half-open"}
Ages == 0 .. MonitorWindow - 1
NoFailures == [a \in Ages |-> 0]

Init ==
  /\ state = "closed"
  /\ failures = NoFailures
  /\ sinceFailure = ResetTimeout
  /\ halfOpenTestInProgress = FALSE
  /\ running = {}
  /\ probePolled = FALSE

-----------------------------------------------------------------------------
(* Variant: the flag is raised with the transition, so that the probe      *)
(* itself is refused.                                                      *)
UpdatedEager ==
  IF state = "open" /\ sinceFailure >= ResetTimeout
    THEN [state |-> "half-open", test |-> TRUE]
    ELSE [state |-> state, test |-> state = "half-open" \/ halfOpenTestInProgress]

(* updateState(): what the breaker is once the clock has been looked at.   *)
(* The first look at a half-open breaker raises halfOpenTestInProgress.    *)
Updated ==
  IF state = "open" /\ sinceFailure >= ResetTimeout
    THEN [state |-> "half-open", test |-> FALSE]
    ELSE [state |-> state, test |-> state = "half-open" \/ halfOpenTestInProgress]

(* shouldReject(), of an updated breaker.                                  *)
Rejects(b) == b.state = "open" \/ (b.state = "half-open" /\ b.test)

Look ==
  /\ state' = Updated.state
  /\ halfOpenTestInProgress' = Updated.test
  /\ UNCHANGED <<failures, sinceFailure>>

(* execute(): refused with a CircuitBreakerError, or in flight.            *)
Execute(c) ==
  /\ c \notin running
  /\ Look
  /\ running' = IF Rejects(Updated) THEN running ELSE running \cup {c}
  /\ UNCHANGED probePolled

(* getState() looks at the clock too, and may take the look that was left  *)
(* for a probe.                                                            *)
GetState ==
  /\ Look
  /\ probePolled' = (probePolled \/ Updated.state = "half-open")
  /\ UNCHANGED running

(* onSuccess(): only a half-open breaker takes notice.                     *)
OnSuccess ==
  IF state = "half-open"
    THEN /\ state' = "closed"
         /\ failures' = NoFailures
         /\ halfOpenTestInProgress' = FALSE
         /\ UNCHANGED sinceFailure
    ELSE UNCHANGED breakerVars

Succeed(c) ==
  /\ c \in running
  /\ running' = running \ {c}
  /\ OnSuccess
  /\ UNCHANGED probePolled

(* Variant: the failure of a call admitted before the breaker opened does *)
(* not restart the timeout.                                                *)
OnFailureLateIgnored ==
  LET recorded == [failures EXCEPT ![0] = @ + 1]
  IN  /\ failures' = recorded
      /\ sinceFailure' = IF state = "open" THEN sinceFailure ELSE 0
      /\ halfOpenTestInProgress' = FALSE
      /\ state' = IF state = "half-open" \/ SumFunction(recorded) >= FailureThreshold
                    THEN "open" ELSE state

(* onFailure(): any failure counts, also one of a call admitted long ago.  *)
OnFailure ==
  LET recorded == [failures EXCEPT ![0] = @ + 1]
  IN  /\ failures' = recorded
      /\ sinceFailure' = 0
      /\ halfOpenTestInProgress' = FALSE
      /\ state' = IF state = "half-open" \/ SumFunction(recorded) >= FailureThreshold
                    THEN "open" ELSE state

Fail(c) ==
  /\ c \in running
  /\ running' = running \ {c}
  /\ OnFailure
  /\ UNCHANGED probePolled

(* reset() knows nothing of the calls in flight.                           *)
Reset ==
  /\ state' = "closed"
  /\ failures' = NoFailures
  /\ sinceFailure' = ResetTimeout
  /\ halfOpenTestInProgress' = FALSE
  /\ probePolled' = FALSE
  /\ UNCHANGED running

(* A tick of the clock, with what cleanupOldFailures() would drop now.     *)
Tick ==
  /\ failures' = [a \in Ages |-> IF a = 0 THEN 0 ELSE failures[a - 1]]
  /\ sinceFailure' = IF sinceFailure < ResetTimeout THEN sinceFailure + 1 ELSE sinceFailure
  /\ UNCHANGED <<state, halfOpenTestInProgress, running, probePolled>>

Next ==
  \/ \E c \in Calls : Execute(c) \/ Succeed(c) \/ Fail(c)
  \/ GetState \/ Reset \/ Tick

Spec == Init /\ [][Next]_vars

(* Time passes, operations settle, and the model keeps calling its tools.  *)
Fairness ==
  /\ WF_vars(Tick)
  /\ \A c \in Calls : WF_vars(Execute(c)) /\ WF_vars(Succeed(c))

FairSpec == Spec /\ Fairness

-----------------------------------------------------------------------------
TypeOK ==
  /\ state \in States
  /\ failures \in [Ages -> Nat]
  /\ sinceFailure \in 0 .. ResetTimeout
  /\ halfOpenTestInProgress \in BOOLEAN
  /\ running \subseteq Calls
  /\ probePolled \in BOOLEAN

(* A half-open breaker has an operation in flight whose outcome will close *)
(* or reopen it, unless a getState() has returned "half-open".             *)
(* Without one every later call may be refused: nothing but reset() leaves *)
(* the state.                                                              *)
HalfOpenIsDecided == state = "half-open" => running # {} \/ probePolled

(* Every recorded failure is at least as old as the last one the timeout   *)
(* counts from, so an open breaker lets a probe through only after a quiet *)
(* ResetTimeout, also when calls admitted before it opened fail later.     *)
QuietBeforeProbe == \A a \in Ages : failures[a] > 0 => sinceFailure <= a

(* One probe per recovery attempt: the only call a breaker admits into the *)
(* half-open state is the one that found the timeout elapsed.              *)
SingleProbe ==
  [][\A c \in Calls :
       c \notin running /\ c \in running' /\ state' = "half-open" => state = "open"]_vars

(* Once no operation fails any more the breaker closes, and stays closed,  *)
(* unless a getState() has returned "half-open".                           *)
Recovers ==
  <>[][\A c \in Calls : ~Fail(c)]_vars => <>[](state = "closed") \/ <>probePolled
=============================================================================
