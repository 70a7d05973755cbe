---------------------------- MODULE RateLimiter ----------------------------
(***************************************************************************)
(* src/adapters/resilience/rate-limiter.ts: the token bucket in front of   *)
(* every call of an agent's model.  A caller takes a token, or waits in    *)
(* waitQueue for a timer to find one; callers that come later may take it  *)
(* before the timer fires.                                                 *)
(*                                                                         *)
(* Time is counted in ticks.  sinceRefill is the age of lastRefillTime;    *)
(* beyond what fills the bucket it goes on modulo RefillRate.              *)
(***************************************************************************)
EXTENDS Integers, Sequences

CONSTANTS Clients, MaxTokens, RefillRate

VARIABLES
  tokens, sinceRefill, waitQueue, processingScheduled,
  timers                \* how many timeouts are due in so many ticks

limiterVars == <<tokens, sinceRefill, waitQueue, processingScheduled, timers>>

Delays == 0 .. RefillRate
Lesser(a, b) == IF a < b THEN a ELSE b

Init ==
  /\ tokens = MaxTokens
  /\ sinceRefill = 0
  /\ waitQueue = <<>>
  /\ processingScheduled = FALSE
  /\ timers = [d \in Delays |-> 0]

(* refillTokens()                                                          *)
Refilled == Lesser(MaxTokens, tokens + sinceRefill \div RefillRate)
SinceRefilled == sinceRefill % RefillRate

(* processQueue(): a timeout for the next refill.                          *)
WithTimer(ts) == [ts EXCEPT ![RefillRate - SinceRefilled] = @ + 1]

(* acquire(): a token at once, or a place in the queue and a timer, unless *)
(* one has been scheduled.                                                 *)
Acquire(c) ==
  /\ sinceRefill' = SinceRefilled
  /\ IF Refilled > 0
       THEN /\ tokens' = Refilled - 1
            /\ UNCHANGED <<waitQueue, processingScheduled, timers>>
       ELSE /\ tokens' = 0
            /\ waitQueue' = Append(waitQueue, c)
            /\ processingScheduled' = TRUE
            /\ timers' = IF processingScheduled THEN timers ELSE WithTimer(timers)

Served == Lesser(Len(waitQueue), Refilled)

(* Variant: no timer for those who go on waiting.                          *)
TimerFiresOnce ==
  /\ timers[0] > 0
  /\ sinceRefill' = SinceRefilled
  /\ tokens' = Refilled - Served
  /\ waitQueue' = SubSeq(waitQueue, Served + 1, Len(waitQueue))
  /\ processingScheduled' = FALSE
  /\ timers' = [timers EXCEPT ![0] = @ - 1]

(* The timeout's callback.                                                 *)
TimerFires ==
  /\ timers[0] > 0
  /\ sinceRefill' = SinceRefilled
  /\ tokens' = Refilled - Served
  /\ waitQueue' = SubSeq(waitQueue, Served + 1, Len(waitQueue))
  /\ processingScheduled' = (waitQueue' # <<>>)
  /\ timers' = LET ts == [timers EXCEPT ![0] = @ - 1]
               IN  IF waitQueue' # <<>> THEN WithTimer(ts) ELSE ts

(* reset() rejects everyone who waits, and leaves the timer it forgets.    *)
Reset ==
  /\ tokens' = MaxTokens
  /\ sinceRefill' = 0
  /\ waitQueue' = <<>>
  /\ processingScheduled' = FALSE
  /\ UNCHANGED timers

(* A timeout may fire late, never early.                                   *)
Tick ==
  /\ sinceRefill' = IF sinceRefill = RefillRate * (MaxTokens + 1)
                      THEN RefillRate * MaxTokens + 1 ELSE sinceRefill + 1
  /\ timers' = [d \in Delays |-> (IF d = 0 THEN timers[0] ELSE 0)
                                + (IF d < RefillRate THEN timers[d + 1] ELSE 0)]
  /\ UNCHANGED <<tokens, waitQueue, processingScheduled>>

TypeOK ==
  /\ tokens \in 0 .. MaxTokens
  /\ sinceRefill \in 0 .. RefillRate * (MaxTokens + 1)
  /\ waitQueue \in Seq(Clients)
  /\ processingScheduled \in BOOLEAN
  /\ timers \in [Delays -> Nat]

(* Whoever waits for a token waits for a timer: no order of acquisitions,  *)
(* refills, resets and forgotten timers strands the queue.                 *)
NobodyIsStranded == waitQueue # <<>> => \E d \in Delays : timers[d] > 0
=============================================================================
