---------------------------- MODULE Conversation ----------------------------
(***************************************************************************)
(* src/context: a conversation is kept within the window of its model.     *)
(* Large results are put away in files, older messages are summed up by    *)
(* the model, and what still does not fit is left out.  Nothing in src/    *)
(* but the package's exports uses these classes: the order in which they   *)
(* are asked here is the README's.  Sizes are tokens, each message's own   *)
(* four included.                                                          *)
(***************************************************************************)
EXTENDS Integers, Sequences, SequencesExt

CONSTANTS Preserves,        \* preserveRecentMessages
          Sizes,            \* of what is said
          Reference,        \* the size of "[Result saved to ...]"
          SummarySizes,     \* of what the model may make of older messages
          OffloadAbove,     \* offloadTokenThreshold
          SummarizeAbove,   \* windowSize * summarizationThreshold
          TruncateAbove,    \* windowSize * truncationThreshold, rounded down
          MaxSaid,          \* bound: messages of the conversation
          MaxSystem         \* bound: system messages, summaries included

(* The list sent to the model is filtered by role before anything is done  *)
(* to it: it is kept here as its two parts.                                *)
VARIABLES preserve,
          said,       \* history: how many messages there were
          system,     \* the system messages
          spoken,     \* the others
          summed,     \* history: the messages that a summary was asked for
          leftOut     \* history: the messages that truncation dropped

vars == <<preserve, said, system, spoken, summed, leftOut>>

Message(n, size) == [of |-> n, size |-> size]
System(size) == [of |-> 0, size |-> size]

IdsOf(list) == {list[i].of : i \in DOMAIN list}

\* slice(-n) for n > 0, and the tokens of these messages.
Newest(list, n) == SubSeq(list, Len(list) - n + 1, Len(list))
Tokens(list, n) ==
  LET sum[i \in 0 .. Len(list)] == IF i = 0 THEN 0 ELSE sum[i - 1] + list[Len(list) - i + 1].size
  IN sum[n]

\* countMessages
Count(list) == Tokens(list, Len(list))

Init ==
  /\ preserve \in Preserves
  /\ said = 0
  /\ \E size \in Sizes : system = <<System(size)>>
  /\ spoken = <<>>
  /\ summed = {} /\ leftOut = {}

\* shouldOffload, offloadToFilesystem: only the reference is said.
Offloaded(size) == IF size > OffloadAbove THEN Reference ELSE size

Say(size) ==
  /\ said < MaxSaid
  /\ said' = said + 1
  /\ spoken' = Append(spoken, Message(said + 1, Offloaded(size)))
  /\ UNCHANGED <<preserve, system, summed, leftOut>>

-----------------------------------------------------------------------------
ShouldSummarize == Count(system) + Count(spoken) > SummarizeAbove

\* JavaScript's list.slice(0, -n) and list.slice(-n): -0 is 0, the start.
AllBut(list, n) == IF n = 0 THEN <<>> ELSE SubSeq(list, 1, Len(list) - n)
LastOf(list, n) == IF n = 0 THEN list ELSE Newest(list, n)

\* summarize: the summary is one more system message.  With nothing to be
\* preserved the model is asked to sum up nothing, and all messages stay.
\* When its call fails nothing changes, which is no step.
Summarize ==
  /\ ShouldSummarize
  /\ Len(spoken) > preserve
  /\ Len(system) < MaxSystem
  /\ \E size \in SummarySizes : system' = Append(system, System(size))
  /\ spoken' = LastOf(spoken, preserve)
  /\ summed' = summed \cup IdsOf(AllBut(spoken, preserve))
  /\ UNCHANGED <<preserve, said, leftOut>>

-----------------------------------------------------------------------------
ShouldTruncate == Count(system) + Count(spoken) > TruncateAbove

\* Variant: a message that does not fit is passed over.
KeptOfAny(list, remaining) ==
  FoldRight(LAMBDA m, acc : IF acc.used + m.size <= remaining
                              THEN [used |-> acc.used + m.size, kept |-> <<m>> \o acc.kept] ELSE acc,
            list, [used |-> 0, kept |-> <<>>]).kept

\* The loop from the newest message, which ends at the first that does not fit.
Stops(list, remaining, n) ==
  /\ \A k \in 1 .. n : Tokens(list, k) <= remaining
  /\ n = Len(list) \/ Tokens(list, n + 1) > remaining

Kept(list, remaining) == Newest(list, CHOOSE n \in 0 .. Len(list) : Stops(list, remaining, n))

\* truncateMessages: what is kept of the others beside the system messages.
Truncated ==
  LET remaining == TruncateAbove - Count(system) IN
  IF remaining <= 0 THEN <<>> ELSE Kept(spoken, remaining)

Truncate ==
  /\ ShouldTruncate
  /\ Truncated # spoken
  /\ spoken' = Truncated
  /\ leftOut' = leftOut \cup (IdsOf(spoken) \ IdsOf(spoken'))
  /\ UNCHANGED <<preserve, said, system, summed>>

Next == (\E size \in Sizes : Say(size)) \/ Summarize \/ Truncate

-----------------------------------------------------------------------------
(* However summaries and truncations follow one another, the model reads a *)
(* conversation without a gap: the messages in the list are the last ones  *)
(* said, in order; every other one was summed up or left out, and none of  *)
(* those is read again.  Truncation makes the list fit, unless the system  *)
(* messages alone do not, and leaves out no message that would fit.        *)
ConversationIsWhole ==
  LET dropped == Len(spoken) - Len(Truncated)
      tokens == Count(system) + Count(Truncated) IN
  /\ \A i \in DOMAIN spoken : spoken[i].of = said - Len(spoken) + i
  /\ summed \cup leftOut = 1 .. said - Len(spoken)
  /\ tokens <= TruncateAbove \/ Truncated = <<>>
  /\ dropped > 0 => tokens + spoken[dropped].size > TruncateAbove
=============================================================================
