---------------------------- MODULE SessionStore ----------------------------
(***************************************************************************)
(* The MemoryPort adapters, which keep what the sessions of an agent save: *)
(* the Maps of InMemoryAdapter, which forgets the session saved longest    *)
(* ago, IndexedDbMemoryAdapter, DenoKvMemoryAdapter and                    *)
(* SupabaseMemoryAdapter.  Checkpoints are saved by several runs; an old   *)
(* one is deleted by its id, which was listed before.  The connections of  *)
(* the databases are taken to be open.                                     *)
(***************************************************************************)
EXTENDS Integers, FiniteSets

CONSTANTS
  Calls,              \* calls of deleteOldCheckpoints() under way at one time
  Sessions,
  MaxSessions,        \* of InMemoryAdapter (1000 in the code)
  MaxCheckpoints,     \* bounds the checkpoints saved
  Steps,              \* how many steps a run may have had
  Keeps               \* how many checkpoints a call may ask to keep, one at least

VARIABLES
  kind,               \* the adapter
  checkpoints,        \* of each session; loads and deletions go by an order of their own
  others,             \* the sessions with todos, a conversation or metadata
  sessionOrder,       \* InMemoryAdapter's Map: of each session in it, those behind it
  call,               \* what each call has still to delete, of which session
  made,               \* how many checkpoints were saved
  saved,              \* history: the checkpoints each session has saved
  since               \* history: which sessions saved since a session last did

vars == <<kind, checkpoints, others, sessionOrder, call, made, saved, since>>

Idle == [pc |-> "idle"]
Ids == 1..MaxCheckpoints
Used == UNION {{x.id : x \in saved[s]} : s \in Sessions}

Init ==
  /\ kind \in {"memory", "indexeddb", "denokv", "supabase"}
  /\ checkpoints = [s \in Sessions |-> {}]
  /\ others = {}
  /\ sessionOrder = [s \in {} |-> {}]
  /\ call = [c \in Calls |-> Idle]
  /\ made = 0
  /\ saved = [s \in Sessions |-> {}]
  /\ since = [s \in Sessions |-> {}]

-----------------------------------------------------------------------------
(* The order loadLatestCheckpoint() goes by: step_index for supabase,      *)
(* createdAt for the databases, and that of the calls for the Map.         *)
Rank(x) == IF kind = "memory" THEN x.nth ELSE IF kind = "supabase" THEN x.step ELSE x.at

(* The sort is stable: equal ones stay in the order of their random keys.  *)
Older(x, y) == Rank(x) < Rank(y) \/ (Rank(x) = Rank(y) /\ x.id < y.id)

(* What deleteOldCheckpoints() finds too old.                              *)
TooOld(list, keep) == {x \in list : Cardinality({y \in list : Older(x, y)}) >= keep}

(* The key is deleted and set again, which makes it the last of its Map.   *)
Tracked(session) ==
  [s \in DOMAIN sessionOrder \cup {session} |->
     IF s = session THEN {} ELSE sessionOrder[s] \cup {session}]

TooMany(order) == {s \in DOMAIN order : Cardinality(order[s]) >= MaxSessions}

(* trackSession(): the first ones go with all they have.                   *)
TrackSession(session, cps, oth) ==
  IF kind # "memory" THEN checkpoints' = cps /\ others' = oth /\ UNCHANGED sessionOrder
  ELSE LET order == Tracked(session)
           evicted == TooMany(order)
       IN /\ sessionOrder' = [s \in DOMAIN order \ evicted |-> order[s]]
          /\ checkpoints' = [s \in Sessions |-> IF s \in evicted THEN {} ELSE cps[s]]
          /\ others' = oth \ evicted

(* The history forgets what a Map of that size may have forgotten.         *)
Remember(session, now) ==
  /\ since' = [s \in Sessions |-> IF s = session THEN {} ELSE since[s] \cup {session}]
  /\ saved' = [s \in Sessions |-> IF kind = "memory" /\ s \in TooMany(since') THEN {} ELSE now[s]]

-----------------------------------------------------------------------------
(* A checkpoint is put beside the others under an id of its own.           *)
Put(list, session, x) == [list EXCEPT ![session] = @ \cup {x}]

(* A run makes its checkpoint before it saves it: another run may save a   *)
(* later one first.                                                        *)
SaveCheckpoint(session) ==
  /\ made < MaxCheckpoints
  /\ made' = made + 1
  /\ \E id \in Ids \ Used, step \in Steps, at \in 1..made + 1 :
       LET x == [id |-> id, step |-> step, at |-> at, nth |-> made + 1]
       IN /\ TrackSession(session, Put(checkpoints, session, x), others)
          /\ Remember(session, Put(saved, session, x))
  /\ UNCHANGED <<kind, call>>

(* saveTodos(), saveConversation() and saveMetadata().                     *)
SaveOther(session) ==
  /\ TrackSession(session, checkpoints, others \cup {session})
  /\ Remember(session, saved)
  /\ UNCHANGED <<kind, call, made>>

(* deleteOldCheckpoints(): the Map is cut at once, the others are listed.  *)
DeleteOldCheckpoints(c, session, keep) ==
  /\ call[c].pc = "idle" /\ Cardinality(checkpoints[session]) > keep
  /\ LET old == TooOld(checkpoints[session], keep)
     IN IF kind = "memory"
        THEN /\ checkpoints' = [checkpoints EXCEPT ![session] = @ \ old]
             /\ UNCHANGED call
        ELSE /\ call' = [call EXCEPT ![c] = [pc |-> "deleting", session |-> session, old |-> old]]
             /\ UNCHANGED checkpoints
  /\ UNCHANGED <<kind, others, sessionOrder, made, saved, since>>

(* One awaited delete of a database, or the one of supabase for all ids.   *)
DeleteListed(c) ==
  /\ call[c].pc = "deleting"
  /\ LET old == call[c].old
         next == {x \in old : kind = "supabase" \/ \A y \in old : ~Older(y, x)}
     IN /\ checkpoints' = [checkpoints EXCEPT ![call[c].session] = @ \ next]
        /\ call' = [call EXCEPT ![c] = IF old = next THEN Idle ELSE [@ EXCEPT !.old = old \ next]]
  /\ UNCHANGED <<kind, others, sessionOrder, made, saved, since>>

(* The store refuses: the call ends, what it deleted stays deleted.        *)
DeleteFails(c) ==
  /\ call[c].pc = "deleting"
  /\ call' = [call EXCEPT ![c] = Idle]
  /\ UNCHANGED <<kind, checkpoints, others, sessionOrder, made, saved, since>>

(* InMemoryAdapter.clear().                                                *)
ClearSession(session) ==
  /\ kind = "memory"
  /\ checkpoints' = [checkpoints EXCEPT ![session] = {}]
  /\ others' = others \ {session}
  /\ sessionOrder' = [s \in DOMAIN sessionOrder \ {session} |-> sessionOrder[s] \ {session}]
  /\ saved' = [saved EXCEPT ![session] = {}]
  /\ since' = [s \in Sessions |-> since[s] \ {session}]
  /\ UNCHANGED <<kind, call, made>>

Next ==
  \/ \E s \in Sessions :
       \/ SaveCheckpoint(s)
       \/ SaveOther(s)
       \/ ClearSession(s)
       \/ \E c \in Calls, keep \in Keeps : DeleteOldCheckpoints(c, s, keep)
  \/ \E c \in Calls : DeleteListed(c) \/ DeleteFails(c)

-----------------------------------------------------------------------------
(* Properties                                                              *)

(* loadLatestCheckpoint() finds, in the order it goes by, a checkpoint as  *)
(* late as any the session ever saved, however many old ones were deleted, *)
(* by calls that listed before others saved and that failed half-way; and  *)
(* the Map forgets it only for as many sessions that saved since as it may *)
(* keep.                                                                   *)
LatestIsKept ==
  \A s \in Sessions : \A x \in saved[s] : \E y \in checkpoints[s] : Rank(y) >= Rank(x)
=============================================================================
