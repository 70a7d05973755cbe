---------------------------- MODULE EventStream -----------------------------
(***************************************************************************)
(* createEventStream(): the events of an EventBus as a ReadableStream for  *)
(* a client, with the bubbling of the events of child buses, their delta   *)
(* encoding and the two answers to a client that reads too slowly.  The    *)
(* stream's own queue holds one chunk; a chunk for a client that waits is  *)
(* handed over at once.                                                    *)
(***************************************************************************)
EXTENDS Integers, SequencesExt

CONSTANTS
  Types,              \* of the events
  Times, Values,      \* their timestamps and data
  Undefined,          \* what emit() is given for data when it is given none
  Children,           \* the namespaces of the child buses
  MaxBubbles,         \* maxBubblesPerSecond
  BufferSize,
  MaxEntries,         \* of the delta encoder
  MaxEvents           \* bounds the chunks made

VARIABLES
  mode, strategy,     \* "full" or "delta"; "drop" or "buffer"
  open,               \* the stream is subscribed
  bubbles,            \* bubbleCounts: of each child in its present second
  id,
  lastSeen,           \* the encoder's Map: the last event of each type, oldest type first
  queue, buffer,      \* chunks in the stream's queue and in our own
  waiting,            \* a read() of the client is pending
  client,             \* the client: the last chunk's id, and what it knows of each type
  latest,             \* history: the last event of each type
  lost                \* history: an event, or the absence of data, was not sent

vars == <<mode, strategy, open, bubbles, id, lastSeen, queue, buffer, waiting, client, latest, lost>>

Unknown == <<>>

Init ==
  /\ mode \in {"full", "delta"} /\ strategy \in {"drop", "buffer"}
  /\ open = TRUE
  /\ bubbles = [c \in Children |-> 0]
  /\ id = 0
  /\ lastSeen = <<>>
  /\ queue = <<>> /\ buffer = <<>>
  /\ waiting = FALSE
  /\ client = [id |-> 0, knows |-> Unknown]
  /\ latest = Unknown
  /\ lost = FALSE

-----------------------------------------------------------------------------
(* JSON leaves out a field that is undefined.                              *)
Json(fields) == [f \in {f \in DOMAIN fields : fields[f] # Undefined} |-> fields[f]]

\* A spread: the fields of one object, and over them those of another.
Spread(old, new) == [x \in DOMAIN old \cup DOMAIN new |-> IF x \in DOMAIN new THEN new[x] ELSE old[x]]
Only(x, value) == [y \in {x} |-> value]

Seen(type) == {i \in DOMAIN lastSeen : lastSeen[i].type = type}

(* Variant: only the first event of a type is remembered.                  *)
RememberFirst(type, fields) ==
  IF Seen(type) # {} THEN lastSeen
  ELSE Append(IF Len(lastSeen) >= MaxEntries THEN Tail(lastSeen) ELSE lastSeen,
              [type |-> type, fields |-> Json(fields)])

Remember(type, fields) ==
  LET entry == [type |-> type, fields |-> Json(fields)]
  IN IF Seen(type) # {} THEN [i \in DOMAIN lastSeen |-> IF i \in Seen(type) THEN entry ELSE lastSeen[i]]
     ELSE Append(IF Len(lastSeen) >= MaxEntries THEN Tail(lastSeen) ELSE lastSeen, entry)

(* encode(): all fields the first time, then those that changed; nothing   *)
(* when none did.                                                          *)
Encoded(type, fields) ==
  IF mode = "full" \/ Seen(type) = {} THEN {[whole |-> TRUE, fields |-> Json(fields)]}
  ELSE LET prev == lastSeen[CHOOSE i \in Seen(type) : TRUE].fields
           changed == {f \in DOMAIN fields : f \notin DOMAIN prev \/ fields[f] # prev[f]}
       IN IF prev = Json(fields) THEN {}
          ELSE {[whole |-> FALSE, fields |-> Json([f \in changed |-> fields[f]])]}

(* Data that is no longer given cannot be told from data that stayed.      *)
Vanishes(type, fields) ==
  mode = "delta" /\ \E i \in Seen(type) : ~DOMAIN lastSeen[i].fields \subseteq DOMAIN Json(fields)

(* What a client knows once it has read a chunk, and once it has read some.*)
Reads(known, chunk) ==
  [id |-> chunk.id,
   knows |-> Spread(known.knows,
                    Only(chunk.type, IF chunk.whole \/ chunk.type \notin DOMAIN known.knows THEN chunk.fields
                                     ELSE Spread(known.knows[chunk.type], chunk.fields)))]

After(known, chunks) ==
  LET after[i \in 0..Len(chunks)] == IF i = 0 THEN known ELSE Reads(after[i - 1], chunks[i])
  IN after[Len(chunks)]

(* controller.enqueue() of some chunks: a client that waits takes the first*)
(* one.                                                                    *)
Enqueue(chunks) ==
  IF waiting /\ chunks # <<>>
  THEN waiting' = FALSE /\ client' = Reads(client, Head(chunks)) /\ queue' = queue \o Tail(chunks)
  ELSE queue' = queue \o chunks /\ UNCHANGED <<waiting, client>>

(* How many chunks the queue takes before desiredSize is zero.             *)
Room == (IF waiting THEN 1 ELSE 0) + (1 - Len(queue))

(* The handler, with a chunk to send: without room it is dropped, or kept  *)
(* at the cost of the oldest one; with room the buffered ones go first.    *)
Handle(chunk, gone) ==
  IF Room = 0 /\ strategy = "drop" THEN lost' = TRUE /\ UNCHANGED <<queue, buffer, waiting, client>>
  ELSE IF Room = 0
  THEN /\ buffer' = SubSeq(Append(buffer, chunk), Max({1, Len(buffer) + 2 - BufferSize}), Len(buffer) + 1)
       /\ lost' = (lost \/ gone \/ Len(buffer) = BufferSize)
       /\ UNCHANGED <<queue, waiting, client>>
  ELSE LET all == Append(buffer, chunk)
           sent == Min({Room, Len(all)})
       IN /\ Enqueue(SubSeq(all, 1, sent))
          /\ buffer' = SubSeq(all, sent + 1, Len(all))
          /\ lost' = (lost \/ gone)

(* An event arrives at the bus the stream listens to.                      *)
Dispatch(type, fields) ==
  IF ~open THEN UNCHANGED <<id, lastSeen, queue, buffer, waiting, client, latest, lost>>
  ELSE /\ latest' = Spread(latest, Only(type, Json(fields)))
       /\ lastSeen' = IF mode = "delta" THEN Remember(type, fields) ELSE lastSeen
       /\ IF Encoded(type, fields) = {} THEN UNCHANGED <<id, queue, buffer, waiting, client, lost>>
          ELSE LET e == CHOOSE e \in Encoded(type, fields) : TRUE
               IN /\ id' = id + 1
                  /\ Handle([id |-> id + 1, type |-> type, whole |-> e.whole, fields |-> e.fields],
                            Vanishes(type, fields))

-----------------------------------------------------------------------------
Emit(type, fields) ==
  /\ id < MaxEvents
  /\ Dispatch(type, fields)
  /\ UNCHANGED <<mode, strategy, open, bubbles>>

(* emit() of a child, which bubbles as long as its second has room; what   *)
(* bubbles has data in any case, the child's name at least.                *)
EmitInChild(c, type, fields) ==
  /\ id < MaxEvents /\ fields.data # Undefined
  /\ bubbles[c] <= MaxBubbles
  /\ bubbles' = [bubbles EXCEPT ![c] = @ + 1]
  /\ IF bubbles[c] < MaxBubbles THEN Dispatch(type, fields)
     ELSE UNCHANGED <<id, lastSeen, queue, buffer, waiting, client, latest, lost>>
  /\ UNCHANGED <<mode, strategy, open>>

NewSecond(c) ==
  /\ bubbles[c] > 0
  /\ bubbles' = [bubbles EXCEPT ![c] = 0]
  /\ UNCHANGED <<mode, strategy, open, id, lastSeen, queue, buffer, waiting, client, latest, lost>>

(* The client reads: what is queued, or it waits.                          *)
Read ==
  /\ open /\ ~waiting
  /\ IF queue = <<>> THEN waiting' = TRUE /\ UNCHANGED <<queue, client>>
     ELSE client' = Reads(client, Head(queue)) /\ queue' = Tail(queue) /\ UNCHANGED waiting
  /\ UNCHANGED <<mode, strategy, open, bubbles, id, lastSeen, buffer, latest, lost>>

(* The client goes: the stream forgets its queue and the bus the handler.  *)
Cancel ==
  /\ open
  /\ open' = FALSE /\ queue' = <<>> /\ waiting' = FALSE
  /\ UNCHANGED <<mode, strategy, bubbles, id, lastSeen, buffer, client, latest, lost>>

Events == [timestamp : Times, data : Values \cup {Undefined}]

Next ==
  \/ \E type \in Types, fields \in Events :
       Emit(type, fields) \/ \E c \in Children : EmitInChild(c, type, fields)
  \/ \E c \in Children : NewSecond(c)
  \/ Read
  \/ Cancel

-----------------------------------------------------------------------------
(* Properties                                                              *)

(* The client reads the events in the order of their ids, however often it *)
(* fell behind and the handler went through its buffer, and no more than   *)
(* one chunk and bufferSize wait for it.                                   *)
StreamKeepsOrder ==
  LET ahead == <<client>> \o queue \o buffer
  IN /\ \A i, j \in DOMAIN ahead : i < j => ahead[i].id < ahead[j].id
     /\ Len(queue) <= 1 /\ Len(buffer) <= BufferSize

(* As long as nothing was dropped, a client that has read what waits for it*)
(* knows the last event of each type as it was, delta encoded or not.      *)
ClientCatchesUp ==
  open /\ ~lost => After(client, queue \o buffer).knows = latest

(* A client of createEventStream() gets events in order and, unless some   *)
(* were dropped, knows from them what happened last.                       *)
ClientKeepsUp == StreamKeepsOrder /\ ClientCatchesUp
=============================================================================
