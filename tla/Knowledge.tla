------------------------------ MODULE Knowledge -----------------------------
(***************************************************************************)
(* src/plugins/vectorless.plugin.ts: the tools that fill and ask an        *)
(* agent's knowledge base.  rag:ingest cuts a document into chunks, keeps  *)
(* them and adds what the library extracts to the knowledge there is;      *)
(* generate replaces it; query and search-entities ask it.  A model calls  *)
(* tools in parallel: every call takes its turn between its awaits, of the *)
(* library and of what the library computes, and dispose() may come in     *)
(* between.                                                                *)
(***************************************************************************)
EXTENDS Integers, Sequences, SequencesExt, FiniteSetsExt

-----------------------------------------------------------------------------
(* src/adapters/chunking: how a document is cut into chunks of at most max *)
(* words, by four strategies, and where in the document each chunk is said *)
(* to lie.                                                                 *)
(*                                                                         *)
(* A text is a sequence of words and of what follows each: a space, a full *)
(* stop and a space, a line break or an empty line.  Joining words with    *)
(* other white space than they had is left out, so what a strategy makes   *)
(* is a sequence of ranges of words, each perhaps without its last full    *)
(* stop; offsets are counted in words.                                     *)

Gaps == {"space", "sentence", "line", "para"}

(* Words from..to of a text; cut when the full stop of the last is lost.   *)
Piece(from, to, cut) == [from |-> from, to |-> to, cut |-> cut]
Nothing == Piece(1, 0, FALSE)
WordCount(p) == p.to - p.from + 1

(* split(): the parts of p between the gaps of one kind; a separator that  *)
(* is a full stop and a space takes the full stop with it.                 *)
Parted(text, p, gap, before, i) ==
  LET from == IF before = <<>> THEN p.from ELSE Last(before).to + 1
  IN  IF i = p.to THEN Append(before, Piece(from, i, p.cut))
      ELSE IF text[i].gap = gap THEN Append(before, Piece(from, i, gap = "sentence"))
      ELSE before

Split(text, p, gap) ==
  LET parts[n \in 0 .. WordCount(p)] ==
        IF n = 0 THEN <<>> ELSE Parted(text, p, gap, parts[n - 1], p.from + n - 1)
  IN  parts[WordCount(p)]

(* splitByWordsMax(): from word to word, max at a time.                    *)
ByWords(p, max) ==
  [k \in 1 .. (WordCount(p) + max - 1) \div max |->
     LET from == p.from + (k - 1) * max
         to == Min({from + max - 1, p.to})
     IN  Piece(from, to, p.cut /\ to = p.to)]

Flushed(packed) ==
  IF packed.buffer = Nothing THEN packed.out ELSE Append(packed.out, packed.buffer)

(* The loop all strategies share: parts are gathered in a buffer as long   *)
(* as they fit; a part too large by itself is broken, into what is put out *)
(* and what is left in the buffer (broken, a function of the parts).       *)
Packed(packed, part, max, broken) ==
  LET candidate == IF packed.buffer = Nothing THEN part
                   ELSE Piece(packed.buffer.from, part.to, part.cut)
  IN  IF WordCount(candidate) <= max
        THEN [packed EXCEPT !.buffer = candidate]
      ELSE IF WordCount(part) <= max
        THEN [out |-> Flushed(packed), buffer |-> part]
      ELSE [out |-> Flushed(packed) \o broken[part].out, buffer |-> broken[part].buffer]

Pack(parts, max, broken) ==
  LET packed[n \in 0 .. Len(parts)] ==
        IF n = 0 THEN [out |-> <<>>, buffer |-> Nothing]
        ELSE Packed(packed[n - 1], parts[n], max, broken)
  IN  packed[Len(parts)]

ChunkFixed(p, max) == ByWords(p, max)

(* The window moves by at least one word, and stops once it has reached    *)
(* the end.                                                                *)
ChunkSlidingWindow(p, max, overlap) ==
  LET step == Max({1, max - overlap})
      windows == IF WordCount(p) <= max THEN 1 ELSE (WordCount(p) - max + step - 1) \div step + 1
  IN  [k \in 1 .. windows |->
         Piece(p.from + (k - 1) * step, Min({p.from + (k - 1) * step + max - 1, p.to}), FALSE)]

(* Paragraphs, then sentences with their full stops, then words.           *)
ChunkSemantic(text, p, max) ==
  LET sentences(q) == LET parts == Split(text, q, "sentence")
                      IN  [k \in DOMAIN parts |-> [parts[k] EXCEPT !.cut = FALSE]]
      bySentence(q) == Pack(sentences(q), max,
                            [s \in ToSet(sentences(q)) |->
                               [out |-> ByWords(s, max), buffer |-> Nothing]])
      paragraphs == Split(text, p, "para")
  IN  Flushed(Pack(paragraphs, max, [q \in ToSet(paragraphs) |-> bySentence(q)]))

(* One separator after the other, each for what the one before it left too *)
(* large; then words.  Every range is cut by the last n of them.           *)
ChunkedBy(text, ranges, max, separator, chunked) ==
  [q \in ranges |->
     LET parts == Split(text, q, separator)
     IN  IF WordCount(q) <= max THEN <<q>>
         ELSE Flushed(Pack(parts, max,
                           [r \in ToSet(parts) |-> [out |-> chunked[r], buffer |-> Nothing]]))]

ChunkRecursive(text, p, max, separators) ==
  LET ranges == [from : p.from .. p.to, to : p.from .. p.to, cut : BOOLEAN]
      chunked[n \in 0 .. Len(separators)] ==
        IF n = 0 THEN [q \in ranges |-> IF WordCount(q) <= max THEN <<q>> ELSE ByWords(q, max)]
        ELSE ChunkedBy(text, ranges, max, separators[Len(separators) - n + 1], chunked[n - 1])
  IN  chunked[Len(separators)][p]

DefaultSeparators == <<"para", "line", "sentence", "space">>

Strategies == {"fixed", "sliding-window", "semantic", "recursive"}

RawChunks(text, strategy, max, overlap) ==
  LET whole == Piece(1, Len(text), FALSE)
  IN  CASE strategy = "fixed" -> ChunkFixed(whole, max)
        [] strategy = "sliding-window" -> ChunkSlidingWindow(whole, max, overlap)
        [] strategy = "semantic" -> ChunkSemantic(text, whole, max)
        [] strategy = "recursive" -> ChunkRecursive(text, whole, max, DefaultSeparators)

(* A word as it stands in the text or in a chunk, full stop and all.       *)
Token(text, i, cut) == [word |-> text[i].word, stop |-> text[i].gap = "sentence" /\ ~cut]

(* chunk(): each chunk is said to begin where its first word is found,     *)
(* looked for from behind the beginning of the chunk before it.  A word    *)
(* that stands there again, or that has lost its full stop, misleads it.   *)
(* A text without words makes no chunks.                                   *)
Located(text, acc, p) ==
  LET first == Token(text, p.from, p.cut /\ p.from = p.to)
      found == {j \in acc.search .. Len(text) : Token(text, j, FALSE) = first}
      match == IF found = {} THEN acc.search ELSE Min(found)
  IN  [search |-> match + 1,
       chunks |-> Append(acc.chunks,
                    [piece |-> p,
                     start |-> IF match <= Len(text) THEN match ELSE 0,
                     end |-> Min({match + WordCount(p) - 1, Len(text)})])]

Chunk(text, strategy, max, overlap) ==
  LET raw == IF text = <<>> THEN <<>> ELSE RawChunks(text, strategy, max, overlap)
      located[n \in 0 .. Len(raw)] ==
        IF n = 0 THEN [search |-> 1, chunks |-> <<>>] ELSE Located(text, located[n - 1], raw[n])
  IN  located[Len(raw)].chunks

-----------------------------------------------------------------------------
(* Whatever the text: no chunk is empty or too large, none is out of order *)
(* and no word is left out; only a sliding window repeats words, as many   *)
(* as it was asked to and fewer than a chunk.                              *)
Covers(text, strategy, max, overlap) ==
  LET cs == Chunk(text, strategy, max, overlap)
      again == IF strategy = "sliding-window" THEN Min({overlap, max - 1}) ELSE 0
  IN  /\ cs # <<>> /\ cs[1].piece.from = 1 /\ cs[Len(cs)].piece.to = Len(text)
      /\ \A k \in DOMAIN cs : WordCount(cs[k].piece) \in 1 .. max
      /\ \A k \in 1 .. Len(cs) - 1 : cs[k + 1].piece.from = cs[k].piece.to + 1 - again

(* A text whose words all differ is found again where it was cut, unless a *)
(* chunk is one word that has lost its full stop.                          *)
Finds(text, strategy, max, overlap) ==
  LET cs == Chunk(text, strategy, max, overlap)
  IN  (/\ \A i, j \in DOMAIN text : text[i].word = text[j].word => i = j
       /\ \A k \in DOMAIN cs : ~(cs[k].piece.cut /\ WordCount(cs[k].piece) = 1))
      => \A k \in DOMAIN cs : cs[k].start = cs[k].piece.from /\ cs[k].end = cs[k].piece.to

-----------------------------------------------------------------------------
CONSTANTS
  Calls,
  Documents    \* what may be ingested: [text, strategy, max, overlap]

VARIABLES
  installed,   \* the optional package can be imported
  knowledge,   \* currentKnowledge: none, or the calls its entities come from
  chunks,      \* the Map of chunks, in order
  call,
  entered      \* history: who has entered the knowledge since it was replaced

vars == <<installed, knowledge, chunks, call, entered>>

Init ==
  /\ installed \in BOOLEAN
  /\ knowledge = {} /\ chunks = <<>> /\ entered = {}
  /\ call = [c \in Calls |-> [at |-> "idle", does |-> "none", seen |-> {}]]

Waits(c, does, place) == call' = [call EXCEPT ![c] = [at |-> place, does |-> does, seen |-> knowledge]]
Ends(c) == call' = [call EXCEPT ![c].at = "done"]

-----------------------------------------------------------------------------
(* mergeKnowledge(): the entities there are, then the new ones.            *)

(* Variant: merged with what there was when the call was made.             *)
MergedWithSeen(c, found) ==
  IF call[c].seen = {} \/ found = {} THEN (IF found = {} THEN call[c].seen ELSE found)
                                     ELSE {a \o b : a \in call[c].seen, b \in found}

Merged(c, found) ==
  IF knowledge = {} \/ found = {} THEN (IF found = {} THEN knowledge ELSE found)
                                  ELSE {a \o b : a \in knowledge, b \in found}

(* getVectorless() is awaited first; without the package it rejects.       *)
Generate(c) ==
  /\ call[c].at = "idle"
  /\ Waits(c, "generate", "library")
  /\ UNCHANGED <<installed, knowledge, chunks, entered>>

(* The chunks are kept before the first await.                             *)
Ingest(c, d) ==
  /\ call[c].at = "idle"
  /\ LET cut == Chunk(d.text, d.strategy, d.max, d.overlap)
     IN  chunks' = chunks \o [k \in DOMAIN cut |-> [source |-> c, document |-> d, chunk |-> cut[k]]]
  /\ Waits(c, "ingest", "library")
  /\ UNCHANGED <<installed, knowledge, entered>>

(* query and search-entities: with no knowledge there is nothing to ask.   *)
Query(c) ==
  /\ call[c].at = "idle"
  /\ Waits(c, "query", IF knowledge = {} THEN "done" ELSE "library")
  /\ UNCHANGED <<installed, knowledge, chunks, entered>>

LibraryCame(c) ==
  /\ call[c].at = "library"
  /\ call' = [call EXCEPT ![c].at = IF installed THEN "computing" ELSE "done"]
  /\ UNCHANGED <<installed, knowledge, chunks, entered>>

(* generate() of the library: knowledge, nothing, or an error.  Ingesting  *)
(* does without it then.                                                   *)
Generated(c) ==
  /\ call[c].at = "computing" /\ call[c].does = "generate"
  /\ Ends(c)
  /\ \/ \E found \in {{}, {<<c>>}} :
          /\ knowledge' = found
          /\ entered' = IF found = {} THEN {} ELSE {c}
     \/ UNCHANGED <<knowledge, entered>>
  /\ UNCHANGED <<installed, chunks>>

Extracted(c) ==
  /\ call[c].at = "computing" /\ call[c].does = "ingest"
  /\ Ends(c)
  /\ \E found \in {{}, {<<c>>}} :
       /\ knowledge' = Merged(c, found)
       /\ entered' = IF found = {} THEN entered ELSE entered \cup {c}
  /\ UNCHANGED <<installed, chunks>>

Answered(c) ==
  /\ call[c].at = "computing" /\ call[c].does = "query"
  /\ Ends(c)
  /\ UNCHANGED <<installed, knowledge, chunks, entered>>

(* dispose(): calls under way go on.                                       *)
Dispose ==
  /\ knowledge # {} \/ chunks # <<>>
  /\ knowledge' = {} /\ chunks' = <<>> /\ entered' = {}
  /\ UNCHANGED <<installed, call>>

Next ==
  \/ \E c \in Calls : \/ Generate(c) \/ Query(c) \/ LibraryCame(c)
                      \/ Generated(c) \/ Extracted(c) \/ Answered(c)
                      \/ \E d \in Documents : Ingest(c, d)
  \/ Dispose

Spec == Init /\ [][Next]_vars

-----------------------------------------------------------------------------
(* Documents ingested side by side all end up in the knowledge, each once, *)
(* whatever order the library answers in: only generate and dispose()      *)
(* replace what was there.                                                 *)
NothingIsOverwritten ==
  /\ knowledge = {} <=> entered = {}
  /\ \A k \in knowledge : ToSet(k) = entered /\ IsInjective(k)

(* The chunks kept of a document cover it and tell where they come from.   *)
ChunksAreWhole ==
  \A e \in ToSet(chunks) :
    LET d == e.document
    IN  /\ Covers(d.text, d.strategy, d.max, d.overlap)
        /\ Finds(d.text, d.strategy, d.max, d.overlap)

(* What the knowledge plugin answers from is whole: neither what it learnt *)
(* nor the chunks of its documents get lost on the way (mergeKnowledge,    *)
(* rag:ingest, chunk).                                                     *)
RetrievalIsWhole == NothingIsOverwritten /\ ChunksAreWhole
=============================================================================
