----------------------------- MODULE FileMemory -----------------------------
(***************************************************************************)
(* FileMemoryAdapter: an agent's memories, one JSON file per session.      *)
(* store() is a read, an edit and a write under a lock per file, a chain   *)
(* of promises; recall(), which only reads, and clear() take no lock.      *)
(* writeFile truncates the file and fills it later.  The process may end   *)
(* between two steps and start again on the files it finds.                *)
(***************************************************************************)
EXTENDS Naturals, FiniteSets, TLAPS

CONSTANTS
  Calls,              \* calls of store() that may be under way at one time
  Files,              \* the sessions' files
  Entries,            \* the memories, by their ids
  None

VARIABLES
  file,               \* the text of each file
  fileLocks,          \* the last call of each file's chain
  call,               \* where each store() is
  clearing,           \* the files a clear() under way has still to unlink
  stored,             \* history: the memories whose store() has returned
  hurt                \* history: the files a crash or a full disk has torn, and
                      \* those that could not be read when they were rewritten

vars == <<file, fileLocks, call, clearing, stored, hurt>>

Missing == [is |-> "missing", has |-> {}]
Torn == [is |-> "torn", has |-> {}]
Whole(entries) == [is |-> "whole", has |-> entries]
Idle == [pc |-> "idle"]
NotClearing == {None}

Init ==
  /\ file = [f \in Files |-> Missing]
  /\ fileLocks = [f \in Files |-> None]
  /\ call = [c \in Calls |-> Idle]
  /\ clearing = NotClearing
  /\ stored = [f \in Files |-> {}]
  /\ hurt = {}

(* loadFile() of a file that is read: what does not parse is an empty list.*)
Loaded(f) == file[f].has

-----------------------------------------------------------------------------
(* withLock(): a call waits for the one that was last when it came.        *)
Store(c, f, e) ==
  /\ call[c].pc = "idle"
  /\ call' = [call EXCEPT ![c] = [pc |-> "waiting", file |-> f, entry |-> e,
                                  prev |-> fileLocks[f], text |-> {}]]
  /\ fileLocks' = [fileLocks EXCEPT ![f] = c]
  /\ UNCHANGED <<file, clearing, stored, hurt>>

Step(c, from, to) == call[c].pc = from /\ call' = [call EXCEPT ![c].pc = to]

Reads(c, entries) ==
  /\ call[c].pc = "waiting" /\ call[c].prev = None
  /\ call' = [call EXCEPT ![c].pc = "saving", ![c].text = entries \cup {call[c].entry}]
  /\ UNCHANGED <<file, fileLocks, clearing, stored>>

Load(c) == Reads(c, Loaded(call[c].file)) /\ UNCHANGED hurt

(* A file that cannot be read, too many being open or for its rights, is   *)
(* an empty list as well, and will be rewritten as such.                   *)
LoadFails(c) ==
  LET f == call[c].file
  IN  Reads(c, {}) /\ hurt' = IF file[f] = Missing THEN hurt ELSE hurt \cup {f}

Truncate(c) ==
  /\ Step(c, "saving", "filling")
  /\ file' = [file EXCEPT ![call[c].file] = Torn]
  /\ UNCHANGED <<fileLocks, clearing, stored, hurt>>

(* The next in the chain of a call that ends goes on.                      *)
Ends(c) == [d \in Calls |-> IF d = c THEN Idle
                            ELSE IF call[d].pc = "waiting" /\ call[d].prev = c
                                 THEN [call[d] EXCEPT !.prev = None] ELSE call[d]]

(* Variant: the chain is forgotten whoever is last in it.                  *)
ForgetsTheChain(c, f) ==
  /\ call' = Ends(c)
  /\ fileLocks' = [fileLocks EXCEPT ![f] = None]

(* The finally of withLock(): only the last one removes the chain.         *)
Release(c, f) ==
  /\ call' = Ends(c)
  /\ fileLocks' = [fileLocks EXCEPT ![f] = IF @ = c THEN None ELSE @]

(* A file that was unlinked while it was open keeps no name.               *)
Fill(c) ==
  LET f == call[c].file
      named == file[f] # Missing
  IN /\ call[c].pc = "filling"
     /\ file' = [file EXCEPT ![f] = IF named THEN Whole(call[c].text) ELSE @]
     /\ stored' = [stored EXCEPT ![f] = IF named THEN @ \cup {call[c].entry} ELSE @]
     /\ Release(c, f)
     /\ UNCHANGED <<clearing, hurt>>

(* The write fails: the call rejects and the file is left as it is.        *)
SaveFails(c) ==
  LET f == call[c].file
  IN /\ call[c].pc \in {"saving", "filling"}
     /\ hurt' = IF call[c].pc = "filling" THEN hurt \cup {f} ELSE hurt
     /\ Release(c, f)
     /\ UNCHANGED <<file, clearing, stored>>

-----------------------------------------------------------------------------
(* clear(): the names are read once and unlinked one by one; a name that   *)
(* is gone makes it reject, and the files behind it stay.                  *)
Clear ==
  /\ clearing = NotClearing
  /\ clearing' = {None} \cup {f \in Files : file[f] # Missing}
  /\ UNCHANGED <<file, fileLocks, call, stored, hurt>>

Unlink(f) ==
  /\ f \in clearing /\ file[f] # Missing
  /\ file' = [file EXCEPT ![f] = Missing]
  /\ stored' = [stored EXCEPT ![f] = {}]
  /\ clearing' = clearing \ {f}
  /\ hurt' = hurt \ {f}
  /\ UNCHANGED <<fileLocks, call>>

ClearRejects ==
  /\ clearing # NotClearing
  /\ clearing' = NotClearing
  /\ UNCHANGED <<file, fileLocks, call, stored, hurt>>

Crash ==
  /\ hurt' = hurt \cup {f \in Files : \E c \in Calls : call[c].pc = "filling" /\ call[c].file = f}
  /\ call' = [c \in Calls |-> Idle]
  /\ fileLocks' = [f \in Files |-> None]
  /\ clearing' = NotClearing
  /\ UNCHANGED <<file, stored>>

Next ==
  \/ \E c \in Calls :
       \/ \E f \in Files, e \in Entries : Store(c, f, e)
       \/ Load(c) \/ LoadFails(c)
       \/ Truncate(c)
       \/ Fill(c)
       \/ SaveFails(c)
  \/ \E f \in Files : Unlink(f)
  \/ Clear \/ ClearRejects
  \/ Crash

Spec == Init /\ [][Next]_vars

-----------------------------------------------------------------------------
(* Properties                                                              *)

(* A memory whose store() returned is in its file, or in the text a store()*)
(* is about to fill it with, until a clear() unlinks the file, however     *)
(* many calls of store() are under way: the chain of withLock() lets only  *)
(* one at a time read, edit and write, also when one of them fails and     *)
(* when the process starts again.  Two things lose them: a write cut short *)
(* in the middle, and a read of store() that fails on a file that is there.*)
NothingStoredIsLost ==
  \A f \in Files \ hurt :
    stored[f] \subseteq UNION ({Loaded(f)} \cup {call[c].text : c \in {c \in Calls : call[c].pc = "filling"
                                                                                  /\ call[c].file = f}})

Active(c) == call[c].pc # "idle"
Saving(c) == call[c].pc \in {"saving", "filling"}

(* The calls that need not wait for another one.                           *)
Free(c) == Saving(c) \/ (call[c].pc = "waiting" /\ call[c].prev = None)

Places == {Idle} \cup [pc : {"waiting", "saving", "filling"}, file : Files, entry : Entries,
                       prev : Calls \cup {None}, text : SUBSET Entries]

(* The calls of a file stand in one line: fileLocks is its end, and nobody *)
(* waits for himself by way of others.                                     *)
EndIsActive ==
  \A f \in Files : fileLocks[f] # None =>
    Active(fileLocks[f]) /\ call[fileLocks[f]].file = f

LineHasEnd == \A c \in Calls : Active(c) => fileLocks[call[c].file] # None

OneBehind ==
  \A c \in Calls : call[c].pc = "waiting" /\ call[c].prev # None =>
    /\ Active(call[c].prev)
    /\ call[call[c].prev].file = call[c].file
    /\ call[c].prev # fileLocks[call[c].file]
    /\ \A d \in Calls : call[d].pc = "waiting" /\ call[d].prev = call[c].prev => d = c

OneIsFree == \A c, d \in Calls : Free(c) /\ Free(d) /\ call[c].file = call[d].file => c = d

NoCircle ==
  \A S \in SUBSET Calls :
    (\A c \in S : call[c].pc = "waiting" /\ call[c].prev \in S) => S = {}

InLine == EndIsActive /\ LineHasEnd /\ OneBehind /\ OneIsFree /\ NoCircle

(* What a call is about to write holds what was stored before it.          *)
Carried ==
  /\ \A f \in Files : file[f] = Missing => stored[f] = {}
  /\ \A c \in Calls : Saving(c) =>
       /\ call[c].entry \in call[c].text
       /\ call[c].file \notin hurt => stored[call[c].file] \subseteq call[c].text
  /\ \A f \in Files \ hurt :
       (\A c \in Calls : call[c].pc = "filling" => call[c].file # f) => stored[f] \subseteq Loaded(f)

MemoryInv ==
  /\ file \in [Files -> [is : {"missing", "torn", "whole"}, has : SUBSET Entries]]
  /\ fileLocks \in [Files -> Calls \cup {None}]
  /\ call \in [Calls -> Places]
  /\ stored \in [Files -> SUBSET Entries]
  /\ InLine
  /\ Carried

-----------------------------------------------------------------------------
(* Proofs.                                                                 *)

(* What a call that is under way has.                                      *)
LEMMA ActiveCases ==
  ASSUME MemoryInv, NEW c \in Calls, Active(c)
  PROVE  /\ call[c] \in [pc : {"waiting", "saving", "filling"}, file : Files, entry : Entries,
                          prev : Calls \cup {None}, text : SUBSET Entries]
         /\ call[c].pc \in {"waiting", "saving", "filling"}
         /\ call[c].file \in Files /\ call[c].entry \in Entries
         /\ call[c].prev \in Calls \cup {None} /\ call[c].text \subseteq Entries
<1>1. call[c] \in Places /\ call[c] # Idle
  BY DEF MemoryInv, Active, Idle
<1>2. call[c] \in [pc : {"waiting", "saving", "filling"}, file : Files, entry : Entries,
                   prev : Calls \cup {None}, text : SUBSET Entries]
  BY <1>1 DEF Places
<1> QED
  BY <1>2

(* Nobody stands in line behind a free call that is its end.               *)
LEMMA LastIsAlone ==
  ASSUME None \notin Calls, MemoryInv, NEW c \in Calls, Free(c), fileLocks[call[c].file] = c
  PROVE  \A d \in Calls : Active(d) /\ call[d].file = call[c].file => d = c
<1> DEFINE others == {d \in Calls : Active(d) /\ call[d].file = call[c].file /\ d # c}
<1>1. ASSUME NEW d \in others
      PROVE  call[d].pc = "waiting" /\ call[d].prev \in others
  <2>1. call[d].pc = "waiting" /\ call[d].prev # None
    BY ActiveCases DEF MemoryInv, InLine, OneIsFree, Free, Saving
  <2>2. call[d].prev \in Calls
    BY <2>1, ActiveCases
  <2> QED
    BY <2>1, <2>2 DEF MemoryInv, InLine, OneBehind
<1>2. others = {}
  BY <1>1 DEF MemoryInv, InLine, NoCircle
<1> QED
  BY <1>2

(* What is behind a call in line, and what is before it.                    *)
LEMMA BehindAnother ==
  ASSUME MemoryInv, NEW d \in Calls, call[d].pc = "waiting", call[d].prev # None
  PROVE  /\ Active(d) /\ call[d].file \in Files
         /\ call[d].prev \in Calls /\ Active(call[d].prev)
         /\ call[call[d].prev].file = call[d].file
         /\ call[d].prev # fileLocks[call[d].file]
         /\ \A x \in Calls : call[x].pc = "waiting" /\ call[x].prev = call[d].prev => x = d
<1>1. Active(d)
  BY DEF Active
<1> QED
  BY <1>1, ActiveCases DEF MemoryInv, InLine, OneBehind

(* A call takes its place at the end of the line.                          *)
LEMMA StoreKeeps ==
  ASSUME None \notin Calls, MemoryInv,
         NEW c \in Calls, NEW f \in Files, NEW e \in Entries, Store(c, f, e)
  PROVE  MemoryInv'
<1> DEFINE new == [pc |-> "waiting", file |-> f, entry |-> e,
                   prev |-> fileLocks[f], text |-> {}]
<1>1. /\ \A d \in Calls : call'[d] = IF d = c THEN new ELSE call[d]
      /\ \A g \in Files : fileLocks'[g] = IF g = f THEN c ELSE fileLocks[g]
      /\ call[c].pc = "idle"
      /\ UNCHANGED <<file, clearing, stored, hurt>>
  BY DEF Store, MemoryInv
<1>2. call' \in [Calls -> Places] /\ fileLocks' \in [Files -> Calls \cup {None}]
  <2>1. new \in Places
    BY DEF MemoryInv, Places
  <2> QED
    BY <2>1 DEF Store, MemoryInv
<1>3. /\ new.pc = "waiting" /\ new.file = f /\ new.prev = fileLocks[f]
      /\ ~Active(c) /\ Active(c)'
      /\ \A d \in Calls \ {c} : (Active(d)' <=> Active(d)) /\ (Free(d)' <=> Free(d))
      /\ \A d \in Calls : Saving(d)' => d # c /\ Saving(d)
  BY <1>1 DEF Active, Free, Saving
<1>4. ASSUME NEW d \in Calls, Active(d)
      PROVE  d # c /\ call[d].file \in Files /\ call'[d] = call[d]
  BY <1>1, <1>3, <1>4, ActiveCases
<1>5. \A g \in Files : fileLocks[g] # None =>
        fileLocks[g] \in Calls /\ Active(fileLocks[g]) /\ call[fileLocks[g]].file = g
  BY DEF MemoryInv, InLine, EndIsActive
<1>6. EndIsActive'
  BY <1>1, <1>3, <1>4, <1>5 DEF EndIsActive
<1>7. LineHasEnd'
  BY <1>1, <1>3, <1>4 DEF MemoryInv, InLine, LineHasEnd
<1>8. ASSUME NEW d \in Calls, call[d].pc = "waiting", call[d].prev # None
      PROVE  /\ d # c /\ call[d].prev \in Calls /\ Active(call[d].prev)
             /\ call[d].file \in Files
             /\ call[d].prev # fileLocks[call[d].file]
             /\ call[call[d].prev].file = call[d].file
             /\ \A x \in Calls : call[x].pc = "waiting" /\ call[x].prev = call[d].prev => x = d
  BY <1>4, <1>8, BehindAnother
<1>9. OneBehind'
  <2> SUFFICES ASSUME NEW d \in Calls, call'[d].pc = "waiting", call'[d].prev # None
               PROVE  /\ call'[call'[d].prev].pc # "idle"
                      /\ call'[call'[d].prev].file = call'[d].file
                      /\ call'[d].prev # fileLocks'[call'[d].file]
                      /\ \A x \in Calls :
                           call'[x].pc = "waiting" /\ call'[x].prev = call'[d].prev => x = d
    BY DEF OneBehind, Active
  <2>1. CASE d = c
    <3>1. /\ call'[d].prev = fileLocks[f] /\ call'[d].file = f /\ fileLocks[f] # None
      BY <1>1, <1>3, <2>1
    <3>2. /\ fileLocks[f] \in Calls /\ Active(fileLocks[f]) /\ call[fileLocks[f]].file = f
      BY <1>5, <3>1
    <3>3. ASSUME NEW x \in Calls, call'[x].pc = "waiting", call'[x].prev = fileLocks[f]
          PROVE  x = c
      BY <1>1, <1>8, <3>1, <3>2, <3>3
    <3> QED
      <4>1. call'[fileLocks[f]] = call[fileLocks[f]] /\ fileLocks[f] # c
        BY <1>4, <3>2
      <4> QED
        BY <1>1, <2>1, <3>1, <3>2, <3>3, <4>1 DEF Active
  <2>2. CASE d # c
    <3>1. call'[d] = call[d] /\ call[d].pc = "waiting" /\ call[d].prev # None
      BY <1>1, <2>2
    <3>2. /\ call[d].prev # c /\ call'[call[d].prev] = call[call[d].prev]
          /\ call[call[d].prev].pc # "idle"
      BY <1>4, <1>8, <3>1 DEF Active
    <3>3. ASSUME NEW x \in Calls, call'[x].pc = "waiting", call'[x].prev = call[d].prev
          PROVE  x = d
      <4>1. CASE x = c
        <5>1. call[d].prev = fileLocks[f] /\ fileLocks[f] # None
          BY <1>1, <1>3, <3>1, <3>3, <4>1
        <5>2. call[d].file = f
          BY <1>5, <1>8, <3>1, <5>1
        <5> QED
          BY <1>8, <3>1, <5>1, <5>2
      <4>2. CASE x # c
        BY <1>1, <1>8, <3>1, <3>3, <4>2
      <4> QED
        BY <4>1, <4>2
    <3> QED
      BY <1>1, <1>8, <3>1, <3>2, <3>3
  <2> QED
    BY <2>1, <2>2
<1>10. OneIsFree'
  <2> SUFFICES ASSUME NEW x \in Calls, NEW y \in Calls, Free(x)', Free(y)',
                      call'[x].file = call'[y].file, x # y
               PROVE  FALSE
    BY DEF OneIsFree
  <2>1. CASE x # c /\ y # c
    BY <1>1, <1>3, <2>1 DEF MemoryInv, InLine, OneIsFree
  <2>2. CASE x = c \/ y = c
    <3>1. PICK z \in Calls : z # c /\ Free(z) /\ call[z].file = f
      BY <1>1, <1>3, <2>2
    <3>2. fileLocks[f] = None
      BY <1>1, <1>3, <2>2 DEF Free, Saving
    <3>3. Active(z)
      BY <3>1 DEF Active, Free, Saving
    <3> QED
      BY <3>1, <3>2, <3>3 DEF MemoryInv, InLine, LineHasEnd
  <2> QED
    BY <2>1, <2>2
<1>11. NoCircle'
  <2> SUFFICES ASSUME NEW S \in SUBSET Calls,
                      \A d \in S : call'[d].pc = "waiting" /\ call'[d].prev \in S
               PROVE  S = {}
    BY DEF NoCircle
  <2>1. \A d \in S \ {c} : call[d].pc = "waiting" /\ call[d].prev \in S \ {c}
    <3> SUFFICES ASSUME NEW d \in S \ {c}
                 PROVE  call[d].pc = "waiting" /\ call[d].prev \in S \ {c}
      OBVIOUS
    <3>1. call[d].pc = "waiting" /\ call[d].prev \in S /\ call[d].prev # None
      BY <1>1
    <3> QED
      BY <1>3, <1>8, <3>1
  <2>2. S \ {c} = {}
    BY <2>1 DEF MemoryInv, InLine, NoCircle
  <2>3. c \notin S
    <3> SUFFICES ASSUME c \in S  PROVE FALSE
      OBVIOUS
    <3>1. fileLocks[f] = c
      BY <1>1, <1>3, <2>2
    <3> QED
      BY <1>3, <1>5, <3>1
  <2> QED
    BY <2>2, <2>3
<1>12. Carried'
  <2>1. \A d \in Calls : call'[d].pc = "filling" <=> call[d].pc = "filling"
    BY <1>1, <1>3
  <2>2. \A d \in Calls : call[d].pc = "filling" => call'[d] = call[d]
    BY <1>1
  <2> QED
    BY <1>1, <1>3, <2>1, <2>2 DEF MemoryInv, Carried, Loaded, Saving
<1> QED
  BY <1>1, <1>2, <1>6, <1>7, <1>9, <1>10, <1>11, <1>12 DEF MemoryInv, InLine

(* A call that has its turn goes on, and the line stays as it is.          *)
LEMMA TurnKeepsLine ==
  ASSUME None \notin Calls, MemoryInv, NEW c \in Calls, Free(c), NEW r \in Places,
         r.pc \in {"saving", "filling"}, r.file = call[c].file,
         call' = [call EXCEPT ![c] = r], fileLocks' = fileLocks
  PROVE  call' \in [Calls -> Places] /\ InLine'
<1>1. /\ \A d \in Calls : call'[d] = IF d = c THEN r ELSE call[d]
      /\ call' \in [Calls -> Places]
  BY DEF MemoryInv
<1>2. /\ \A d \in Calls : Active(d)' <=> Active(d)
      /\ \A d \in Calls : Free(d)' <=> Free(d)
      /\ \A d \in Calls : call'[d].file = call[d].file
  BY <1>1 DEF Active, Free, Saving
<1>3. ASSUME NEW d \in Calls, call'[d].pc = "waiting", call'[d].prev # None
      PROVE  d # c /\ call'[d] = call[d]
  BY <1>1, <1>3
<1>4. \A f \in Files : fileLocks[f] # None => fileLocks[f] \in Calls
  BY DEF MemoryInv
<1>5. EndIsActive' /\ LineHasEnd'
  BY <1>2, <1>4 DEF MemoryInv, InLine, EndIsActive, LineHasEnd
<1>6. OneBehind'
  <2> SUFFICES ASSUME NEW d \in Calls, call'[d].pc = "waiting", call'[d].prev # None
               PROVE  /\ call'[call'[d].prev].pc # "idle"
                      /\ call'[call'[d].prev].file = call'[d].file
                      /\ call'[d].prev # fileLocks'[call'[d].file]
                      /\ \A x \in Calls :
                           call'[x].pc = "waiting" /\ call'[x].prev = call'[d].prev => x = d
    BY DEF OneBehind, Active
  <2>1. call'[d] = call[d] /\ call[d].pc = "waiting" /\ call[d].prev # None
    BY <1>3
  <2>2. /\ call[d].prev \in Calls /\ Active(call[d].prev)
        /\ call[call[d].prev].file = call[d].file
        /\ call[d].prev # fileLocks[call[d].file]
        /\ \A x \in Calls : call[x].pc = "waiting" /\ call[x].prev = call[d].prev => x = d
    BY <2>1, BehindAnother
  <2>3. call'[call[d].prev].pc # "idle"
    BY <1>1, <2>2 DEF Active
  <2> QED
    BY <1>1, <1>2, <2>1, <2>2, <2>3
<1>7. OneIsFree'
  BY <1>2 DEF MemoryInv, InLine, OneIsFree
<1>8. NoCircle'
  BY <1>1 DEF MemoryInv, InLine, NoCircle
<1> QED
  BY <1>1, <1>5, <1>6, <1>7, <1>8 DEF InLine

(* The text of the one whose turn it is holds what the file held.          *)
LEMMA ReadsKeeps ==
  ASSUME None \notin Calls, MemoryInv, NEW c \in Calls, NEW E \in SUBSET Entries, Reads(c, E),
         hurt \subseteq hurt', call[c].file \notin hurt' => stored[call[c].file] \subseteq E
  PROVE  MemoryInv'
<1> DEFINE f == call[c].file
           r == [call[c] EXCEPT !.pc = "saving", !.text = E \cup {call[c].entry}]
<1>1. /\ call[c].pc = "waiting" /\ call[c].prev = None
      /\ call' = [call EXCEPT ![c] = r]
      /\ UNCHANGED <<file, fileLocks, clearing, stored>>
  BY DEF Reads
<1>2. Free(c) /\ Active(c)
  BY <1>1 DEF Free, Active
<1>3. /\ call[c] \in [pc : {"waiting", "saving", "filling"}, file : Files, entry : Entries,
                       prev : Calls \cup {None}, text : SUBSET Entries]
      /\ f \in Files /\ call[c].entry \in Entries
  BY <1>2, ActiveCases
<1>4. /\ r \in Places /\ r.pc = "saving" /\ r.file = f
      /\ r.text = E \cup {call[c].entry} /\ r.entry = call[c].entry
  BY <1>3 DEF Places
<1> HIDE DEF r
<1>5. call' \in [Calls -> Places] /\ InLine'
  BY <1>1, <1>2, <1>4, TurnKeepsLine
<1>6. \A d \in Calls : call'[d] = IF d = c THEN r ELSE call[d]
  BY <1>1 DEF MemoryInv
<1>7. Carried'
  BY <1>1, <1>4, <1>6 DEF MemoryInv, Carried, Saving, Loaded
<1> QED
  BY <1>1, <1>5, <1>7 DEF MemoryInv

(* A read that succeeds carries what was stored; one that fails is noted.  *)
LEMMA LoadKeeps ==
  ASSUME None \notin Calls, MemoryInv, NEW c \in Calls, Load(c) \/ LoadFails(c)
  PROVE  MemoryInv'
<1> DEFINE f == call[c].file
<1>1. call[c].pc = "waiting" /\ call[c].prev = None
  BY DEF Load, LoadFails, Reads
<1>2. Free(c) /\ Active(c)
  BY <1>1 DEF Free, Active
<1>3. f \in Files
  BY <1>2, ActiveCases
<1>4. CASE Load(c)
  <2>1. Loaded(f) \subseteq Entries
    BY <1>3 DEF MemoryInv, Loaded
  <2>2. \A d \in Calls : call[d].pc = "filling" => call[d].file # f
    BY <1>1, <1>2 DEF MemoryInv, InLine, OneIsFree, Free, Saving
  <2>3. f \notin hurt => stored[f] \subseteq Loaded(f)
    BY <1>3, <2>2 DEF MemoryInv, Carried
  <2> QED
    BY <1>4, <2>1, <2>3, ReadsKeeps DEF Load
<1>5. CASE LoadFails(c)
  <2>1. Reads(c, {}) /\ hurt' = IF file[f] = Missing THEN hurt ELSE hurt \cup {f}
    BY <1>5 DEF LoadFails
  <2>2. f \notin hurt' => stored[f] = {}
    BY <1>3, <2>1 DEF MemoryInv, Carried
  <2>3. {} \in SUBSET Entries
    OBVIOUS
  <2> QED
    BY <2>1, <2>2, <2>3, ReadsKeeps
<1> QED
  BY <1>4, <1>5

(* What the file held is in the text of the one that truncates it.         *)
LEMMA TruncateKeeps ==
  ASSUME None \notin Calls, MemoryInv, NEW c \in Calls, Truncate(c)
  PROVE  MemoryInv'
<1> DEFINE f == call[c].file
           r == [call[c] EXCEPT !.pc = "filling"]
<1>1. /\ call[c].pc = "saving"
      /\ call' = [call EXCEPT ![c] = r]
      /\ file' = [file EXCEPT ![f] = Torn]
      /\ UNCHANGED <<fileLocks, clearing, stored, hurt>>
  BY DEF Truncate, Step
<1>2. Free(c) /\ Active(c) /\ Saving(c)
  BY <1>1 DEF Free, Active, Saving
<1>3. /\ call[c] \in [pc : {"waiting", "saving", "filling"}, file : Files, entry : Entries,
                       prev : Calls \cup {None}, text : SUBSET Entries]
      /\ f \in Files
  BY <1>2, ActiveCases
<1>4. /\ r \in Places /\ r.pc = "filling" /\ r.file = f
      /\ r.text = call[c].text /\ r.entry = call[c].entry
  BY <1>3 DEF Places
<1> HIDE DEF r
<1>5. call' \in [Calls -> Places] /\ InLine'
  BY <1>1, <1>2, <1>4, TurnKeepsLine
<1>6. \A d \in Calls : call'[d] = IF d = c THEN r ELSE call[d]
  BY <1>1 DEF MemoryInv
<1>7. /\ file' \in [Files -> [is : {"missing", "torn", "whole"}, has : SUBSET Entries]]
      /\ \A g \in Files : file'[g] = IF g = f THEN Torn ELSE file[g]
  BY <1>1, <1>3 DEF MemoryInv, Torn
<1>8. Torn # Missing
  BY DEF Torn, Missing
<1>9. Carried'
  BY <1>1, <1>2, <1>3, <1>4, <1>6, <1>7, <1>8 DEF MemoryInv, Carried, Saving, Loaded
<1> QED
  BY <1>1, <1>5, <1>7, <1>9 DEF MemoryInv

(* A call leaves the line, and the one behind it has its turn.             *)
LEMMA ReleaseKeepsLine ==
  ASSUME None \notin Calls, MemoryInv, NEW c \in Calls, Saving(c), Release(c, call[c].file)
  PROVE  /\ call' \in [Calls -> Places]
         /\ fileLocks' \in [Files -> Calls \cup {None}]
         /\ InLine'
         /\ call'[c].pc = "idle"
         /\ \A d \in Calls \ {c} : call'[d].pc = call[d].pc
         /\ \A d \in Calls \ {c} : Saving(d) => call'[d] = call[d]
<1> DEFINE f == call[c].file
<1>1. \A d \in Calls : call'[d] = IF d = c THEN Idle
                               ELSE IF call[d].pc = "waiting" /\ call[d].prev = c
                                    THEN [call[d] EXCEPT !.prev = None] ELSE call[d]
  BY DEF Release, Ends
<1>2. Free(c) /\ Active(c) /\ f \in Files
  <2>1. Free(c) /\ Active(c)
    BY DEF Free, Active, Saving
  <2> QED
    BY <2>1, ActiveCases
<1>3. \A g \in Files : fileLocks'[g] = IF g = f /\ fileLocks[f] = c THEN None ELSE fileLocks[g]
  BY <1>2 DEF Release, MemoryInv
<1>4. fileLocks' \in [Files -> Calls \cup {None}]
  BY <1>2 DEF Release, MemoryInv
<1>5. ASSUME NEW d \in Calls, Active(d), d # c
      PROVE  /\ call'[d] \in Places
             /\ call'[d].pc = call[d].pc /\ call'[d].file = call[d].file
             /\ call'[d].prev = IF call[d].pc = "waiting" /\ call[d].prev = c
                                  THEN None ELSE call[d].prev
             /\ call[d].file \in Files
  <2>1. call[d] \in [pc : {"waiting", "saving", "filling"}, file : Files, entry : Entries,
                     prev : Calls \cup {None}, text : SUBSET Entries]
    BY <1>5, ActiveCases
  <2> QED
    BY <1>1, <1>5, <2>1 DEF Places
<1>6. ASSUME NEW d \in Calls \ {c}, ~Active(d)
      PROVE  call'[d] = call[d]
  BY <1>1, <1>6 DEF Active
<1>7. call' \in [Calls -> Places]
  <2>1. \A d \in Calls : call'[d] \in Places
    BY <1>1, <1>5, <1>6 DEF Places, MemoryInv
  <2>2. call' = [d \in Calls |-> call'[d]]
    BY DEF Release, Ends
  <2> QED
    BY <2>1, <2>2
<1>8. /\ call'[c].pc = "idle"
      /\ \A d \in Calls \ {c} : call'[d].pc = call[d].pc
      /\ \A d \in Calls \ {c} : Saving(d) => call'[d] = call[d]
  <2>1. call'[c].pc = "idle"
    <3>1. call'[c] = Idle
      BY <1>1
    <3> QED
      BY <3>1 DEF Idle
  <2>2. \A d \in Calls \ {c} : call'[d].pc = call[d].pc
    BY <1>5, <1>6
  <2>3. \A d \in Calls \ {c} : Saving(d) => call'[d] = call[d]
    BY <1>1 DEF Saving
  <2> QED
    BY <2>1, <2>2, <2>3
<1>9. \A g \in Files : fileLocks[g] # None =>
        fileLocks[g] \in Calls /\ Active(fileLocks[g]) /\ call[fileLocks[g]].file = g
  BY DEF MemoryInv, InLine, EndIsActive
<1>10. EndIsActive'
  <2> SUFFICES ASSUME NEW g \in Files, fileLocks'[g] # None
               PROVE  call'[fileLocks'[g]].pc # "idle" /\ call'[fileLocks'[g]].file = g
    BY DEF EndIsActive, Active
  <2>1. fileLocks'[g] = fileLocks[g] /\ fileLocks[g] # None /\ fileLocks[g] # c
    BY <1>3, <1>9
  <2> QED
    BY <1>5, <1>9, <2>1 DEF Active
<1>11. LineHasEnd'
  <2> SUFFICES ASSUME NEW d \in Calls, call'[d].pc # "idle"
               PROVE  fileLocks'[call'[d].file] # None
    BY DEF LineHasEnd, Active
  <2>1. d # c /\ Active(d)
    BY <1>8 DEF Active
  <2>2. call'[d].file = call[d].file /\ call[d].file \in Files /\ fileLocks[call[d].file] # None
    BY <1>5, <2>1 DEF MemoryInv, InLine, LineHasEnd
  <2>3. ~(call[d].file = f /\ fileLocks[f] = c)
    BY <1>2, <2>1, LastIsAlone
  <2> QED
    BY <1>3, <2>2, <2>3
<1>12. ASSUME NEW d \in Calls, call'[d].pc = "waiting", call'[d].prev # None
       PROVE  d # c /\ call'[d] = call[d] /\ call[d].prev # c
  <2>1. d # c /\ Active(d) /\ call[d].pc = "waiting"
    BY <1>8, <1>12 DEF Active
  <2> QED
    BY <1>1, <1>5, <1>12, <2>1
<1>13. OneBehind'
  <2> SUFFICES ASSUME NEW d \in Calls, call'[d].pc = "waiting", call'[d].prev # None
               PROVE  /\ call'[call'[d].prev].pc # "idle"
                      /\ call'[call'[d].prev].file = call'[d].file
                      /\ call'[d].prev # fileLocks'[call'[d].file]
                      /\ \A x \in Calls :
                           call'[x].pc = "waiting" /\ call'[x].prev = call'[d].prev => x = d
    BY DEF OneBehind, Active
  <2>1. /\ call'[d] = call[d] /\ call[d].pc = "waiting"
        /\ call[d].prev # None /\ call[d].prev # c
    BY <1>12
  <2>2. /\ call[d].prev \in Calls /\ Active(call[d].prev) /\ call[d].file \in Files
        /\ call[call[d].prev].file = call[d].file
        /\ call[d].prev # fileLocks[call[d].file]
        /\ \A x \in Calls : call[x].pc = "waiting" /\ call[x].prev = call[d].prev => x = d
    BY <2>1, BehindAnother
  <2>3. /\ call'[call[d].prev].pc # "idle"
        /\ call'[call[d].prev].file = call[d].file
    BY <1>5, <2>1, <2>2 DEF Active
  <2>4. call[d].prev # fileLocks'[call[d].file]
    BY <1>3, <2>1, <2>2
  <2>5. ASSUME NEW x \in Calls, call'[x].pc = "waiting", call'[x].prev = call[d].prev
        PROVE  x = d
    <3>1. call'[x] = call[x]
      BY <1>12, <2>1, <2>5
    <3> QED
      BY <2>2, <2>5, <3>1
  <2> QED
    BY <2>1, <2>3, <2>4, <2>5
<1>14. ASSUME NEW x \in Calls, Free(x)'
       PROVE  /\ x # c /\ call'[x].file = call[x].file
              /\ Free(x) \/ (call[x].pc = "waiting" /\ call[x].prev = c /\ call[x].file = f)
  <2>1. x # c /\ Active(x)
    BY <1>8, <1>14 DEF Free, Saving, Active
  <2>2. Free(x) \/ (call[x].pc = "waiting" /\ call[x].prev = c)
    BY <1>5, <1>14, <2>1 DEF Free, Saving
  <2>3. c # None
    OBVIOUS
  <2> QED
    BY <1>5, <2>1, <2>2, <2>3, BehindAnother
<1>15. OneIsFree'
  <2> SUFFICES ASSUME NEW x \in Calls, NEW y \in Calls, Free(x)', Free(y)',
                      call'[x].file = call'[y].file, x # y
               PROVE  FALSE
    BY DEF OneIsFree
  <2>1. \A z \in Calls : Free(z) /\ call[z].file = f => z = c
    BY <1>2 DEF MemoryInv, InLine, OneIsFree
  <2>2. \A z \in Calls : call[z].pc = "waiting" /\ call[z].prev = c =>
          \A w \in Calls : call[w].pc = "waiting" /\ call[w].prev = c => w = z
    BY BehindAnother
  <2>3. ~(Free(x) /\ Free(y))
    BY <1>14 DEF MemoryInv, InLine, OneIsFree
  <2> QED
    BY <1>14, <2>1, <2>2, <2>3
<1>16. NoCircle'
  <2> SUFFICES ASSUME NEW S \in SUBSET Calls,
                      \A d \in S : call'[d].pc = "waiting" /\ call'[d].prev \in S
               PROVE  S = {}
    BY DEF NoCircle
  <2>1. \A d \in S : call[d].pc = "waiting" /\ call[d].prev \in S
    BY <1>12
  <2> QED
    BY <2>1 DEF MemoryInv, InLine, NoCircle
<1> QED
  BY <1>4, <1>7, <1>8, <1>10, <1>11, <1>13, <1>15, <1>16 DEF InLine

(* Nobody else reads or writes the file of a call that does.               *)
LEMMA SavesAlone ==
  ASSUME MemoryInv, NEW c \in Calls, Saving(c)
  PROVE  /\ \A d \in Calls \ {c} : Saving(d) => call[d].file # call[c].file
         /\ call[c].file \in Files /\ call[c].entry \in Entries /\ call[c].text \subseteq Entries
<1>1. \A d \in Calls \ {c} : Saving(d) => call[d].file # call[c].file
  BY DEF MemoryInv, InLine, OneIsFree, Free
<1>2. Active(c)
  BY DEF Active, Saving
<1> QED
  BY <1>1, <1>2, ActiveCases

(* The file holds again what was stored, and one memory more.              *)
LEMMA FillKeeps ==
  ASSUME None \notin Calls, MemoryInv, NEW c \in Calls, Fill(c)
  PROVE  MemoryInv'
<1> DEFINE f == call[c].file
           named == file[f] # Missing
<1>1. /\ call[c].pc = "filling" /\ Saving(c)
      /\ file' = [file EXCEPT ![f] = IF named THEN Whole(call[c].text) ELSE file[f]]
      /\ stored' = [stored EXCEPT ![f] = IF named THEN stored[f] \cup {call[c].entry} ELSE stored[f]]
      /\ Release(c, f)
      /\ UNCHANGED <<clearing, hurt>>
  BY DEF Fill, Saving
<1>2. /\ call' \in [Calls -> Places] /\ fileLocks' \in [Files -> Calls \cup {None}] /\ InLine'
      /\ call'[c].pc = "idle"
      /\ \A d \in Calls \ {c} : call'[d].pc = call[d].pc
      /\ \A d \in Calls \ {c} : Saving(d) => call'[d] = call[d]
  BY <1>1, ReleaseKeepsLine
<1>3. /\ \A d \in Calls \ {c} : Saving(d) => call[d].file # f
      /\ f \in Files /\ call[c].entry \in Entries /\ call[c].text \subseteq Entries
  BY <1>1, SavesAlone
<1>4. /\ \A g \in Files \ {f} : file'[g] = file[g] /\ stored'[g] = stored[g]
      /\ file'[f] = IF named THEN Whole(call[c].text) ELSE file[f]
      /\ stored'[f] = IF named THEN stored[f] \cup {call[c].entry} ELSE stored[f]
      /\ stored' \in [Files -> SUBSET Entries]
  BY <1>1, <1>3 DEF MemoryInv
<1>5. file' \in [Files -> [is : {"missing", "torn", "whole"}, has : SUBSET Entries]]
  <2>1. Whole(call[c].text) \in [is : {"missing", "torn", "whole"}, has : SUBSET Entries]
    BY <1>3 DEF Whole
  <2> QED
    BY <1>1, <1>3, <2>1 DEF MemoryInv
<1>6. \A d \in Calls : Saving(d)' => d # c /\ Saving(d) /\ call'[d] = call[d] /\ call[d].file # f
  BY <1>2, <1>3 DEF Saving
<1>7. \A g \in Files : file'[g] = Missing => stored'[g] = {}
  <2>1. Whole(call[c].text) # Missing
    BY DEF Whole, Missing
  <2> QED
    BY <1>4, <2>1 DEF MemoryInv, Carried
<1>8. \A d \in Calls : Saving(d)' =>
        /\ call'[d].entry \in call'[d].text
        /\ call'[d].file \notin hurt' => stored'[call'[d].file] \subseteq call'[d].text
  <2> SUFFICES ASSUME NEW d \in Calls, Saving(d)'
               PROVE  /\ call[d].entry \in call[d].text
                      /\ call[d].file \notin hurt => stored'[call[d].file] \subseteq call[d].text
    BY <1>1, <1>6
  <2>1. Saving(d) /\ call[d].file # f
    BY <1>6
  <2>2. call[d].file \in Files
    BY <2>1, SavesAlone
  <2> QED
    BY <1>4, <2>1, <2>2 DEF MemoryInv, Carried
<1>9. ASSUME NEW g \in Files \ hurt',
             \A d \in Calls : call'[d].pc = "filling" => call'[d].file # g
      PROVE  stored'[g] \subseteq file'[g].has
  <2>1. CASE g = f /\ named
    <3>1. stored[f] \subseteq call[c].text /\ call[c].entry \in call[c].text
      BY <1>1, <1>9, <2>1 DEF MemoryInv, Carried
    <3> QED
      BY <1>4, <2>1, <3>1 DEF Whole
  <2>2. CASE g = f /\ ~named
    BY <1>3, <1>4, <2>2 DEF MemoryInv, Carried
  <2>3. CASE g # f
    <3>1. \A d \in Calls : call[d].pc = "filling" => call[d].file # g
      BY <1>2, <1>9, <2>3 DEF Saving
    <3> QED
      BY <1>1, <1>4, <1>9, <2>3, <3>1 DEF MemoryInv, Carried, Loaded
  <2> QED
    BY <2>1, <2>2, <2>3
<1>10. Carried'
  BY <1>7, <1>8, <1>9 DEF Carried, Loaded
<1> QED
  BY <1>2, <1>4, <1>5, <1>10 DEF MemoryInv

(* A write that fails half-way hurts the file, one that fails before does  *)
(* not.                                                                    *)
LEMMA SaveFailsKeeps ==
  ASSUME None \notin Calls, MemoryInv, NEW c \in Calls, SaveFails(c)
  PROVE  MemoryInv'
<1> DEFINE f == call[c].file
<1>1. /\ Saving(c) /\ Release(c, f)
      /\ hurt' = IF call[c].pc = "filling" THEN hurt \cup {f} ELSE hurt
      /\ UNCHANGED <<file, clearing, stored>>
  BY DEF SaveFails, Saving
<1>2. /\ call' \in [Calls -> Places] /\ fileLocks' \in [Files -> Calls \cup {None}] /\ InLine'
      /\ call'[c].pc = "idle"
      /\ \A d \in Calls \ {c} : call'[d].pc = call[d].pc
      /\ \A d \in Calls \ {c} : Saving(d) => call'[d] = call[d]
  BY <1>1, ReleaseKeepsLine
<1>3. \A d \in Calls : Saving(d)' => Saving(d) /\ call'[d] = call[d]
  BY <1>2 DEF Saving
<1>4. ASSUME NEW g \in Files \ hurt',
             \A d \in Calls : call'[d].pc = "filling" => call'[d].file # g
      PROVE  stored[g] \subseteq file[g].has
  <2>1. \A d \in Calls : call[d].pc = "filling" => call[d].file # g
    BY <1>1, <1>2, <1>4 DEF Saving
  <2> QED
    BY <1>1, <1>4, <2>1 DEF MemoryInv, Carried, Loaded
<1>5. Carried'
  BY <1>1, <1>3, <1>4 DEF MemoryInv, Carried, Loaded
<1> QED
  BY <1>1, <1>2, <1>5 DEF MemoryInv

(* A file without a name owes nothing.                                     *)
LEMMA UnlinkKeeps ==
  ASSUME MemoryInv, NEW f \in Files, Unlink(f)
  PROVE  MemoryInv'
<1>1. /\ file' = [file EXCEPT ![f] = Missing] /\ stored' = [stored EXCEPT ![f] = {}]
      /\ hurt' = hurt \ {f} /\ UNCHANGED <<fileLocks, call>>
  BY DEF Unlink
<1>2. InLine'
  BY <1>1 DEF MemoryInv, InLine, EndIsActive, LineHasEnd, OneBehind, OneIsFree, NoCircle,
             Active, Free, Saving
<1>3. /\ file' \in [Files -> [is : {"missing", "torn", "whole"}, has : SUBSET Entries]]
      /\ stored' \in [Files -> SUBSET Entries]
  BY <1>1 DEF MemoryInv, Missing
<1>4. \A g \in Files : /\ file'[g] = IF g = f THEN Missing ELSE file[g]
                      /\ stored'[g] = IF g = f THEN {} ELSE stored[g]
  BY <1>1 DEF MemoryInv
<1>5. ASSUME NEW d \in Calls, Saving(d)
      PROVE  call[d].file \in Files
  BY <1>5, SavesAlone
<1>6. Carried'
  BY <1>1, <1>4, <1>5 DEF MemoryInv, Carried, Saving, Loaded
<1> QED
  BY <1>1, <1>2, <1>3, <1>6 DEF MemoryInv

(* A crash empties the lines, and hurts the files that were being filled.  *)
LEMMA CrashKeeps ==
  ASSUME MemoryInv, Crash
  PROVE  MemoryInv'
<1>1. /\ hurt' = hurt \cup {f \in Files : \E c \in Calls : call[c].pc = "filling" /\ call[c].file = f}
      /\ call' = [c \in Calls |-> Idle] /\ fileLocks' = [f \in Files |-> None]
      /\ UNCHANGED <<file, stored>>
  BY DEF Crash
<1>2. \A c \in Calls : call'[c].pc = "idle"
  BY <1>1 DEF Idle
<1>3. InLine'
  BY <1>1, <1>2 DEF InLine, EndIsActive, LineHasEnd, OneBehind, OneIsFree, NoCircle,
                    Active, Free, Saving
<1>4. call' \in [Calls -> Places] /\ fileLocks' \in [Files -> Calls \cup {None}]
  BY <1>1 DEF Places
<1>5. Carried'
  BY <1>1, <1>2 DEF MemoryInv, Carried, Saving, Loaded
<1> QED
  BY <1>1, <1>3, <1>4, <1>5 DEF MemoryInv

(* One call at a time reads, edits and writes a file, and each takes along *)
(* what was stored before it.                                              *)
THEOREM MemoryInvariance == ASSUME None \notin Calls PROVE Spec => []MemoryInv
<1>1. Init => MemoryInv
  <2> SUFFICES ASSUME Init  PROVE MemoryInv
    OBVIOUS
  <2>1. \A c \in Calls : call[c].pc = "idle"
    BY DEF Init, Idle
  <2>2. InLine
    BY <2>1 DEF Init, InLine, EndIsActive, LineHasEnd, OneBehind, OneIsFree, NoCircle,
                Active, Free, Saving
  <2>3. Carried
    BY <2>1 DEF Init, Carried, Saving
  <2>4. Missing \in [is : {"missing", "torn", "whole"}, has : SUBSET Entries]
    BY DEF Missing
  <2> QED
    BY <2>2, <2>3, <2>4 DEF Init, MemoryInv, Places
<1>2. MemoryInv /\ [Next]_vars => MemoryInv'
  <2> SUFFICES ASSUME MemoryInv, [Next]_vars  PROVE MemoryInv'
    OBVIOUS
  <2>1. ASSUME NEW c \in Calls,
               \/ \E f \in Files, e \in Entries : Store(c, f, e)
               \/ Load(c) \/ LoadFails(c) \/ Truncate(c) \/ Fill(c) \/ SaveFails(c)
        PROVE  MemoryInv'
    BY <2>1, StoreKeeps, LoadKeeps, TruncateKeeps, FillKeeps, SaveFailsKeeps
  <2>2. ASSUME NEW f \in Files, Unlink(f)  PROVE MemoryInv'
    BY <2>2, UnlinkKeeps
  <2>3. CASE Crash
    BY <2>3, CrashKeeps
  <2>4. CASE Clear \/ ClearRejects \/ UNCHANGED vars
    <3>1. UNCHANGED <<file, fileLocks, call, stored, hurt>>
      BY <2>4 DEF Clear, ClearRejects, vars
    <3> QED
      BY <3>1 DEF MemoryInv, InLine, EndIsActive, LineHasEnd, OneBehind, OneIsFree, NoCircle,
                  Carried, Active, Free, Saving, Loaded
  <2> QED
    BY <2>1, <2>2, <2>3, <2>4 DEF Next
<1> QED
  BY <1>1, <1>2, PTL DEF Spec

(* No memory is lost in a file that no crash and no failed write has torn  *)
(* and that no store() failed to read, for any number of calls of store(), *)
(* of files, of failures and of crashes.                                   *)
THEOREM StoredIsKept == ASSUME None \notin Calls PROVE Spec => []NothingStoredIsLost
<1>1. MemoryInv => NothingStoredIsLost
  <2> SUFFICES ASSUME MemoryInv, NEW f \in Files \ hurt
               PROVE  stored[f] \subseteq UNION ({Loaded(f)} \cup
                        {call[c].text : c \in {c \in Calls : call[c].pc = "filling" /\ call[c].file = f}})
    BY DEF NothingStoredIsLost
  <2>1. CASE \E c \in Calls : call[c].pc = "filling" /\ call[c].file = f
    BY <2>1 DEF MemoryInv, Carried, Saving
  <2>2. CASE \A c \in Calls : call[c].pc = "filling" => call[c].file # f
    BY <2>2 DEF MemoryInv, Carried
  <2> QED
    BY <2>1, <2>2
<1> QED
  BY <1>1, MemoryInvariance, PTL
=============================================================================
