---------------------------- MODULE FileSystems -----------------------------
(***************************************************************************)
(* The FilesystemPort adapters: VirtualFilesystem, a Map from normalised   *)
(* keys to entries whose persistent zone can be copied to a disk, and      *)
(* those that keep a tree of directories (LocalFilesystem, DenoFilesystem, *)
(* OpfsFilesystem).  The same calls are made of a virtual filesystem and   *)
(* of a tree, one after the other, as the tests swap the one for the       *)
(* other; the copy to disk runs beside them.                               *)
(***************************************************************************)
EXTENDS Integers, SequencesExt

CONSTANTS
  Names,            \* what a segment of a path may be, besides "", "." and ".."
  DotDotNames,      \* the names that begin with two dots
  Hidden,           \* the names that begin with a dot, those included
  Contents,         \* what a file may hold
  Asked             \* the calls that may be made, as records

VARIABLES
  kind,             \* the adapter that keeps the tree: "local", "deno" or "opfs"
  virt,             \* VirtualFilesystem.zones: entries in the order of their Map
  tree,             \* what the other adapter keeps of each zone
  agreed,           \* neither has refused what the other took, so far
  sync,             \* syncToPersistent(): where its walk is, and what changed since
  disk              \* what onSync has written

vars == <<kind, virt, tree, agreed, sync, disk>>

Zones == {"transient", "persistent"}
Dir == "directory"
NotSyncing == [on |-> FALSE, cursor |-> 1, changed |-> {}, covered |-> TRUE]

-----------------------------------------------------------------------------
(* Paths.  A call spells one as a sequence of segments, "" in front when   *)
(* it is absolute; a location is the sequence of names below the zone.     *)
Idle == {"", "."}
Up == ".."

Normalized(path) ==
  LET at[k \in 0..Len(path)] ==
        IF k = 0 THEN <<>>
        ELSE IF path[k] \in Idle THEN at[k - 1]
        ELSE IF path[k] # Up THEN Append(at[k - 1], path[k])
        ELSE SubSeq(at[k - 1], 1, Len(at[k - 1]) - 1)
  IN at[Len(path)]

Absolute(path) == Len(path) > 1 /\ path[1] = ""

(* resolve() against the zone's root, then relative(): a location outside  *)
(* begins with "..", as does a name with two dots.                         *)
TreePath(zone, path) ==
  LET root == <<"base", zone>>
      at == Normalized(IF Absolute(path) THEN path ELSE root \o path)
      rel == SubSeq(at, 3, Len(at))
  IN IF IsPrefix(root, at) /\ (rel = <<>> \/ rel[1] \notin DotDotNames) THEN {rel} ELSE {}

(* parsePath() keeps "..", which no directory takes for a name.            *)
OpfsPath(path) ==
  IF Up \in Range(path) \/ Normalized(path) = <<>> THEN {} ELSE {Normalized(path)}

(* The location a call reaches in the tree; none when the path is refused. *)
Located(zone, path) == IF kind = "opfs" THEN OpfsPath(path) ELSE TreePath(zone, path)

Above(at) == {SubSeq(at, 1, i) : i \in 1..Len(at) - 1}
Below(at, x) == IsPrefix(at, x)

-----------------------------------------------------------------------------
(* The Map: set() keeps the place of a key that is there.                  *)
Put(store, entry) ==
  LET here == {i \in DOMAIN store : store[i].at = entry.at}
  IN IF here = {} THEN Append(store, entry)
     ELSE [i \in DOMAIN store |-> IF i \in here THEN entry ELSE store[i]]

KeysOf(store) == {store[i].at : i \in DOMAIN store}

EnsureParentDirs(store, at) ==
  LET with[k \in 0..Len(at)] ==
        IF k = 0 THEN store
        ELSE IF k = Len(at) \/ SubSeq(at, 1, k) \in KeysOf(with[k - 1]) THEN with[k - 1]
        ELSE Append(with[k - 1], [at |-> SubSeq(at, 1, k), is |-> Dir])
  IN with[Len(at)]

VirtualWrite(store, at, c) == Put(EnsureParentDirs(store, at), [at |-> at, is |-> c])

(* Variant: only the key itself goes.                                      *)
VirtualDeleteKey(store, at) == SelectSeq(store, LAMBDA e : e.at # at)

(* Every key equal to the location or below it; the prefix of the root     *)
(* itself, "/", begins no key.                                             *)
Goes(at, key) == IF at = <<>> THEN key = at ELSE Below(at, key)

\* What is left of the first entries, one more at a time.
Left(store, at) ==
  LET left[k \in 0..Len(store)] ==
        IF k = 0 THEN <<>>
        ELSE IF Goes(at, store[k].at) THEN left[k - 1] ELSE Append(left[k - 1], store[k])
  IN left

VirtualDelete(store, at) == Left(store, at)[Len(store)]

(* read(): the contents, in a set; none when there is no such file.        *)
VirtualRead(store, at) == {e.is : e \in {e \in Range(store) : e.at = at /\ e.is # Dir}}

(* Whether list() goes so deep: as deep as it is told, else to the end when*)
(* it is recursive and one level when it is not.                           *)
Reaches(options, depth) ==
  IF options.maxDepth # 0 THEN depth <= options.maxDepth ELSE options.recursive \/ depth <= 1

(* What list() returns, below the location it was asked about.             *)
VirtualList(store, at, options) ==
  {<<SubSeq(e.at, Len(at) + 1, Len(e.at)), e.is = Dir>> :
     e \in {e \in Range(store) :
              /\ Below(at, e.at) /\ e.at # at /\ Reaches(options, Len(e.at) - Len(at))
              /\ options.includeHidden \/ \A i \in Len(at) + 1..Len(e.at) : e.at[i] \notin Hidden}}

(* The files that glob() and search() look through.                        *)
VirtualFiles(store) == {e.at : e \in {e \in Range(store) : e.is # Dir}}

-----------------------------------------------------------------------------
(* The tree: a parent must be a directory, and a directory is not written. *)
IsFile(t, at) == at \in DOMAIN t /\ t[at] # Dir

TreeTakes(t, at) == at # <<>> /\ (at \in DOMAIN t => t[at] # Dir) /\ \A x \in Above(at) : ~IsFile(t, x)

TreeWrite(t, at, c) ==
  [x \in {at} \cup Above(at) \cup DOMAIN t |-> IF x = at THEN c ELSE IF x \in DOMAIN t THEN t[x] ELSE Dir]

TreeDelete(t, at) == [x \in {x \in DOMAIN t : ~Below(at, x)} |-> t[x]]

TreeRead(t, at) == IF IsFile(t, at) THEN {t[at]} ELSE {}

(* readEntries() of Node and Deno enters a directory only when it is       *)
(* recursive, listEntries() of the browser as deep as it is told.          *)
Enters(options, depth) == IF kind # "opfs" /\ ~options.recursive THEN depth <= 1 ELSE Reaches(options, depth)

(* The walk down from the directory: what is not shown is not entered, nor *)
(* what is no directory.                                                   *)
Entered(t, x, i) == SubSeq(x, 1, i) \in DOMAIN t /\ t[SubSeq(x, 1, i)] = Dir

TreeList(t, at, options) ==
  {<<SubSeq(x, Len(at) + 1, Len(x)), t[x] = Dir>> :
     x \in {x \in DOMAIN t :
              /\ Below(at, x) /\ x # at /\ Enters(options, Len(x) - Len(at))
              /\ options.includeHidden \/ \A i \in Len(at) + 1..Len(x) : x[i] \notin Hidden
              /\ \A i \in Len(at) + 1..Len(x) - 1 : Entered(t, x, i)}}

(* collectFiles() walks every directory, hidden or not.                    *)
TreeFiles(t) == {x \in DOMAIN t : t[x] # Dir /\ x # <<>> /\ \A i \in 1..Len(x) - 1 : Entered(t, x, i)}

-----------------------------------------------------------------------------
Init ==
  /\ kind \in {"local", "deno", "opfs"}
  /\ virt = [z \in Zones |-> <<>>]
  /\ tree = [z \in Zones |-> <<>>]
  /\ agreed = TRUE
  /\ sync = NotSyncing
  /\ disk = <<>>

(* A Map that is walked while an entry before the walk goes moves it back. *)
Touch(zone, store, cursor, changed) ==
  /\ virt' = [virt EXCEPT ![zone] = store]
  /\ sync' = IF ~sync.on \/ zone # "persistent" THEN sync
             ELSE [sync EXCEPT !.changed = @ \cup changed, !.cursor = cursor]

Write(zone, path, c) ==
  LET at == Normalized(path)
      taken == {x \in Located(zone, path) : TreeTakes(tree[zone], x)}
  IN /\ Touch(zone, VirtualWrite(virt[zone], at, c), sync.cursor, {at})
     /\ tree' = [tree EXCEPT ![zone] = IF taken = {} THEN @
                                       ELSE TreeWrite(@, CHOOSE x \in taken : TRUE, c)]
     /\ agreed' = (agreed /\ taken # {} /\ ~Absolute(path))
     /\ UNCHANGED <<kind, disk>>

(* delete() of the zone's root empties a zone of LocalFilesystem and of    *)
(* DenoFilesystem, and nothing of the two others.                          *)
Delete(zone, path) ==
  LET at == Normalized(path)
      store == VirtualDelete(virt[zone], at)
      located == Located(zone, path)
      wiped == <<>> \in located /\ DOMAIN tree[zone] # {}
  IN /\ Touch(zone, store, Len(Left(virt[zone], at)[sync.cursor - 1]) + 1, KeysOf(virt[zone]) \ KeysOf(store))
     /\ tree' = [tree EXCEPT ![zone] = IF located = {} THEN @
                                       ELSE TreeDelete(@, CHOOSE x \in located : TRUE)]
     /\ agreed' = (agreed /\ ~wiped /\ (located = {} => store = virt[zone]) /\ ~Absolute(path))
     /\ UNCHANGED <<kind, disk>>

(* Only the virtual and the browser's filesystem have it.                  *)
ClearTransient ==
  /\ kind = "opfs"
  /\ Touch("transient", <<>>, 1, {})
  /\ tree' = [tree EXCEPT !["transient"] = <<>>]
  /\ UNCHANGED <<kind, agreed, disk>>

SyncBegins ==
  /\ ~sync.on
  /\ sync' = [NotSyncing EXCEPT !.on = TRUE]
  /\ UNCHANGED <<kind, virt, tree, agreed, disk>>

Unchanged(entry) == entry.is # Dir /\ entry.at \notin sync.changed
OnDisk(entry) == entry.at \in DOMAIN disk /\ disk[entry.at] = entry.is

(* One turn of the walk: a directory is passed over, a file is handed to   *)
(* onSync and awaited, and behind the last entry the call returns.         *)
SyncStep ==
  /\ sync.on
  /\ LET store == virt["persistent"]
     IN IF sync.cursor > Len(store)
        THEN /\ sync' = [NotSyncing EXCEPT !.covered = \A e \in Range(store) : Unchanged(e) => OnDisk(e)]
             /\ UNCHANGED disk
        ELSE /\ disk' = IF store[sync.cursor].is = Dir THEN disk
                        ELSE LET e == store[sync.cursor]
                          IN [x \in {e.at} \cup DOMAIN disk |-> IF x = e.at THEN e.is ELSE disk[x]]
             /\ sync' = [sync EXCEPT !.cursor = @ + 1]
  /\ UNCHANGED <<kind, virt, tree, agreed>>

(* onSync rejects, and the call with it: the rest is not copied.           *)
SyncFails ==
  /\ sync.on /\ sync.cursor <= Len(virt["persistent"])
  /\ virt["persistent"][sync.cursor].is # Dir
  /\ sync' = NotSyncing
  /\ UNCHANGED <<kind, virt, tree, agreed, disk>>

Next ==
  \/ \E a \in Asked :
       \/ a.do = "write" /\ \E c \in Contents : Write(a.zone, a.path, c)
       \/ a.do = "delete" /\ Delete(a.zone, a.path)
  \/ ClearTransient
  \/ SyncBegins
  \/ SyncStep
  \/ SyncFails

-----------------------------------------------------------------------------
(* Properties                                                              *)

(* As long as neither refused what the other took, the Map of keys and the *)
(* tree of directories answer alike in each zone: read() of every location,*)
(* list() of every directory with every option but a depth without         *)
(* recursive, and the files that glob() and search() look through.         *)
AdaptersAgree ==
  agreed => \A z \in Zones :
    /\ \A at \in KeysOf(virt[z]) \cup DOMAIN tree[z] : VirtualRead(virt[z], at) = TreeRead(tree[z], at)
    /\ VirtualFiles(virt[z]) = TreeFiles(tree[z])
    /\ \A at \in {<<>>} \cup {x \in DOMAIN tree[z] : tree[z][x] = Dir},
           options \in [recursive : BOOLEAN, maxDepth : 0..2, includeHidden : BOOLEAN] :
         options.recursive \/ options.maxDepth = 0 =>
           VirtualList(virt[z], at, options) = TreeList(tree[z], at, options)

(* A syncToPersistent() that returns has put on disk, as it is, every file *)
(* of the persistent zone that nobody wrote or deleted since it began,     *)
(* whatever entries came and went under its walk.                          *)
SyncCovers == sync.covered

(* The adapters of the filesystem port can stand in for each other, and    *)
(* the virtual one reaches the disk (VirtualFilesystem, LocalFilesystem,   *)
(* DenoFilesystem, OpfsFilesystem).                                        *)
FilesAgree == AdaptersAgree /\ SyncCovers
=============================================================================
