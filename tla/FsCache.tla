-------------------------------- MODULE FsCache --------------------------------
(***************************************************************************)
(* The projects' directory and the cache of it (fs_cache): a tree of nodes *)
(* that are read from the disk when they are looked through, and believed  *)
(* for five seconds.                                                       *)
(*                                                                         *)
(* A path is the sequence of its names, the root is << >>, and a name is a *)
(* number, so that names are ordered as the entries of a directory are.    *)
(* The operators take a cache c and a disk d and say what is answered and  *)
(* what becomes of the cache; module Projects takes its steps with them.   *)
(***************************************************************************)
EXTENDS Integers, SequencesExt, FiniteSets

CONSTANTS
    Tree,         \* the paths that may exist, without the root
    Dirs,         \* those of them that are directories
    Away,         \* paths that entries are moved to and not followed
    MaxLevel      \* max_caching_level: 4

Root == << >>

Parent(x) == Front(x)

Nodes == Tree \cup {Root}

ASSUME FsCacheAssumption ==
    /\ Tree \subseteq Seq(Nat) \ {Root}
    /\ IsFiniteSet(Tree)
    /\ Dirs \subseteq Tree
    /\ Away \subseteq Seq(Nat) \ Nodes
    /\ \A x \in Away : Parent(x) \in Dirs \cup {Root}
    /\ \A x \in Tree : Parent(x) \in Dirs \cup {Root}
    /\ MaxLevel \in Nat \ {0, 1}

VARIABLES
    disk,         \* the paths that exist
    cache         \* the node of each path

Folder(x) == x = Root \/ x \in Dirs

Exists(d, x) == x = Root \/ x \in d

Children == [x \in Nodes |-> {y \in Tree : Len(y) = Len(x) + 1 /\ IsPrefix(x, y)}]

Below == [x \in Nodes |-> {y \in Tree : IsStrictPrefix(x, y)}]

(* The caching level of a node. *)
Level(x) == MaxLevel - Len(x)

(* A node: "none" if there is none; the state deleted is "gone" when the   *)
(* last refresh of its entry found nothing, so that it does not say it is  *)
(* a directory, and otherwise "removed".                                   *)
States == {"none", "init", "sync", "modified", "removed", "gone"}

NoNode == [state |-> "none", old |-> FALSE]

(* fs_node::fs_node *)
InitNode == [state |-> "init", old |-> FALSE]

Deleted(c, x) == c[x].state \in {"removed", "gone"}

Known(c, x) == c[x].state # "none"

IsDirectory(c, x) == Folder(x) /\ c[x].state # "gone"

-----------------------------------------------------------------------------
(* fs_node *)

(* load: the entries of the directory are read; one that was there before  *)
(* keeps its node, with what is below it, if that was in state sync.       *)
Load(c, d, x) ==
    IF ~Folder(x) \/ Level(x) = 1 THEN c
    ELSE [y \in Nodes |->
             IF y = x THEN [c[x] EXCEPT !.state = "sync"]
             ELSE IF y \notin Below[x] THEN c[y]
             ELSE LET z == SubSeq(y, 1, Len(x) + 1)
                  IN  IF z \in d /\ c[z].state = "sync" THEN c[y]
                      ELSE IF y = z /\ z \in d THEN InitNode
                      ELSE NoNode]

(* update: what is below a directory that is gone stays; the entry of a    *)
(* deleted node that is back is refreshed, its state is left to load.      *)
Update(c, d, x) ==
    IF c[x] = [state |-> "sync", old |-> FALSE] THEN c
    ELSE IF ~Exists(d, x) THEN [c EXCEPT ![x] = [state |-> "gone", old |-> FALSE]]
    ELSE LET refreshed == IF c[x].state = "gone" THEN "removed" ELSE c[x].state
         IN  Load([c EXCEPT ![x] = [state |-> refreshed, old |-> FALSE]], d, x)

(* variant: only the entries of the directory are dropped *)
ForgetShallow(c, x) ==
    [y \in Nodes |-> IF y = x THEN [c[x] EXCEPT !.state = "removed"]
                     ELSE IF y \in Children[x] THEN NoNode
                     ELSE c[y]]

(* remove, as to the node: its parent keeps it until it is read again. *)
Forget(c, x) ==
    [y \in Nodes |-> IF y = x THEN [c[x] EXCEPT !.state = "removed"]
                     ELSE IF y \in Below[x] THEN NoNode
                     ELSE c[y]]

(* What there may be of x and below it. *)
Trees(x) ==
    {r \in SUBSET (Below[x] \cup {x}) : \A y \in r : y = x \/ Parent(y) \in r}

Subtree(d, x) == d \cap (Below[x] \cup {x})

(* What remove_all leaves, whose error is ignored: nothing, or some        *)
(* entries and the directories they are in.                                *)
Leftovers(d, x) == {r \in Trees(x) : r \subseteq d}

-----------------------------------------------------------------------------
(* fs_iterator: an entry that was found.  From the last level on, it reads *)
(* the disk. *)

Cached(x) == Level(x) > 1

Named(c, x) == {y \in Children[x] : Known(c, y)}

(* begin steps over the first node if that is deleted, and does not ask    *)
(* whether the next one is deleted too.                                    *)
Overlooked(c, x, y) ==
    \E z \in Named(c, x) :
        Deleted(c, z) /\ {z} = {n \in Named(c, x) : Last(n) < Last(y)}

(* begin, ++ and end *)
Listed(c, d, x) ==
    LET u == Update(c, d, x)
    IN  IF Cached(x) THEN {y \in Named(u, x) : Deleted(u, y) => Overlooked(u, x, y)}
        ELSE Children[x] \cap d

(* What find(name) returns. *)
Has(c, d, x) ==
    LET u == Update(c, d, x)
    IN  IF Cached(x) THEN {y \in Named(u, x) : ~Deleted(u, y)} ELSE Children[x] \cap d

(* begin and find update the node. *)
AfterListing(c, d, x) == IF Cached(x) THEN Update(c, d, x) ELSE c

Entry(c, d, x, y) ==
    [cache |-> AfterListing(c, d, x), ok |-> y \in Has(c, d, x)]

-----------------------------------------------------------------------------
(* fs_cache *)

Found(c, x) == [cache |-> c, ok |-> Known(c, x)]

(* variant: what has been read once is believed for ever *)
ReadsNever(c, x) == c[x].state = "init"

(* A directory is read again if it is old. *)
Reads(c, x) == c[x].old \/ c[x].state = "init"

(* Or if it does not have the name, unless it has just been read.  Not     *)
(* asked is whether the node that has the name is deleted.                 *)
Seek(c, d, x, read) ==
    IF Known(c, x) \/ read THEN Found(c, x) ELSE Found(Update(c, d, Parent(x)), x)

(* find, the i-th name. *)
Step(c, d, x, i) ==
    LET at == SubSeq(x, 1, i - 1)
        read == Reads(c, at)
        c1 == IF read THEN Update(c, d, at) ELSE c
    IN  IF i = MaxLevel THEN [cache |-> c1, ok |-> x \in d]
        ELSE Seek(c1, d, SubSeq(x, 1, i), read)

Find(c, d, x) ==
    LET walk[i \in 0 .. Len(x)] ==
            IF i = 0 THEN [cache |-> c, ok |-> TRUE]
            ELSE LET w == walk[i - 1]
                 IN  IF w.ok /\ i <= MaxLevel THEN Step(w.cache, d, x, i) ELSE w
    IN  walk[Len(x)]

(* invalidate of a node; an entry read from the disk has none *)
Modified(c, x) == IF Level(x) > 0 THEN [c EXCEPT ![x].state = "modified"] ELSE c

(* find, then invalidate *)
Invalidate(c, d, x) ==
    LET modify(f) == IF f.ok THEN Modified(f.cache, x) ELSE f.cache
    IN  modify(Find(c, d, x))

(* create_file_w *)
FileCreated(c, d, x) == Invalidate(c, d, Parent(x))

(* fs_cache::begin does not step over a first entry that is deleted, as    *)
(* that of the iterator does.                                              *)
RootListed(c, d) ==
    LET u == Update(c, d, Root)
    IN  {y \in Named(u, Root) : Deleted(u, y) => \A z \in Named(u, Root) : Last(y) <= Last(z)}

(* create_directory, with the directories it is in.  Only the parent is    *)
(* looked for, and invalidated if it is found.                             *)
WithParents(d, x) == d \cup {y \in Tree : y = x \/ IsStrictPrefix(y, x)}

CreatedIn(c, d, x) == Invalidate(c, WithParents(d, x), Parent(x))

(* move_entry: what the disk may be after a rename, which replaces a file  *)
(* or an empty directory.  Of a path of Away it is not known what is there. *)
Target(old, new, y) == new \o SubSeq(y, Len(old) + 1, Len(y))

CanRename(d, old, new) ==
    /\ old # new /\ {old, new} \cap Tree # {}
    /\ old \in d \cup Away
    /\ Exists(d, Parent(old)) /\ Exists(d, Parent(new))
    /\ ~IsStrictPrefix(old, new)
    /\ new \in Tree => d \cap Below[new] = {}

Renamed(d, old, new) ==
    IF ~CanRename(d, old, new) THEN {}
    ELSE IF new \in Away THEN {d \ Subtree(d, old)}
    ELSE IF old \in Away THEN {d \cup r : r \in {s \in Trees(new) : new \in s}}
    ELSE LET after == (d \ Subtree(d, old)) \cup {Target(old, new, y) : y \in Subtree(d, old)}
         IN  IF /\ after \subseteq Tree
                /\ \A y \in Subtree(d, old) : y \in Dirs <=> Target(old, new, y) \in Dirs
             THEN {after} ELSE {}

Moved(c, d, old, new) == Invalidate(Invalidate(c, d, Parent(old)), d, Parent(new))

-----------------------------------------------------------------------------
FsTypeOK ==
    /\ disk \subseteq Tree
    /\ \A x \in disk : Exists(disk, Parent(x))
    /\ cache \in [Nodes -> [state : States, old : BOOLEAN]]
    /\ Known(cache, Root)
    /\ \A x \in Tree : Known(cache, x) => Known(cache, Parent(x))
==============================================================================
