---------------------------- MODULE ProjectsProofs ----------------------------
(***************************************************************************)
(* Theorems about Projects, for any tree of any depth, any number of       *)
(* projects, jobs and builds and any caching level from 2 on.              *)
(*                                                                         *)
(* A cache is Good for a disk if it is a tree and a directory that will    *)
(* not be read again before it is listed shows no ghosts of some entries,  *)
(* has no gaps of others, and no traces of some.  Looking keeps a cache    *)
(* good, whatever is looked for, which is an induction along the path;     *)
(* what changes the disk makes it so.                                      *)
(***************************************************************************)
EXTENDS Projects, FiniteSetTheorems, SequenceTheorems, WellFoundedInduction, TLAPS

-----------------------------------------------------------------------------
(* Induction, on a set. *)

(* A set with 0 that has with every number the next one has them all.       *)
LEMMA Induction ==
    ASSUME NEW T, 0 \in T, \A n \in Nat : n \in T => n + 1 \in T
    PROVE  Nat \subseteq T
<1> DEFINE R == {r \in Nat \X Nat : r[1] < r[2]}
           Missing == Nat \ T
<1> SUFFICES ASSUME Missing # {} PROVE FALSE
    OBVIOUS
<1>1. IsWellFoundedOn(R, Nat)
    BY NatLessThanWellFounded DEF OpToRel
<1>2. Missing \subseteq Nat
    OBVIOUS
<1> HIDE DEF R
<1>3. PICK x \in Missing : \A y \in Missing : ~(<<y, x>> \in R)
  <2> HIDE DEF Missing
  <2> QED
    BY <1>1, <1>2, WFMin, Zenon
<1> USE DEF R
<1>4. \A y \in Missing : ~(y < x)
    BY <1>2, <1>3
<1>5. x - 1 \in T
    BY <1>4
<1> QED
    BY <1>5

-----------------------------------------------------------------------------
(* Paths *)

(* The beginning of a path is one, of the length that is asked for.         *)
LEMMA Beginning ==
    ASSUME NEW x \in Seq(Nat), NEW i \in 0 .. Len(x)
    PROVE  /\ SubSeq(x, 1, i) \in Seq(Nat)
           /\ Len(SubSeq(x, 1, i)) = i
           /\ \A k \in 1 .. i : SubSeq(x, 1, i)[k] = x[k]
<1>1. \A k \in 1 .. i : x[k] \in Nat
    BY ElementOfSeq
<1> QED
    BY <1>1, SubSeqProperties

(* The beginning of a beginning. *)
LEMMA BeginningOfOne ==
    ASSUME NEW x \in Seq(Nat), NEW i \in 0 .. Len(x), NEW j \in 0 .. i
    PROVE  SubSeq(SubSeq(x, 1, i), 1, j) = SubSeq(x, 1, j)
<1> DEFINE y == SubSeq(x, 1, i)
<1>1. y \in Seq(Nat) /\ Len(y) = i /\ \A k \in 1 .. i : y[k] = x[k]
    BY Beginning
<1> HIDE DEF y
<1>2. SubSeq(y, 1, j) \in Seq(Nat) /\ Len(SubSeq(y, 1, j)) = j
        /\ \A k \in 1 .. j : SubSeq(y, 1, j)[k] = y[k]
    BY <1>1, Beginning
<1>3. SubSeq(x, 1, j) \in Seq(Nat) /\ Len(SubSeq(x, 1, j)) = j
        /\ \A k \in 1 .. j : SubSeq(x, 1, j)[k] = x[k]
    BY Beginning
<1>4. SubSeq(y, 1, j) = SubSeq(x, 1, j)
    BY <1>1, <1>2, <1>3, SeqEqual
<1> QED
    BY <1>4 DEF y

(* Up to a limit. *)
LEMMA InductionUpTo ==
    ASSUME NEW n \in Nat, NEW T, 0 \in T,
           \A k \in 0 .. n - 1 : k \in T => k + 1 \in T
    PROVE  0 .. n \subseteq T
<1> DEFINE All == T \cup {k \in Nat : k > n}
<1>1. 0 \in All
    OBVIOUS
<1>2. \A k \in Nat : k \in All => k + 1 \in All
    OBVIOUS
<1>3. Nat \subseteq All
  <2> HIDE DEF All
  <2> QED
    BY <1>1, <1>2, Induction
<1> QED
    BY <1>3

(* A node is a path; the root is the empty one. *)
LEMMA NodePath ==
    ASSUME NEW x \in Nodes
    PROVE  /\ x \in Seq(Nat) /\ Len(x) \in Nat
           /\ x = Root <=> Len(x) = 0
           /\ x = Root <=> x \notin Tree
           /\ x \in Tree => Len(x) >= 1
<1>1. x \in Seq(Nat)
    BY FsCacheAssumption, EmptySeq DEF Nodes, Root
<1>2. Root \notin Tree
    BY FsCacheAssumption
<1> QED
    BY <1>1, <1>2, EmptySeq, LenProperties DEF Nodes, Root

(* The parent of an entry is a directory or the root. *)
LEMMA ParentOf ==
    ASSUME NEW x \in Tree
    PROVE  /\ Parent(x) \in Dirs \cup {Root}
           /\ Parent(x) \in Nodes
           /\ Folder(Parent(x))
           /\ Len(Parent(x)) = Len(x) - 1
           /\ Parent(x) = SubSeq(x, 1, Len(x) - 1)
<1>1. x \in Nodes
    BY DEF Nodes
<1>2. x \in Seq(Nat) /\ Len(x) \in Nat /\ Len(x) >= 1
    BY <1>1, NodePath
<1>3. Parent(x) \in Dirs \cup {Root} /\ Dirs \subseteq Tree
    BY FsCacheAssumption
<1>4. Len(SubSeq(x, 1, Len(x) - 1)) = Len(x) - 1
  <2>1. Len(x) - 1 \in 0 .. Len(x)
    BY <1>2
  <2> QED
    BY <2>1, <1>2, Beginning
<1> QED
    BY <1>3, <1>4 DEF Nodes, Parent, Front, Folder

(* With an entry, all the directories it is in are entries. *)
LEMMA Ancestors ==
    ASSUME NEW x \in Nodes, NEW i \in 0 .. Len(x)
    PROVE  /\ SubSeq(x, 1, i) \in Nodes
           /\ Len(SubSeq(x, 1, i)) = i
           /\ i > 0 => SubSeq(x, 1, i) \in Tree
           /\ i > 0 => Parent(SubSeq(x, 1, i)) = SubSeq(x, 1, i - 1)
           /\ i = Len(x) => SubSeq(x, 1, i) = x
           /\ i < Len(x) => Folder(SubSeq(x, 1, i))
<1> DEFINE n == Len(x)
           T == {k \in 0 .. n : SubSeq(x, 1, n - k) \in Nodes}
<1>1. x \in Seq(Nat) /\ n \in Nat
    BY NodePath
<1>2. SubSeq(x, 1, n) = x
    BY <1>1, SubSeqFull
<1>3. \A k \in 0 .. n : Len(SubSeq(x, 1, k)) = k
    BY <1>1, Beginning
<1>4. ASSUME NEW k \in 1 .. n, SubSeq(x, 1, k) \in Nodes
      PROVE  /\ SubSeq(x, 1, k) \in Tree
             /\ SubSeq(x, 1, k - 1) = Parent(SubSeq(x, 1, k))
  <2> DEFINE y == SubSeq(x, 1, k)
  <2>0. k \in 0 .. n /\ k - 1 \in 0 .. k /\ k # 0
      BY <1>1
  <2>1. Len(y) = k
      BY <1>3, <2>0
  <2>3. y \in Nodes
      BY <1>4
  <2>4. SubSeq(y, 1, k - 1) = SubSeq(x, 1, k - 1)
      BY <1>1, <2>0, BeginningOfOne
  <2> HIDE DEF y
  <2>5. y \in Tree
      BY <2>0, <2>1, <2>3, NodePath
  <2>6. Parent(y) = SubSeq(y, 1, k - 1)
      BY <2>1, <2>5, ParentOf
  <2> QED
      BY <2>4, <2>5, <2>6 DEF y
<1>5. 0 \in T
  <2>1. n - 0 = n /\ 0 \in 0 .. n
      BY <1>1
  <2> QED
      BY <2>1, <1>2
<1>6. \A k \in 0 .. n - 1 : k \in T => k + 1 \in T
  <2> SUFFICES ASSUME NEW k \in 0 .. n - 1, SubSeq(x, 1, n - k) \in Nodes
               PROVE  SubSeq(x, 1, n - (k + 1)) \in Nodes
      BY <1>1
  <2>1. n - k \in 1 .. n /\ (n - k) - 1 = n - (k + 1)
      BY <1>1
  <2>2. SubSeq(x, 1, (n - k) - 1) = Parent(SubSeq(x, 1, n - k)) /\ SubSeq(x, 1, n - k) \in Tree
      BY <2>1, <1>4
  <2> QED
      BY <2>1, <2>2, ParentOf
<1>7. 0 .. n \subseteq T
  <2> HIDE DEF T
  <2> QED
    BY <1>1, <1>5, <1>6, InductionUpTo
<1>8. \A k \in 0 .. n : SubSeq(x, 1, k) \in Nodes
  <2> SUFFICES ASSUME NEW k \in 0 .. n PROVE SubSeq(x, 1, k) \in Nodes
      OBVIOUS
  <2>0. n - k \in 0 .. n /\ n - (n - k) = k
      BY <1>1
  <2>1. n - k \in T
      BY <2>0, <1>7
  <2> QED
      BY <2>0, <2>1
<1>9. i < n => Folder(SubSeq(x, 1, i))
  <2> SUFFICES ASSUME i < n PROVE Folder(SubSeq(x, 1, i))
      OBVIOUS
  <2>1. i + 1 \in 1 .. n /\ (i + 1) - 1 = i
      BY <1>1
  <2>2. SubSeq(x, 1, i + 1) \in Tree /\ SubSeq(x, 1, i) = Parent(SubSeq(x, 1, i + 1))
      BY <2>1, <1>4, <1>8
  <2> QED
      BY <2>2, ParentOf
<1>10. i > 0 => i \in 1 .. n
    BY <1>1
<1>11. SubSeq(x, 1, i) \in Nodes /\ Len(SubSeq(x, 1, i)) = i
    BY <1>3, <1>8
<1>12. i > 0 => SubSeq(x, 1, i) \in Tree /\ Parent(SubSeq(x, 1, i)) = SubSeq(x, 1, i - 1)
    BY <1>4, <1>10, <1>11
<1> QED
    BY <1>2, <1>9, <1>11, <1>12

(* The first entry on the way from x to y. *)
Toward(x, y) == SubSeq(y, 1, Len(x) + 1)

(* A prefix is a beginning.                                                 *)
LEMMA PrefixIs ==
    ASSUME NEW x \in Nodes, NEW y \in Nodes
    PROVE  /\ IsPrefix(x, y) <=> Len(x) <= Len(y) /\ SubSeq(y, 1, Len(x)) = x
           /\ IsPrefix(x, y) <=> x = y \/ IsStrictPrefix(x, y)
           /\ IsStrictPrefix(x, y) <=> Len(x) < Len(y) /\ SubSeq(y, 1, Len(x)) = x
<1>1. x \in Seq(Nat) /\ y \in Seq(Nat) /\ Len(x) \in Nat /\ Len(y) \in Nat
    BY NodePath
<1>2. SubSeq(x, 1, Len(x)) = x /\ SubSeq(y, 1, Len(y)) = y
    BY <1>1, SubSeqFull
<1>3. IsPrefix(x, y) <=> Len(x) <= Len(y) /\ SubSeq(y, 1, Len(x)) = x
    BY <1>1, <1>2 DEF IsPrefix
<1>4. IsPrefix(x, x)
    BY <1>1 DEF IsPrefix
<1>5. IsPrefix(x, y) /\ Len(x) = Len(y) => x = y
    BY <1>1, <1>2, <1>3
<1> QED
    BY <1>1, <1>3, <1>4, <1>5 DEF IsStrictPrefix

(* What is in the directory x are the entries with the parent x. *)
LEMMA ChildrenAre ==
    ASSUME NEW x \in Nodes, NEW y \in Tree
    PROVE  y \in Children[x] <=> Parent(y) = x
<1>1. y \in Nodes
    BY DEF Nodes
<1>2. /\ Len(Parent(y)) = Len(y) - 1
      /\ Parent(y) = SubSeq(y, 1, Len(y) - 1)
    BY ParentOf
<1>3. IsPrefix(x, y) <=> Len(x) <= Len(y) /\ SubSeq(y, 1, Len(x)) = x
    BY <1>1, PrefixIs
<1>4. Len(x) \in Nat /\ Len(y) \in Nat
    BY <1>1, NodePath
<1>5. y \in Children[x] <=> Len(y) = Len(x) + 1 /\ IsPrefix(x, y)
    BY DEF Children
<1>6. Len(y) = Len(x) + 1 => Len(x) = Len(y) - 1
    BY <1>4
<1>7. Len(x) = Len(y) - 1 => Len(y) = Len(x) + 1 /\ Len(x) <= Len(y)
    BY <1>4
<1>8. Len(x) = Len(y) - 1 => SubSeq(y, 1, Len(x)) = SubSeq(y, 1, Len(y) - 1)
    OBVIOUS
<1>9. y \in Children[x] => Parent(y) = x
    BY <1>2, <1>3, <1>5, <1>6, <1>8
<1>10. Parent(y) = x => y \in Children[x]
    BY <1>2, <1>3, <1>5, <1>7, <1>8
<1> QED
    BY <1>9, <1>10

(* What is below a path begins with it.                                     *)
LEMMA BelowIs ==
    ASSUME NEW x \in Nodes, NEW y \in Tree
    PROVE  /\ y \in Below[x] <=> IsStrictPrefix(x, y)
           /\ y \in Below[x] <=> Len(x) < Len(y) /\ SubSeq(y, 1, Len(x)) = x
<1>1. y \in Nodes
    BY DEF Nodes
<1> QED
    BY <1>1, PrefixIs DEF Below

(* What is below a path are entries, those in its directory among them.     *)
LEMMA BelowInTree ==
    ASSUME NEW x \in Nodes
    PROVE  /\ Below[x] \subseteq Tree /\ Children[x] \subseteq Tree
           /\ Children[x] \subseteq Below[x]
           /\ x \notin Below[x]
<1>1. Below[x] \subseteq Tree /\ Children[x] \subseteq Tree
    BY DEF Below, Children
<1>2. x \notin Below[x]
    BY DEF Below, IsStrictPrefix
<1>3. ASSUME NEW y \in Children[x] PROVE y \in Below[x]
  <2>1. y \in Tree /\ Parent(y) = x
      BY <1>1, ChildrenAre
  <2>2. Len(x) = Len(y) - 1 /\ x = SubSeq(y, 1, Len(y) - 1) /\ Len(y) \in Nat
      BY <2>1, ParentOf, NodePath DEF Nodes
  <2>3. SubSeq(y, 1, Len(x)) = x /\ Len(x) < Len(y)
      BY <2>2
  <2> QED
      BY <2>1, <2>3, BelowIs
<1> QED
    BY <1>1, <1>2, <1>3

(* An entry is below x if its parent is x or below x. *)
LEMMA BelowByParent ==
    ASSUME NEW x \in Nodes, NEW y \in Tree
    PROVE  y \in Below[x] <=> Parent(y) = x \/ Parent(y) \in Below[x]
<1> DEFINE p == Parent(y)
           n == Len(y)
<1>1. /\ p \in Nodes /\ p = SubSeq(y, 1, n - 1) /\ Len(p) = n - 1
      /\ n \in Nat /\ n >= 1 /\ y \in Seq(Nat) /\ Len(x) \in Nat
    BY ParentOf, NodePath DEF Nodes
<1>2. y \in Below[x] <=> Len(x) < n /\ SubSeq(y, 1, Len(x)) = x
    BY BelowIs
<1>3. p \in Below[x] <=> Len(x) < n - 1 /\ SubSeq(p, 1, Len(x)) = x
  <2>1. p \in Tree => (p \in Below[x] <=> Len(x) < Len(p) /\ SubSeq(p, 1, Len(x)) = x)
      BY BelowIs
  <2>2. p \notin Tree => Len(p) = 0
      BY <1>1, NodePath
  <2>3. p \in Below[x] => p \in Tree
      BY BelowInTree
  <2> QED
      BY <1>1, <2>1, <2>2, <2>3
<1>4. Len(x) <= n - 1 => SubSeq(p, 1, Len(x)) = SubSeq(y, 1, Len(x))
  <2> HAVE Len(x) <= n - 1
  <2>1. n - 1 \in 0 .. Len(y) /\ Len(x) \in 0 .. n - 1
      BY <1>1
  <2> QED
      BY <1>1, <2>1, BeginningOfOne
<1>5. SubSeq(p, 1, Len(p)) = p
    BY <1>1, NodePath, SubSeqFull
<1>6. p = x <=> Len(x) = n - 1 /\ SubSeq(p, 1, Len(x)) = x
    BY <1>1, <1>5
<1> QED
    BY <1>1, <1>2, <1>3, <1>4, <1>6

(* The way down from x to y begins in the directory x. *)
LEMMA TowardIs ==
    ASSUME NEW x \in Nodes, NEW y \in Below[x]
    PROVE  /\ Toward(x, y) \in Children[x]
           /\ Toward(x, y) \in Tree /\ Parent(Toward(x, y)) = x
           /\ y = Toward(x, y) <=> Parent(y) = x
           /\ y # Toward(x, y) => y \in Below[Toward(x, y)]
           /\ Parent(y) # x => Parent(y) \in Below[x] /\ Toward(x, Parent(y)) = Toward(x, y)
<1> DEFINE z == Toward(x, y)
           n == Len(y)
           m == Len(x)
<1>1. /\ y \in Tree /\ y \in Nodes /\ y \in Seq(Nat) /\ n \in Nat /\ m \in Nat
      /\ m < n /\ SubSeq(y, 1, m) = x
    BY BelowInTree, BelowIs, NodePath DEF Nodes
<1>2. m + 1 \in 0 .. Len(y) /\ m + 1 > 0 /\ (m + 1) - 1 = m
    BY <1>1
<1>3. z \in Tree /\ Parent(z) = x /\ Len(z) = m + 1 /\ (m + 1 = n => z = y)
  <2> DEFINE i == m + 1
  <2>1. i \in 0 .. Len(y) /\ i > 0 /\ i - 1 = m /\ z = SubSeq(y, 1, i)
      BY <1>2 DEF Toward
  <2>2. z \in Tree /\ Parent(z) = SubSeq(y, 1, i - 1) /\ Len(z) = i /\ (i = n => z = y)
    <3> HIDE DEF i, z, m
    <3>1. Len(SubSeq(y, 1, i)) = i /\ (i = n => SubSeq(y, 1, i) = y)
        BY <1>1, <2>1, Ancestors
    <3>2. SubSeq(y, 1, i) \in Tree /\ Parent(SubSeq(y, 1, i)) = SubSeq(y, 1, i - 1)
        BY <1>1, <2>1, Ancestors
    <3> QED
        BY <2>1, <3>1, <3>2
  <2> QED
      BY <1>1, <2>1, <2>2
<1>4. z \in Children[x]
    BY <1>3, ChildrenAre
<1>5. y = z \/ y \in Below[z]
  <2>1. CASE m + 1 = n
      BY <2>1, <1>3
  <2>2. CASE m + 1 # n
    <3>1. Len(z) < n /\ SubSeq(y, 1, Len(z)) = z
      BY <1>1, <1>3, <2>2 DEF Toward
    <3> QED
      BY <3>1, <1>1, <1>3, BelowIs DEF Nodes
  <2> QED
      BY <2>1, <2>2
<1>6. Parent(y) = x => y = z
  <2> HAVE Parent(y) = x
  <2>1. m = n - 1
      BY <1>1, ParentOf
  <2> QED
      BY <2>1, <1>1, <1>3
<1>7. Parent(y) # x => Parent(y) \in Below[x] /\ Toward(x, Parent(y)) = z
  <2> HAVE Parent(y) # x
  <2>1. Parent(y) \in Below[x]
      BY <1>1, BelowByParent
  <2>2. m < n - 1 /\ Parent(y) = SubSeq(y, 1, n - 1)
      BY <2>1, <1>1, BelowIs, BelowInTree, ParentOf
  <2>3. n - 1 \in 0 .. Len(y) /\ m + 1 \in 0 .. n - 1
      BY <2>2, <1>1
  <2> QED
      BY <1>1, <2>1, <2>2, <2>3, BeginningOfOne DEF Toward
<1> QED
    BY <1>3, <1>4, <1>5, <1>6, <1>7

(* Below is an order. *)
LEMMA BelowTransitive ==
    ASSUME NEW x \in Nodes, NEW y \in Below[x], NEW z \in Below[y]
    PROVE  z \in Below[x]
<1>1. y \in Tree /\ y \in Nodes
    BY BelowInTree DEF Nodes
<1>2. /\ z \in Tree /\ z \in Nodes /\ z \in Seq(Nat)
      /\ Len(x) \in Nat /\ Len(y) \in Nat /\ Len(z) \in Nat
    BY <1>1, BelowInTree, NodePath DEF Nodes
<1>3. Len(x) < Len(y) /\ SubSeq(y, 1, Len(x)) = x /\ Len(y) < Len(z) /\ SubSeq(z, 1, Len(y)) = y
    BY <1>1, <1>2, BelowIs
<1>4. Len(y) \in 0 .. Len(z) /\ Len(x) \in 0 .. Len(y) /\ Len(x) < Len(z)
    BY <1>2, <1>3
<1>5. SubSeq(z, 1, Len(x)) = x
    BY <1>2, <1>3, <1>4, BeginningOfOne
<1> QED
    BY <1>2, <1>4, <1>5, BelowIs

-----------------------------------------------------------------------------
(* find, as a walk *)

OnWalk(c, d, x, w, i) ==
    IF i = 0 THEN [cache |-> c, ok |-> TRUE]
    ELSE IF w[i - 1].ok /\ i <= MaxLevel THEN Step(w[i - 1].cache, d, x, i) ELSE w[i - 1]

(* A function that is defined by its value before has its values.           *)
LEMMA FindWalks ==
    ASSUME NEW c, NEW d, NEW x \in Nodes
    PROVE  \E w : /\ \A i \in 0 .. Len(x) : w[i] = OnWalk(c, d, x, w, i)
                  /\ Find(c, d, x) = w[Len(x)]
<1> DEFINE n == Len(x)
           Walks(m, w) == w = [i \in 0 .. m |-> OnWalk(c, d, x, w, i)]
           T == {m \in Nat : \E w : Walks(m, w)}
<1>1. n \in Nat
    BY NodePath
<1>2. 0 \in T
  <2> DEFINE w == [i \in 0 .. 0 |-> [cache |-> c, ok |-> TRUE]]
  <2>1. w = [i \in 0 .. 0 |-> OnWalk(c, d, x, w, i)]
      BY DEF OnWalk
  <2> QED
      BY <2>1
<1>3. \A m \in Nat : m \in T => m + 1 \in T
  <2>0. SUFFICES ASSUME NEW m \in Nat, NEW w, Walks(m, w)
               PROVE  m + 1 \in T
      OBVIOUS
  <2> DEFINE v == [i \in 0 .. m + 1 |-> IF i = m + 1 THEN OnWalk(c, d, x, w, m + 1) ELSE w[i]]
  <2>1. ASSUME NEW i \in 0 .. m + 1 PROVE v[i] = OnWalk(c, d, x, v, i)
    <3>1. i - 1 \in 0 .. m \/ i = 0
        OBVIOUS
    <3>2. i # 0 => v[i - 1] = w[i - 1]
        BY <3>1
    <3>3. OnWalk(c, d, x, v, i) = OnWalk(c, d, x, w, i)
        BY <3>2 DEF OnWalk
    <3>4. CASE i = m + 1
        BY <3>3, <3>4
    <3>5. CASE i # m + 1
      <4>1. i \in 0 .. m
          BY <3>5
      <4>2. w[i] = OnWalk(c, d, x, w, i)
          BY <4>1, <2>0
      <4> QED
          BY <3>3, <3>5, <4>2
    <3> QED
        BY <3>4, <3>5
  <2>2. Walks(m + 1, v)
      BY <2>1
  <2> HIDE DEF v
  <2>3. \E u : Walks(m + 1, u)
      BY <2>2
  <2> QED
      BY <2>3
<1>4. n \in T
  <2> HIDE DEF T
  <2> QED
      BY <1>1, <1>2, <1>3, Induction
<1> DEFINE found == CHOOSE w : Walks(n, w)
<1>5. Walks(n, found)
    BY <1>4
<1>6. Find(c, d, x) = found[n]
    BY DEF Find, OnWalk
<1> HIDE DEF found
<1> QED
    BY <1>5, <1>6

-----------------------------------------------------------------------------
(* The cache and the disk *)

Fresh == [state |-> "sync", old |-> FALSE]

(* A cache is a tree too, whose nodes have a level. *)
Caches ==
    {c \in [Nodes -> [state : States, old : BOOLEAN]] :
        /\ Known(c, Root)
        /\ \A x \in Tree : Known(c, x) => Known(c, Parent(x)) /\ Level(x) >= 1}

(* And so is what is on the disk. *)
Disks == {d \in SUBSET Tree : \A x \in d : Exists(d, Parent(x))}

Shown(c, y) == Known(c, y) /\ ~Deleted(c, y)

(* A directory that will not be read again, or is gone, does not show an    *)
(* entry that is gone.                                                      *)
NoGhost(c, d, y) ==
    (c[Parent(y)] = Fresh \/ ~Exists(d, Parent(y))) /\ Shown(c, y) => y \in d

(* And shows it if it is there. *)
NoGap(c, d, y) == c[Parent(y)] = Fresh /\ Cached(Parent(y)) /\ y \in d => Shown(c, y)

(* And has no node of an entry that is gone. *)
NoTrace(c, d, y) == c[Parent(y)] = Fresh /\ Known(c, y) => y \in d

Good(c, d, G, H, K) ==
    /\ c \in Caches
    /\ \A y \in G : NoGhost(c, d, y)
    /\ \A y \in H : NoGap(c, d, y)
    /\ \A y \in K : NoTrace(c, d, y)

(* The caching level goes down by one with every name.                      *)
LEMMA LevelIs ==
    ASSUME NEW x \in Nodes
    PROVE  /\ Level(x) \in Int /\ Level(Root) = MaxLevel /\ Cached(Root)
           /\ x \in Tree => Level(x) = Level(Parent(x)) - 1
           /\ \A i \in 0 .. Len(x) : Level(SubSeq(x, 1, i)) = MaxLevel - i
           /\ Cached(x) <=> Level(x) > 1
<1>1. MaxLevel \in Nat /\ MaxLevel > 1 /\ Len(x) \in Nat /\ Len(Root) = 0 /\ Root \in Nodes
    BY FsCacheAssumption, NodePath DEF Nodes
<1>2. x \in Tree => Len(Parent(x)) = Len(x) - 1
    BY ParentOf
<1>3. \A i \in 0 .. Len(x) : Len(SubSeq(x, 1, i)) = i
    BY Ancestors
<1> QED
    BY <1>1, <1>2, <1>3 DEF Level, Cached

(* The nodes that are there without having been read.                       *)
LEMMA NodeTypes ==
    /\ InitNode \in [state : States, old : BOOLEAN] /\ NoNode \in [state : States, old : BOOLEAN]
    /\ InitNode # NoNode /\ Fresh # InitNode /\ Fresh # NoNode
    /\ InitNode.state = "init" /\ NoNode.state = "none"
BY DEF InitNode, NoNode, States, Fresh

(* What is read of a directory that is there. *)
LEMMA LoadIs ==
    ASSUME NEW c \in [Nodes -> [state : States, old : BOOLEAN]], NEW d, NEW x \in Nodes,
           Folder(x), Level(x) # 1
    PROVE  /\ Load(c, d, x) \in [Nodes -> [state : States, old : BOOLEAN]]
           /\ Load(c, d, x)[x] = [state |-> "sync", old |-> c[x].old]
           /\ \A y \in Nodes : y # x /\ y \notin Below[x] => Load(c, d, x)[y] = c[y]
           /\ \A y \in Below[x] :
                 Load(c, d, x)[y] =
                    IF Toward(x, y) \in d /\ c[Toward(x, y)].state = "sync" THEN c[y]
                    ELSE IF y = Toward(x, y) /\ y \in d THEN InitNode ELSE NoNode
<1> DEFINE L == Load(c, d, x)
<1>1. L = [y \in Nodes |->
             IF y = x THEN [c[x] EXCEPT !.state = "sync"]
             ELSE IF y \notin Below[x] THEN c[y]
             ELSE IF Toward(x, y) \in d /\ c[Toward(x, y)].state = "sync" THEN c[y]
             ELSE IF y = Toward(x, y) /\ Toward(x, y) \in d THEN InitNode ELSE NoNode]
    BY DEF Load, Toward
<1>2. x \notin Below[x] /\ Below[x] \subseteq Nodes
    BY BelowInTree DEF Nodes
<1>3. [state |-> "sync", old |-> c[x].old] \in [state : States, old : BOOLEAN]
    BY DEF States
<1>4. L[x] = [state |-> "sync", old |-> c[x].old]
  <2>1. L[x] = [c[x] EXCEPT !.state = "sync"]
      BY <1>1
  <2>2. [c[x] EXCEPT !.state = "sync"] = [state |-> "sync", old |-> c[x].old]
      OBVIOUS
  <2> QED
      BY <2>1, <2>2
<1>5. ASSUME NEW y \in Nodes, y # x, y \notin Below[x] PROVE L[y] = c[y]
    BY <1>1, <1>5
<1>6. ASSUME NEW y \in Below[x]
      PROVE  L[y] = IF Toward(x, y) \in d /\ c[Toward(x, y)].state = "sync" THEN c[y]
                    ELSE IF y = Toward(x, y) /\ y \in d THEN InitNode ELSE NoNode
    BY <1>1, <1>2, <1>6
<1>7. ASSUME NEW y \in Nodes PROVE L[y] \in [state : States, old : BOOLEAN]
    BY <1>2, <1>3, <1>4, <1>5, <1>6, NodeTypes
<1>8. L \in [Nodes -> [state : States, old : BOOLEAN]]
  <2>1. L = [y \in Nodes |-> L[y]]
      BY <1>1
  <2> QED
      BY <1>7, <2>1
<1> QED
    BY <1>4, <1>5, <1>6, <1>8

Rec == [state : States, old : BOOLEAN]

(* The nodes that Update may change are x and those below, the latter to    *)
(* what a directory that was just read has.                                 *)
Touches(c, u, x) ==
    /\ \A y \in Nodes : y # x /\ y \notin Below[x] => u[y] = c[y]
    /\ \A y \in Below[x] : u[y] \in {c[y], InitNode, NoNode}

(* The three outcomes of Update. *)
LEMMA UpdateIs ==
    ASSUME NEW c \in Caches, NEW d, NEW x \in Nodes, Known(c, x)
    PROVE  LET u == Update(c, d, x)
           IN  /\ u \in [Nodes -> Rec] /\ Known(u, x) /\ Touches(c, u, x)
               /\ \/ c[x] = Fresh /\ u = c
                  \/ /\ ~Exists(d, x) /\ u[x].state = "gone"
                     /\ \A y \in Below[x] : u[y] = c[y]
                  \/ /\ c[x] # Fresh /\ Exists(d, x) /\ u[x].state # "gone"
                     /\ c[x].state \in {"gone", "removed"} \/ ~Deleted(u, x)
                     /\ \/ /\ ~Folder(x) \/ Level(x) = 1
                           /\ \A y \in Below[x] : u[y] = c[y]
                        \/ /\ Folder(x) /\ Level(x) # 1 /\ u[x] = Fresh
                           /\ \A y \in Below[x] :
                                 u[y] =
                                    IF Toward(x, y) \in d /\ c[Toward(x, y)].state = "sync"
                                    THEN c[y]
                                    ELSE IF y = Toward(x, y) /\ y \in d THEN InitNode
                                    ELSE NoNode
<1> DEFINE u == Update(c, d, x)
           kept == IF c[x].state = "gone" THEN "removed" ELSE c[x].state
           c1 == [c EXCEPT ![x] = [state |-> kept, old |-> FALSE]]
<1> USE DEF Rec
<1>1. c \in [Nodes -> Rec] /\ c[x].state # "none"
    BY DEF Caches, Known
<1>2. x \notin Below[x] /\ Below[x] \subseteq Nodes
    BY BelowInTree DEF Nodes
<1>3. CASE c[x] = Fresh
  <2>1. u = c
      BY <1>3 DEF Update, Fresh
  <2> QED
      BY <1>1, <1>2, <1>3, <2>1 DEF Touches, Known
<1>4. CASE c[x] # Fresh /\ ~Exists(d, x)
  <2>1. u = [c EXCEPT ![x] = [state |-> "gone", old |-> FALSE]]
      BY <1>4 DEF Update, Fresh
  <2>2. [state |-> "gone", old |-> FALSE] \in Rec
      BY DEF States
  <2>3. u \in [Nodes -> Rec] /\ u[x] = [state |-> "gone", old |-> FALSE]
        /\ \A y \in Nodes : y # x => u[y] = c[y]
      BY <1>1, <2>1, <2>2
  <2> QED
      BY <1>2, <1>4, <2>3 DEF Touches, Known
<1>5. CASE c[x] # Fresh /\ Exists(d, x)
  <2>1. u = Load(c1, d, x)
      BY <1>5 DEF Update, Fresh
  <2>2. kept \in States /\ kept # "none" /\ kept # "gone"
      BY <1>1 DEF States
  <2> HIDE DEF kept
  <2>3. c1 \in [Nodes -> Rec] /\ c1[x] = [state |-> kept, old |-> FALSE]
        /\ \A y \in Nodes : y # x => c1[y] = c[y]
      BY <1>1, <2>2
  <2> HIDE DEF c1, u
  <2>4. CASE ~Folder(x) \/ Level(x) = 1
    <3>1. u = c1
        BY <2>1, <2>4 DEF Load
    <3>2. c[x].state \in {"gone", "removed"} \/ ~Deleted(u, x)
        BY <3>1, <2>3 DEF Deleted, kept
    <3>3. u[x].state # "gone" /\ Known(u, x) /\ Touches(c, u, x) /\ \A y \in Below[x] : u[y] = c[y]
        BY <3>1, <2>2, <2>3, <1>2 DEF Touches, Known
    <3> QED
        BY <1>5, <2>3, <2>4, <3>1, <3>2, <3>3 DEF u
  <2>5. CASE Folder(x) /\ Level(x) # 1
    <3>1. /\ u \in [Nodes -> Rec]
          /\ u[x] = [state |-> "sync", old |-> c1[x].old]
          /\ \A y \in Nodes : y # x /\ y \notin Below[x] => u[y] = c1[y]
          /\ \A y \in Below[x] :
                 u[y] = IF Toward(x, y) \in d /\ c1[Toward(x, y)].state = "sync" THEN c1[y]
                        ELSE IF y = Toward(x, y) /\ y \in d THEN InitNode ELSE NoNode
      <4>1. c1 \in [Nodes -> [state : States, old : BOOLEAN]]
          BY <2>3
      <4>2. Folder(x) /\ Level(x) # 1
          BY <2>5
      <4> QED
          BY <2>1, <4>1, <4>2, LoadIs
    <3>2. u[x] = Fresh
        BY <2>3, <3>1 DEF Fresh
    <3>3. \A y \in Nodes : y # x /\ y \notin Below[x] => u[y] = c[y]
        BY <2>3, <3>1
    <3>4. \A y \in Below[x] :
              u[y] = IF Toward(x, y) \in d /\ c[Toward(x, y)].state = "sync" THEN c[y]
                     ELSE IF y = Toward(x, y) /\ y \in d THEN InitNode ELSE NoNode
      <4> SUFFICES ASSUME NEW y \in Below[x]
                   PROVE  u[y] = IF Toward(x, y) \in d /\ c[Toward(x, y)].state = "sync" THEN c[y]
                                 ELSE IF y = Toward(x, y) /\ y \in d THEN InitNode ELSE NoNode
          OBVIOUS
      <4>1. Toward(x, y) \in Below[x] /\ Toward(x, y) # x /\ y # x
          BY <1>2, TowardIs, BelowInTree
      <4>2. c1[y] = c[y] /\ c1[Toward(x, y)] = c[Toward(x, y)]
          BY <1>2, <2>3, <4>1
      <4> QED
          BY <3>1, <4>2
    <3>5. Touches(c, u, x)
        BY <3>3, <3>4 DEF Touches
    <3>6. u[x].state # "gone" /\ Known(u, x) /\ ~Deleted(u, x)
        BY <3>2 DEF Fresh, Known, Deleted
    <3> QED
        BY <1>5, <2>5, <3>1, <3>2, <3>4, <3>5, <3>6 DEF u
  <2> QED
      BY <2>4, <2>5
<1> QED
    BY <1>3, <1>4, <1>5

(* A node that is there has a level, and the node of its directory. *)
LEMMA KnownIs ==
    ASSUME NEW c \in Caches
    PROVE  /\ c \in [Nodes -> Rec] /\ Known(c, Root)
           /\ \A x \in Tree : Known(c, x) => Known(c, Parent(x)) /\ Level(x) >= 1
           /\ \A x \in Nodes : Known(c, x) => Level(x) >= 1
<1>1. Level(Root) >= 1
    BY LevelIs, FsCacheAssumption DEF Nodes
<1>2. ASSUME NEW x \in Nodes, Known(c, x) PROVE Level(x) >= 1
    BY <1>1, <1>2 DEF Caches, Nodes
<1> QED
    BY <1>2 DEF Caches, Rec

(* Reading a directory keeps the cache a tree. *)
LEMMA UpdateKeepsTree ==
    ASSUME NEW c \in Caches, NEW d, NEW x \in Nodes, Known(c, x)
    PROVE  Update(c, d, x) \in Caches
<1> DEFINE u == Update(c, d, x)
<1>1. u \in [Nodes -> Rec] /\ Known(u, x) /\ Touches(c, u, x)
    BY UpdateIs
<1>2. \/ \A y \in Below[x] : u[y] = c[y]
      \/ /\ Level(x) # 1
         /\ \A y \in Below[x] :
                u[y] = IF Toward(x, y) \in d /\ c[Toward(x, y)].state = "sync" THEN c[y]
                       ELSE IF y = Toward(x, y) /\ y \in d THEN InitNode ELSE NoNode
    BY UpdateIs
<1>3. /\ Known(c, Root) /\ \A y \in Tree : Known(c, y) => Known(c, Parent(y)) /\ Level(y) >= 1
      /\ Level(x) >= 1 /\ Level(x) \in Int
    BY KnownIs, LevelIs
<1> HIDE DEF u
<1>4. Known(u, Root)
  <2>1. Root \in Nodes /\ Root \notin Below[x]
      BY NodePath, BelowInTree DEF Nodes
  <2> QED
      BY <1>1, <1>3, <2>1 DEF Touches, Known
<1>5. ASSUME NEW y \in Tree, Known(u, y) PROVE Known(u, Parent(y)) /\ Level(y) >= 1
  <2>1. y \in Nodes /\ Parent(y) \in Nodes
      BY ParentOf DEF Nodes
  <2>2. CASE y \notin Below[x]
    <3>1. Parent(y) # x /\ Parent(y) \notin Below[x]
        BY <2>2, BelowByParent
    <3>2. u[Parent(y)] = c[Parent(y)] /\ (y # x => u[y] = c[y])
        BY <1>1, <2>1, <2>2, <3>1 DEF Touches
    <3>3. Known(c, y)
        BY <1>5, <3>2 DEF Known
    <3> QED
        BY <1>3, <3>2, <3>3 DEF Known
  <2>3. CASE y \in Below[x] /\ Parent(y) = x
    <3>1. y = Toward(x, y)
        BY <2>3, TowardIs
    <3>2. Level(y) >= 1
      <4>1. Known(c, y) \/ Level(x) # 1
          BY <1>2, <1>5, <2>3 DEF Known
      <4>2. Level(y) = Level(x) - 1
          BY <2>1, <2>3, LevelIs
      <4> QED
          BY <1>3, <4>1, <4>2
    <3> QED
        BY <1>1, <2>3, <3>2
  <2>4. CASE y \in Below[x] /\ Parent(y) # x
    <3>1. Parent(y) \in Below[x] /\ Toward(x, Parent(y)) = Toward(x, y) /\ y # Toward(x, y)
        BY <2>4, TowardIs
    <3>2. u[y] = c[y] \/ u[y] = NoNode
        BY <1>2, <2>4, <3>1
    <3>3. Known(c, y) /\ u[y] # NoNode
        BY <1>5, <3>2, NodeTypes DEF Known
    <3>4. u[Parent(y)] = c[Parent(y)]
        BY <1>2, <2>4, <3>1, <3>3
    <3> QED
        BY <1>3, <3>3, <3>4 DEF Known
  <2> QED
      BY <2>2, <2>3, <2>4
<1> QED
    BY <1>1, <1>4, <1>5 DEF Caches, Rec, u

(* Reading a directory makes no ghosts. *)
LEMMA UpdateNoGhost ==
    ASSUME NEW c \in Caches, NEW d \in Disks, NEW x \in Nodes, Known(c, x),
           NEW y \in Tree, NoGhost(c, d, y)
    PROVE  NoGhost(Update(c, d, x), d, y)
<1> DEFINE u == Update(c, d, x)
<1>a. SUFFICES ASSUME u[Parent(y)] = Fresh \/ ~Exists(d, Parent(y)), Shown(u, y) PROVE y \in d
    BY DEF NoGhost
<1> USE <1>a
<1>1. Touches(c, u, x) /\ (u = c \/ (~Exists(d, x) /\ u[x].state = "gone") \/ Exists(d, x))
    BY UpdateIs
<1>2. y \in Nodes /\ Parent(y) \in Nodes
    BY ParentOf DEF Nodes
<1>3. CASE u[y] = c[y] /\ u[Parent(y)] = c[Parent(y)]
    BY <1>3, <1>a DEF NoGhost, Shown, Known, Deleted
<1>b. CASE ~Exists(d, Parent(y))
  <2>1. y \notin d /\ ~Exists(d, y)
      BY <1>b, <1>2, NodePath DEF Disks, Exists
  <2>2. u[y].state # "gone" /\ u[y] # NoNode
      BY NodeTypes DEF Shown, Deleted, Known
  <2>3. y # x \/ u = c
      BY <1>1, <2>1, <2>2
  <2>4. y \notin Below[x] => u[y] = c[y]
      BY <1>1, <1>2, <2>3 DEF Touches
  <2>5. y \in Below[x] => u[y] = c[y]
      BY <2>1, <2>2, UpdateIs
  <2>6. Shown(c, y)
      BY <2>4, <2>5 DEF Shown, Known, Deleted
  <2> QED
      BY <1>b, <2>6 DEF NoGhost
<1>4. CASE y = x
  <2>1. Parent(y) \notin Below[x] /\ Parent(y) # x
      BY <1>4, BelowInTree, BelowByParent
  <2>2. u[Parent(y)] = c[Parent(y)]
      BY <1>1, <1>2, <2>1 DEF Touches
  <2>3. u[x].state # "gone"
      BY <1>4 DEF Shown, Deleted
  <2>4. y # Root
      BY <1>2, NodePath
  <2> QED
      BY <1>1, <1>3, <1>4, <2>2, <2>3, <2>4 DEF Exists
<1>5. CASE y # x /\ y \notin Below[x]
  <2>1. Parent(y) \notin Below[x] /\ Parent(y) # x
      BY <1>5, BelowByParent
  <2> QED
      BY <1>1, <1>2, <1>3, <1>5, <2>1 DEF Touches
<1>6. CASE y \in Below[x] /\ Parent(y) = x /\ u[x] = Fresh
  <2>1. y = Toward(x, y)
      BY <1>6, TowardIs
  <2>2. Known(u, y) /\ u[x] = Fresh /\ Fresh.state # "gone"
      BY <1>6 DEF Shown, Fresh
  <2>3. Level(x) # 1
    <3>1. Level(y) = Level(x) - 1 /\ Level(x) \in Int
        BY <1>2, <1>6, LevelIs
    <3>2. Level(y) >= 1
        BY <2>2, UpdateKeepsTree, KnownIs
    <3> QED
        BY <3>1, <3>2
  <2>4. Folder(x)
      BY <1>6, ParentOf
  <2>5. \/ u = c
        \/ u[y] = IF y \in d /\ c[y].state = "sync" THEN c[y]
                  ELSE IF y \in d THEN InitNode ELSE NoNode
      BY <1>6, <2>1, <2>2, <2>3, <2>4, UpdateIs
  <2>6. CASE u = c
      BY <1>3, <2>6
  <2>7. CASE u # c
      BY <2>2, <2>5, <2>7, NodeTypes DEF Known
  <2> QED
      BY <2>6, <2>7
<1>7. CASE y \in Below[x] /\ Parent(y) # x /\ u[Parent(y)] = Fresh
  <2>1. Parent(y) \in Below[x] /\ Toward(x, Parent(y)) = Toward(x, y) /\ y # Toward(x, y)
      BY <1>7, TowardIs
  <2>2. u[Parent(y)] # InitNode /\ u[Parent(y)] # NoNode
      BY <1>7, NodeTypes
  <2>3. u[Parent(y)] = c[Parent(y)]
      BY <1>1, <2>1, <2>2 DEF Touches
  <2>4. u[y] # NoNode
      BY NodeTypes DEF Shown, Known
  <2>5. u[y] = c[y] \/ u[y] = NoNode
      BY <1>7, <2>1, UpdateIs
  <2> QED
      BY <1>3, <2>3, <2>4, <2>5
<1> QED
    BY <1>a, <1>b, <1>4, <1>5, <1>6, <1>7

(* Nor traces. *)
LEMMA UpdateNoTrace ==
    ASSUME NEW c \in Caches, NEW d \in Disks, NEW x \in Nodes, Known(c, x),
           NEW y \in Tree, NoTrace(c, d, y)
    PROVE  NoTrace(Update(c, d, x), d, y)
<1> DEFINE u == Update(c, d, x)
<1> SUFFICES ASSUME u[Parent(y)] = Fresh, Known(u, y) PROVE y \in d
    BY DEF NoTrace
<1>1. Touches(c, u, x) /\ u[x].state # "none"
    BY UpdateIs DEF Known
<1>2. y \in Nodes /\ Parent(y) \in Nodes
    BY ParentOf DEF Nodes
<1>3. CASE Known(c, y) /\ u[Parent(y)] = c[Parent(y)]
    BY <1>3 DEF NoTrace
<1>4. CASE y \notin Below[x]
  <2>1. Parent(y) \notin Below[x] /\ Parent(y) # x
      BY <1>4, BelowByParent
  <2> QED
      BY <1>1, <1>2, <1>3, <1>4, <2>1 DEF Touches, Known
<1>5. CASE y \in Below[x] /\ Parent(y) = x
  <2>1. y = Toward(x, y)
      BY <1>5, TowardIs
  <2>2. Level(x) # 1
    <3>1. Level(y) = Level(x) - 1 /\ Level(x) \in Int
        BY <1>2, <1>5, LevelIs
    <3>2. Level(y) >= 1
        BY UpdateKeepsTree, KnownIs
    <3> QED
        BY <3>1, <3>2
  <2>3. Folder(x) /\ Fresh.state # "gone"
      BY <1>5, ParentOf DEF Fresh
  <2>4. \/ u = c
        \/ u[y] = IF y \in d /\ c[y].state = "sync" THEN c[y]
                  ELSE IF y \in d THEN InitNode ELSE NoNode
      BY <1>5, <2>1, <2>2, <2>3, UpdateIs
  <2>5. CASE u = c
      BY <1>3, <2>5
  <2>6. CASE u # c
      BY <2>4, <2>6, NodeTypes DEF Known
  <2> QED
      BY <2>5, <2>6
<1>6. CASE y \in Below[x] /\ Parent(y) # x
  <2>1. Parent(y) \in Below[x] /\ Toward(x, Parent(y)) = Toward(x, y) /\ y # Toward(x, y)
      BY <1>6, TowardIs
  <2>2. u[Parent(y)] = c[Parent(y)] /\ u[y] # NoNode
      BY <1>1, <2>1, NodeTypes DEF Touches, Known
  <2>3. u[y] = c[y]
      BY <1>6, <2>1, <2>2, UpdateIs
  <2> QED
      BY <1>3, <2>2, <2>3 DEF Known
<1> QED
    BY <1>4, <1>5, <1>6

(* Nor gaps. *)
LEMMA UpdateNoGap ==
    ASSUME NEW c \in Caches, NEW d \in Disks, NEW x \in Nodes, Known(c, x),
           NEW y \in Tree, NoGap(c, d, y)
    PROVE  NoGap(Update(c, d, x), d, y)
<1> DEFINE u == Update(c, d, x)
<1> SUFFICES ASSUME u[Parent(y)] = Fresh, Cached(Parent(y)), y \in d PROVE Shown(u, y)
    BY DEF NoGap
<1>1. Touches(c, u, x)
    BY UpdateIs
<1>2. y \in Nodes /\ Parent(y) \in Nodes /\ Exists(d, Parent(y)) /\ Exists(d, y)
    BY ParentOf DEF Nodes, Disks, Exists
<1>3. CASE u[y] = c[y] /\ u[Parent(y)] = c[Parent(y)]
    BY <1>3 DEF NoGap, Shown, Known, Deleted
<1>4. CASE y = x
  <2>1. Parent(y) \notin Below[x] /\ Parent(y) # x
      BY <1>4, BelowInTree, BelowByParent
  <2>2. u[Parent(y)] = c[Parent(y)]
      BY <1>1, <1>2, <2>1 DEF Touches
  <2>3. Shown(c, y)
      BY <2>2 DEF NoGap
  <2>4. Known(u, x) /\ (u = c \/ c[x].state \in {"gone", "removed"} \/ ~Deleted(u, x))
      BY <1>2, <1>4, UpdateIs
  <2> QED
      BY <1>4, <2>3, <2>4 DEF Shown, Deleted
<1>5. CASE y # x /\ y \notin Below[x]
  <2>1. Parent(y) \notin Below[x] /\ Parent(y) # x
      BY <1>5, BelowByParent
  <2> QED
      BY <1>1, <1>2, <1>3, <1>5, <2>1 DEF Touches
<1>6. CASE y \in Below[x] /\ Parent(y) = x
  <2>1. y = Toward(x, y)
      BY <1>6, TowardIs
  <2>2. Folder(x) /\ Level(x) # 1 /\ Exists(d, x)
      BY <1>2, <1>6, ParentOf, LevelIs
  <2>3. \/ u = c
        \/ u[y] = IF y \in d /\ c[y].state = "sync" THEN c[y]
                  ELSE IF y \in d THEN InitNode ELSE NoNode
      BY <1>6, <2>1, <2>2, UpdateIs
  <2>4. CASE u = c
      BY <1>3, <2>4
  <2>5. CASE u # c
    <3>1. u[y].state \in {"sync", "init"}
        BY <2>3, <2>5, NodeTypes
    <3> QED
        BY <3>1 DEF Shown, Known, Deleted
  <2> QED
      BY <2>4, <2>5
<1>7. CASE y \in Below[x] /\ Parent(y) # x
  <2>1. Parent(y) \in Below[x] /\ Toward(x, Parent(y)) = Toward(x, y) /\ y # Toward(x, y)
      BY <1>7, TowardIs
  <2>2. u[Parent(y)] # InitNode /\ u[Parent(y)] # NoNode
      BY NodeTypes
  <2>3. u[Parent(y)] = c[Parent(y)]
      BY <1>1, <2>1, <2>2 DEF Touches
  <2>4. u[y] = c[y]
      BY <1>7, <2>1, <2>2, UpdateIs
  <2> QED
      BY <1>3, <2>3, <2>4
<1> QED
    BY <1>4, <1>5, <1>6, <1>7

(* Reading a directory keeps a cache good, and what is above untouched.     *)
LEMMA UpdateGood ==
    ASSUME NEW G \in SUBSET Tree, NEW H \in SUBSET Tree, NEW K \in SUBSET Tree,
           NEW c, NEW d \in Disks, Good(c, d, G, H, K), NEW x \in Nodes, Known(c, x)
    PROVE  /\ Good(Update(c, d, x), d, G, H, K)
           /\ Known(Update(c, d, x), x)
           /\ Touches(c, Update(c, d, x), x)
<1>1. c \in Caches
    BY DEF Good
<1>2. \A y \in G : NoGhost(Update(c, d, x), d, y)
    BY <1>1, UpdateNoGhost DEF Good
<1>3. \A y \in H : NoGap(Update(c, d, x), d, y)
    BY <1>1, UpdateNoGap DEF Good
<1>4. \A y \in K : NoTrace(Update(c, d, x), d, y)
    BY <1>1, UpdateNoTrace DEF Good
<1> QED
    BY <1>1, <1>2, <1>3, <1>4, UpdateIs, UpdateKeepsTree DEF Good

(* A directory that is read has a node of what is there. *)
LEMMA UpdateReads ==
    ASSUME NEW c \in Caches, NEW d, NEW x \in Nodes, Known(c, x),
           c[x] # Fresh, Exists(d, x), Folder(x), Level(x) # 1,
           NEW y \in Tree, Parent(y) = x
    PROVE  /\ Known(Update(c, d, x), y) <=> y \in d
           /\ Known(Update(c, d, x), y) => ~Deleted(Update(c, d, x), y)
<1>1. y \in Below[x]
    BY BelowByParent
<1>2. y = Toward(x, y)
    BY <1>1, TowardIs
<1>3. Update(c, d, x)[y] = IF y \in d /\ c[y].state = "sync" THEN c[y]
                           ELSE IF y \in d THEN InitNode ELSE NoNode
    BY <1>1, <1>2, UpdateIs
<1> QED
    BY <1>3, NodeTypes DEF Known, Deleted

(* A step of find: the directory may be read, and the name is there or not. *)
LEMMA StepIs ==
    ASSUME NEW c, NEW d, NEW x \in Nodes, NEW i \in 1 .. Len(x)
    PROVE  LET s == Step(c, d, x, i)
               at == SubSeq(x, 1, i - 1)
           IN  /\ s.ok \in BOOLEAN
               /\ s.cache \in {c, Update(c, d, at)}
               /\ Reads(c, at) => s.cache = Update(c, d, at)
               /\ i # MaxLevel => (s.ok <=> Known(s.cache, SubSeq(x, 1, i)))
               /\ i = MaxLevel => (s.ok <=> x \in d)
<1> DEFINE s == Step(c, d, x, i)
           at == SubSeq(x, 1, i - 1)
           to == SubSeq(x, 1, i)
           u == Update(c, d, at)
<1>1. Parent(to) = at
  <2>1. i \in 0 .. Len(x) /\ i > 0
      BY NodePath
  <2> QED
      BY <2>1, Ancestors
<1> HIDE DEF u
<1> DEFINE after == IF i = MaxLevel
                    THEN IF Reads(c, at) THEN u ELSE c
                    ELSE IF Reads(c, at) \/ ~Known(c, to) THEN u ELSE c
<1>2. CASE i = MaxLevel
  <2>1. s = [cache |-> after, ok |-> x \in d]
      BY <1>2 DEF Step, u
  <2> HIDE DEF s, after
  <2>2. s.cache = after /\ s.ok = (x \in d)
      BY <2>1, Zenon
  <2>3. s.ok \in BOOLEAN
      BY <2>2
  <2> QED
      BY <1>2, <2>2, <2>3 DEF s, u, after
<1>3. CASE i # MaxLevel
  <2>1. s = [cache |-> after, ok |-> Known(after, to)]
    <3>1. CASE Reads(c, at)
        BY <1>3, <3>1 DEF Step, Seek, Found, u
    <3>2. CASE ~Reads(c, at)
        BY <1>1, <1>3, <3>2 DEF Step, Seek, Found, u
    <3> QED
        BY <3>1, <3>2
  <2> HIDE DEF s, after
  <2>2. s.cache = after /\ s.ok = Known(after, to)
      BY <2>1, Zenon
  <2>3. s.ok \in BOOLEAN
      BY <2>2 DEF Known
  <2> QED
      BY <1>3, <2>2, <2>3 DEF s, u, after
<1> QED
    BY <1>2, <1>3

(* What find leaves of a good cache, and what it has found. *)
Reached(c, d, x, w, i) ==
    /\ w.ok \in BOOLEAN
    /\ i < MaxLevel => (w.ok <=> Known(w.cache, SubSeq(x, 1, i)))
    /\ i >= MaxLevel /\ w.ok => x \in d
    /\ w.cache[x] \in {c[x], InitNode, NoNode}
    /\ \A y \in Below[x] : w.cache[y] \in {c[y], InitNode, NoNode}

IsWalk(c, d, x, w) == \A i \in 0 .. Len(x) : w[i] = OnWalk(c, d, x, w, i)

(* So does every step of find, which stops at what it does not know.        *)
LEMMA WalkGood ==
    ASSUME NEW G \in SUBSET Tree, NEW H \in SUBSET Tree, NEW K \in SUBSET Tree,
           NEW c, NEW d \in Disks, Good(c, d, G, H, K), NEW x \in Nodes,
           NEW w, IsWalk(c, d, x, w)
    PROVE  \A i \in 0 .. Len(x) : Good(w[i].cache, d, G, H, K) /\ Reached(c, d, x, w[i], i)
<1> DEFINE n == Len(x)
<1>1. \A i \in 0 .. n : w[i] = OnWalk(c, d, x, w, i)
    BY DEF IsWalk
<1> DEFINE T == {i \in 0 .. n : Good(w[i].cache, d, G, H, K) /\ Reached(c, d, x, w[i], i)}
<1>2. n \in Nat /\ MaxLevel \in Nat /\ MaxLevel > 1
    BY NodePath, FsCacheAssumption
<1>3. 0 \in T
  <2>1. w[0] = [cache |-> c, ok |-> TRUE]
    <3>1. 0 \in 0 .. n
        BY <1>2
    <3> QED
        BY <1>1, <3>1 DEF OnWalk
  <2>2. SubSeq(x, 1, 0) = Root
    <3>1. 0 \in 0 .. Len(x)
        BY <1>2
    <3>2. SubSeq(x, 1, 0) \in Nodes /\ Len(SubSeq(x, 1, 0)) = 0
        BY <3>1, Ancestors
    <3> QED
        BY <3>2, NodePath
  <2>3. Known(c, Root)
      BY DEF Good, Caches
  <2>4. w[0].cache = c /\ w[0].ok = TRUE
      BY <2>1
  <2>5. Reached(c, d, x, w[0], 0)
    <3>1. w[0].ok \in BOOLEAN /\ w[0].ok
        BY <2>4
    <3>2. Known(w[0].cache, SubSeq(x, 1, 0))
        BY <2>2, <2>3, <2>4
    <3>3. w[0].cache[x] = c[x] /\ \A y \in Below[x] : w[0].cache[y] = c[y]
        BY <2>4
    <3>4. ~(0 >= MaxLevel)
        BY <1>2
    <3> QED
        BY <3>1, <3>2, <3>3, <3>4 DEF Reached
  <2>6. Good(w[0].cache, d, G, H, K)
      BY <2>4
  <2> QED
      BY <1>2, <2>5, <2>6
<1>4. \A k \in 0 .. n - 1 : k \in T => k + 1 \in T
  <2> SUFFICES ASSUME NEW k \in 0 .. n - 1, Good(w[k].cache, d, G, H, K), Reached(c, d, x, w[k], k)
               PROVE  Good(w[k + 1].cache, d, G, H, K) /\ Reached(c, d, x, w[k + 1], k + 1)
      BY <1>2
  <2> DEFINE i == k + 1
             b == w[k].cache
             at == SubSeq(x, 1, k)
             to == SubSeq(x, 1, k + 1)
  <2>1. i \in 1 .. n /\ i \in 0 .. n /\ i - 1 = k /\ k \in 0 .. n /\ i > 0 /\ k < n
      BY <1>2
  <2>2. at \in Nodes /\ to \in Tree /\ Parent(to) = at /\ Len(at) = k
      BY <2>1, Ancestors
  <2>3. w[i] = IF w[k].ok /\ i <= MaxLevel THEN Step(b, d, x, i) ELSE w[k]
      BY <1>1, <2>1 DEF OnWalk
  <2>4. CASE w[k].ok /\ i <= MaxLevel
    <3>1. Known(b, at)
        BY <1>2, <2>1, <2>4 DEF Reached
    <3> DEFINE s == Step(b, d, x, i)
    <3>2. /\ s.ok \in BOOLEAN
          /\ s.cache \in {b, Update(b, d, at)}
          /\ i # MaxLevel => (s.ok <=> Known(s.cache, to))
          /\ i = MaxLevel => (s.ok <=> x \in d)
        BY <2>1, StepIs
    <3>3. Good(s.cache, d, G, H, K) /\ (s.cache = b \/ Touches(b, s.cache, at))
      <4> HIDE DEF at, to, b, i, s
      <4>1. Good(b, d, G, H, K)
          BY DEF b
      <4> QED
          BY <2>2, <3>1, <3>2, <4>1, UpdateGood
    <3>4. x \in Below[at]
      <4>1. x \in Tree /\ SubSeq(x, 1, Len(at)) = at /\ Len(at) < Len(x)
          BY <2>1, <2>2, <1>2, NodePath
      <4> QED
          BY <2>2, <4>1, BelowIs
    <3>5. /\ s.cache[x] \in {b[x], InitNode, NoNode}
          /\ \A y \in Below[x] : s.cache[y] \in {b[y], InitNode, NoNode}
        BY <2>2, <3>3, <3>4, BelowTransitive DEF Touches
    <3> HIDE DEF s
    <3>6. Reached(c, d, x, s, i)
        BY <1>2, <2>1, <2>4, <3>2, <3>5 DEF Reached
    <3>7. w[i] = s
        BY <2>3, <2>4 DEF s
    <3> QED
        BY <3>3, <3>6, <3>7
  <2>5. CASE ~(w[k].ok /\ i <= MaxLevel)
    <3>1. w[i] = w[k]
        BY <2>3, <2>5
    <3>2. i < MaxLevel => ~w[k].ok /\ ~Known(b, to)
      <4> HAVE i < MaxLevel
      <4>1. ~w[k].ok /\ k < MaxLevel
          BY <1>2, <2>1, <2>5
      <4>2. ~Known(b, at)
          BY <4>1 DEF Reached
      <4> QED
          BY <2>2, <4>1, <4>2, KnownIs DEF Good
    <3>3. i >= MaxLevel /\ w[k].ok => x \in d
        BY <1>2, <2>1, <2>5 DEF Reached
    <3> QED
        BY <3>1, <3>2, <3>3 DEF Reached
  <2> QED
      BY <2>4, <2>5
<1>5. 0 .. n \subseteq T
  <2> HIDE DEF T
  <2> QED
      BY <1>2, <1>3, <1>4, InductionUpTo
<1> QED
    BY <1>5

(* So does find.                                                            *)
LEMMA FindGood ==
    ASSUME NEW G \in SUBSET Tree, NEW H \in SUBSET Tree, NEW K \in SUBSET Tree,
           NEW c, NEW d \in Disks, Good(c, d, G, H, K), NEW x \in Nodes
    PROVE  /\ Good(Find(c, d, x).cache, d, G, H, K)
           /\ Reached(c, d, x, Find(c, d, x), Len(x))
<1>1. PICK w : IsWalk(c, d, x, w) /\ Find(c, d, x) = w[Len(x)]
    BY FindWalks DEF IsWalk
<1>2. Len(x) \in 0 .. Len(x)
    BY NodePath
<1>3. Good(w[Len(x)].cache, d, G, H, K) /\ Reached(c, d, x, w[Len(x)], Len(x))
    BY <1>1, <1>2, WalkGood
<1> QED
    BY <1>1, <1>3

(* With an entry, all the directories it is in are on the disk. *)
LEMMA AncestorsOnDisk ==
    ASSUME NEW d \in Disks, NEW x \in d, NEW i \in 0 .. Len(x)
    PROVE  Exists(d, SubSeq(x, 1, i))
<1> DEFINE n == Len(x)
           T == {k \in 0 .. n : Exists(d, SubSeq(x, 1, n - k))}
<1>1. x \in Tree /\ x \in Nodes /\ n \in Nat /\ x \in Seq(Nat)
    BY NodePath DEF Disks, Nodes
<1>2. 0 \in T
  <2>1. n - 0 = n /\ 0 \in 0 .. n /\ SubSeq(x, 1, n) = x
      BY <1>1, SubSeqFull
  <2> QED
      BY <2>1 DEF Exists
<1>3. \A k \in 0 .. n - 1 : k \in T => k + 1 \in T
  <2> SUFFICES ASSUME NEW k \in 0 .. n - 1, Exists(d, SubSeq(x, 1, n - k))
               PROVE  Exists(d, SubSeq(x, 1, n - (k + 1)))
      BY <1>1
  <2>1. n - k \in 0 .. n /\ (n - k) - 1 = n - (k + 1) /\ n - k > 0
      BY <1>1
  <2> DEFINE y == SubSeq(x, 1, n - k)
  <2>2. y \in Tree /\ Parent(y) = SubSeq(x, 1, (n - k) - 1)
      BY <1>1, <2>1, Ancestors
  <2>3. Exists(d, y)
      OBVIOUS
  <2> HIDE DEF y
  <2>4. y \in d
      BY <2>2, <2>3, NodePath DEF Exists, Nodes
  <2>5. Exists(d, Parent(y))
      BY <2>4 DEF Disks
  <2> QED
      BY <2>1, <2>2, <2>5
<1>4. 0 .. n \subseteq T
  <2> HIDE DEF T
  <2> QED
      BY <1>1, <1>2, <1>3, InductionUpTo
<1>5. n - i \in 0 .. n /\ n - (n - i) = i
    BY <1>1
<1>6. n - i \in T
    BY <1>4, <1>5
<1> QED
    BY <1>5, <1>6

-----------------------------------------------------------------------------
(* What has aged is read again *)

Aged(c, y) == c[y].old \/ c[y].state \in {"none", "init"}

(* Along a way that has aged every directory is read that is gone through.  *)
LEMMA AgedFound ==
    ASSUME NEW c \in Caches, NEW d \in Disks, NEW x \in Tree,
           \A k \in 0 .. Len(x) - 1 : Aged(c, SubSeq(x, 1, k))
    PROVE  Find(c, d, x).ok <=> x \in d
<1> DEFINE n == Len(x)
<1>1. PICK w : /\ \A i \in 0 .. n : w[i] = OnWalk(c, d, x, w, i)
               /\ Find(c, d, x) = w[n]
    BY FindWalks DEF Nodes
<1>2. x \in Nodes /\ n \in Nat /\ n >= 1 /\ MaxLevel \in Nat /\ MaxLevel > 1 /\ x \in Seq(Nat)
    BY NodePath, FsCacheAssumption DEF Nodes
<1>3. \A i \in 0 .. n : w[i].cache \in Caches /\ Reached(c, d, x, w[i], i)
  <2>1. Good(c, d, {}, {}, {})
      BY DEF Good
  <2>2. IsWalk(c, d, x, w)
      BY <1>1 DEF IsWalk
  <2>3. \A i \in 0 .. n : Good(w[i].cache, d, {}, {}, {}) /\ Reached(c, d, x, w[i], i)
      BY <1>2, <2>1, <2>2, WalkGood
  <2> QED
      BY <2>3 DEF Good
<1> DEFINE T == {i \in 0 .. n :
                   /\ i < MaxLevel =>
                         (Known(w[i].cache, SubSeq(x, 1, i)) <=> Exists(d, SubSeq(x, 1, i)))
                   /\ i >= MaxLevel => (w[i].ok <=> x \in d)
                   /\ \A k \in i .. n - 1 : Aged(w[i].cache, SubSeq(x, 1, k))}
<1>4. 0 \in T
  <2>1. 0 \in 0 .. n /\ 0 < MaxLevel /\ ~(0 >= MaxLevel)
      BY <1>2
  <2>2. w[0] = [cache |-> c, ok |-> TRUE]
      BY <1>1, <2>1 DEF OnWalk
  <2>3. SubSeq(x, 1, 0) = Root
    <3>1. SubSeq(x, 1, 0) \in Nodes /\ Len(SubSeq(x, 1, 0)) = 0
        BY <1>2, <2>1, Ancestors
    <3> QED
        BY <3>1, NodePath
  <2>4. Known(c, Root) /\ Exists(d, Root)
      BY DEF Caches, Exists
  <2>5. w[0].cache = c
      BY <2>2
  <2>6. \A k \in 0 .. n - 1 : Aged(w[0].cache, SubSeq(x, 1, k))
      BY <2>5
  <2>7. Known(w[0].cache, SubSeq(x, 1, 0)) <=> Exists(d, SubSeq(x, 1, 0))
      BY <2>3, <2>4, <2>5
  <2> QED
      BY <2>1, <2>6, <2>7
<1>5. \A k \in 0 .. n - 1 : k \in T => k + 1 \in T
  <2>0. SUFFICES ASSUME NEW k \in 0 .. n - 1, k \in T PROVE k + 1 \in T
      OBVIOUS
  <2> DEFINE i == k + 1
             b == w[k].cache
             at == SubSeq(x, 1, k)
             to == SubSeq(x, 1, k + 1)
  <2>1. /\ i \in 1 .. n /\ i \in 0 .. n /\ i - 1 = k /\ k \in 0 .. n
        /\ i > 0 /\ k < n /\ k \in k .. n - 1
      BY <1>2
  <2>2. at \in Nodes /\ to \in Tree /\ Parent(to) = at /\ Len(at) = k /\ Folder(at)
      BY <1>2, <2>1, Ancestors
  <2>3. w[i] = IF w[k].ok /\ i <= MaxLevel THEN Step(b, d, x, i) ELSE w[k]
      BY <1>1, <2>1 DEF OnWalk
  <2>4. /\ k < MaxLevel => (Known(b, at) <=> Exists(d, at))
        /\ k >= MaxLevel => (w[k].ok <=> x \in d)
        /\ \A m \in k .. n - 1 : Aged(b, SubSeq(x, 1, m))
      BY <2>0
  <2>5. b \in Caches /\ (k < MaxLevel => (w[k].ok <=> Known(b, at)))
      BY <1>3, <2>1 DEF Reached
  <2>6. CASE w[k].ok /\ i <= MaxLevel
    <3> DEFINE s == Step(b, d, x, i)
    <3>1. k < MaxLevel /\ Known(b, at) /\ Exists(d, at)
        BY <1>2, <2>1, <2>4, <2>5, <2>6
    <3>2. Reads(b, at) /\ b[at] # Fresh
        BY <2>1, <2>4, <3>1 DEF Reads, Aged, Known, Fresh
    <3>3. s.cache = Update(b, d, at) /\ (i = MaxLevel => (s.ok <=> x \in d))
        BY <1>2, <2>1, <3>2, StepIs
    <3>4. i < MaxLevel => (Known(s.cache, to) <=> Exists(d, to))
      <4> HAVE i < MaxLevel
      <4>1. Level(at) # 1
        <5>1. Level(at) = MaxLevel - k
            BY <1>2, <2>1, LevelIs
        <5> QED
            BY <1>2, <2>1, <5>1
      <4>2. Known(Update(b, d, at), to) <=> to \in d
        <5> HIDE DEF at, to, b, i
        <5> QED
          BY <2>2, <2>5, <3>1, <3>2, <4>1, UpdateReads
      <4>3. to # Root
          BY <2>2, NodePath DEF Nodes
      <4> QED
          BY <3>3, <4>2, <4>3 DEF Exists
    <3>5. ASSUME NEW m \in i .. n - 1 PROVE Aged(s.cache, SubSeq(x, 1, m))
      <4> DEFINE y == SubSeq(x, 1, m)
      <4>1. m \in k .. n - 1 /\ m \in 0 .. Len(x) /\ m > 0 /\ k \in 0 .. m /\ k < m
          BY <1>2, <2>1
      <4>2. y \in Tree /\ Len(y) = m /\ SubSeq(y, 1, k) = at
          BY <1>2, <4>1, Ancestors, BeginningOfOne
      <4>3. y \in Below[at]
          BY <2>2, <4>1, <4>2, BelowIs
      <4>4. s.cache[y] \in {b[y], InitNode, NoNode}
          BY <2>2, <2>5, <3>1, <3>3, <4>3, UpdateIs DEF Touches
      <4>5. Aged(b, y)
          BY <2>4, <4>1
      <4> QED
          BY <4>4, <4>5, NodeTypes DEF Aged
    <3>6. w[i] = s
        BY <2>3, <2>6
    <3> HIDE DEF s
    <3>7. i >= MaxLevel => i = MaxLevel
        BY <1>2, <2>1, <2>6
    <3> QED
        BY <2>1, <3>3, <3>4, <3>5, <3>6, <3>7
  <2>7. CASE ~(w[k].ok /\ i <= MaxLevel)
    <3>1. w[i] = w[k]
        BY <2>3, <2>7
    <3>2. CASE i > MaxLevel
      <4>1. k >= MaxLevel /\ ~(i < MaxLevel)
          BY <1>2, <2>1, <3>2
      <4>2. \A m \in i .. n - 1 : m \in k .. n - 1
          BY <2>1
      <4> QED
          BY <2>1, <2>4, <3>1, <4>1, <4>2
    <3>3. CASE i <= MaxLevel
      <4>1. ~w[k].ok /\ k < MaxLevel /\ ~(k >= MaxLevel)
          BY <1>2, <2>1, <2>7, <3>3
      <4>2. ~Known(b, at) /\ ~Exists(d, at)
          BY <2>4, <2>5, <4>1
      <4>3. ~Known(b, to)
          BY <2>2, <2>5, <4>2, KnownIs
      <4>4. x \notin d
          BY <2>1, <4>2, AncestorsOnDisk
      <4>5. ~Exists(d, to)
          BY <2>2, <4>2, NodePath DEF Disks, Exists, Nodes
      <4>6. \A m \in i .. n - 1 : m \in k .. n - 1
          BY <2>1
      <4> QED
          BY <2>1, <2>4, <3>1, <4>1, <4>3, <4>4, <4>5, <4>6
    <3> QED
        BY <1>2, <2>1, <3>2, <3>3
  <2> QED
      BY <2>6, <2>7
<1>6. n \in T
  <2> HIDE DEF T
  <2>1. n \in 0 .. n
      BY <1>2
  <2> QED
      BY <1>2, <1>4, <1>5, <2>1, InductionUpTo
<1>7. SubSeq(x, 1, n) = x /\ (Exists(d, x) <=> x \in d)
    BY <1>2, SubSeqFull, NodePath DEF Exists
<1>8. n < MaxLevel => (w[n].ok <=> Known(w[n].cache, x))
  <2>1. n \in 0 .. n
      BY <1>2
  <2>2. Reached(c, d, x, w[n], n)
      BY <1>3, <2>1
  <2> QED
      BY <1>7, <2>2 DEF Reached
<1>9. /\ n < MaxLevel => (Known(w[n].cache, SubSeq(x, 1, n)) <=> Exists(d, SubSeq(x, 1, n)))
      /\ n >= MaxLevel => (w[n].ok <=> x \in d)
    BY <1>6
<1>10. w[n].ok <=> x \in d
  <2>1. CASE n < MaxLevel
      BY <1>7, <1>8, <1>9, <2>1
  <2>2. CASE ~(n < MaxLevel)
    <3>1. n >= MaxLevel
        BY <1>2, <2>2
    <3> QED
        BY <1>9, <3>1
  <2> QED
      BY <2>1, <2>2
<1> QED
    BY <1>1, <1>10

-----------------------------------------------------------------------------
(* What the look-ups do to the cache *)

(* job.conf is in the directory of the job.                                 *)
LEMMA ConfIs ==
    ASSUME NEW j \in Nodes
    PROVE  ConfOf(j) \in Tree => Parent(ConfOf(j)) = j
<1> HAVE ConfOf(j) \in Tree
<1>1. j \in Seq(Nat) /\ Conf \in Nat /\ Len(j) \in Nat
    BY NodePath, ProjectsAssumption
<1>2. /\ ConfOf(j) \in Seq(Nat) /\ Len(ConfOf(j)) = Len(j) + 1
      /\ \A i \in 1 .. Len(j) : ConfOf(j)[i] = j[i]
    BY <1>1, AppendProperties DEF ConfOf
<1>3. Len(j) \in 0 .. Len(ConfOf(j)) /\ Len(ConfOf(j)) - 1 = Len(j)
    BY <1>1, <1>2
<1> DEFINE y == SubSeq(ConfOf(j), 1, Len(j))
<1>4. y \in Seq(Nat) /\ Len(y) = Len(j) /\ \A i \in 1 .. Len(j) : y[i] = ConfOf(j)[i]
    BY <1>2, <1>3, Beginning
<1> HIDE DEF y
<1>5. y = j
    BY <1>1, <1>2, <1>4, SeqEqual
<1> QED
    BY <1>3, <1>5, ParentOf DEF y

(* A node that is modified is shown, and will be read: so it must be there. *)
LEMMA ModifiedGood ==
    ASSUME NEW G \in SUBSET Tree, NEW H \in SUBSET Tree, NEW K \in SUBSET Tree,
           NEW c, NEW d \in Disks, Good(c, d, G, H, K), NEW x \in Nodes,
           Level(x) > 0 => Known(c, x), x \in G => x \in d
    PROVE  /\ Good(Modified(c, x), d, G, H, K)
           /\ \A y \in Nodes : Known(Modified(c, x), y) <=> Known(c, y)
           /\ \A y \in Nodes : y # x => Modified(c, x)[y] = c[y]
           /\ Level(x) > 0 => Modified(c, x)[x] # Fresh /\ Shown(Modified(c, x), x)
<1> DEFINE m == Modified(c, x)
<1>1. CASE ~(Level(x) > 0)
    BY <1>1 DEF Modified
<1>2. CASE Level(x) > 0
  <2>1. c \in [Nodes -> Rec] /\ c \in Caches
      BY KnownIs DEF Good
  <2>2. m = [c EXCEPT ![x].state = "modified"]
      BY <1>2 DEF Modified
  <2> HIDE DEF m
  <2>3. /\ m \in [Nodes -> Rec]
        /\ m[x].state = "modified"
        /\ \A y \in Nodes : y # x => m[y] = c[y]
      BY <2>1, <2>2 DEF Rec, States
  <2>4. m[x] # Fresh /\ Shown(m, x) /\ Known(m, x)
      BY <2>3 DEF Fresh, Shown, Known, Deleted
  <2>5. \A y \in Nodes : Known(m, y) <=> Known(c, y)
      BY <1>2, <2>3, <2>4 DEF Known
  <2>6. m \in Caches
      BY <2>1, <2>3, <2>5, ParentOf DEF Caches, Rec, Nodes
  <2>7. ASSUME NEW y \in Tree PROVE y \in Nodes /\ Parent(y) \in Nodes /\ Parent(y) # y
      BY ParentOf, NodePath DEF Nodes
  <2>8. ASSUME NEW y \in G PROVE NoGhost(m, d, y)
    <3>1. CASE y = x
        BY <3>1 DEF NoGhost
    <3>2. CASE y # x
        BY <2>3, <2>4, <2>7, <3>2 DEF Good, NoGhost, Shown, Known, Deleted
    <3> QED
        BY <3>1, <3>2
  <2>9. ASSUME NEW y \in H PROVE NoGap(m, d, y)
    <3>1. CASE y = x
        BY <2>4, <3>1 DEF NoGap
    <3>2. CASE y # x
        BY <2>3, <2>4, <2>7, <3>2 DEF Good, NoGap, Shown, Known, Deleted
    <3> QED
        BY <3>1, <3>2
  <2>10. ASSUME NEW y \in K PROVE NoTrace(m, d, y)
      BY <2>3, <2>4, <2>5, <2>7 DEF Good, NoTrace
  <2> QED
      BY <2>3, <2>4, <2>5, <2>6, <2>8, <2>9, <2>10 DEF Good, m
<1> QED
    BY <1>1, <1>2

(* What begin, ++ and find return when Good(c, d, G, H, K): a listing       *)
(* leaves out nothing that has no gap, and shows a ghost only if it is      *)
(* overlooked; find has no ghosts.                                          *)
ListingShows(c, d, G, H, x) ==
    /\ Listed(c, d, x) \subseteq Children[x]
    /\ \A y \in Listed(c, d, x) : y \in G => y \in d \/ Overlooked(AfterListing(c, d, x), x, y)
    /\ \A y \in Children[x] \cap d : y \in H => y \in Listed(c, d, x)

ListingKnown(c, d, x) ==
    \A y \in Listed(c, d, x) : Level(y) > 0 => Known(AfterListing(c, d, x), y)

HasExact(c, d, G, x) ==
    Has(c, d, x) \subseteq Listed(c, d, x) /\ Has(c, d, x) \cap G \subseteq d

KeepsAbove(c, u, x) == \A z \in Nodes \ Below[x] : Known(c, z) => Known(u, z)

LEMMA ListingGood ==
    ASSUME NEW G \in SUBSET Tree, NEW H \in SUBSET Tree, NEW K \in SUBSET Tree,
           NEW c, NEW d \in Disks, Good(c, d, G, H, K), NEW x \in Nodes,
           Cached(x) => Known(c, x)
    PROVE  /\ Good(AfterListing(c, d, x), d, G, H, K)
           /\ KeepsAbove(c, AfterListing(c, d, x), x)
           /\ ListingShows(c, d, G, H, x)
           /\ ListingKnown(c, d, x)
           /\ HasExact(c, d, G, x)
<1>1. CASE ~Cached(x)
  <2>1. ASSUME NEW y \in Children[x] PROVE ~(Level(y) > 0)
    <3>1. y \in Tree /\ Parent(y) = x
        BY BelowInTree, ChildrenAre
    <3>2. Level(y) = Level(x) - 1 /\ Level(x) \in Int /\ ~(Level(x) > 1)
        BY <1>1, <3>1, LevelIs DEF Nodes
    <3> QED
        BY <3>2
  <2>2. /\ AfterListing(c, d, x) = c
        /\ Listed(c, d, x) = Children[x] \cap d
        /\ Has(c, d, x) = Children[x] \cap d
      BY <1>1 DEF AfterListing, Listed, Has
  <2> QED
      BY <2>1, <2>2 DEF ListingShows, ListingKnown, HasExact, KeepsAbove
<1>2. CASE Cached(x)
  <2> DEFINE u == Update(c, d, x)
  <2>1. c \in Caches /\ Known(c, x)
      BY <1>2 DEF Good
  <2>2. Good(u, d, G, H, K) /\ Known(u, x) /\ Touches(c, u, x)
      BY <2>1, UpdateGood
  <2>3. /\ AfterListing(c, d, x) = u
        /\ Has(c, d, x) = {y \in Children[x] : Shown(u, y)}
        /\ Listed(c, d, x) =
              {y \in Children[x] : Known(u, y) /\ (Deleted(u, y) => Overlooked(u, x, y))}
      BY <1>2 DEF AfterListing, Listed, Has, Named, Shown
  <2>4. ASSUME NEW y \in Children[x]
        PROVE  y \in Tree /\ Parent(y) = x /\ Level(x) # 1 /\ Folder(x)
      BY <1>2, BelowInTree, ChildrenAre, ParentOf, LevelIs
  <2>5. ASSUME NEW y \in Children[x] PROVE u[x] = Fresh \/ ~Exists(d, x)
      BY <2>1, <2>4, UpdateIs
  <2> HIDE DEF u
  <2>6. ASSUME NEW y \in Children[x], Shown(u, y), y \in G PROVE y \in d
      BY <2>2, <2>4, <2>5, <2>6 DEF Good, NoGhost
  <2>7. ASSUME NEW y \in Children[x], y \in H, y \in d PROVE Shown(u, y)
      BY <1>2, <2>2, <2>4, <2>5, <2>7 DEF Good, NoGap, Disks
  <2>8. KeepsAbove(c, u, x)
      BY <2>2 DEF Touches, Known, KeepsAbove
  <2>9. ListingKnown(c, d, x) /\ HasExact(c, d, G, x)
      BY <2>3, <2>6 DEF Shown, ListingKnown, HasExact
  <2>10. ListingShows(c, d, G, H, x)
    <3>1. ASSUME NEW y \in Listed(c, d, x), y \in G PROVE y \in d \/ Overlooked(u, x, y)
        BY <2>3, <2>6, <3>1 DEF Shown
    <3>2. ASSUME NEW y \in Children[x] \cap d, y \in H PROVE y \in Listed(c, d, x)
        BY <2>3, <2>7, <3>2 DEF Shown
    <3> QED
        BY <2>3, <3>1, <3>2 DEF ListingShows
  <2> QED
      BY <2>2, <2>3, <2>8, <2>9, <2>10
<1> QED
    BY <1>1, <1>2

(* The result of a look-up of x. *)
Looks(r, d, G, H, K, x) ==
    /\ Good(r.cache, d, G, H, K)
    /\ r.ok /\ Level(x) > 0 => Known(r.cache, x)

(* find is a look-up, which for what has a level asks the cache.            *)
LEMMA FindLooks ==
    ASSUME NEW G \in SUBSET Tree, NEW H \in SUBSET Tree, NEW K \in SUBSET Tree,
           NEW c, NEW d \in Disks, Good(c, d, G, H, K), NEW x \in Nodes
    PROVE  /\ Looks(Find(c, d, x), d, G, H, K, x)
           /\ ~Find(c, d, x).ok /\ Level(x) > 0 => ~Known(Find(c, d, x).cache, x)
<1> DEFINE f == Find(c, d, x)
<1>1. Good(f.cache, d, G, H, K) /\ Reached(c, d, x, f, Len(x))
    BY FindGood
<1>2. Len(x) \in Nat /\ MaxLevel \in Nat /\ SubSeq(x, 1, Len(x)) = x
    BY NodePath, FsCacheAssumption, SubSeqFull
<1>3. Level(x) > 0 => Len(x) < MaxLevel
    BY <1>2 DEF Level
<1> HIDE DEF f
<1>4. Level(x) > 0 => (f.ok <=> Known(f.cache, x))
    BY <1>1, <1>2, <1>3 DEF Reached
<1> QED
    BY <1>1, <1>4 DEF Looks, f

(* So is that of a project.                                                 *)
LEMMA GetProjectLooks ==
    ASSUME NEW G \in SUBSET Tree, NEW H \in SUBSET Tree, NEW K \in SUBSET Tree,
           NEW c, NEW d \in Disks, Good(c, d, G, H, K), NEW p \in Nodes
    PROVE  Looks(GetProject(c, d, p), d, G, H, K, p)
<1> DEFINE f == Find(c, d, p)
           g == GetProject(c, d, p)
<1>1. Looks(f, d, G, H, K, p)
    BY FindLooks
<1>2. g = [cache |-> f.cache, ok |-> f.ok /\ IsDirectory(f.cache, p)]
    BY DEF GetProject
<1> HIDE DEF f, g
<1>3. g.cache = f.cache /\ g.ok = (f.ok /\ IsDirectory(f.cache, p))
    BY <1>2, Zenon
<1>4. g.ok => f.ok
    BY <1>3
<1> QED
    BY <1>1, <1>3, <1>4 DEF Looks, g

(* So is find of an iterator.                                               *)
LEMMA EntryLooks ==
    ASSUME NEW G \in SUBSET Tree, NEW H \in SUBSET Tree, NEW K \in SUBSET Tree,
           NEW c, NEW d \in Disks, Good(c, d, G, H, K), NEW x \in Nodes,
           Cached(x) => Known(c, x), NEW y \in Tree, Parent(y) = x
    PROVE  /\ Looks(Entry(c, d, x, y), d, G, H, K, y)
           /\ Entry(c, d, x, y).ok /\ y \in G => y \in d
           /\ KeepsAbove(c, Entry(c, d, x, y).cache, x)
<1> DEFINE e == Entry(c, d, x, y)
<1>1. e = [cache |-> AfterListing(c, d, x), ok |-> y \in Has(c, d, x)]
    BY DEF Entry
<1> HIDE DEF e
<1>2. e.cache = AfterListing(c, d, x) /\ e.ok = (y \in Has(c, d, x))
    BY <1>1, Zenon
<1>3. e.ok => y \in Has(c, d, x)
    BY <1>2
<1> QED
  <2>1. /\ Good(AfterListing(c, d, x), d, G, H, K)
        /\ KeepsAbove(c, AfterListing(c, d, x), x)
        /\ ListingKnown(c, d, x)
        /\ HasExact(c, d, G, x)
      BY ListingGood
  <2>2. e.ok => (Level(y) > 0 => Known(AfterListing(c, d, x), y)) /\ (y \in G => y \in d)
      BY <1>3, <2>1 DEF ListingKnown, HasExact
  <2>3. Looks(e, d, G, H, K, y) /\ (e.ok /\ y \in G => y \in d) /\ KeepsAbove(c, e.cache, x)
      BY <1>2, <2>1, <2>2 DEF Looks
  <2> QED
      BY <2>3 DEF e

(* A job.conf that cannot be ghost never makes the program wait for its end. *)
LooksAtJob(c, r, d, G, H, K, j) ==
    /\ Good(r.cache, d, G, H, K)
    /\ \A z \in Nodes \ Below[j] : Known(c, z) => Known(r.cache, z)
    /\ r.hangs \in BOOLEAN
    /\ r.hangs => ConfOf(j) \in Tree \ G

(* is_entry of a job, and load_job_conf.                                    *)
LEMMA LookAtJobLooks ==
    ASSUME NEW G \in SUBSET Tree, NEW H \in SUBSET Tree, NEW K \in SUBSET Tree,
           NEW c, NEW d \in Disks, Good(c, d, G, H, K), NEW j \in Nodes,
           Cached(j) => Known(c, j)
    PROVE  LooksAtJob(c, LookAtJob(c, d, j), d, G, H, K, j)
<1> DEFINE y == ConfOf(j)
           e == Entry(c, d, j, y)
           l == LookAtJob(c, d, j)
<1>1. CASE l = NotFound(c)
    BY <1>1 DEF NotFound, LooksAtJob
<1>2. CASE y \in Tree /\ l = NotFound(e.cache)
  <2>1. Good(e.cache, d, G, H, K) /\ \A z \in Nodes \ Below[j] : Known(c, z) => Known(e.cache, z)
      BY <1>2, ConfIs, EntryLooks DEF Looks, KeepsAbove
  <2> QED
      BY <1>2, <2>1 DEF NotFound, LooksAtJob
<1>3. CASE y \in Tree /\ e.ok /\ l = LoadJobConf(e.cache, d, j)
  <2>1. /\ Good(e.cache, d, G, H, K) /\ (y \in G => y \in d)
        /\ \A z \in Nodes \ Below[j] : Known(c, z) => Known(e.cache, z)
      BY <1>3, ConfIs, EntryLooks DEF Looks, KeepsAbove
  <2> HIDE DEF e, y
  <2>2. l = [cache |-> e.cache, ok |-> y \in d, hangs |-> y \notin d]
      BY <1>3 DEF LoadJobConf, y
  <2> HIDE DEF l
  <2>3. l.cache = e.cache /\ l.ok = (y \in d) /\ l.hangs = (y \notin d)
      BY <2>2, Zenon
  <2>4. l.hangs \in BOOLEAN
      BY <2>3
  <2>5. l.hangs => y \in Tree \ G
      BY <1>3, <2>1, <2>3
  <2> QED
      BY <2>1, <2>3, <2>4, <2>5 DEF LooksAtJob, l, y
<1>4. \/ l = NotFound(c)
      \/ y \in Tree /\ l = NotFound(e.cache)
      \/ y \in Tree /\ e.ok /\ l = LoadJobConf(e.cache, d, j)
    BY DEF LookAtJob
<1> QED
    BY <1>1, <1>2, <1>3, <1>4

(* Looking up a job hangs only on its own job.conf. *)
LooksUpJob(r, d, G, H, K, j) ==
    /\ Looks(r, d, G, H, K, j)
    /\ r.hangs \in BOOLEAN
    /\ r.hangs => ConfOf(j) \in Tree \ G

(* get_job_info of a project.                                               *)
LEMMA JobOfLooks ==
    ASSUME NEW G \in SUBSET Tree, NEW H \in SUBSET Tree, NEW K \in SUBSET Tree,
           NEW c, NEW d \in Disks, Good(c, d, G, H, K), NEW j \in Tree,
           Cached(Parent(j)) => Known(c, Parent(j))
    PROVE  LooksUpJob(JobOf(c, d, j), d, G, H, K, j)
<1> DEFINE e == Entry(c, d, Parent(j), j)
           l == LookAtJob(e.cache, d, j)
           r == JobOf(c, d, j)
<1>0. j \in Nodes /\ Parent(j) \in Nodes
    BY ParentOf DEF Nodes
<1>1. r = IF e.ok THEN l ELSE NotFound(e.cache)
    BY DEF JobOf
<1>2. Looks(e, d, G, H, K, j)
    BY <1>0, EntryLooks
<1> HIDE DEF e
<1>3. CASE ~e.ok
  <2>1. r = NotFound(e.cache)
      BY <1>1, <1>3
  <2> QED
      BY <1>2, <2>1 DEF NotFound, LooksUpJob, Looks
<1>4. CASE e.ok
  <2>1. Level(j) > 0 => Known(e.cache, j)
      BY <1>2, <1>4 DEF Looks
  <2>2. Cached(j) => Level(j) > 0
      BY <1>0, LevelIs
  <2>3. LooksAtJob(e.cache, l, d, G, H, K, j)
    <3>1. Good(e.cache, d, G, H, K)
        BY <1>2 DEF Looks
    <3> QED
        BY <1>0, <2>1, <2>2, <3>1, LookAtJobLooks
  <2> HIDE DEF l, r
  <2>4. j \in Nodes \ Below[j]
      BY <1>0, BelowInTree
  <2> QED
      BY <1>1, <1>4, <2>1, <2>3, <2>4 DEF LooksAtJob, LooksUpJob, Looks, r
<1> QED
    BY <1>3, <1>4

(* get_job_info of the manager.                                             *)
LEMMA GetJobLooks ==
    ASSUME NEW G \in SUBSET Tree, NEW H \in SUBSET Tree, NEW K \in SUBSET Tree,
           NEW c, NEW d \in Disks, Good(c, d, G, H, K), NEW j \in Tree
    PROVE  LooksUpJob(GetJob(c, d, j), d, G, H, K, j)
<1> DEFINE g == GetProject(c, d, Parent(j))
           r == GetJob(c, d, j)
<1>1. Parent(j) \in Nodes
    BY ParentOf
<1>2. Looks(g, d, G, H, K, Parent(j))
    BY <1>1, GetProjectLooks
<1>3. r = IF g.ok THEN JobOf(g.cache, d, j) ELSE NotFound(g.cache)
    BY DEF GetJob
<1> HIDE DEF g
<1>4. CASE ~g.ok
  <2>1. r = NotFound(g.cache)
      BY <1>3, <1>4
  <2> QED
      BY <1>2, <2>1 DEF NotFound, LooksUpJob, Looks
<1>5. CASE g.ok
  <2>1. Cached(Parent(j)) => Known(g.cache, Parent(j))
      BY <1>1, <1>2, <1>5, LevelIs DEF Looks
  <2>2. LooksUpJob(JobOf(g.cache, d, j), d, G, H, K, j)
      BY <1>2, <2>1, JobOfLooks DEF Looks
  <2> QED
      BY <1>3, <1>5, <2>2
<1> QED
    BY <1>4, <1>5

(* get_build_info of the manager.                                           *)
LEMMA GetBuildLooks ==
    ASSUME NEW G \in SUBSET Tree, NEW H \in SUBSET Tree, NEW K \in SUBSET Tree,
           NEW c, NEW d \in Disks, Good(c, d, G, H, K), NEW b \in Tree, Parent(b) \in Tree
    PROVE  /\ Looks(GetBuild(c, d, b), d, G, H, K, b)
           /\ GetBuild(c, d, b).hangs \in BOOLEAN
           /\ GetBuild(c, d, b).hangs => ConfOf(Parent(b)) \in Tree \ G
<1> DEFINE j == Parent(b)
           g == GetJob(c, d, j)
           r == GetBuild(c, d, b)
<1>1. LooksUpJob(g, d, G, H, K, j)
    BY GetJobLooks
<1>2. r = IF g.ok THEN BuildOf(g.cache, d, b) ELSE g
    BY DEF GetBuild
<1> HIDE DEF g, r
<1>3. CASE ~g.ok
    BY <1>1, <1>2, <1>3 DEF LooksUpJob, Looks, r
<1>4. CASE g.ok
  <2> DEFINE e == Entry(g.cache, d, j, b)
  <2>1. Cached(j) => Known(g.cache, j)
    <3>1. j \in Nodes
        BY DEF Nodes
    <3> QED
        BY <1>1, <1>4, <3>1, LevelIs DEF LooksUpJob, Looks
  <2>2. Looks(e, d, G, H, K, b)
      BY <1>1, <2>1, EntryLooks DEF LooksUpJob, Looks, Nodes
  <2>3. r = [cache |-> e.cache, ok |-> e.ok /\ IsBuild(b), hangs |-> FALSE]
      BY <1>2, <1>4 DEF BuildOf
  <2> HIDE DEF e
  <2>4. r.cache = e.cache /\ r.ok = (e.ok /\ IsBuild(b)) /\ r.hangs = FALSE
      BY <2>3, Zenon
  <2>5. r.ok => e.ok
      BY <2>4
  <2> QED
      BY <2>2, <2>4, <2>5 DEF Looks, r
<1> QED
    BY <1>3, <1>4

(* A finite set, taken one by one.                                          *)
LEMMA JobsAsSequence ==
    ASSUME NEW S, IsFiniteSet(S)
    PROVE  /\ SetToSeq(S) \in [1 .. Cardinality(S) -> S]
           /\ Cardinality(S) \in Nat
           /\ Len(SetToSeq(S)) = Cardinality(S)
<1>1. Cardinality(S) \in Nat /\ ExistsBijection(1 .. Cardinality(S), S)
    BY FS_CardinalityType
<1>2. \E f : f \in [1 .. Cardinality(S) -> S] /\ IsInjective(f)
    BY <1>1 DEF ExistsBijection, Bijection, Injection, IsInjective
<1>3. SetToSeq(S) \in [1 .. Cardinality(S) -> S]
    BY <1>2 DEF SetToSeq
<1>4. SetToSeq(S) \in Seq(S)
    BY <1>1, <1>3, SeqDef
<1>5. Len(SetToSeq(S)) \in Nat /\ DOMAIN SetToSeq(S) = 1 .. Len(SetToSeq(S))
    BY <1>4, LenProperties
<1>6. 1 .. Cardinality(S) = 1 .. Len(SetToSeq(S))
    BY <1>3, <1>5
<1>7. Len(SetToSeq(S)) = Cardinality(S)
    BY <1>1, <1>5, <1>6
<1> QED
    BY <1>1, <1>3, <1>7

(* The jobs of a project are looked at one after the other. *)
OnJobs(c, d, p, jobs, look, i) ==
    IF i = 0 THEN [cache |-> AfterListing(c, d, p), hangs |-> FALSE]
    ELSE LET l == LookAtJob(look[i - 1].cache, d, jobs[i])
         IN  [cache |-> l.cache, hangs |-> look[i - 1].hangs \/ l.hangs]

(* The recursive function has these values.                                 *)
LEMMA LookAtJobsWalks ==
    ASSUME NEW c, NEW d, NEW p, NEW jobs,
           jobs = SetToSeq(Listed(c, d, p) \cap Dirs), Len(jobs) \in Nat
    PROVE  \E look : /\ \A i \in 0 .. Len(jobs) : look[i] = OnJobs(c, d, p, jobs, look, i)
                     /\ LookAtJobs(c, d, p) = look[Len(jobs)]
<1> DEFINE n == Len(jobs)
           Walks(m, w) == w = [i \in 0 .. m |-> OnJobs(c, d, p, jobs, w, i)]
           T == {m \in Nat : \E w : Walks(m, w)}
<1>1. 0 \in T
  <2> DEFINE w == [i \in 0 .. 0 |-> [cache |-> AfterListing(c, d, p), hangs |-> FALSE]]
  <2>1. w = [i \in 0 .. 0 |-> OnJobs(c, d, p, jobs, w, i)]
      BY DEF OnJobs
  <2> QED
      BY <2>1
<1>2. \A m \in Nat : m \in T => m + 1 \in T
  <2>0. SUFFICES ASSUME NEW m \in Nat, NEW w, Walks(m, w)
                 PROVE  m + 1 \in T
      OBVIOUS
  <2> DEFINE v == [i \in 0 .. m + 1 |-> IF i = m + 1 THEN OnJobs(c, d, p, jobs, w, m + 1) ELSE w[i]]
  <2>1. ASSUME NEW i \in 0 .. m + 1 PROVE v[i] = OnJobs(c, d, p, jobs, v, i)
    <3>1. i - 1 \in 0 .. m \/ i = 0
        OBVIOUS
    <3>2. i # 0 => v[i - 1] = w[i - 1]
        BY <3>1
    <3>3. OnJobs(c, d, p, jobs, v, i) = OnJobs(c, d, p, jobs, w, i)
        BY <3>2 DEF OnJobs
    <3>4. CASE i = m + 1
        BY <3>3, <3>4
    <3>5. CASE i # m + 1
      <4>1. i \in 0 .. m
          BY <3>5
      <4>2. w[i] = OnJobs(c, d, p, jobs, w, i)
          BY <4>1, <2>0
      <4> QED
          BY <3>3, <3>5, <4>2
    <3> QED
        BY <3>4, <3>5
  <2>2. Walks(m + 1, v)
      BY <2>1
  <2> HIDE DEF v
  <2>3. \E u : Walks(m + 1, u)
      BY <2>2
  <2> QED
      BY <2>3
<1>3. n \in T
  <2> HIDE DEF T
  <2> QED
      BY <1>1, <1>2, Induction
<1> DEFINE look == CHOOSE w : Walks(n, w)
<1>4. Walks(n, look)
    BY <1>3
<1>5. LookAtJobs(c, d, p) = look[n]
    BY DEF LookAtJobs, OnJobs
<1> HIDE DEF look
<1> QED
    BY <1>4, <1>5

(* get_job_list, by induction over the jobs that it looks at.               *)
LEMMA LookAtJobsLooks ==
    ASSUME NEW G \in SUBSET Tree, NEW H \in SUBSET Tree, NEW K \in SUBSET Tree,
           NEW c, NEW d \in Disks, Good(c, d, G, H, K), NEW p \in Nodes,
           Cached(p) => Known(c, p)
    PROVE  /\ Good(LookAtJobs(c, d, p).cache, d, G, H, K)
           /\ LookAtJobs(c, d, p).hangs \in BOOLEAN
           /\ LookAtJobs(c, d, p).hangs => \E j \in Children[p] : ConfOf(j) \in Tree \ G
<1> DEFINE S == Listed(c, d, p) \cap Dirs
           jobs == SetToSeq(S)
           n == Len(jobs)
<1>1. S \subseteq Children[p] /\ S \subseteq Tree /\ S \subseteq Nodes
  <2> HIDE DEF S
  <2>1. ListingShows(c, d, G, H, p)
      BY ListingGood
  <2>2. Children[p] \subseteq Tree /\ Tree \subseteq Nodes
      BY BelowInTree DEF Nodes
  <2> QED
      BY <2>1, <2>2 DEF S, ListingShows
<1>2. IsFiniteSet(S)
    BY <1>1, FsCacheAssumption, FS_Subset
<1>3. n \in Nat /\ \A i \in 1 .. n : jobs[i] \in S
  <2> HIDE DEF S
  <2> QED
      BY <1>2, JobsAsSequence
<1>4. PICK look : /\ \A i \in 0 .. n : look[i] = OnJobs(c, d, p, jobs, look, i)
                  /\ LookAtJobs(c, d, p) = look[n]
    BY <1>3, LookAtJobsWalks
<1> DEFINE Ok(l) == /\ Good(l.cache, d, G, H, K)
                    /\ l.hangs \in BOOLEAN
                    /\ l.hangs => \E j \in Children[p] : ConfOf(j) \in Tree \ G
                    /\ \A y \in S : Level(y) > 0 => Known(l.cache, y)
           T == {i \in 0 .. n : Ok(look[i])}
<1>5. 0 \in T
  <2>1. 0 \in 0 .. n
      BY <1>3
  <2>2. look[0] = [cache |-> AfterListing(c, d, p), hangs |-> FALSE]
      BY <1>4, <2>1 DEF OnJobs
  <2>3. Good(AfterListing(c, d, p), d, G, H, K) /\ ListingKnown(c, d, p)
      BY ListingGood
  <2>4. look[0].cache = AfterListing(c, d, p) /\ look[0].hangs = FALSE
      BY <2>2, SMT
  <2>5. \A y \in S : Level(y) > 0 => Known(AfterListing(c, d, p), y)
      BY <2>3 DEF ListingKnown
  <2> HIDE DEF S
  <2>6. Ok(look[0])
      BY <2>3, <2>4, <2>5
  <2> HIDE DEF Ok
  <2> QED
      BY <2>1, <2>6
<1>6. \A k \in 0 .. n - 1 : k \in T => k + 1 \in T
  <2>0. SUFFICES ASSUME NEW k \in 0 .. n - 1, Ok(look[k]) PROVE Ok(look[k + 1])
    <3> HIDE DEF Ok, n
    <3>1. \A k \in 0 .. n - 1 : k + 1 \in 0 .. n
        BY <1>3
    <3> QED
        BY <3>1
  <2> DEFINE b == look[k].cache
             j == jobs[k + 1]
             l == LookAtJob(b, d, j)
  <2>1. k + 1 \in 1 .. n /\ k + 1 \in 0 .. n /\ (k + 1) - 1 = k /\ k + 1 # 0
      BY <1>3
  <2>2. j \in S /\ j \in Nodes /\ j \in Children[p]
      BY <1>1, <1>3, <2>1
  <2>3. look[k + 1] = [cache |-> l.cache, hangs |-> look[k].hangs \/ l.hangs]
      BY <1>4, <2>1 DEF OnJobs
  <2>4. Cached(j) => Known(b, j)
      BY <2>0, <2>2, LevelIs
  <2>5. LooksAtJob(b, l, d, G, H, K, j)
    <3> HIDE DEF b, j
    <3>1. Good(b, d, G, H, K)
        BY <2>0 DEF b
    <3> QED
        BY <2>2, <2>4, <3>1, LookAtJobLooks
  <2>6. ASSUME NEW y \in S PROVE y \in Nodes \ Below[j]
    <3>1. Len(y) = Len(p) + 1 /\ Len(j) = Len(p) + 1 /\ Len(p) \in Nat /\ y \in Tree
        BY <1>1, <2>2, NodePath DEF Children
    <3> QED
        BY <1>1, <2>2, <3>1, BelowIs
  <2> HIDE DEF l, j
  <2> DEFINE h == look[k].hangs
             r == look[k + 1]
  <2>11. r = [cache |-> l.cache, hangs |-> h \/ l.hangs]
      BY <2>3
  <2> HIDE DEF h, r
  <2>12. r.cache = l.cache /\ r.hangs = (h \/ l.hangs)
      BY <2>11, Zenon
  <2>7. look[k + 1].cache = l.cache /\ look[k + 1].hangs = (look[k].hangs \/ l.hangs)
      BY <2>12 DEF h, r
  <2>8. look[k + 1].hangs \in BOOLEAN
      BY <2>0, <2>5, <2>7 DEF LooksAtJob
  <2>9. look[k + 1].hangs => \E i \in Children[p] : ConfOf(i) \in Tree \ G
      BY <2>0, <2>2, <2>5, <2>7 DEF LooksAtJob
  <2>10. \A y \in S : Level(y) > 0 => Known(l.cache, y)
      BY <2>0, <2>5, <2>6 DEF LooksAtJob
  <2> QED
      BY <2>5, <2>7, <2>8, <2>9, <2>10 DEF LooksAtJob
<1>7. 0 .. n \subseteq T
  <2> HIDE DEF T, n
  <2> QED
      BY <1>3, <1>5, <1>6, InductionUpTo
<1>8. Ok(look[n])
  <2> HIDE DEF Ok, n
  <2>1. n \in 0 .. n
      BY <1>3
  <2> QED
      BY <1>7, <2>1
<1> QED
    BY <1>4, <1>8

-----------------------------------------------------------------------------
(* What the changes do to the cache *)

(* Where more exists there are no more ghosts and traces, and no more gaps  *)
(* but of what is new.                                                      *)
LEMMA GrowsGood ==
    ASSUME NEW G \in SUBSET Tree, NEW H \in SUBSET Tree, NEW K \in SUBSET Tree,
           NEW c, NEW d \in Disks, NEW e \in Disks, Good(c, d, G, H, K),
           d \subseteq e, \A y \in H : y \in e => y \in d
    PROVE  Good(c, e, G, H, K)
<1>1. \A y \in G : NoGhost(c, e, y)
  <2>1. SUFFICES ASSUME NEW y \in G PROVE NoGhost(c, e, y)
      OBVIOUS
  <2>2. NoGhost(c, d, y)
      BY DEF Good
  <2>3. ~Exists(e, Parent(y)) => ~Exists(d, Parent(y))
      BY DEF Exists
  <2> QED
      BY <2>2, <2>3 DEF NoGhost
<1>2. (\A y \in H : NoGap(c, e, y)) /\ (\A y \in K : NoTrace(c, e, y))
    BY DEF Good, NoGap, NoTrace
<1> QED
    BY <1>1, <1>2 DEF Good

(* What is in a directory that will be read before it is listed is listed   *)
(* as it is.                                                                *)
LEMMA ReadAgain ==
    ASSUME NEW c, NEW d, NEW y, c[Parent(y)] # Fresh, Exists(d, Parent(y))
    PROVE  NoGhost(c, d, y) /\ NoGap(c, d, y) /\ NoTrace(c, d, y)
BY DEF NoGhost, NoGap, NoTrace

(* A directory that was invalidated will be read, whether it was found or   *)
(* not.                                                                     *)
LEMMA InvalidateGood ==
    ASSUME NEW G \in SUBSET Tree, NEW H \in SUBSET Tree, NEW K \in SUBSET Tree,
           NEW c, NEW d \in Disks, Good(c, d, G, H, K), NEW x \in Nodes, x \in G => x \in d
    PROVE  /\ Good(Invalidate(c, d, x), d, G, H, K)
           /\ Invalidate(c, d, x)[x] # Fresh
<1> DEFINE f == Find(c, d, x)
<1>1. /\ Looks(f, d, G, H, K, x)
      /\ ~f.ok /\ Level(x) > 0 => ~Known(f.cache, x)
    BY FindLooks
<1>2. Invalidate(c, d, x) = IF f.ok THEN Modified(f.cache, x) ELSE f.cache
    BY DEF Invalidate
<1> HIDE DEF f
<1>3. Good(f.cache, d, G, H, K) /\ f.cache \in Caches
    BY <1>1 DEF Looks, Good
<1>4. ~Known(f.cache, x) => f.cache[x] # Fresh
    BY DEF Known, Fresh
<1>5. ~(Level(x) > 0) => ~Known(f.cache, x)
    BY <1>3, KnownIs, LevelIs
<1>6. CASE f.ok
  <2>1. /\ Good(Modified(f.cache, x), d, G, H, K)
        /\ Level(x) > 0 => Modified(f.cache, x)[x] # Fresh
    <3>1. Level(x) > 0 => Known(f.cache, x)
        BY <1>1, <1>6 DEF Looks
    <3> QED
        BY <1>3, <3>1, ModifiedGood
  <2>2. ~(Level(x) > 0) => Modified(f.cache, x) = f.cache
      BY DEF Modified
  <2> QED
      BY <1>2, <1>4, <1>5, <1>6, <2>1, <2>2
<1>7. CASE ~f.ok
    BY <1>1, <1>2, <1>3, <1>4, <1>5, <1>7
<1> QED
    BY <1>6, <1>7

(* The cache after a removal of x. *)
Forgotten(c, x) == IF Level(x) > 0 THEN Forget(c, x) ELSE c

(* Nothing is shown any more of what was removed.                           *)
LEMMA ForgetIs ==
    ASSUME NEW c \in Caches, NEW x \in Tree, Level(x) > 0 => Known(c, x)
    PROVE  /\ Forgotten(c, x) \in Caches
           /\ \A y \in Nodes : y # x /\ y \notin Below[x] => Forgotten(c, x)[y] = c[y]
           /\ \A y \in Below[x] \cup {x} :
                 ~Shown(Forgotten(c, x), y) /\ Forgotten(c, x)[y] # Fresh
<1> DEFINE f == Forgotten(c, x)
<1>0. x \in Nodes /\ Below[x] \subseteq Tree /\ x \notin Below[x]
    BY BelowInTree DEF Nodes
<1>1. c \in [Nodes -> Rec] /\ Known(c, Root)
      /\ (\A y \in Tree : Known(c, y) => Known(c, Parent(y)) /\ Level(y) >= 1)
    BY KnownIs
<1>2. CASE Level(x) > 0
  <2>1. f = [y \in Nodes |-> IF y = x THEN [c[x] EXCEPT !.state = "removed"]
                     ELSE IF y \in Below[x] THEN NoNode
                     ELSE c[y]]
      BY <1>2 DEF Forgotten, Forget
  <2> HIDE DEF f
  <2>2. c[x] \in Rec
      BY <1>0, <1>1
  <2>3. /\ [c[x] EXCEPT !.state = "removed"] \in Rec
        /\ [c[x] EXCEPT !.state = "removed"].state = "removed"
      BY <2>2 DEF Rec, States
  <2>4. f[x].state = "removed" /\ (\A y \in Below[x] : f[y] = NoNode)
        /\ \A y \in Nodes : y # x /\ y \notin Below[x] => f[y] = c[y]
      BY <1>0, <2>1, <2>3 DEF Nodes
  <2>5. f \in [Nodes -> Rec]
      BY <1>1, <2>1, <2>3, NodeTypes DEF Rec
  <2>6. ~Shown(f, x) /\ f[x] # Fresh /\ Known(f, x)
      BY <2>4 DEF Shown, Deleted, Known, Fresh
  <2>7. \A y \in Below[x] : ~Known(f, y) /\ ~Shown(f, y) /\ f[y] # Fresh
      BY <2>4, NodeTypes DEF Shown, Known
  <2>8. Known(f, Root)
    <3>1. Root # x /\ Root \notin Below[x] /\ Root \in Nodes
        BY <1>0, NodePath DEF Nodes
    <3> QED
        BY <1>1, <2>4, <3>1 DEF Known
  <2>9. ASSUME NEW y \in Tree, Known(f, y) PROVE Known(f, Parent(y)) /\ Level(y) >= 1
    <3>1. y \notin Below[x] /\ y \in Nodes /\ Parent(y) \in Nodes
        BY <2>7, <2>9, ParentOf DEF Nodes
    <3>2. Parent(y) # x /\ Parent(y) \notin Below[x]
        BY <1>0, <3>1, BelowByParent
    <3>3. f[Parent(y)] = c[Parent(y)]
        BY <2>4, <3>1, <3>2
    <3>4. Known(c, y)
        BY <1>2, <2>4, <2>9, <3>1 DEF Known
    <3> QED
        BY <1>1, <3>3, <3>4 DEF Known
  <2>10. f \in Caches
      BY <2>5, <2>8, <2>9 DEF Caches, Rec
  <2> QED
      BY <2>4, <2>6, <2>7, <2>10 DEF f
<1>3. CASE ~(Level(x) > 0)
  <2>1. f = c
      BY <1>3 DEF Forgotten
  <2>2. ASSUME NEW y \in Below[x] \cup {x} PROVE ~Known(c, y)
    <3>1. y \in Tree /\ y \in Nodes
        BY <1>0 DEF Nodes
    <3>2. Len(y) >= Len(x)
        BY <1>0, <3>1, BelowIs, NodePath
    <3>3. ~(Level(y) >= 1)
        BY <1>0, <1>3, <3>1, <3>2, NodePath, FsCacheAssumption DEF Level
    <3> QED
        BY <1>1, <3>1, <3>3
  <2>3. \A y \in Below[x] \cup {x} : ~Shown(c, y) /\ c[y] # Fresh
      BY <2>2 DEF Shown, Known, Fresh
  <2> QED
      BY <2>1, <2>3
<1> QED
    BY <1>2, <1>3

(* A removal makes no ghosts: not of what was removed, and not elsewhere.   *)
LEMMA ForgetGood ==
    ASSUME NEW G \in SUBSET Tree, NEW c, NEW d \in Disks, NEW e \in Disks, NEW x \in Tree,
           e \subseteq d, d \ e \subseteq Below[x] \cup {x},
           Good(c, d, G, {}, {}), Level(x) > 0 => Known(c, x)
    PROVE  Good(Forgotten(c, x), e, G, {}, {})
<1> DEFINE f == Forgotten(c, x)
<1>1. /\ f \in Caches
      /\ \A y \in Nodes : y # x /\ y \notin Below[x] => f[y] = c[y]
      /\ \A y \in Below[x] \cup {x} : ~Shown(f, y) /\ f[y] # Fresh
    BY ForgetIs DEF Good
<1> HIDE DEF f
<1>2. ASSUME NEW y \in G PROVE NoGhost(f, e, y)
  <2>1. CASE y \in Below[x] \cup {x}
      BY <1>1, <2>1 DEF NoGhost
  <2>2. CASE y \notin Below[x] \cup {x}
    <3>1. y \in Nodes /\ Parent(y) \in Nodes /\ x \in Nodes
        BY ParentOf DEF Nodes
    <3>2. Parent(y) # x /\ Parent(y) \notin Below[x]
        BY <2>2, <3>1, BelowByParent
    <3>3. f[y] = c[y] /\ f[Parent(y)] = c[Parent(y)]
        BY <1>1, <2>2, <3>1, <3>2
    <3>4. (y \in e <=> y \in d) /\ (Exists(e, Parent(y)) <=> Exists(d, Parent(y)))
        BY <2>2, <3>2 DEF Exists
    <3>5. NoGhost(c, d, y)
        BY DEF Good
    <3> QED
        BY <3>3, <3>4, <3>5 DEF NoGhost, Shown, Known, Deleted
  <2> QED
      BY <2>1, <2>2
<1> QED
    BY <1>1, <1>2 DEF Good, f

-----------------------------------------------------------------------------
(* What the changes do to the disk *)

(* A directory that is made has the directories it is in.                   *)
LEMMA MadeIsDisk ==
    ASSUME NEW d \in Disks, NEW x \in Tree
    PROVE  /\ WithParents(d, x) \in Disks
           /\ d \subseteq WithParents(d, x) /\ x \in WithParents(d, x)
           /\ Exists(WithParents(d, x), Parent(x))
           /\ \A y \in WithParents(d, x) \ d : y = x \/ x \in Below[y]
<1> DEFINE e == WithParents(d, x)
<1>1. e = d \cup {y \in Tree : y = x \/ IsStrictPrefix(y, x)}
    BY DEF WithParents
<1>2. \A y \in Tree : y = x \/ IsStrictPrefix(y, x) <=> y = x \/ x \in Below[y]
    BY BelowIs DEF Nodes
<1> HIDE DEF e
<1>3. ASSUME NEW y \in Tree, y = x \/ x \in Below[y]
      PROVE  Exists(e, Parent(y))
  <2>1. Parent(y) \in Nodes /\ y \in Below[Parent(y)]
      BY ParentOf, BelowByParent
  <2>2. x \in Below[Parent(y)]
      BY <1>3, <2>1, BelowTransitive
  <2>3. IsStrictPrefix(Parent(y), x)
      BY <2>1, <2>2, BelowIs
  <2> QED
      BY <1>1, <2>1, <2>3 DEF Exists, Nodes
<1>4. \A y \in e : Exists(e, Parent(y))
  <2>1. \A y \in d : y \in Tree /\ Exists(e, Parent(y))
      BY <1>1 DEF Disks, Exists
  <2> QED
      BY <1>1, <1>2, <1>3, <2>1
<1>5. e \subseteq Tree
    BY <1>1 DEF Disks
<1> QED
    BY <1>1, <1>2, <1>3, <1>4, <1>5 DEF Disks, e

(* What a removal leaves is a disk, and every entry that it does not leave  *)
(* is x or below it.                                                        *)
LEMMA RemovedIsDisk ==
    ASSUME NEW d \in Disks, NEW x \in Tree, NEW left \in Leftovers(d, x)
    PROVE  LET e == d \ (Subtree(d, x) \ left)
           IN  /\ e \in Disks
               /\ e \subseteq d /\ d \ e \subseteq Below[x] \cup {x}
               /\ Exists(d, Parent(x)) => Exists(e, Parent(x))
<1> DEFINE e == d \ (Subtree(d, x) \ left)
<1>0. x \in Nodes /\ x \notin Below[x] /\ Below[x] \subseteq Tree
    BY BelowInTree DEF Nodes
<1>1. /\ left \subseteq d /\ left \subseteq Below[x] \cup {x}
      /\ \A y \in left : y = x \/ Parent(y) \in left
    BY DEF Leftovers, Trees
<1>2. d \subseteq Tree /\ \A y \in d : Exists(d, Parent(y))
    BY DEF Disks
<1>3. \A y \in d : y \in e <=> y \notin Below[x] \cup {x} \/ y \in left
    BY DEF Subtree
<1>4. e \subseteq d
    OBVIOUS
<1> HIDE DEF e
<1>5. ASSUME NEW y \in e PROVE Exists(e, Parent(y))
  <2>1. y \in d /\ y \in Tree /\ Exists(d, Parent(y))
      BY <1>2, <1>4
  <2>2. CASE Parent(y) \notin Below[x] \cup {x}
      BY <1>3, <2>1, <2>2 DEF Exists
  <2>3. CASE Parent(y) \in Below[x] \cup {x}
    <3>1. y \in Below[x]
        BY <1>0, <2>1, <2>3, BelowByParent
    <3>2. y \in left /\ y # x
        BY <1>0, <1>3, <2>1, <3>1
    <3> QED
        BY <1>1, <1>3, <3>2 DEF Exists
  <2> QED
      BY <2>2, <2>3
<1>6. Exists(d, Parent(x)) => Exists(e, Parent(x))
  <2>1. Parent(x) \notin Below[x] \cup {x}
      BY <1>0, BelowByParent
  <2> QED
      BY <1>3, <2>1 DEF Exists
<1> QED
    BY <1>2, <1>3, <1>4, <1>5, <1>6 DEF Disks, e

(* Nothing is left as well. *)
LEMMA NothingLeft ==
    ASSUME NEW d, NEW x
    PROVE  {} \in Leftovers(d, x) /\ d \ (Subtree(d, x) \ {}) = d \ Subtree(d, x)
BY DEF Leftovers, Trees

(* An entry is made where its directory is. *)
LEMMA AddedIsDisk ==
    ASSUME NEW d \in Disks, NEW x \in Tree, Exists(d, Parent(x))
    PROVE  d \cup {x} \in Disks
BY DEF Disks, Exists

(* Where an entry is that was moved with old to new. *)
LEMMA TargetHas ==
    ASSUME NEW old \in Seq(Nat), NEW new \in Seq(Nat), NEW z \in Seq(Nat), Len(old) <= Len(z)
    PROVE  LET t == Target(old, new, z)
           IN  /\ t \in Seq(Nat) /\ Len(t) = Len(new) + (Len(z) - Len(old))
               /\ \A k \in 1 .. Len(t) :
                     t[k] = IF k <= Len(new) THEN new[k] ELSE z[k - Len(new) + Len(old)]
<1> DEFINE o == Len(old)
           m == Len(z)
           n == Len(new)
           s == SubSeq(z, o + 1, m)
<1>1. o \in Nat /\ m \in Nat /\ n \in Nat /\ o <= m
    BY LenProperties
<1>2. \A i \in o + 1 .. m : z[i] \in Nat
  <2>1. ASSUME NEW i \in o + 1 .. m PROVE z[i] \in Nat
    <3>1. i \in 1 .. Len(z)
        BY <1>1
    <3> QED
        BY <3>1, ElementOfSeq
  <2> QED
      BY <2>1
<1>3. o + 1 \in Int /\ m \in Int
    BY <1>1
<1>4. /\ s \in Seq(Nat)
      /\ Len(s) = IF o + 1 <= m THEN m - (o + 1) + 1 ELSE 0
      /\ \A i \in 1 .. m - (o + 1) + 1 : s[i] = z[(o + 1) + i - 1]
  <2> HIDE DEF o, m
  <2> QED
      BY <1>2, <1>3, SubSeqProperties
<1>5. Len(s) = m - o /\ \A i \in 1 .. m - o : s[i] = z[o + i]
  <2> HIDE DEF o, m, s
  <2>1. m - (o + 1) + 1 = m - o /\ (o + 1 <= m \/ m - o = 0)
      BY <1>1
  <2>2. \A i \in 1 .. m - o : (o + 1) + i - 1 = o + i
      BY <1>1
  <2> QED
      BY <1>1, <1>4, <2>1, <2>2
<1>6. /\ new \o s \in Seq(Nat)
      /\ Len(new \o s) = n + Len(s)
      /\ \A i \in 1 .. n + Len(s) : (new \o s)[i] = IF i <= n THEN new[i] ELSE s[i - n]
  <2> HIDE DEF s
  <2> QED
      BY <1>4, ConcatProperties
<1> DEFINE t == new \o s
<1>7. ASSUME NEW k \in 1 .. n + (m - o)
      PROVE  t[k] = IF k <= n THEN new[k] ELSE z[k - n + o]
  <2> HIDE DEF t, s, n, m, o
  <2>1. t[k] = IF k <= n THEN new[k] ELSE s[k - n]
      BY <1>5, <1>6 DEF t
  <2>2. CASE k <= n
      BY <2>1, <2>2
  <2>3. CASE ~(k <= n)
    <3>1. k - n \in 1 .. m - o /\ o + (k - n) = k - n + o
        BY <1>1, <2>3
    <3>2. s[k - n] = z[o + (k - n)]
        BY <1>5, <3>1
    <3> QED
        BY <2>1, <2>3, <3>1, <3>2
  <2> QED
      BY <2>2, <2>3
<1>8. Target(old, new, z) = t
    BY DEF Target
<1> HIDE DEF t, s
<1> QED
    BY <1>5, <1>6, <1>7, <1>8 DEF t

(* It is new or below it, and what its directory became is its directory.   *)
LEMMA TargetIs ==
    ASSUME NEW old \in Nodes, NEW new \in Nodes, NEW z \in Below[old] \cup {old}
    PROVE  LET t == Target(old, new, z)
           IN  /\ t \in Nodes => t = new \/ IsStrictPrefix(new, t)
               /\ z = old => t = new
               /\ z # old => Front(t) = Target(old, new, Parent(z))
<1> DEFINE t == Target(old, new, z)
           o == Len(old)
           n == Len(new)
           m == Len(z)
<1>1. z \in Nodes /\ old \in Seq(Nat) /\ new \in Seq(Nat) /\ z \in Seq(Nat)
      /\ o \in Nat /\ n \in Nat /\ m \in Nat
    BY BelowInTree, NodePath DEF Nodes
<1>2. o <= m /\ (z # old => z \in Tree /\ o < m)
    BY <1>1, BelowIs, BelowInTree
<1>3. /\ t \in Seq(Nat) /\ Len(t) = n + (m - o)
      /\ \A k \in 1 .. Len(t) : t[k] = IF k <= n THEN new[k] ELSE z[k - n + o]
    BY <1>1, <1>2, TargetHas
<1> HIDE DEF t
<1>4. Len(t) \in Nat /\ n <= Len(t)
    BY <1>1, <1>2, <1>3
<1>5. SubSeq(t, 1, n) = new
  <2>1. n \in 0 .. Len(t)
      BY <1>1, <1>4
  <2>2. SubSeq(t, 1, n) \in Seq(Nat) /\ Len(SubSeq(t, 1, n)) = n
        /\ \A k \in 1 .. n : SubSeq(t, 1, n)[k] = t[k]
      BY <1>3, <2>1, Beginning
  <2>3. \A k \in 1 .. n : k \in 1 .. Len(t) /\ k <= n
      BY <1>1, <1>4
  <2>4. \A k \in 1 .. n : SubSeq(t, 1, n)[k] = new[k]
      BY <1>3, <2>2, <2>3
  <2> QED
      BY <1>1, <2>2, <2>4, SeqEqual
<1>6. t \in Nodes => t = new \/ IsStrictPrefix(new, t)
    BY <1>4, <1>5, PrefixIs
<1>7. z = old => t = new
  <2>1. SUFFICES ASSUME z = old PROVE t = new
      OBVIOUS
  <2>2. Len(t) = n
      BY <1>1, <1>3, <2>1
  <2> QED
      BY <1>3, <1>5, <2>2, SubSeqFull
<1>8. ASSUME z # old PROVE Front(t) = Target(old, new, Parent(z))
  <2> DEFINE p == Parent(z)
             u == Target(old, new, p)
  <2>1. z \in Tree /\ o < m
      BY <1>2, <1>8
  <2>2. p \in Nodes /\ p \in Seq(Nat) /\ Len(p) = m - 1 /\ p = SubSeq(z, 1, m - 1)
      BY <2>1, ParentOf, NodePath
  <2>3. \A k \in 1 .. m - 1 : p[k] = z[k]
    <3>1. m - 1 \in 0 .. Len(z)
        BY <1>1, <2>1
    <3> QED
        BY <1>1, <2>2, <3>1, Beginning
  <2>4. o <= Len(p)
      BY <1>1, <2>1, <2>2
  <2>5. /\ u \in Seq(Nat) /\ Len(u) = n + ((m - 1) - o)
        /\ \A k \in 1 .. Len(u) : u[k] = IF k <= n THEN new[k] ELSE p[k - n + o]
    <3> HIDE DEF p
    <3>1. /\ u \in Seq(Nat) /\ Len(u) = n + (Len(p) - o)
          /\ \A k \in 1 .. Len(u) : u[k] = IF k <= n THEN new[k] ELSE p[k - n + o]
        BY <1>1, <2>2, <2>4, TargetHas
    <3> QED
        BY <2>2, <3>1
  <2> HIDE DEF p, u
  <2>6. Len(t) - 1 = n + ((m - 1) - o) /\ Len(t) - 1 \in 0 .. Len(t)
      BY <1>1, <1>3, <2>1
  <2>7. Front(t) = SubSeq(t, 1, Len(t) - 1)
      BY DEF Front
  <2>8. Front(t) \in Seq(Nat) /\ Len(Front(t)) = Len(t) - 1
        /\ \A k \in 1 .. Len(t) - 1 : Front(t)[k] = t[k]
      BY <1>3, <2>6, <2>7, Beginning
  <2>9. ASSUME NEW k \in 1 .. Len(u) PROVE t[k] = u[k]
    <3>1. k \in 1 .. Len(t) /\ k \in 1 .. Len(t) - 1
        BY <1>1, <1>3, <2>1, <2>5
    <3>2. CASE k <= n
        BY <1>3, <2>5, <3>1, <3>2
    <3>3. CASE ~(k <= n)
      <4>1. k - n + o \in 1 .. m - 1
          BY <1>1, <2>1, <2>5, <3>3
      <4> QED
          BY <1>3, <2>3, <2>5, <3>1, <3>3, <4>1
    <3> QED
        BY <3>2, <3>3
  <2>10. Len(Front(t)) = Len(u) /\ \A k \in 1 .. Len(Front(t)) : Front(t)[k] = u[k]
      BY <2>5, <2>6, <2>8, <2>9
  <2> QED
      BY <2>5, <2>8, <2>10, SeqEqual DEF u, p
<1> QED
    BY <1>6, <1>7, <1>8 DEF t

(* Of two directories that an entry is in, one is in the other. *)
LEMMA Comparable ==
    ASSUME NEW x \in Nodes, NEW z \in Nodes, NEW y \in Nodes,
           y = x \/ IsStrictPrefix(x, y), y = z \/ IsStrictPrefix(z, y)
    PROVE  x = z \/ IsStrictPrefix(x, z) \/ IsStrictPrefix(z, x)
<1>1. /\ Len(x) <= Len(y) /\ SubSeq(y, 1, Len(x)) = x
      /\ Len(z) <= Len(y) /\ SubSeq(y, 1, Len(z)) = z
    BY PrefixIs
<1>2. Len(x) \in Nat /\ Len(z) \in Nat /\ Len(y) \in Nat /\ y \in Seq(Nat)
    BY NodePath
<1>3. CASE Len(x) <= Len(z)
  <2>1. Len(z) \in 0 .. Len(y) /\ Len(x) \in 0 .. Len(z)
      BY <1>1, <1>2, <1>3
  <2>2. SubSeq(SubSeq(y, 1, Len(z)), 1, Len(x)) = SubSeq(y, 1, Len(x))
      BY <1>2, <2>1, BeginningOfOne
  <2> QED
      BY <1>1, <1>3, <2>2, PrefixIs
<1>4. CASE ~(Len(x) <= Len(z))
  <2>1. Len(x) \in 0 .. Len(y) /\ Len(z) \in 0 .. Len(x)
      BY <1>1, <1>2, <1>4
  <2>2. SubSeq(SubSeq(y, 1, Len(x)), 1, Len(z)) = SubSeq(y, 1, Len(z))
      BY <1>2, <2>1, BeginningOfOne
  <2>3. Len(z) <= Len(x)
      BY <1>2, <1>4
  <2> QED
      BY <1>1, <2>2, <2>3, PrefixIs
<1> QED
    BY <1>3, <1>4

(* What is in a directory below x is below x, also where it is not          *)
(* followed.                                                                *)
LEMMA PrefixByParent ==
    ASSUME NEW x \in Nodes, NEW y \in Tree \cup Away, Parent(y) = x \/ Parent(y) \in Below[x]
    PROVE  IsStrictPrefix(x, y)
<1>1. CASE y \in Tree
    BY <1>1, BelowByParent, BelowIs
<1>2. CASE y \in Away
  <2> DEFINE p == Parent(y)
  <2>1. y \in Seq(Nat) \ Nodes /\ p \in Nodes
      BY <1>2, FsCacheAssumption DEF Nodes
  <2>2. y # Root
      BY <2>1 DEF Nodes
  <2>3. Len(y) \in Nat /\ Len(y) >= 1
      BY <2>1, <2>2, EmptySeq DEF Root
  <2>4. p = SubSeq(y, 1, Len(y) - 1)
      BY DEF Parent, Front
  <2>5. Len(p) = Len(y) - 1
    <3>1. Len(y) - 1 \in 0 .. Len(y)
        BY <2>3
    <3> QED
        BY <2>1, <2>4, <3>1, Beginning
  <2>6. Len(x) <= Len(p) /\ SubSeq(p, 1, Len(x)) = x /\ Len(x) \in Nat
    <3>1. x = p \/ IsStrictPrefix(x, p)
        BY BelowIs, BelowInTree
    <3> HIDE DEF p
    <3> QED
        BY <2>1, <3>1, PrefixIs, NodePath
  <2>7. SubSeq(p, 1, Len(x)) = SubSeq(y, 1, Len(x))
    <3>1. Len(y) - 1 \in 0 .. Len(y) /\ Len(x) \in 0 .. Len(y) - 1
        BY <2>3, <2>5, <2>6
    <3> QED
        BY <2>1, <2>4, <3>1, BeginningOfOne
  <2>8. x \in Seq(Nat) /\ SubSeq(x, 1, Len(x)) = x
      BY NodePath, SubSeqFull
  <2>9. SubSeq(x, 1, Len(x)) = SubSeq(y, 1, Len(x))
      BY <2>6, <2>7, <2>8
  <2> HIDE DEF p
  <2>10. Len(x) <= Len(y) /\ x # y
      BY <2>3, <2>5, <2>6
  <2> QED
      BY <2>9, <2>10 DEF IsStrictPrefix, IsPrefix
<1> QED
    BY <1>1, <1>2

(* What a rename leaves and makes. *)
LEMMA RenamedIsDisk ==
    ASSUME NEW d \in Disks, NEW old \in Tree \cup Away, NEW new \in Tree \cup Away,
           NEW e \in Renamed(d, old, new)
    PROVE  /\ e \in Disks
           /\ Parent(old) \in Nodes /\ Parent(new) \in Nodes
           /\ Exists(e, Parent(old)) /\ Exists(e, Parent(new))
           /\ \A y \in d \ e : /\ old \in Tree /\ y \in Below[old] \cup {old}
                               /\ y = old \/ Parent(y) \in d \ e
           /\ \A y \in e \ d : y = new \/ IsStrictPrefix(new, y)
<1>1. /\ old # new /\ {old, new} \cap Tree # {}
      /\ Exists(d, Parent(old)) /\ Exists(d, Parent(new))
      /\ ~IsStrictPrefix(old, new)
      /\ old \in d \cup Away
      /\ new \in Tree => d \cap Below[new] = {}
    BY DEF Renamed, CanRename
<1>2. Parent(old) \in Nodes /\ Parent(new) \in Nodes
    BY ParentOf, FsCacheAssumption DEF Nodes
<1>3. d \subseteq Tree /\ Tree \subseteq Nodes /\ Tree \cap Away = {}
    BY FsCacheAssumption DEF Disks, Nodes
(* what is moved away is removed *)
<1> DEFINE s == Subtree(d, old)
           kept == d \ s
<1>4. ASSUME old \in Tree
      PROVE  /\ old \in d
             /\ kept \in Disks /\ Exists(kept, Parent(old)) /\ Exists(kept, Parent(new))
             /\ \A y \in s : y = old \/ Parent(y) \in s
             /\ s \subseteq Below[old] \cup {old} /\ s \subseteq d
  <2>1. old \in Nodes /\ old \in d /\ old \notin Below[old]
      BY <1>1, <1>3, <1>4, BelowInTree
  <2>2. kept \in Disks /\ Exists(kept, Parent(old))
      BY <1>1, <1>4, NothingLeft, RemovedIsDisk
  <2>3. Parent(new) # old /\ Parent(new) \notin Below[old]
      BY <1>1, <2>1, PrefixByParent
  <2>4. Exists(kept, Parent(new))
      BY <1>1, <2>3 DEF Exists, Subtree
  <2>5. ASSUME NEW y \in s, y # old PROVE Parent(y) \in s
    <3>1. y \in d /\ y \in Below[old] /\ y \in Tree
        BY <1>3, <2>5 DEF Subtree
    <3>2. Parent(y) = old \/ Parent(y) \in Below[old]
        BY <2>1, <3>1, BelowByParent
    <3>3. Parent(y) # Root
      <4>1. Root \notin Tree
          BY FsCacheAssumption
      <4>2. Parent(y) \in Tree
          BY <1>4, <2>1, <3>2, BelowInTree
      <4> QED
          BY <4>1, <4>2
    <3>4. Parent(y) \in d
        BY <3>1, <3>3 DEF Disks, Exists
    <3> QED
        BY <3>2, <3>4 DEF Subtree
  <2> QED
      BY <2>1, <2>2, <2>4, <2>5 DEF Subtree
<1>5. CASE new \in Away
  <2>1. e = kept /\ old \in Tree
      BY <1>1, <1>3, <1>5 DEF Renamed
  <2> QED
      BY <1>2, <1>3, <1>4, <2>1
<1>6. CASE new \notin Away /\ old \in Away
  <2>1. new \in Tree /\ new \in Nodes
      BY <1>3, <1>6
  <2>2. PICK r \in Trees(new) : new \in r /\ e = d \cup r
      BY <1>6 DEF Renamed
  <2>3. r \subseteq Below[new] \cup {new} /\ \A y \in r : y = new \/ Parent(y) \in r
      BY <2>2 DEF Trees
  <2>4. r \subseteq Tree
      BY <2>1, <2>3, BelowInTree
  <2>5. \A y \in e : Exists(e, Parent(y))
      BY <1>1, <2>2, <2>3 DEF Disks, Exists
  <2>6. \A y \in e \ d : y = new \/ IsStrictPrefix(new, y)
      BY <2>1, <2>2, <2>3, <2>4, BelowIs
  <2> QED
      BY <1>1, <1>2, <1>3, <2>2, <2>4, <2>5, <2>6 DEF Disks, Exists
<1>7. CASE new \in Tree /\ old \in Tree
  <2> DEFINE T(y) == Target(old, new, y)
  <2>1. e = kept \cup {T(y) : y \in s} /\ e \subseteq Tree
      BY <1>3, <1>7 DEF Renamed
  <2>2. old \in Nodes /\ new \in Nodes
      BY <1>3, <1>7
  <2>3. ASSUME NEW y \in s
        PROVE  /\ T(y) \in Tree /\ T(y) \in e /\ (T(y) = new \/ IsStrictPrefix(new, T(y)))
               /\ y = old => T(y) = new
               /\ y # old => Parent(T(y)) = T(Parent(y))
    <3>1. T(y) \in Tree /\ T(y) \in e /\ T(y) \in Nodes
        BY <1>3, <2>1
    <3> QED
        BY <1>4, <1>7, <2>2, <3>1, TargetIs DEF Parent
  <2>4. ASSUME NEW y \in s PROVE y \notin e
    <3>1. y = old \/ IsStrictPrefix(old, y)
        BY <1>3, <1>4, <1>7, <2>2, BelowIs
    <3>2. ASSUME NEW z \in s, y = T(z) PROVE FALSE
      <4>1. y = new \/ IsStrictPrefix(new, y)
          BY <2>3, <3>2
      <4>2. IsStrictPrefix(new, old)
          BY <1>1, <1>3, <1>4, <1>7, <2>2, <3>1, <4>1, Comparable
      <4> QED
          BY <1>1, <1>4, <1>7, <2>2, <4>2, BelowIs
    <3> QED
        BY <2>1, <3>2
  <2>5. ASSUME NEW y \in e PROVE Exists(e, Parent(y))
    <3>1. CASE y \in kept
        BY <1>4, <1>7, <2>1, <3>1 DEF Disks, Exists
    <3>2. CASE \E z \in s : y = T(z)
      <4>1. PICK z \in s : y = T(z)
          BY <3>2
      <4>2. CASE z = old
          BY <1>4, <1>7, <2>1, <2>3, <4>1, <4>2 DEF Exists
      <4>3. CASE z # old
        <5>1. Parent(z) \in s
            BY <1>4, <1>7, <4>3
        <5>2. Parent(y) = T(Parent(z))
            BY <2>3, <4>1, <4>3
        <5> QED
            BY <2>3, <5>1, <5>2 DEF Exists
      <4> QED
          BY <4>2, <4>3
    <3> QED
        BY <2>1, <3>1, <3>2
  <2>6. e \in Disks
      BY <2>1, <2>5 DEF Disks
  <2>7. Exists(e, Parent(old)) /\ Exists(e, Parent(new))
      BY <1>4, <1>7, <2>1 DEF Exists
  <2>8. \A y \in d \ e : /\ old \in Tree /\ y \in Below[old] \cup {old}
                         /\ y = old \/ Parent(y) \in d \ e
    <3>1. SUFFICES ASSUME NEW y \in d, y \notin e
                   PROVE  y \in Below[old] \cup {old} /\ (y = old \/ Parent(y) \in d \ e)
        BY <1>7
    <3>2. y \in s
        BY <2>1, <3>1
    <3> QED
        BY <1>4, <1>7, <2>4, <3>2
  <2>9. \A y \in e \ d : y = new \/ IsStrictPrefix(new, y)
      BY <2>1, <2>3
  <2> QED
      BY <1>2, <2>6, <2>7, <2>8, <2>9
<1> QED
    BY <1>5, <1>6, <1>7

-----------------------------------------------------------------------------
(* The invariant *)

(* The files that load_job_conf reads. *)
Confs == {x \in Tree : \E j \in JobPaths : x = ConfOf(j)}

(* As long as no directory is moved, none of them is a ghost. *)
Held == IF moved THEN {} ELSE Confs

ProjectsInv ==
    /\ disk \in Disks
    /\ Good(cache, disk, Held, {}, {})
    /\ rows \in [ProjectPaths -> {"none", "live", "deleted"}]
    /\ running \in SUBSET JobPaths
    /\ hung \in BOOLEAN /\ moved \in BOOLEAN
    /\ hung => moved

(* A job.conf is in the directory of its job, two names below the root.     *)
LEMMA ConfsAre ==
    ASSUME NEW y \in Confs
    PROVE  /\ y \in Tree /\ Len(y) = 3 /\ Last(y) = Conf
           /\ Parent(y) \in JobPaths /\ Parent(y) \in Tree
<1>1. PICK j \in JobPaths : y = ConfOf(j)
    BY DEF Confs
<1>2. y \in Tree /\ j \in Tree /\ Len(j) = 2 /\ j \in Nodes
    BY <1>1 DEF JobPaths, Nodes
<1>3. Parent(y) = j
    BY <1>1, <1>2, ConfIs
<1>4. j \in Seq(Nat) /\ Conf \in Nat
    BY <1>2, NodePath, ProjectsAssumption
<1>5. Len(Append(j, Conf)) = 3 /\ Append(j, Conf)[3] = Conf
  <2>1. Len(Append(j, Conf)) = Len(j) + 1 /\ Append(j, Conf)[Len(j) + 1] = Conf
      BY <1>4, AppendProperties
  <2>2. Len(j) + 1 = 3
      BY <1>2
  <2> QED
      BY <2>1, <2>2
<1> QED
    BY <1>1, <1>2, <1>3, <1>5 DEF ConfOf, Last

(* They are entries.                                                        *)
LEMMA HeldInTree == Held \in SUBSET Tree /\ {} \in SUBSET Tree
BY DEF Held, Confs

(* What load_job_conf waits for is a job.conf that was moved away.          *)
LEMMA HangsIfMoved ==
    ASSUME ProjectsInv, NEW j \in JobPaths, ConfOf(j) \in Tree \ Held
    PROVE  moved
BY DEF Held, Confs, ProjectsInv

(* What a handler does that only looks. *)
OnlyLooked ==
    /\ disk' = disk /\ rows' = rows /\ moved' = moved
    /\ running' \in SUBSET JobPaths
    /\ hung' \in BOOLEAN /\ (hung' => hung \/ moved)
    /\ Good(cache', disk, Held, {}, {})

(* Looking keeps the invariant.                                             *)
LEMMA OnlyLookedKeeps ==
    ASSUME ProjectsInv, OnlyLooked
    PROVE  ProjectsInv'
<1>1. Held' = Held
    BY DEF OnlyLooked, Held
<1>2. Good(cache', disk', Held', {}, {})
    BY <1>1 DEF OnlyLooked
<1> QED
    BY <1>2 DEF ProjectsInv, OnlyLooked

-----------------------------------------------------------------------------
(* Handlers that look *)

(* list_projects reads the root. *)
LEMMA list_projectsLooks == ASSUME ProjectsInv, list_projects PROVE OnlyLooked
<1>1. Good(Update(cache, disk, Root), disk, Held, {}, {})
  <2>1. Root \in Nodes /\ Known(cache, Root)
      BY KnownIs DEF ProjectsInv, Good, Nodes
  <2> QED
      BY <2>1, HeldInTree, UpdateGood DEF ProjectsInv
<1> QED
    BY <1>1 DEF list_projects, Looked, OnlyLooked, ProjectsInv

(* What a look-up does that found its job or build, or waits for ever.      *)
LEMMA LookedUp ==
    ASSUME ProjectsInv, NEW r, NEW j \in JobPaths,
           Good(r.cache, disk, Held, {}, {}), r.hangs \in BOOLEAN,
           r.hangs => ConfOf(j) \in Tree \ Held
    PROVE  Hangs(r) \/ (Looked(r.cache) /\ (UNCHANGED hung \/ hung' = r.hangs)) => OnlyLooked
<1>1. r.hangs => moved
    BY HangsIfMoved
<1>2. CASE Hangs(r)
    BY <1>1, <1>2 DEF Hangs, Looked, OnlyLooked, ProjectsInv
<1>3. CASE Looked(r.cache) /\ (UNCHANGED hung \/ hung' = r.hangs)
    BY <1>1, <1>3 DEF Looked, OnlyLooked, ProjectsInv
<1> QED
    BY <1>2, <1>3

(* get_project_info looks at every job of the project.                      *)
LEMMA get_project_infoLooks ==
    ASSUME ProjectsInv, NEW p \in ProjectPaths, get_project_info(p)
    PROVE  OnlyLooked
<1> DEFINE g == GetProject(cache, disk, p)
           l == LookAtJobs(g.cache, disk, p)
<1>1. p \in Nodes /\ Len(p) = 1 /\ disk \in Disks
    BY DEF ProjectPaths, Nodes, ProjectsInv
<1>2. Looks(g, disk, Held, {}, {}, p)
    BY <1>1, HeldInTree, GetProjectLooks DEF ProjectsInv
<1>3. (Looked(g.cache) /\ UNCHANGED hung) \/ (g.ok /\ Looked(l.cache) /\ hung' = l.hangs)
    BY DEF get_project_info
<1> HIDE DEF g
<1>4. CASE Looked(g.cache) /\ UNCHANGED hung
    BY <1>2, <1>4 DEF Looked, OnlyLooked, Looks, ProjectsInv
<1>5. CASE g.ok /\ Looked(l.cache) /\ hung' = l.hangs
  <2>1. Cached(p) => Known(g.cache, p)
      BY <1>1, <1>2, <1>5, LevelIs DEF Looks
  <2>2. /\ Good(l.cache, disk, Held, {}, {}) /\ l.hangs \in BOOLEAN
        /\ l.hangs => \E j \in Children[p] : ConfOf(j) \in Tree \ Held
    <3>1. Good(g.cache, disk, Held, {}, {})
        BY <1>2 DEF Looks
    <3> QED
        BY <1>1, <2>1, <3>1, HeldInTree, LookAtJobsLooks
  <2> HIDE DEF l
  <2>3. ASSUME NEW j \in Children[p], ConfOf(j) \in Tree \ Held PROVE moved
    <3>1. j \in JobPaths
      <4>1. j \in Tree /\ Len(j) = Len(p) + 1
          BY <1>1 DEF Children
      <4>2. Len(j) = 2
          BY <1>1, <4>1
      <4> QED
          BY <2>3, <4>1, <4>2 DEF JobPaths
    <3> QED
        BY <2>3, <3>1, HangsIfMoved
  <2> QED
      BY <1>5, <2>2, <2>3 DEF Looked, OnlyLooked, ProjectsInv
<1> QED
    BY <1>3, <1>4, <1>5

(* Looking up a job: it has a name, and a project.                          *)
LEMMA JobLooksUp ==
    ASSUME ProjectsInv, NEW j \in JobPaths
    PROVE  /\ j \in Tree /\ j \in Nodes /\ disk \in Disks
           /\ LooksUpJob(GetJob(cache, disk, j), disk, Held, {}, {}, j)
<1>1. j \in Tree /\ j \in Nodes /\ disk \in Disks
    BY DEF JobPaths, Nodes, ProjectsInv
<1> QED
    BY <1>1, HeldInTree, GetJobLooks DEF ProjectsInv

(* get_job_info looks the job up.                                           *)
LEMMA get_job_infoLooks ==
    ASSUME ProjectsInv, NEW j \in JobPaths, get_job_info(j)
    PROVE  OnlyLooked
<1> DEFINE g == GetJob(cache, disk, j)
<1>1. LooksUpJob(g, disk, Held, {}, {}, j)
    BY JobLooksUp
<1>2. Hangs(g) \/ (Looked(g.cache) /\ UNCHANGED hung)
    BY DEF get_job_info
<1> HIDE DEF g
<1> QED
    BY <1>1, <1>2, LookedUp DEF LooksUpJob, Looks

(* A build has a job, which has a project.                                  *)
LEMMA BuildLooksUp ==
    ASSUME ProjectsInv, NEW b \in BuildPaths
    PROVE  /\ b \in Tree /\ b \in Nodes /\ disk \in Disks /\ Parent(b) \in Tree
           /\ Len(Parent(b)) = 2
           /\ Looks(GetBuild(cache, disk, b), disk, Held, {}, {}, b)
           /\ GetBuild(cache, disk, b).hangs \in BOOLEAN
           /\ GetBuild(cache, disk, b).hangs =>
                 Parent(b) \in JobPaths /\ ConfOf(Parent(b)) \in Tree \ Held
<1>1. b \in Tree /\ b \in Nodes /\ disk \in Disks /\ Len(b) = 3
    BY DEF BuildPaths, Nodes, ProjectsInv
<1>2. Parent(b) \in Nodes /\ Len(Parent(b)) = 2
  <2>1. Parent(b) \in Nodes /\ Len(Parent(b)) = Len(b) - 1
      BY <1>1, ParentOf
  <2> QED
      BY <1>1, <2>1
<1>3. Parent(b) \in Tree
    BY <1>2, NodePath
<1>4. ConfOf(Parent(b)) \in Tree => Parent(b) \in JobPaths
    BY <1>2, <1>3 DEF JobPaths
<1>5. /\ Looks(GetBuild(cache, disk, b), disk, Held, {}, {}, b)
      /\ GetBuild(cache, disk, b).hangs \in BOOLEAN
      /\ GetBuild(cache, disk, b).hangs => ConfOf(Parent(b)) \in Tree \ Held
    BY <1>1, <1>3, HeldInTree, GetBuildLooks DEF ProjectsInv
<1> QED
    BY <1>1, <1>2, <1>3, <1>4, <1>5

(* A build that is looked up hangs only if a job.conf was moved.            *)
LEMMA BuildHangs ==
    ASSUME ProjectsInv, NEW b \in BuildPaths
    PROVE  LET g == GetBuild(cache, disk, b)
           IN  Hangs(g) \/ (Looked(g.cache) /\ UNCHANGED hung) => OnlyLooked
<1> DEFINE g == GetBuild(cache, disk, b)
<1>1. /\ Good(g.cache, disk, Held, {}, {}) /\ g.hangs \in BOOLEAN
      /\ g.hangs => Parent(b) \in JobPaths /\ ConfOf(Parent(b)) \in Tree \ Held
    BY BuildLooksUp DEF Looks
<1> HIDE DEF g
<1>2. g.hangs => moved
    BY <1>1, HangsIfMoved
<1>3. Hangs(g) => OnlyLooked
    BY <1>1, <1>2 DEF Hangs, Looked, OnlyLooked, ProjectsInv
<1>4. Looked(g.cache) /\ UNCHANGED hung => OnlyLooked
    BY <1>1 DEF Looked, OnlyLooked, ProjectsInv
<1> QED
    BY <1>3, <1>4 DEF g

(* get_build_info looks the build up.                                       *)
LEMMA get_build_infoLooks ==
    ASSUME ProjectsInv, NEW b \in BuildPaths, get_build_info(b)
    PROVE  OnlyLooked
BY BuildHangs DEF get_build_info

(* A path is looked up, and what was found is listed or read.               *)
LEMMA PathLooks ==
    ASSUME ProjectsInv, NEW x \in Tree,
           get_fs_entry_info(x) \/ list_directory(x) \/ refresh_fs_entry(x)
    PROVE  OnlyLooked
<1> DEFINE f == Find(cache, disk, x)
<1>1. x \in Nodes /\ disk \in Disks
    BY DEF Nodes, ProjectsInv
<1>2. Looks(f, disk, Held, {}, {}, x)
    BY <1>1, HeldInTree, FindLooks DEF ProjectsInv
<1>3. /\ get_fs_entry_info(x) => Looked(f.cache) /\ UNCHANGED hung
      /\ list_directory(x) => f.ok /\ Looked(AfterListing(f.cache, disk, x)) /\ UNCHANGED hung
      /\ refresh_fs_entry(x) => f.ok /\ Looked(RefreshFound(f.cache, x)) /\ UNCHANGED hung
    BY DEF get_fs_entry_info, list_directory, refresh_fs_entry
<1> HIDE DEF f
<1>4. Good(f.cache, disk, Held, {}, {})
    BY <1>2 DEF Looks
<1>5. CASE get_fs_entry_info(x)
    BY <1>3, <1>4, <1>5 DEF Looked, OnlyLooked, ProjectsInv
<1>6. CASE list_directory(x)
  <2>1. Cached(x) => Known(f.cache, x)
      BY <1>1, <1>2, <1>3, <1>6, LevelIs DEF Looks
  <2>2. Good(AfterListing(f.cache, disk, x), disk, Held, {}, {})
      BY <1>1, <1>4, <2>1, HeldInTree, ListingGood
  <2> QED
      BY <1>3, <1>6, <2>2 DEF Looked, OnlyLooked, ProjectsInv
<1>7. CASE refresh_fs_entry(x)
  <2>1. Level(x) > 0 => Known(f.cache, x)
      BY <1>2, <1>3, <1>7 DEF Looks
  <2>2. Level(x) > 0 => Good(Update(f.cache, disk, x), disk, Held, {}, {})
      BY <1>1, <1>4, <2>1, HeldInTree, UpdateGood
  <2>3. Good(RefreshFound(f.cache, x), disk, Held, {}, {})
      BY <1>4, <2>2 DEF RefreshFound
  <2> QED
      BY <1>3, <1>7, <2>3 DEF Looked, OnlyLooked, ProjectsInv
<1> QED
    BY <1>5, <1>6, <1>7

(* A job is not a job.conf. *)
LEMMA JobNotHeld == ASSUME NEW j \in JobPaths PROVE j \notin Held
<1>1. Len(j) = 2
    BY DEF JobPaths
<1> QED
    BY <1>1, ConfsAre DEF Held

(* A job is looked up, run, or its times are changed.                       *)
LEMMA RunLooks ==
    ASSUME ProjectsInv, NEW j \in JobPaths,
           run_job(j) \/ Started(j) \/ Finished(j) \/ add_cis_cron(j)
    PROVE  OnlyLooked
<1> DEFINE g == GetJob(cache, disk, j)
           again == GetJob(g.cache, disk, j)
           i == Invalidate(cache, disk, j)
<1>1. /\ j \in Tree /\ j \in Nodes /\ disk \in Disks
      /\ LooksUpJob(g, disk, Held, {}, {}, j)
    BY JobLooksUp
<1>2. /\ run_job(j) => Goes(g) /\ cache' = g.cache /\ running' = running \cup {j}
                       /\ UNCHANGED <<disk, rows, moved>>
      /\ Started(j) => Looked(i) /\ UNCHANGED hung
      /\ Finished(j) =>
            \/ Hangs(g)
            \/ /\ cache' = IF g.ok THEN Modified(g.cache, j) ELSE g.cache
               /\ running' = running \ {j}
               /\ UNCHANGED <<disk, rows, hung, moved>>
      /\ add_cis_cron(j) => Goes(g) /\ Looked(again.cache)
    BY DEF run_job, Started, Finished, add_cis_cron
<1>3. LooksUpJob(again, disk, Held, {}, {}, j)
  <2> HIDE DEF g
  <2>1. Good(g.cache, disk, Held, {}, {})
      BY <1>1 DEF LooksUpJob, Looks
  <2> QED
      BY <1>1, <2>1, HeldInTree, GetJobLooks
<1>4. Good(i, disk, Held, {}, {})
    BY <1>1, JobNotHeld, HeldInTree, InvalidateGood DEF ProjectsInv
<1> HIDE DEF g, again, i
<1>5. Good(g.cache, disk, Held, {}, {}) /\ Good(again.cache, disk, Held, {}, {})
    BY <1>1, <1>3 DEF LooksUpJob, Looks
<1>6. CASE run_job(j)
    BY <1>2, <1>5, <1>6 DEF Goes, OnlyLooked, ProjectsInv
<1>7. CASE Started(j)
    BY <1>2, <1>4, <1>7 DEF Looked, OnlyLooked, ProjectsInv
<1>8. CASE Finished(j)
  <2>1. CASE Hangs(g)
      BY <1>1, <2>1, LookedUp DEF LooksUpJob, Looks
  <2>2. CASE /\ cache' = IF g.ok THEN Modified(g.cache, j) ELSE g.cache
             /\ running' = running \ {j}
             /\ UNCHANGED <<disk, rows, hung, moved>>
    <3>1. g.ok => Good(Modified(g.cache, j), disk, Held, {}, {})
      <4>1. g.ok => (Level(j) > 0 => Known(g.cache, j))
          BY <1>1 DEF LooksUpJob, Looks
      <4> QED
          BY <1>1, <1>5, <4>1, JobNotHeld, HeldInTree, ModifiedGood
    <3>2. Good(cache', disk, Held, {}, {})
        BY <1>5, <2>2, <3>1
    <3> QED
        BY <2>2, <3>2 DEF OnlyLooked, ProjectsInv
  <2> QED
      BY <1>2, <1>8, <2>1, <2>2
<1>9. CASE add_cis_cron(j)
    BY <1>2, <1>5, <1>9 DEF Goes, Looked, OnlyLooked, ProjectsInv
<1> QED
    BY <1>6, <1>7, <1>8, <1>9

-----------------------------------------------------------------------------
(* Handlers that change *)

(* What the next listing of the directory of y needs to be right about it.  *)
SeenRight(c, d, y) ==
    /\ Exists(d, Parent(y))
    /\ NoGhost(c, d, y) /\ NoGap(c, d, y)
    /\ Parent(y) = Root => NoTrace(c, d, y)

(* And that of the root, if remove_fs_entry removed y from it. *)
SeenButInRoot(c, d, y) == Exists(d, Parent(y)) /\ NoGhost(c, d, y) /\ NoGap(c, d, y)

Seen ==
    \A y \in Changed :
        \/ SeenRight(cache', disk', y)
        \/ ByOthers(y) \/ AlongWith(y)
        \/ remove_fs_entry(y) /\ SeenButInRoot(cache', disk', y)

(* What a step does that moves no directory. *)
Kept ==
    /\ disk' \in Disks
    /\ Good(cache', disk', Held, {}, {})
    /\ rows' \in [ProjectPaths -> {"none", "live", "deleted"}]
    /\ running' \in SUBSET JobPaths
    /\ hung' = hung /\ moved' = moved

(* So does a step that moves no directory.                                  *)
LEMMA KeptKeeps ==
    ASSUME ProjectsInv, Kept
    PROVE  ProjectsInv'
<1>1. Held' = Held
    BY DEF Kept, Held
<1>2. Good(cache', disk', Held', {}, {})
    BY <1>1 DEF Kept
<1> QED
    BY <1>2 DEF ProjectsInv, Kept

(* What was removed is not listed any more, nor what was in it.             *)
LEMMA RemoveFoundIs ==
    ASSUME NEW G \in SUBSET Tree, NEW c, disk \in Disks, Good(c, disk, G, {}, {}),
           NEW x \in Tree, Level(x) > 0 => Known(c, x), RemoveFound(c, x)
    PROVE  /\ disk' \in Disks
           /\ Good(cache', disk', G, {}, {})
           /\ \A y \in Changed :
                 \/ Parent(y) \in Changed
                 \/ /\ SeenButInRoot(cache', disk', y)
                    /\ y # x \/ c[Root] # Fresh => SeenRight(cache', disk', y)
<1>1. PICK left \in Leftovers(disk, x) : disk' = disk \ (Subtree(disk, x) \ left)
    BY DEF RemoveFound
<1>2. /\ disk' \in Disks /\ disk' \subseteq disk
      /\ disk \ disk' \subseteq Below[x] \cup {x}
      /\ Exists(disk, Parent(x)) => Exists(disk', Parent(x))
    BY <1>1, RemovedIsDisk
<1>3. cache' = Forgotten(c, x)
    BY DEF RemoveFound, Forgotten
<1>4. Good(cache', disk', G, {}, {})
    BY <1>2, <1>3, ForgetGood
<1>5. /\ \A y \in Nodes : y # x /\ y \notin Below[x] => cache'[y] = c[y]
      /\ \A y \in Below[x] \cup {x} : ~Shown(cache', y) /\ cache'[y] # Fresh
    BY <1>3, ForgetIs DEF Good
<1>6. /\ x \in Nodes /\ Below[x] \subseteq Tree /\ disk \subseteq Tree
      /\ Root \notin Tree /\ Root \in Nodes
    BY BelowInTree, FsCacheAssumption DEF Nodes, Disks
<1>7. ASSUME NEW y \in Changed, Parent(y) \notin Changed
      PROVE  /\ SeenButInRoot(cache', disk', y)
             /\ y # x \/ c[Root] # Fresh => SeenRight(cache', disk', y)
  <2>1. y \in disk /\ y \notin disk' /\ y \in Below[x] \cup {x}
      BY <1>2 DEF Changed
  <2>2. Exists(disk, Parent(y))
      BY <2>1 DEF Disks
  <2>3. Exists(disk', Parent(y))
      BY <1>7, <2>2 DEF Changed, Exists
  <2>4. CASE y # x
    <3>1. Parent(y) \in Below[x] \cup {x}
        BY <1>6, <2>1, <2>4, BelowByParent
    <3>2. cache'[Parent(y)] # Fresh
        BY <1>5, <3>1
    <3> QED
        BY <2>3, <3>2, ReadAgain DEF SeenButInRoot, SeenRight
  <2>5. CASE y = x
    <3>1. NoGhost(cache', disk', y) /\ NoGap(cache', disk', y)
        BY <1>5, <2>1 DEF NoGhost, NoGap
    <3>2. cache'[Root] = c[Root]
        BY <1>5, <1>6
    <3>3. c[Root] # Fresh => (Parent(y) = Root => NoTrace(cache', disk', y))
        BY <3>2 DEF NoTrace
    <3> QED
        BY <2>3, <2>5, <3>1, <3>3 DEF SeenButInRoot, SeenRight
  <2> QED
      BY <2>4, <2>5
<1> QED
    BY <1>2, <1>4, <1>7

(* Making a directory: its parent, and what it is in, will be read again.   *)
LEMMA CreatedIs ==
    ASSUME NEW G \in SUBSET Tree, NEW c, NEW d \in Disks, Good(c, d, G, {}, {}), NEW x \in Tree
    PROVE  LET made == WithParents(d, x)
               e == Created(c, d, x)
           IN  /\ made \in Disks /\ d \subseteq made
               /\ Good(e, made, G, {}, {})
               /\ SeenRight(e, made, x)
               /\ \A y \in made \ d : y = x \/ x \in Below[y]
<1> DEFINE made == WithParents(d, x)
           e == Created(c, d, x)
<1>1. /\ made \in Disks /\ d \subseteq made
      /\ Exists(made, Parent(x))
      /\ \A y \in made \ d : y = x \/ x \in Below[y]
    BY MadeIsDisk
<1>2. e = Invalidate(c, made, Parent(x))
    BY DEF Created, CreatedIn
<1> HIDE DEF made, e
<1>3. Good(c, made, G, {}, {})
    BY <1>1, GrowsGood
<1>4. Good(e, made, G, {}, {}) /\ e[Parent(x)] # Fresh
  <2>1. Parent(x) \in Nodes /\ (Parent(x) \in G => Parent(x) \in made)
    <3>1. Parent(x) \in Nodes /\ Root \notin Tree
        BY ParentOf, FsCacheAssumption
    <3> QED
        BY <1>1, <3>1 DEF Exists
  <2> QED
      BY <1>1, <1>2, <1>3, <2>1, InvalidateGood
<1>5. SeenRight(e, made, x)
    BY <1>1, <1>4, ReadAgain DEF SeenRight
<1> QED
    BY <1>1, <1>4, <1>5 DEF made, e

(* remove_fs_entry removes what a look-up found. *)
LEMMA remove_fs_entryKeeps ==
    ASSUME ProjectsInv, NEW x \in Tree, remove_fs_entry(x)
    PROVE  Kept /\ Seen
<1> DEFINE f == Find(cache, disk, x)
<1>1. x \in Nodes /\ disk \in Disks
    BY DEF Nodes, ProjectsInv
<1>2. Looks(f, disk, Held, {}, {}, x)
    BY <1>1, HeldInTree, FindLooks DEF ProjectsInv
<1>3. f.ok /\ RemoveFound(f.cache, x) /\ UNCHANGED <<rows, running, hung, moved>>
    BY DEF remove_fs_entry
<1> HIDE DEF f
<1>4. /\ disk' \in Disks
      /\ Good(cache', disk', Held, {}, {})
      /\ \A y \in Changed :
            Parent(y) \in Changed
            \/ (SeenButInRoot(cache', disk', y) /\ (y # x => SeenRight(cache', disk', y)))
  <2>1. Level(x) > 0 => Known(f.cache, x)
      BY <1>2, <1>3 DEF Looks
  <2>2. Good(f.cache, disk, Held, {}, {})
      BY <1>2 DEF Looks
  <2> QED
      BY <1>1, <1>3, <2>1, <2>2, HeldInTree, RemoveFoundIs
<1>5. Kept
    BY <1>3, <1>4 DEF Kept, ProjectsInv
<1>6. Seen
    BY <1>4 DEF Seen, AlongWith
<1> QED
    BY <1>5, <1>6

(* The root does not list jobs and builds. *)
LEMMA InnerSeen ==
    ASSUME NEW c, NEW d, NEW x \in Tree, Len(x) # 1, SeenButInRoot(c, d, x)
    PROVE  SeenRight(c, d, x)
<1>1. Len(Parent(x)) = Len(x) - 1 /\ Len(x) \in Nat
    BY ParentOf, NodePath DEF Nodes
<1>2. Len(Root) = 0
    BY DEF Root
<1>3. Parent(x) # Root
    BY <1>1, <1>2
<1> QED
    BY <1>3 DEF SeenButInRoot, SeenRight

(* remove_cis_job and remove_cis_build look the entry up once more.         *)
LEMMA RemoveJobKeeps ==
    ASSUME ProjectsInv, NEW x \in Tree, Len(x) # 1, NEW g,
           Good(g.cache, disk, Held, {}, {}),
           Find(g.cache, disk, x).ok, RemoveFound(Find(g.cache, disk, x).cache, x),
           UNCHANGED <<rows, running, hung, moved>>
    PROVE  Kept /\ Seen
<1> DEFINE f == Find(g.cache, disk, x)
<1>1. x \in Nodes /\ disk \in Disks
    BY DEF Nodes, ProjectsInv
<1>2. Looks(f, disk, Held, {}, {}, x)
    BY <1>1, HeldInTree, FindLooks
<1> HIDE DEF f
<1>4. /\ disk' \in Disks
      /\ Good(cache', disk', Held, {}, {})
      /\ \A y \in Changed :
            Parent(y) \in Changed
            \/ (SeenButInRoot(cache', disk', y) /\ (y # x => SeenRight(cache', disk', y)))
  <2>1. Level(x) > 0 => Known(f.cache, x)
      BY <1>2 DEF Looks, f
  <2>2. Good(f.cache, disk, Held, {}, {}) /\ RemoveFound(f.cache, x)
      BY <1>2 DEF Looks, f
  <2> QED
      BY <1>1, <2>1, <2>2, HeldInTree, RemoveFoundIs
<1>5. Kept
    BY <1>4 DEF Kept, ProjectsInv
<1>6. \A y \in Changed : SeenButInRoot(cache', disk', y) /\ y = x => SeenRight(cache', disk', y)
    BY InnerSeen
<1>7. Seen
    BY <1>4, <1>6 DEF Seen, AlongWith
<1> QED
    BY <1>5, <1>7

(* remove_cis_job.                                                          *)
LEMMA remove_cis_jobKeeps ==
    ASSUME ProjectsInv, NEW j \in JobPaths, remove_cis_job(j)
    PROVE  Kept /\ Seen
<1> DEFINE g == GetJob(cache, disk, j)
<1>1. LooksUpJob(g, disk, Held, {}, {}, j) /\ j \in Tree /\ Len(j) # 1
    BY JobLooksUp DEF JobPaths
<1>2. /\ Find(g.cache, disk, j).ok /\ RemoveFound(Find(g.cache, disk, j).cache, j)
      /\ UNCHANGED <<rows, running, hung, moved>>
    BY DEF remove_cis_job, Goes
<1> HIDE DEF g
<1> QED
    BY <1>1, <1>2, RemoveJobKeeps DEF LooksUpJob, Looks

(* remove_cis_build.                                                        *)
LEMMA remove_cis_buildKeeps ==
    ASSUME ProjectsInv, NEW b \in BuildPaths, remove_cis_build(b)
    PROVE  Kept /\ Seen
<1> DEFINE g == GetBuild(cache, disk, b)
<1>1. Looks(g, disk, Held, {}, {}, b) /\ b \in Tree /\ Len(b) # 1
    BY BuildLooksUp DEF BuildPaths
<1>2. /\ Find(g.cache, disk, b).ok /\ RemoveFound(Find(g.cache, disk, b).cache, b)
      /\ UNCHANGED <<rows, running, hung, moved>>
    BY DEF remove_cis_build, Goes
<1> HIDE DEF g
<1> QED
    BY <1>1, <1>2, RemoveJobKeeps DEF Looks

(* The root, which lists the projects. *)
LEMMA RootModified ==
    ASSUME NEW G \in SUBSET Tree, NEW c, NEW d \in Disks, Good(c, d, G, {}, {})
    PROVE  /\ Good(Modified(c, Root), d, G, {}, {})
           /\ Modified(c, Root)[Root] # Fresh
           /\ \A y \in Nodes : Known(Modified(c, Root), y) <=> Known(c, y)
<1>1. Root \in Nodes /\ Root \notin Tree /\ Level(Root) > 0
    BY LevelIs, FsCacheAssumption DEF Nodes
<1>2. Known(c, Root)
    BY KnownIs DEF Good
<1>3. /\ Good(Modified(c, Root), d, G, {}, {})
      /\ \A y \in Nodes : Known(Modified(c, Root), y) <=> Known(c, y)
      /\ Level(Root) > 0 => Modified(c, Root)[Root] # Fresh
    BY <1>1, <1>2, ModifiedGood
<1> QED
    BY <1>1, <1>3

(* remove_cis_project has the root read again before it is listed.          *)
LEMMA remove_cis_projectKeeps ==
    ASSUME ProjectsInv, NEW p \in ProjectPaths, remove_cis_project(p)
    PROVE  Kept /\ Seen
<1> DEFINE g == GetProject(cache, disk, p)
           m == Modified(g.cache, Root)
<1>1. p \in Tree /\ p \in Nodes /\ disk \in Disks
    BY DEF ProjectPaths, Nodes, ProjectsInv
<1>2. Looks(g, disk, Held, {}, {}, p)
    BY <1>1, HeldInTree, GetProjectLooks DEF ProjectsInv
<1>3. /\ g.ok /\ RemoveFound(m, p) /\ rows' \in {rows, [rows EXCEPT ![p] = "deleted"]}
      /\ UNCHANGED <<running, hung, moved>>
    BY DEF remove_cis_project, remove_project
<1> HIDE DEF g
<1>4. /\ Good(m, disk, Held, {}, {}) /\ m[Root] # Fresh
      /\ Level(p) > 0 => Known(m, p)
    BY <1>1, <1>2, <1>3, HeldInTree, RootModified DEF Looks
<1> HIDE DEF m
<1>5. /\ disk' \in Disks
      /\ Good(cache', disk', Held, {}, {})
      /\ \A y \in Changed : Parent(y) \in Changed \/ SeenRight(cache', disk', y)
    BY <1>1, <1>3, <1>4, HeldInTree, RemoveFoundIs
<1>6. rows' \in [ProjectPaths -> {"none", "live", "deleted"}]
    BY <1>3 DEF ProjectsInv
<1>7. Kept
    BY <1>3, <1>5, <1>6 DEF Kept, ProjectsInv
<1>8. Seen
    BY <1>5 DEF Seen, AlongWith
<1> QED
    BY <1>7, <1>8

(* new_directory is told to the directory that it makes one in.             *)
LEMMA new_directoryKeeps ==
    ASSUME ProjectsInv, NEW x \in Tree, new_directory(x)
    PROVE  Kept /\ Seen
<1>1. /\ disk' = WithParents(disk, x) /\ cache' = Created(cache, disk, x)
      /\ UNCHANGED <<rows, running, hung, moved>> /\ disk \in Disks
    BY DEF new_directory, ProjectsInv
<1>2. /\ disk' \in Disks /\ disk \subseteq disk'
      /\ Good(cache', disk', Held, {}, {})
      /\ SeenRight(cache', disk', x)
      /\ \A y \in disk' \ disk : y = x \/ x \in Below[y]
    BY <1>1, HeldInTree, CreatedIs DEF ProjectsInv
<1>3. Kept
    BY <1>1, <1>2 DEF Kept, ProjectsInv
<1>4. Seen
    BY <1>2 DEF Seen, AlongWith, Changed
<1> QED
    BY <1>3, <1>4

(* add_cis_project likewise; a project is in no other directory.            *)
LEMMA add_cis_projectKeeps ==
    ASSUME ProjectsInv, NEW p \in ProjectPaths, add_cis_project(p)
    PROVE  Kept /\ Seen
<1> DEFINE g == GetProject(cache, disk, p)
<1>1. p \in Tree /\ p \in Nodes /\ disk \in Disks /\ Len(p) = 1
    BY DEF ProjectPaths, Nodes, ProjectsInv
<1>2. Looks(g, disk, Held, {}, {}, p)
    BY <1>1, HeldInTree, GetProjectLooks DEF ProjectsInv
<1>3. /\ disk' = WithParents(disk, p) /\ cache' = Created(g.cache, disk, p)
      /\ rows' \in {rows, [rows EXCEPT ![p] = "live"]}
      /\ UNCHANGED <<running, hung, moved>>
    BY DEF add_cis_project, create_project
<1> HIDE DEF g
<1>4. /\ disk' \in Disks /\ disk \subseteq disk'
      /\ Good(cache', disk', Held, {}, {})
      /\ SeenRight(cache', disk', p)
      /\ \A y \in disk' \ disk : y = p \/ p \in Below[y]
    BY <1>1, <1>2, <1>3, HeldInTree, CreatedIs DEF Looks
<1>5. rows' \in [ProjectPaths -> {"none", "live", "deleted"}]
    BY <1>3 DEF ProjectsInv
<1>6. Kept
    BY <1>3, <1>4, <1>5 DEF Kept, ProjectsInv
<1>7. \A y \in Tree : p \notin Below[y]
    BY <1>1, BelowIs, NodePath DEF Nodes
<1>8. \A y \in Changed : y = p
    BY <1>4, <1>7 DEF Changed, Disks
<1>9. Seen
    BY <1>4, <1>8 DEF Seen
<1> QED
    BY <1>6, <1>9

(* The first step of find asks the root.                                    *)
LEMMA FirstStep ==
    ASSUME NEW c, NEW d, NEW x \in Tree, NEW p \in Tree, p = SubSeq(x, 1, 1)
    PROVE  LET read == Reads(c, Root)
           IN  Step(c, d, x, 1) = Seek(IF read THEN Update(c, d, Root) ELSE c, d, p, read)
<1>1. SubSeq(x, 1, 0) = Root
    BY SubSeqEmpty DEF Root
<1>2. 1 # MaxLevel /\ 1 - 1 = 0
    BY FsCacheAssumption
<1> QED
    BY <1>1, <1>2 DEF Step

(* It is the only one for a project.                                        *)
LEMMA FindProject ==
    ASSUME NEW c, NEW d, NEW p \in Tree, Len(p) = 1
    PROVE  LET read == Reads(c, Root)
           IN  Find(c, d, p) = Seek(IF read THEN Update(c, d, Root) ELSE c, d, p, read)
<1>1. p \in Nodes /\ p \in Seq(Nat) /\ SubSeq(p, 1, 1) = p
  <2>1. p \in Nodes /\ p \in Seq(Nat)
      BY NodePath DEF Nodes
  <2> QED
      BY <2>1, SubSeqFull
<1>2. PICK w : /\ \A i \in 0 .. Len(p) : w[i] = OnWalk(c, d, p, w, i)
               /\ Find(c, d, p) = w[Len(p)]
    BY <1>1, FindWalks, ZenonT(60)
<1>3. w[0] = OnWalk(c, d, p, w, 0) /\ w[1] = OnWalk(c, d, p, w, 1)
    BY <1>2
<1>4. w[0] = [cache |-> c, ok |-> TRUE]
    BY <1>3 DEF OnWalk
<1>5. 1 <= MaxLevel /\ 1 - 1 = 0
    BY FsCacheAssumption
<1>6. w[1] = Step(c, d, p, 1)
    BY <1>3, <1>4, <1>5 DEF OnWalk
<1> QED
    BY <1>1, <1>2, <1>6, FirstStep

(* A project that is found and does not exist was not looked for on the     *)
(* disk.                                                                    *)
LEMMA GhostProject ==
    ASSUME NEW c \in Caches, NEW d \in Disks, NEW p \in Tree, Len(p) = 1, p \notin d,
           Find(c, d, p).ok
    PROVE  Find(c, d, p).cache = c /\ ~Reads(c, Root) /\ Known(c, p)
<1> DEFINE u == Update(c, d, Root)
           f == Find(c, d, p)
<1>1. p \in Nodes /\ Root \in Nodes /\ Parent(p) = Root
    <2>1. Len(Parent(p)) = 0 /\ Parent(p) \in Nodes
      <3>1. Len(Parent(p)) = Len(p) - 1 /\ Parent(p) \in Nodes
          BY ParentOf
      <3> QED
          BY <3>1
    <2> QED
        BY <2>1, NodePath DEF Nodes
<1>2. f = Seek(IF Reads(c, Root) THEN u ELSE c, d, p, Reads(c, Root))
    BY FindProject
<1>3. c[Root] # Fresh => ~Known(u, p)
  <2>1. Known(c, Root) /\ Exists(d, Root) /\ Folder(Root) /\ Level(Root) # 1
      BY <1>1, KnownIs, LevelIs DEF Exists, Folder, Cached
  <2> QED
      BY <1>1, <2>1, UpdateReads
<1>4. c[Root] = Fresh => u = c
    BY DEF Update, Fresh
<1>5. Reads(c, Root) => c[Root] # Fresh
    BY DEF Reads, Fresh
<1> HIDE DEF f, u
<1>6. CASE Reads(c, Root)
  <2>1. f.ok = Known(u, p)
      BY <1>2, <1>6 DEF Seek, Found
  <2> QED
      BY <1>3, <1>5, <1>6, <2>1 DEF f
<1>7. CASE ~Reads(c, Root) /\ ~Known(c, p)
  <2>1. f = Found(Update(c, d, Parent(p)), p)
      BY <1>2, <1>7 DEF Seek
  <2>2. f.ok = Known(u, p)
      BY <1>1, <2>1 DEF Found, u
  <2> QED
      BY <1>3, <1>4, <1>7, <2>2 DEF f
<1>8. CASE ~Reads(c, Root) /\ Known(c, p)
    BY <1>2, <1>8 DEF Seek, Found, f
<1> QED
    BY <1>6, <1>7, <1>8

(* It is still found, and looking for a job in it changes nothing above it. *)
LEMMA GhostStays ==
    ASSUME NEW c \in Caches, NEW d \in Disks, NEW p \in Tree, Len(p) = 1,
           ~Reads(c, Root), Known(c, p)
    PROVE  /\ Find(c, d, p) = [cache |-> c, ok |-> TRUE]
           /\ \A j \in Tree : Len(j) = 2 /\ Parent(j) = p =>
                 /\ Find(c, d, j).cache[Root] = c[Root]
                 /\ Known(Find(c, d, j).cache, p)
<1>0. p \in Nodes /\ Root \in Nodes /\ Root # p /\ Root \notin Below[p]
  <2>1. Root \notin Tree
      BY FsCacheAssumption
  <2> QED
      BY <2>1, BelowInTree DEF Nodes
<1>1. Find(c, d, p) = Found(c, p)
    BY FindProject DEF Seek
<1>2. Found(c, p) = [cache |-> c, ok |-> TRUE]
    BY DEF Found, Known
<1>3. ASSUME NEW j \in Tree, Len(j) = 2, Parent(j) = p
      PROVE  Find(c, d, j).cache[Root] = c[Root] /\ Known(Find(c, d, j).cache, p)
  <2>1. j \in Nodes /\ j \in Seq(Nat) /\ SubSeq(j, 1, 1) = p
      BY <1>3, ParentOf, NodePath DEF Nodes
  <2>2. PICK w : /\ \A i \in 0 .. Len(j) : w[i] = OnWalk(c, d, j, w, i)
                 /\ Find(c, d, j) = w[Len(j)]
      BY <2>1, FindWalks
  <2>3. /\ w[0] = OnWalk(c, d, j, w, 0) /\ w[1] = OnWalk(c, d, j, w, 1)
        /\ w[2] = OnWalk(c, d, j, w, 2)
      BY <1>3, <2>2
  <2>4. 1 <= MaxLevel /\ 2 <= MaxLevel /\ 1 - 1 = 0 /\ 2 - 1 = 1
      BY FsCacheAssumption
  <2>5. w[0] = [cache |-> c, ok |-> TRUE]
      BY <2>3 DEF OnWalk
  <2>6. w[1] = Step(c, d, j, 1)
      BY <2>3, <2>4, <2>5 DEF OnWalk
  <2>7. w[1] = [cache |-> c, ok |-> TRUE]
      BY <1>2, <2>1, <2>6, FirstStep DEF Seek
  <2>8. w[2] = Step(c, d, j, 2)
      BY <2>3, <2>4, <2>7 DEF OnWalk
  <2>9. w[2].cache \in {c, Update(c, d, p)}
    <3>1. 2 \in 1 .. Len(j)
        BY <1>3
    <3>2. Step(c, d, j, 2).cache \in {c, Update(c, d, SubSeq(j, 1, 2 - 1))}
        BY <2>1, <3>1, StepIs
    <3> QED
        BY <2>1, <2>4, <2>8, <3>2
  <2>10. Known(Update(c, d, p), p) /\ Update(c, d, p)[Root] = c[Root]
    <3>1. Known(Update(c, d, p), p) /\ Touches(c, Update(c, d, p), p)
        BY <1>0, UpdateIs
    <3> QED
        BY <1>0, <3>1 DEF Touches
  <2>11. Find(c, d, j) = w[2]
      BY <1>3, <2>2
  <2> QED
      BY <2>9, <2>10, <2>11
<1> QED
    BY <1>1, <1>2, <1>3

(* A project that was only in the cache, and is made again with its first   *)
(* job, is shown: the directory that is told is the project itself.         *)
LEMMA GhostProjectMade ==
    ASSUME NEW c \in Caches, NEW d \in Disks, NEW j \in Tree, Len(j) = 2,
           NEW p \in Tree, p = Parent(j), p \notin d, Find(c, d, p).ok
    PROVE  LET f == Find(Find(c, d, p).cache, d, j)
               made == WithParents(d, j)
           IN  Good(Created(f.cache, d, j), made, {p}, {p}, {p})
<1> DEFINE f == Find(Find(c, d, p).cache, d, j)
           made == WithParents(d, j)
           e == Created(f.cache, d, j)
<1>1. Len(p) = 1
  <2>1. Len(p) = Len(j) - 1
      BY ParentOf
  <2> QED
      BY <2>1
<1>2. p \in Nodes /\ j \in Nodes /\ Parent(p) = Root /\ Root \in Nodes
  <2>1. Len(Parent(p)) = Len(p) - 1 /\ Parent(p) \in Nodes
      BY ParentOf
  <2>2. Len(Parent(p)) = 0
      BY <1>1, <2>1
  <2> QED
      BY <2>1, <2>2, NodePath DEF Nodes
<1>3. Find(c, d, p).cache = c /\ ~Reads(c, Root) /\ Known(c, p)
    BY <1>1, GhostProject
<1>4. f.cache[Root] = c[Root] /\ Known(f.cache, p)
    BY <1>1, <1>3, GhostStays
<1>5. f.cache \in Caches
  <2>1. Good(c, d, {}, {}, {})
      BY DEF Good
  <2>2. Looks(f, d, {}, {}, {}, j)
      BY <1>2, <1>3, <2>1, FindLooks
  <2> QED
      BY <2>2 DEF Looks, Good
<1>6. made \in Disks /\ p \in made
  <2>1. made \in Disks /\ Exists(made, p)
      BY MadeIsDisk
  <2> QED
      BY <2>1, FsCacheAssumption DEF Exists
<1> HIDE DEF f, made
<1>7. ~Reads(f.cache, Root)
    BY <1>3, <1>4 DEF Reads
<1>8. Find(f.cache, made, p) = [cache |-> f.cache, ok |-> TRUE]
    BY <1>1, <1>4, <1>5, <1>6, <1>7, GhostStays
<1>9. e = Modified(f.cache, p)
    BY <1>8 DEF Created, CreatedIn, Invalidate, made
<1>10. Level(p) > 0
    BY <1>4, <1>5, <1>2, KnownIs, LevelIs
<1>11. e \in Caches /\ Shown(e, p)
  <2>1. Good(f.cache, made, {}, {}, {})
      BY <1>5 DEF Good
  <2>2. Good(e, made, {}, {}, {}) /\ Shown(e, p)
      BY <1>2, <1>4, <1>6, <1>9, <1>10, <2>1, ModifiedGood
  <2> QED
      BY <2>2 DEF Good
<1> HIDE DEF e
<1>12. NoGhost(e, made, p) /\ NoGap(e, made, p) /\ NoTrace(e, made, p)
    BY <1>6, <1>11 DEF NoGhost, NoGap, NoTrace
<1> QED
    BY <1>11, <1>12 DEF Good, e, f, made

(* What the disk may have when a file was to be made.                       *)
WithFile(d, x) == {d, d \cup {x}}

(* The job.conf of a job that is made is told to its directory.             *)
LEMMA JobMade ==
    ASSUME NEW G \in SUBSET Tree, NEW H \in SUBSET Tree, NEW K \in SUBSET Tree,
           NEW c, NEW made \in Disks, Good(c, made, G, H, K), NEW j \in made,
           ConfOf(j) \in Tree, ConfOf(j) \notin H,
           NEW e \in WithFile(made, ConfOf(j))
    PROVE  /\ e \in Disks
           /\ Good(FileCreated(c, made, ConfOf(j)), e, G, H, K)
           /\ SeenRight(FileCreated(c, made, ConfOf(j)), e, ConfOf(j))
<1>1. j \in Nodes /\ j \in Tree
    BY DEF Disks, Nodes
<1>2. Parent(ConfOf(j)) = j
    BY <1>1, ConfIs
<1> DEFINE f == FileCreated(c, made, ConfOf(j))
<1>3. f = Invalidate(c, made, j)
    BY <1>2 DEF FileCreated
<1>4. Good(f, made, G, H, K) /\ f[j] # Fresh
    BY <1>1, <1>3, InvalidateGood
<1>5. made \cup {ConfOf(j)} \in Disks
    BY <1>2, AddedIsDisk DEF Exists
<1> HIDE DEF f
<1>6. Good(f, e, G, H, K)
  <2>1. e \in Disks /\ made \subseteq e /\ \A y \in H : y \in e => y \in made
      BY <1>5 DEF WithFile
  <2> QED
      BY <1>4, <2>1, GrowsGood
<1>7. SeenRight(f, e, ConfOf(j))
  <2>1. j # Root
      BY <1>1, FsCacheAssumption
  <2>2. Exists(e, j)
      BY DEF Exists, WithFile
  <2> QED
      BY <1>2, <1>4, <2>1, <2>2, ReadAgain DEF SeenRight
<1> QED
    BY <1>5, <1>6, <1>7 DEF f, WithFile

(* add_cis_job: the directory, which may be that of the project as well,    *)
(* and then its job.conf.                                                   *)
LEMMA add_cis_jobKeeps ==
    ASSUME ProjectsInv, NEW j \in JobPaths, add_cis_job(j)
    PROVE  Kept /\ Seen
<1> DEFINE p == Parent(j)
           g == GetProject(cache, disk, p)
           f == Find(g.cache, disk, j)
           made == WithParents(disk, j)
           c1 == Created(f.cache, disk, j)
           c2 == FileCreated(c1, made, ConfOf(j))
<1>1. /\ j \in Tree /\ j \in Nodes /\ Len(j) = 2 /\ disk \in Disks
      /\ ConfOf(j) \in Tree /\ ConfOf(j) # j
  <2>1. j \in Tree /\ Len(j) = 2 /\ ConfOf(j) \in Tree /\ ConfOf(j) \in Confs
      BY DEF JobPaths, Confs
  <2>2. Len(ConfOf(j)) = 3
      BY <2>1, ConfsAre
  <2>3. ConfOf(j) # j
      BY <2>1, <2>2
  <2> QED
      BY <2>1, <2>3 DEF Nodes, ProjectsInv
<1>2. p \in Nodes /\ Len(p) = 1 /\ p \in Tree
  <2>1. p \in Nodes /\ Len(p) = Len(j) - 1
      BY <1>1, ParentOf
  <2>2. Len(p) = 1
      BY <1>1, <2>1
  <2> HIDE DEF p
  <2>3. p # Root
      BY <2>2 DEF Root
  <2> QED
      BY <2>1, <2>2, <2>3 DEF Nodes
<1>3. /\ g.ok
      /\ \/ disk' = made /\ cache' = c1
         \/ disk' \in WithFile(made, ConfOf(j)) /\ cache' = c2
      /\ UNCHANGED <<rows, running, hung, moved>>
    BY DEF add_cis_job, WithFile
<1>4. g.cache = Find(cache, disk, p).cache /\ (g.ok => Find(cache, disk, p).ok)
  <2> DEFINE h == Find(cache, disk, p)
  <2>1. g = [cache |-> h.cache, ok |-> h.ok /\ IsDirectory(h.cache, p)]
      BY DEF GetProject
  <2> HIDE DEF g, h
  <2>2. g.cache = h.cache /\ g.ok = (h.ok /\ IsDirectory(h.cache, p))
      BY <2>1, Zenon
  <2>3. g.ok => h.ok
      BY <2>2
  <2> QED
      BY <2>2, <2>3 DEF h
<1>5. Good(f.cache, disk, Held, {}, {}) /\ Good(f.cache, disk, {}, {}, {})
  <2>1. Looks(g, disk, Held, {}, {}, p)
      BY <1>1, <1>2, HeldInTree, GetProjectLooks DEF ProjectsInv
  <2> HIDE DEF g, p
  <2>2. Looks(f, disk, Held, {}, {}, j)
      BY <1>1, <2>1, HeldInTree, FindLooks DEF Looks
  <2> QED
      BY <2>2 DEF Looks, Good
<1>6. /\ made \in Disks /\ disk \subseteq made
      /\ Good(c1, made, Held, {}, {}) /\ SeenRight(c1, made, j)
      /\ \A y \in made \ disk : y = j \/ j \in Below[y]
  <2> HIDE DEF f
  <2> QED
      BY <1>1, <1>5, HeldInTree, CreatedIs
<1>7. j \in made
    BY <1>1, MadeIsDisk
<1>8. p \in Changed => Good(c1, made, {p}, {p}, {p})
  <2>1. p \in Changed => p \notin disk
    <3>1. disk \subseteq disk'
        BY <1>3, <1>6 DEF WithFile
    <3> QED
        BY <3>1 DEF Changed
  <2>2. p \notin disk => Good(Created(Find(Find(cache, disk, p).cache, disk, j).cache, disk, j),
                              made, {p}, {p}, {p})
    <3>1. cache \in Caches /\ Find(cache, disk, p).ok
        BY <1>3, <1>4 DEF ProjectsInv, Good
    <3> HIDE DEF g, f, c1, made
    <3> QED
        BY <1>1, <1>2, <3>1, GhostProjectMade DEF made
  <2> QED
      BY <1>4, <2>1, <2>2
<1>9. Good(c1, made, {j}, {j}, {}) /\ p # Root
  <2>1. p # Root
      BY <1>2, FsCacheAssumption
  <2> HIDE DEF c1, made, p
  <2>2. Good(c1, made, {j}, {j}, {})
      BY <1>6 DEF Good, SeenRight
  <2> QED
      BY <2>1, <2>2
<1>10. \A y \in Changed : y \in {j, p, ConfOf(j)}
  <2>1. SUFFICES ASSUME NEW y \in Changed, y # j, y # ConfOf(j) PROVE y = p
      OBVIOUS
  <2>2. y \in made \ disk
      BY <1>3, <1>6, <2>1 DEF Changed, WithFile
  <2>3. y \in Tree /\ y \in Nodes /\ j \in Below[y]
      BY <1>6, <2>1, <2>2 DEF Disks, Nodes
  <2>4. p = y \/ p \in Below[y]
      BY <1>1, <2>3, BelowByParent
  <2>5. p \notin Below[y]
    <3>1. p \in Below[y] => Len(y) < 1
        BY <1>2, <2>3, BelowIs
    <3> QED
        BY <2>3, <3>1, NodePath
  <2> QED
      BY <2>4, <2>5
<1>11. p \in Changed => {p} \in SUBSET Tree
    BY <1>2
<1> HIDE DEF f, g, c1, c2, made, p
<1>14. ASSUME NEW G \in SUBSET Tree, NEW H \in SUBSET Tree, NEW K \in SUBSET Tree,
              Good(c1, made, G, H, K), ConfOf(j) \notin H,
              NEW e \in WithFile(made, ConfOf(j))
       PROVE  /\ e \in Disks
              /\ Good(c2, e, G, H, K)
              /\ SeenRight(c2, e, ConfOf(j))
  <2>1. made \in Disks /\ ConfOf(j) \in Tree
      BY <1>1, <1>6
  <2>2. /\ e \in Disks
        /\ Good(FileCreated(c1, made, ConfOf(j)), e, G, H, K)
        /\ SeenRight(FileCreated(c1, made, ConfOf(j)), e, ConfOf(j))
      BY <1>7, <1>14, <2>1, JobMade
  <2> QED
      BY <2>2 DEF c2
<1>12. CASE disk' = made /\ cache' = c1
  <2>1. Kept
      BY <1>3, <1>6, <1>12 DEF Kept, ProjectsInv
  <2>2. ASSUME NEW y \in Changed
        PROVE  SeenRight(cache', disk', y)
    <3>1. CASE y = j
        BY <1>6, <1>12, <3>1
    <3>2. CASE y = p
      <4>1. Parent(y) = Root
        <5>1. Parent(p) \in Nodes /\ Len(Parent(p)) = Len(p) - 1
            BY <1>2, ParentOf
        <5>2. Len(Parent(p)) = 0
            BY <1>2, <5>1
        <5> QED
            BY <3>2, <5>1, <5>2, NodePath
      <4> QED
          BY <1>8, <1>12, <3>2, <4>1 DEF Good, SeenRight, Exists
    <3>3. CASE y = ConfOf(j) /\ y # p /\ y # j
      <4>1. y \in made /\ y \notin disk
          BY <1>6, <1>12 DEF Changed
      <4>2. j \in Below[y] /\ Len(j) = 2 /\ Len(y) = 3
        <5>1. ConfOf(j) \in Confs
            BY <1>1 DEF Confs
        <5> QED
            BY <1>1, <1>6, <3>3, <4>1, <5>1, ConfsAre
      <4>3. Len(y) < Len(j)
          BY <1>1, <3>3, <4>2, BelowIs DEF Nodes
      <4> QED
          BY <4>2, <4>3
    <3> QED
        BY <1>10, <3>1, <3>2, <3>3
  <2> QED
      BY <2>1, <2>2 DEF Seen
<1>13. CASE disk' \in WithFile(made, ConfOf(j)) /\ cache' = c2
  <2>1. /\ disk' \in Disks
        /\ Good(cache', disk', Held, {}, {})
        /\ SeenRight(cache', disk', ConfOf(j))
    <3>1. ConfOf(j) \notin {}
        OBVIOUS
    <3> QED
        BY <1>6, <1>13, <1>14, <3>1, HeldInTree
  <2>2. Kept
      BY <1>3, <2>1 DEF Kept, ProjectsInv
  <2>3. SeenRight(cache', disk', j)
    <3>1. Good(cache', disk', {j}, {j}, {})
      <4>1. {j} \in SUBSET Tree /\ {} \in SUBSET Tree /\ ConfOf(j) \notin {j}
          BY <1>1
      <4> QED
          BY <1>9, <1>13, <1>14, <4>1
    <3>2. Exists(disk', p)
        BY <1>6, <1>13 DEF SeenRight, Exists, p, WithFile
    <3> QED
        BY <1>9, <3>1, <3>2 DEF Good, SeenRight, p
  <2>4. p \in Changed => SeenRight(cache', disk', p)
    <3>1. SUFFICES ASSUME p \in Changed PROVE SeenRight(cache', disk', p)
        OBVIOUS
    <3>2. {p} \in SUBSET Tree /\ ConfOf(j) \notin {p} /\ Good(c1, made, {p}, {p}, {p})
      <4>1. ConfOf(j) # p
        <5>1. ConfOf(j) \in Confs
            BY <1>1 DEF Confs
        <5>2. Len(ConfOf(j)) = 3
            BY <5>1, ConfsAre
        <5> QED
            BY <1>2, <5>2
      <4> QED
          BY <1>2, <1>8, <3>1, <4>1
    <3>3. Good(cache', disk', {p}, {p}, {p})
        BY <1>13, <1>14, <3>2
    <3>4. Parent(p) = Root
      <4>1. Parent(p) \in Nodes /\ Len(Parent(p)) = Len(p) - 1
          BY <1>2, ParentOf
      <4>2. Len(Parent(p)) = 0
          BY <1>2, <4>1
      <4> QED
          BY <4>1, <4>2, NodePath
    <3> QED
        BY <3>3, <3>4 DEF Good, SeenRight, Exists
  <2>5. Seen
      BY <1>10, <2>1, <2>3, <2>4 DEF Seen
  <2> QED
      BY <2>2, <2>5
<1> QED
    BY <1>3, <1>12, <1>13

(* What is invalidated is invalidated twice. *)
LEMMA MovedIs ==
    ASSUME NEW G \in SUBSET Tree, NEW H \in SUBSET Tree, NEW K \in SUBSET Tree,
           NEW c, NEW d \in Disks, Good(c, d, G, H, K),
           NEW x \in Nodes, Exists(d, x)
    PROVE  /\ Good(Invalidate(c, d, x), d, G, H, K)
           /\ Invalidate(c, d, x)[x] # Fresh
<1>1. x \in G => x \in d
    BY FsCacheAssumption DEF Exists
<1> QED
    BY <1>1, InvalidateGood

(* A file is moved: nothing but itself goes.                                *)
LEMMA FileMoved ==
    ASSUME NEW d \in Disks, NEW old \in Tree \cup Away, NEW new \in Tree \cup Away,
           NEW e \in Renamed(d, old, new), old \notin Dirs,
           NEW c, NEW y \in Tree, y # old, NoGhost(c, d, y)
    PROVE  NoGhost(c, e, y)
<1>1. \A z \in d \ e : old \in Tree /\ z \in Below[old] \cup {old}
  <2>1. /\ e \in Disks
        /\ Exists(e, Parent(old)) /\ Exists(e, Parent(new))
        /\ \A z \in d \ e : /\ old \in Tree /\ z \in Below[old] \cup {old}
                            /\ z = old \/ Parent(z) \in d \ e
      BY RenamedIsDisk
  <2> QED
      BY <2>1
<1>2. ASSUME NEW z \in d \ e PROVE z = old
  <2>1. old \in Tree /\ old \in Nodes /\ z \in Below[old] \cup {old}
      BY <1>1, <1>2 DEF Nodes
  <2>2. z \notin Below[old]
    <3>1. SUFFICES ASSUME z \in Below[old] PROVE FALSE
        OBVIOUS
    <3>2. Toward(old, z) \in Tree /\ Parent(Toward(old, z)) = old
        BY <2>1, <3>1, TowardIs
    <3>3. old \in Dirs \cup {Root}
        BY <3>2, ParentOf
    <3> QED
        BY <2>1, <3>3, FsCacheAssumption
  <2> QED
      BY <2>1, <2>2
<1>3. Parent(y) \in Dirs \cup {Root}
    BY ParentOf
<1>4. Exists(d, Parent(y)) => Exists(e, Parent(y))
    BY <1>2, <1>3 DEF Exists
<1> QED
    BY <1>2, <1>4 DEF NoGhost

(* move_fs_entry tells both directories. *)
LEMMA move_fs_entryKeeps ==
    ASSUME ProjectsInv, NEW old \in Tree \cup Away, NEW new \in Tree \cup Away,
           move_fs_entry(old, new)
    PROVE  ProjectsInv' /\ Seen
<1> DEFINE a1 == Invalidate(cache, disk', Parent(old))
           a2 == Invalidate(a1, disk', Parent(new))
<1>1. /\ disk' \in Renamed(disk, old, new) /\ cache' = a2
      /\ moved' = (moved \/ old \in Dirs \/ new \in Dirs)
      /\ UNCHANGED <<rows, running, hung>>
    BY DEF move_fs_entry, Moved
<1>2. /\ disk \in Disks /\ cache \in Caches
    BY DEF ProjectsInv, Good
<1>3. /\ disk' \in Disks
      /\ Parent(old) \in Nodes /\ Parent(new) \in Nodes
      /\ Exists(disk', Parent(old)) /\ Exists(disk', Parent(new))
      /\ \A y \in disk \ disk' : y = old \/ Parent(y) \in disk \ disk'
      /\ \A y \in disk' \ disk : y = new \/ IsStrictPrefix(new, y)
    BY <1>1, <1>2, RenamedIsDisk
<1>4. ASSUME NEW G \in SUBSET Tree, Good(cache, disk', G, {}, {})
      PROVE  Good(a1, disk', G, {}, {}) /\ a1[Parent(old)] # Fresh
    BY <1>3, <1>4, MovedIs
<1>5. ASSUME NEW G \in SUBSET Tree, NEW H \in SUBSET Tree, NEW K \in SUBSET Tree,
             Good(a1, disk', G, H, K)
      PROVE  Good(a2, disk', G, H, K) /\ a2[Parent(new)] # Fresh
  <2> HIDE DEF a1
  <2> QED
      BY <1>3, <1>5, MovedIs
<1> HIDE DEF a1, a2
<1>6. /\ Good(a1, disk', {}, {}, {}) /\ a1[Parent(old)] # Fresh
      /\ Good(a2, disk', {}, {}, {}) /\ a2[Parent(new)] # Fresh
  <2>1. Good(cache, disk', {}, {}, {}) /\ {} \in SUBSET Tree
      BY <1>2 DEF Good
  <2>2. Good(a1, disk', {}, {}, {}) /\ a1[Parent(old)] # Fresh
      BY <1>4, <2>1
  <2> QED
      BY <1>5, <2>1, <2>2
<1>7. NoGhost(a1, disk', old) /\ NoGap(a1, disk', old) /\ NoTrace(a1, disk', old)
    BY <1>3, <1>6, ReadAgain
<1>8. Good(cache', disk', Held', {}, {})
  <2>1. CASE moved'
    <3>1. Held' = {}
        BY <2>1 DEF Held
    <3> QED
        BY <1>1, <1>6, <3>1
  <2>2. CASE ~moved'
    <3> DEFINE G == Confs \ {old}
    <3>1. ~moved /\ old \notin Dirs /\ Held = Confs /\ Held' = Confs
        BY <1>1, <2>2 DEF Held
    <3>2. Confs \in SUBSET Tree /\ G \in SUBSET Tree /\ {} \in SUBSET Tree
        BY DEF Confs
    <3>3. ASSUME NEW y \in G PROVE NoGhost(cache, disk', y)
      <4>1. NoGhost(cache, disk, y) /\ y \in Tree /\ y # old
          BY <3>1, <3>2 DEF ProjectsInv, Good
      <4> QED
          BY <1>1, <1>2, <3>1, <4>1, FileMoved
    <3>4. Good(cache, disk', G, {}, {})
        BY <1>2, <3>3 DEF Good
    <3>5. Good(a1, disk', G, {}, {})
        BY <1>4, <3>2, <3>4
    <3>6. Good(a1, disk', Confs, {}, {})
        BY <1>7, <3>5 DEF Good
    <3>7. Good(a2, disk', Confs, {}, {})
        BY <1>5, <3>2, <3>6
    <3> QED
        BY <1>1, <3>1, <3>7
  <2> QED
      BY <2>1, <2>2
<1>9. ProjectsInv'
  <2>1. moved' \in BOOLEAN /\ (hung' => moved') /\ hung' \in BOOLEAN
      BY <1>1 DEF ProjectsInv
  <2> QED
      BY <1>1, <1>3, <1>8, <2>1 DEF ProjectsInv
<1>10. ASSUME NEW y \in Changed
       PROVE  SeenRight(cache', disk', y) \/ AlongWith(y)
  <2>1. y \in Tree
      BY <1>2, <1>3 DEF Changed, Disks
  <2>2. CASE y = old
    <3>1. Good(a1, disk', {y}, {y}, {y}) /\ {y} \in SUBSET Tree
        BY <1>6, <1>7, <2>1, <2>2 DEF Good
    <3>2. Good(a2, disk', {y}, {y}, {y})
        BY <1>5, <3>1
    <3> QED
        BY <1>1, <1>3, <2>2, <3>2 DEF Good, SeenRight
  <2>3. CASE y = new
    <3>1. NoGhost(a2, disk', y) /\ NoGap(a2, disk', y) /\ NoTrace(a2, disk', y)
        BY <1>3, <1>6, <2>3, ReadAgain
    <3> QED
        BY <1>1, <1>3, <2>3, <3>1 DEF SeenRight
  <2>4. CASE Parent(y) \in disk \ disk'
      BY <2>4 DEF AlongWith, Changed
  <2>5. CASE IsStrictPrefix(new, y)
      BY <2>5 DEF AlongWith
  <2> QED
      BY <1>3, <2>2, <2>3, <2>4, <2>5 DEF Changed
<1> QED
    BY <1>9, <1>10 DEF Seen

-----------------------------------------------------------------------------
(* Others, and the start *)

(* Nothing changes on the disk. *)
LEMMA NothingToSee == ASSUME disk' = disk PROVE Seen
BY DEF Seen, Changed

(* A build begins, or a file is uploaded: the cache is not told.            *)
LEMMA AddedKeeps ==
    ASSUME ProjectsInv, NEW x \in Tree, BuildBegins(x) \/ Uploaded(x)
    PROVE  Kept /\ Seen
<1>1. /\ disk' = disk \cup {x} /\ Exists(disk, Parent(x)) /\ disk \in Disks
      /\ UNCHANGED <<cache, rows, running, hung, moved>>
    BY DEF BuildBegins, Uploaded, Elsewhere, Exists, ProjectsInv
<1>2. disk \cup {x} \in Disks
    BY <1>1, AddedIsDisk
<1>3. Good(cache, disk \cup {x}, Held, {}, {})
    BY <1>1, <1>2, HeldInTree, GrowsGood DEF ProjectsInv
<1>4. Kept
    BY <1>1, <1>2, <1>3 DEF Kept, ProjectsInv
<1>5. Seen
    BY <1>1 DEF Seen, Changed, ByOthers
<1> QED
    BY <1>4, <1>5

(* A build that is dropped has no job.conf in it that is read.              *)
LEMMA BuildDroppedKeeps ==
    ASSUME ProjectsInv, NEW b \in BuildPaths, BuildDropped(b)
    PROVE  Kept /\ Seen
<1>1. /\ disk' = disk \ Subtree(disk, b) /\ disk \in Disks
      /\ UNCHANGED <<cache, rows, running, hung, moved>>
    BY DEF BuildDropped, Elsewhere, ProjectsInv
<1>2. b \in Tree /\ b \in Nodes /\ Len(b) = 3 /\ Last(b) # Conf
    BY ProjectsAssumption DEF BuildPaths, Nodes
<1>3. disk' \in Disks /\ disk \ disk' \subseteq Below[b] \cup {b}
    BY <1>1, <1>2, NothingLeft, RemovedIsDisk
<1>4. ASSUME NEW y \in Held PROVE NoGhost(cache, disk', y)
  <2>1. y \in Tree /\ Len(y) = 3 /\ Last(y) = Conf /\ Parent(y) \in Tree
      BY ConfsAre DEF Held
  <2>2. Len(Parent(y)) = 2
    <3>1. Len(Parent(y)) = Len(y) - 1
        BY <2>1, ParentOf
    <3> QED
        BY <2>1, <3>1
  <2>3. \A z \in Tree : Len(z) <= 3 => z \notin Below[b]
      BY <1>2, BelowIs, NodePath DEF Nodes
  <2>4. y \notin Below[b] \cup {b} /\ Parent(y) \notin Below[b] \cup {b}
    <3>2. Len(y) <= 3 /\ Len(Parent(y)) <= 3
        BY <2>1, <2>2
    <3>1. y \notin Below[b] /\ Parent(y) \notin Below[b]
        BY <2>1, <2>3, <3>2
    <3> QED
        BY <1>2, <2>1, <2>2, <3>1
  <2>5. (y \in disk' <=> y \in disk) /\ (Exists(disk', Parent(y)) <=> Exists(disk, Parent(y)))
      BY <1>1, <1>3, <2>4 DEF Exists
  <2>6. NoGhost(cache, disk, y)
      BY DEF ProjectsInv, Good
  <2> QED
      BY <2>5, <2>6 DEF NoGhost
<1>5. Good(cache', disk', Held, {}, {})
    BY <1>1, <1>4 DEF ProjectsInv, Good
<1>6. Kept
    BY <1>1, <1>3, <1>5 DEF Kept, ProjectsInv
<1>7. ASSUME NEW y \in Changed, y # b PROVE Parent(y) \in Changed
  <2>1. y \in disk /\ y \in Tree /\ y \in Below[b]
      BY <1>1, <1>3, <1>7 DEF Changed, Disks
  <2>2. Parent(y) \in Below[b] \cup {b}
      BY <1>2, <2>1, BelowByParent
  <2>3. Parent(y) \in Tree /\ Parent(y) # Root
      BY <1>2, <2>2, BelowInTree, FsCacheAssumption
  <2>4. Parent(y) \in disk
      BY <1>1, <2>1, <2>3 DEF Disks, Exists
  <2> QED
      BY <1>1, <2>2, <2>4 DEF Changed, Subtree
<1>8. Seen
    BY <1>7 DEF Seen, AlongWith, ByOthers
<1> QED
    BY <1>6, <1>8

(* A cache that only has the root has no ghosts.                            *)
LEMMA EmptyCacheGood ==
    ASSUME NEW d \in Disks, NEW G \in SUBSET Tree
    PROVE  Good(Update(EmptyCache, d, Root), d, G, {}, {})
<1>1. Root \in Nodes /\ Root \notin Tree
    BY FsCacheAssumption DEF Nodes
<1>2. /\ EmptyCache \in [Nodes -> [state : States, old : BOOLEAN]]
      /\ EmptyCache[Root] = InitNode
      /\ \A y \in Tree : EmptyCache[y] = NoNode
    BY <1>1, NodeTypes DEF EmptyCache, Nodes
<1> HIDE DEF EmptyCache
<1>3. Known(EmptyCache, Root) /\ \A y \in Tree : ~Known(EmptyCache, y)
    BY <1>2, NodeTypes DEF Known
<1>4. EmptyCache \in Caches
    BY <1>2, <1>3 DEF Caches
<1>5. \A y \in G : NoGhost(EmptyCache, d, y)
    BY <1>3 DEF NoGhost, Shown
<1>6. Good(EmptyCache, d, G, {}, {})
    BY <1>4, <1>5 DEF Good
<1> QED
    BY <1>1, <1>3, <1>6, UpdateGood

(* The program starts again with an empty cache. *)
LEMMA RestartKeeps ==
    ASSUME ProjectsInv, Restart
    PROVE  ProjectsInv' /\ Seen
<1>1. /\ cache' = Update(EmptyCache, disk, Root)
      /\ rows' = RowsAsFound(disk)
      /\ running' = {} /\ hung' = FALSE /\ moved' = FALSE /\ disk' = disk
    BY DEF Restart
<1>2. rows' \in [ProjectPaths -> {"none", "live", "deleted"}]
    BY <1>1 DEF RowsAsFound
<1>3. Held' = Confs /\ Confs \in SUBSET Tree
    BY <1>1 DEF Held, Confs
<1>4. Good(cache', disk', Held', {}, {})
    BY <1>1, <1>3, EmptyCacheGood DEF ProjectsInv
<1>5. ProjectsInv'
    BY <1>1, <1>2, <1>4 DEF ProjectsInv
<1> QED
    BY <1>1, <1>5, NothingToSee

(* A node that has aged is not fresh. *)
LEMMA AgesKeeps ==
    ASSUME ProjectsInv, NEW x \in Nodes, Ages(x)
    PROVE  Kept /\ Seen
<1>1. /\ Known(cache, x) /\ cache' = [cache EXCEPT ![x].old = TRUE]
      /\ UNCHANGED <<disk, rows, running, hung, moved>>
      /\ cache \in [Nodes -> Rec] /\ cache \in Caches
    BY KnownIs DEF Ages, ProjectsInv, Good
<1>2. [cache[x] EXCEPT !.old = TRUE] \in Rec
      /\ [cache[x] EXCEPT !.old = TRUE].state = cache[x].state
      /\ [cache[x] EXCEPT !.old = TRUE].old = TRUE
    BY <1>1 DEF Rec
<1>3. /\ cache' \in [Nodes -> Rec]
      /\ cache'[x].state = cache[x].state /\ cache'[x].old = TRUE
      /\ \A y \in Nodes : y # x => cache'[y] = cache[y]
    BY <1>1, <1>2
<1>4. \A y \in Nodes : /\ Known(cache', y) <=> Known(cache, y)
                       /\ Shown(cache', y) <=> Shown(cache, y)
                       /\ cache'[y] = Fresh => cache[y] = Fresh
  <2>1. SUFFICES ASSUME NEW y \in Nodes
                 PROVE  cache'[y].state = cache[y].state /\ (cache'[y] = Fresh => cache[y] = Fresh)
      BY DEF Known, Shown, Deleted
  <2>2. Fresh.old = FALSE
      BY DEF Fresh
  <2> QED
      BY <1>3, <2>2
<1>5. cache' \in Caches
  <2>1. Root \in Nodes /\ \A y \in Tree : y \in Nodes /\ Parent(y) \in Nodes
      BY ParentOf DEF Nodes
  <2> QED
      BY <1>1, <1>3, <1>4, <2>1 DEF Caches, Rec
<1>6. \A y \in Held : NoGhost(cache', disk, y)
  <2>1. \A y \in Held : y \in Nodes /\ Parent(y) \in Nodes
      BY HeldInTree, ParentOf DEF Nodes
  <2> QED
      BY <1>4, <2>1 DEF ProjectsInv, Good, NoGhost
<1>7. Kept
    BY <1>1, <1>5, <1>6 DEF Kept, Good, ProjectsInv
<1> QED
    BY <1>1, <1>7, NothingToSee

-----------------------------------------------------------------------------
(* The theorems *)

(* The program starts with a cache that has only the root.                  *)
LEMMA InitKeeps == ASSUME Init PROVE ProjectsInv
<1>1. /\ disk = {} /\ rows = [p \in ProjectPaths |-> "none"]
      /\ cache = Update(EmptyCache, disk, Root)
      /\ running = {} /\ hung = FALSE /\ moved = FALSE
    BY DEF Init
<1>2. disk \in Disks
    BY <1>1 DEF Disks
<1>3. Good(cache, disk, Held, {}, {})
    BY <1>1, <1>2, HeldInTree, EmptyCacheGood
<1> QED
    BY <1>1, <1>2, <1>3 DEF ProjectsInv

(* Every step keeps the invariant, and has its changes seen.                *)
LEMMA NextKeeps == ASSUME ProjectsInv, Next PROVE ProjectsInv' /\ Seen
<1>1. ASSUME OnlyLooked PROVE ProjectsInv' /\ Seen
    BY <1>1, OnlyLookedKeeps, NothingToSee DEF OnlyLooked
<1>2. ASSUME Kept, Seen PROVE ProjectsInv' /\ Seen
    BY <1>2, KeptKeeps
<1>3. CASE Restart
    BY <1>3, RestartKeeps
<1>4. CASE list_projects
    BY <1>1, <1>4, list_projectsLooks
<1>5. ASSUME NEW p \in ProjectPaths, OfProject(p) PROVE ProjectsInv' /\ Seen
  <2>1. CASE get_project_info(p)
      BY <1>1, <2>1, get_project_infoLooks
  <2>2. CASE add_cis_project(p)
      BY <1>2, <2>2, add_cis_projectKeeps
  <2>3. CASE remove_cis_project(p)
      BY <1>2, <2>3, remove_cis_projectKeeps
  <2> QED
      BY <1>5, <2>1, <2>2, <2>3 DEF OfProject
<1>6. ASSUME NEW j \in JobPaths, OfJob(j) PROVE ProjectsInv' /\ Seen
  <2>1. CASE get_job_info(j)
      BY <1>1, <2>1, get_job_infoLooks
  <2>2. CASE add_cis_job(j)
      BY <1>2, <2>2, add_cis_jobKeeps
  <2>3. CASE remove_cis_job(j)
      BY <1>2, <2>3, remove_cis_jobKeeps
  <2>4. CASE run_job(j) \/ Started(j) \/ Finished(j) \/ add_cis_cron(j)
      BY <1>1, <2>4, RunLooks
  <2> QED
      BY <1>6, <2>1, <2>2, <2>3, <2>4 DEF OfJob, remove_cis_cron
<1>7. ASSUME NEW b \in BuildPaths, OfBuild(b) PROVE ProjectsInv' /\ Seen
  <2>1. CASE get_build_info(b)
      BY <1>1, <2>1, get_build_infoLooks
  <2>2. CASE remove_cis_build(b)
      BY <1>2, <2>2, remove_cis_buildKeeps
  <2>3. CASE BuildBegins(b)
    <3>1. b \in Tree
        BY DEF BuildPaths
    <3> QED
        BY <1>2, <2>3, <3>1, AddedKeeps
  <2>4. CASE BuildDropped(b)
      BY <1>2, <2>4, BuildDroppedKeeps
  <2> QED
      BY <1>7, <2>1, <2>2, <2>3, <2>4 DEF OfBuild
<1>8. ASSUME NEW x \in Tree, OfPath(x) PROVE ProjectsInv' /\ Seen
  <2>1. CASE get_fs_entry_info(x) \/ list_directory(x) \/ refresh_fs_entry(x)
      BY <1>1, <2>1, PathLooks
  <2>2. CASE new_directory(x)
      BY <1>2, <2>2, new_directoryKeeps
  <2>3. CASE remove_fs_entry(x)
      BY <1>2, <2>3, remove_fs_entryKeeps
  <2>4. CASE Uploaded(x)
      BY <1>2, <2>4, AddedKeeps
  <2>5. CASE \E y \in Tree \cup Away : move_fs_entry(x, y)
      BY <2>5, move_fs_entryKeeps
  <2>6. CASE \E y \in Away : move_fs_entry(y, x)
      BY <2>6, move_fs_entryKeeps
  <2> QED
      BY <1>8, <2>1, <2>2, <2>3, <2>4, <2>5, <2>6 DEF OfPath, set_fs_entry_executable_flag
<1>9. ASSUME NEW x \in Nodes, Ages(x) PROVE ProjectsInv' /\ Seen
    BY <1>2, <1>9, AgesKeeps
<1> QED
    BY <1>3, <1>4, <1>5, <1>6, <1>7, <1>8, <1>9 DEF Next

(* A step that changes nothing keeps it.                                    *)
LEMMA StutterKeeps == ASSUME ProjectsInv, UNCHANGED vars PROVE ProjectsInv'
BY DEF vars, ProjectsInv, Held

(* So it is an invariant.                                                   *)
LEMMA Invariance == Spec => []ProjectsInv
<1>1. Init => ProjectsInv
    BY InitKeeps
<1>2. ProjectsInv /\ [Next]_vars => ProjectsInv'
    BY NextKeeps, StutterKeeps
<1> QED
    BY <1>1, <1>2, PTL DEF Spec

(* The cache is a tree of nodes of the paths, and what exists is a tree.    *)
THEOREM TypeCorrect == Spec => []TypeOK
<1>1. ProjectsInv => TypeOK
    BY DEF ProjectsInv, TypeOK, FsTypeOK, Good, Caches, Disks
<1> QED
    BY <1>1, Invariance, PTL

(* What has aged is found exactly if it exists. *)
THEOREM AgedExact == Spec => []AgedIsExact
<1>1. ProjectsInv => AgedIsExact
  <2>1. SUFFICES ASSUME ProjectsInv, NEW x \in Tree, AllOld(Parent(x))
                 PROVE  Find(cache, disk, x).ok <=> x \in disk
      BY DEF AgedIsExact
  <2>2. x \in Nodes /\ Parent(x) \in Nodes /\ Len(x) \in Nat /\ Len(x) >= 1
        /\ Parent(x) = SubSeq(x, 1, Len(x) - 1) /\ Len(Parent(x)) = Len(x) - 1
        /\ x \in Seq(Nat)
      BY ParentOf, NodePath DEF Nodes
  <2>3. ASSUME NEW k \in 0 .. Len(x) - 1 PROVE Aged(cache, SubSeq(x, 1, k))
    <3>1. k \in 0 .. Len(x) /\ Len(x) - 1 \in 0 .. Len(x)
        BY <2>2
    <3>2. SubSeq(x, 1, k) \in Nodes /\ Len(SubSeq(x, 1, k)) = k
        BY <2>2, <3>1, Ancestors
    <3>3. SubSeq(Parent(x), 1, k) = SubSeq(x, 1, k)
        BY <2>2, <3>1, BeginningOfOne
    <3>4. IsPrefix(SubSeq(x, 1, k), Parent(x))
      <4>1. k <= Len(Parent(x))
          BY <2>2
      <4> DEFINE a == SubSeq(x, 1, k)
                 b == Parent(x)
      <4>2. a \in Nodes /\ b \in Nodes /\ Len(a) <= Len(b) /\ SubSeq(b, 1, Len(a)) = a
          BY <2>2, <3>2, <3>3, <4>1
      <4> HIDE DEF a, b
      <4>3. IsPrefix(a, b)
          BY <4>2, PrefixIs
      <4> QED
          BY <4>3 DEF a, b
    <3>5. cache[SubSeq(x, 1, k)].old \/ cache[SubSeq(x, 1, k)].state = "none"
        BY <2>1, <3>2, <3>4 DEF AllOld
    <3> QED
        BY <3>5 DEF Aged
  <2>4. cache \in Caches /\ disk \in Disks
      BY <2>1 DEF ProjectsInv, Good
  <2> QED
      BY <2>3, <2>4, AgedFound
<1> QED
    BY <1>1, Invariance, PTL

(* load_job_conf waits for ever only for a file whose directory, or one     *)
(* that this is in, was moved.                                              *)
THEOREM HangOnlyMoved == Spec => []HangsOnlyAfterMove
<1>1. ProjectsInv => HangsOnlyAfterMove
    BY DEF ProjectsInv, HangsOnlyAfterMove
<1> QED
    BY <1>1, Invariance, PTL

(* What a listing of x shows of y is right, unless y is overlooked. *)
ListsRight(c, d, x, y) ==
    /\ y \in d => y \in Listed(c, d, x)
    /\ y \in Listed(c, d, x) \ d => Overlooked(AfterListing(c, d, x), x, y)

(* A directory that is found lists an entry right. *)
LEMMA ListedRight ==
    ASSUME NEW c \in Caches, NEW d \in Disks, NEW x \in Tree, SeenButInRoot(c, d, x),
           Find(c, d, Parent(x)).ok
    PROVE  ListsRight(Find(c, d, Parent(x)).cache, d, Parent(x), x)
<1> DEFINE p == Parent(x)
           f == Find(c, d, p)
<1>1. p \in Nodes /\ x \in Children[p]
    BY ParentOf, ChildrenAre
<1>2. {x} \in SUBSET Tree /\ {} \in SUBSET Tree /\ Good(c, d, {x}, {x}, {})
    BY DEF SeenButInRoot, Good
<1>3. Looks(f, d, {x}, {x}, {}, p)
    BY <1>1, <1>2, FindLooks
<1> HIDE DEF f
<1> DEFINE a == f.cache
<1>4. Good(a, d, {x}, {x}, {}) /\ (Cached(p) => Known(a, p))
    BY <1>1, <1>3, LevelIs DEF Looks, f
<1> HIDE DEF a
<1>5. ListsRight(a, d, p, x)
  <2> HIDE DEF p
  <2> DEFINE G == {x}
             K == {}
  <2>1. G \in SUBSET Tree /\ K \in SUBSET Tree /\ Good(a, d, G, G, K) /\ x \in G
      BY <1>2, <1>4
  <2> HIDE DEF G, K
  <2>2. ListingShows(a, d, G, G, p)
      BY <1>1, <1>4, <2>1, ListingGood
  <2> QED
      BY <1>1, <2>1, <2>2 DEF ListsRight, ListingShows
<1> QED
    BY <1>5 DEF f, a

(* So does the root. *)
LEMMA RootListedRight ==
    ASSUME NEW c \in Caches, NEW d \in Disks, NEW x \in Tree, Parent(x) = Root, SeenRight(c, d, x)
    PROVE  x \in RootListed(c, d) <=> x \in d
<1> DEFINE u == Update(c, d, Root)
<1>1. Root \in Nodes /\ x \in Children[Root] /\ Known(c, Root) /\ Cached(Root)
    BY ChildrenAre, KnownIs, LevelIs DEF Nodes
<1>2. {x} \in SUBSET Tree /\ Good(c, d, {x}, {x}, {x})
    BY DEF SeenRight, Good
<1>3. Good(u, d, {x}, {x}, {x})
    BY <1>1, <1>2, UpdateGood
<1>4. u[Root] = Fresh
  <2>1. Exists(d, Root) /\ Folder(Root)
      BY DEF Exists, Folder
  <2>2. Level(Root) # 1
      BY <1>1 DEF Cached
  <2> QED
      BY <1>1, <2>1, <2>2, UpdateIs
<1> HIDE DEF u
<1>5. (Known(u, x) => x \in d) /\ (x \in d => Shown(u, x))
    BY <1>1, <1>3, <1>4 DEF Good, NoTrace, NoGap
<1>6. /\ x \in RootListed(c, d) => Known(u, x)
      /\ Shown(u, x) => x \in RootListed(c, d)
    BY <1>1 DEF RootListed, Named, Shown, u
<1> QED
    BY <1>5, <1>6

(* What a handler makes or moves is listed so at once, whatever the cache   *)
(* had read before, and so is what it removes, unless a listing steps over  *)
(* another deleted node instead.                                            *)
THEOREM ChangesSeen == Spec => OwnChangesSeen
<1>1. ASSUME ProjectsInv, ProjectsInv', Seen, NEW x \in Changed
      PROVE  ShownRight(cache', disk', x) \/ ByOthers(x) \/ AlongWith(x)
  <2>1. cache' \in Caches /\ disk' \in Disks /\ disk \in Disks
      BY <1>1 DEF ProjectsInv, Good
  <2>2. x \in Tree
      BY <2>1 DEF Changed, Disks
  <2>3. SeenButInRoot(cache', disk', x) =>
           LET f == Find(cache', disk', Parent(x))
           IN  f.ok => ListsRight(f.cache, disk', Parent(x), x)
      BY <2>1, <2>2, ListedRight
  <2>4. CASE SeenRight(cache', disk', x)
    <3>1. SeenButInRoot(cache', disk', x)
        BY <2>4 DEF SeenRight, SeenButInRoot
    <3>2. Parent(x) = Root => (x \in RootListed(cache', disk') <=> x \in disk')
        BY <2>1, <2>2, <2>4, RootListedRight
    <3> QED
        BY <2>3, <3>1, <3>2 DEF ShownRight, ListsRight
  <2>5. CASE remove_fs_entry(x) /\ SeenButInRoot(cache', disk', x)
      BY <2>3, <2>5 DEF ShownRight, ListsRight
  <2> QED
      BY <1>1, <2>4, <2>5 DEF Seen
<1>2. ProjectsInv /\ ProjectsInv' /\ [Next]_vars =>
         [\A x \in Changed : ShownRight(cache', disk', x) \/ ByOthers(x) \/ AlongWith(x)]_vars
    BY <1>1, NextKeeps
<1> QED
    BY <1>2, Invariance, PTL DEF Spec, OwnChangesSeen
=================================================================================
