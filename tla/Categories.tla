----------------------------- MODULE Categories -----------------------------
(***************************************************************************)
(* One tree of categories (src/internal/catalog categories.go and the      *)
(* triggers of migrations 000009, 000010 and 000017), all of one kind.     *)
(* Writes of the tree come one at a time, by an advisory lock.  What       *)
(* products do with categories is module ProductRefs.                      *)
(***************************************************************************)
EXTENDS Naturals, SequencesExt

CONSTANTS
  CategoryId,         (* ids                                                 *)
  Name,
  Segment,          (* Segment[n][k]: the k-th path segment tried for name n *)
  Chosen,           (* segments a client may choose                        *)
  None

ASSUME CategoryAssumption ==
  /\ None \notin CategoryId \cup Chosen
  /\ \A n \in Name : Segment[n] \in Seq(Range(Segment[n]))

VARIABLE tree      (* rows of categories                                  *)

NoCategory == [at |-> "none"]

Rows == {c \in CategoryId : tree[c] # NoCategory}
LiveCategory == {c \in CategoryId : tree[c].at = "live"}

(* Every segment that a path may have. *)
AnySegment == Chosen \cup UNION {Range(Segment[n]) : n \in Name}

CategoryRow == [at : {"live", "archived"}, name : Name, parent : CategoryId \cup {None},
                label : Chosen \cup {None}, path : Seq(AnySegment)]

CategoryTypeOK ==
  /\ tree \in [CategoryId -> {NoCategory} \cup CategoryRow]
  /\ \A c \in Rows : tree[c].parent \in Rows \cup {None}

CategoryInit == tree = [c \in CategoryId |-> NoCategory]
-----------------------------------------------------------------------------
PathOf(c) == IF c = None THEN <<>> ELSE tree[c].path

Taken(path, c) == \E d \in Rows \ {c} : tree[d].path = path

(* categories_set_path: the segment that was chosen, which a sibling must not
   have, or the first of the name's that no sibling has. *)
SetsPath(c, parent, name, label, path) ==
  IF label # None
  THEN path = Append(PathOf(parent), label) /\ ~Taken(path, c)
  ELSE LET Tried(k) == Append(PathOf(parent), Segment[name][k]) IN
       \E k \in DOMAIN Segment[name] :
         /\ path = Tried(k) /\ ~Taken(path, c)
         /\ \A j \in 1..(k - 1) : Taken(Tried(j), c)

(* checkParent. *)
MayBeParent(c) == c = None \/ c \in LiveCategory

Paths(c, parent, name, label) ==
  {path \in {Append(PathOf(parent), s) : s \in AnySegment} :
     SetsPath(c, parent, name, label, path)}

CreateCategory(c, name, parent, label) ==
  /\ c \notin Rows /\ MayBeParent(parent)
  /\ \E path \in Paths(c, parent, name, label) :
       tree' = [tree EXCEPT ![c] = [at |-> "live", name |-> name, parent |-> parent,
                                    label |-> label, path |-> path]]

(* path <@ old, the category itself included. *)
Below(path, old) == IsPrefix(old, path)

(* Mutation: only the children move with a category. *)
RebasedChildren(c, d, path) ==
  IF Below(tree[d].path, tree[c].path) /\ Len(tree[d].path) <= Len(tree[c].path) + 1
  THEN path \o SubSeq(tree[d].path, Len(tree[c].path) + 1, Len(tree[d].path))
  ELSE tree[d].path

(* categories_move_subtree: the new path of d, when c's becomes path. *)
Rebased(c, d, path) ==
  IF Below(tree[d].path, tree[c].path)
  THEN path \o SubSeq(tree[d].path, Len(tree[c].path) + 1, Len(tree[d].path))
  ELSE tree[d].path

(* Mutation: a category moves beneath whatever is live. *)
NoCycleUnchecked(c, parent) == parent # c

(* The guard of categories_set_path. *)
NoCycle(c, parent) == parent = None \/ ~Below(PathOf(parent), tree[c].path)

(* UpdateCategory: a rename, a move, another label, or all of it; checkParent
   looks at a parent that was sent, and nobody at the category itself. *)
UpdateCategory(c, name, parent, label) ==
  /\ c \in Rows
  /\ parent = tree[c].parent \/ MayBeParent(parent)
  /\ NoCycle(c, parent)
  /\ \E path \in Paths(c, parent, name, label) :
       tree' = [d \in CategoryId |->
         IF d = c THEN [tree[c] EXCEPT !.name = name, !.parent = parent, !.label = label,
                                       !.path = path]
         ELSE IF d \in Rows THEN [tree[d] EXCEPT !.path = Rebased(c, d, path)] ELSE tree[d]]

(* Mutation: nobody counts before a category is deleted. *)
HasLiveBelowUncounted(c) == FALSE

(* CategoryCounts, by path. *)
HasLiveBelow(c) == \E d \in LiveCategory \ {c} : Below(tree[d].path, tree[c].path)

ArchiveCategory(c) ==
  /\ c \in Rows /\ ~HasLiveBelow(c)
  /\ tree' = [tree EXCEPT ![c].at = "archived"]
-----------------------------------------------------------------------------
CategoryNext ==
  \E c \in CategoryId :
    \/ \E name \in Name, parent \in CategoryId \cup {None}, label \in Chosen \cup {None} :
         CreateCategory(c, name, parent, label) \/ UpdateCategory(c, name, parent, label)
    \/ ArchiveCategory(c)

CategorySpec == CategoryInit /\ [][CategoryNext]_tree
-----------------------------------------------------------------------------
(***************************************************************************)
(* "Renaming, relabelling or moving a category rewrites every descendant's *)
(* path in the same statement" (BR-032), and siblings never share one      *)
(* (BR-035): a path is the parent's with one segment more, so there is no  *)
(* cycle either (BR-034), and no two are the same.  And "a category with   *)
(* subcategories cannot be deleted" (BR-036): a live category hangs on     *)
(* live ones only, whatever is deleted or moved in whichever order.        *)
(***************************************************************************)
TreeAgrees ==
  /\ \A c \in Rows : /\ tree[c].path # <<>> /\ Front(tree[c].path) = PathOf(tree[c].parent)
                     /\ ~Taken(tree[c].path, c)
  /\ \A c \in LiveCategory : tree[c].parent # None => tree[c].parent \in LiveCategory

(***************************************************************************)
(* A write is about one category: the others keep their place under their  *)
(* parents and the last segment of their paths, and those that are not     *)
(* below it the whole path (BR-032): moving a subtree neither tears it     *)
(* apart nor takes anything else along.                                    *)
(***************************************************************************)
OthersStay ==
  [][\E c \in CategoryId : \A d \in Rows \ {c} :
       /\ tree'[d].parent = tree[d].parent /\ tree'[d].at = tree[d].at
       /\ Last(tree'[d].path) = Last(tree[d].path)
       /\ tree'[d].path # tree[d].path => c \in Rows /\ Below(tree[d].path, tree[c].path)]_tree
=============================================================================
