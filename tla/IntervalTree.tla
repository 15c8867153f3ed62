---------------------------- MODULE IntervalTree ----------------------------
(***************************************************************************)
(* The AVL tree in which QueueModelHistoryTree keeps the free intervals of *)
(* a port (misc/interval_tree.cc).  Nodes are the indexes of the model's   *)
(* memory blocks; a tree is a record                                       *)
(*   [node : the blocks, root : a block or Null, size : Nat, err : set]    *)
(* whose field err collects the assertions that failed.  Every operation   *)
(* returns the tree it leaves behind, pointers included.                   *)
(***************************************************************************)
EXTENDS Integers, Sequences

Null == -1

\* A block as Node::Node leaves it
NoNode == [parent |-> Null, left |-> Null, right |-> Null, height |-> 0,
           key |-> 0, interval |-> <<0, 0>>]

\* Node::initialize
Fresh(interval) == [NoNode EXCEPT !.height = 1, !.key = interval[1], !.interval = interval]

Assert0(t, ok, what) == IF ok THEN t ELSE [t EXCEPT !.err = @ \cup {what}]

\* Stores through a pointer; through NULL there is nothing to store to.
SetLeft(t, n, c) == [t EXCEPT !.node[n].left = c]
SetRight(t, n, c) == [t EXCEPT !.node[n].right = c]

updateChildPointer(t, n, child, direction) ==
  CASE n = Null -> t
    [] direction = "LEFT" -> SetLeft(t, n, child)
    [] direction = "RIGHT" -> SetRight(t, n, child)
    [] direction = "INVALID" ->
         IF child = Null THEN Assert0(t, FALSE, "child_node")
         ELSE IF t.node[n].key < t.node[child].key THEN SetRight(t, n, child)
         ELSE SetLeft(t, n, child)

updateParentPointer(t, n, parent) ==
  LET linked == IF n = Null THEN t ELSE [t EXCEPT !.node[n].parent = parent]
  IN  IF parent = Null THEN [linked EXCEPT !.root = n] ELSE linked

getHeight(t, n) == IF n = Null THEN 0 ELSE t.node[n].height

\* What the left subtree of n is higher by
Lean(t, n) == getHeight(t, t.node[n].left) - getHeight(t, t.node[n].right)

heightBalanced(t, n) == Lean(t, n) \in -1 .. 1

updateHeight(t, n) ==
  LET left == getHeight(t, t.node[n].left)
      right == getHeight(t, t.node[n].right)
  IN  [t EXCEPT !.node[n].height = 1 + (IF left > right THEN left ELSE right)]

Child(t, n, side) == IF side = "LEFT" THEN t.node[n].left ELSE t.node[n].right

\* child becomes the child of n on that side.
Adopt(t, n, child, side) == updateParentPointer(updateChildPointer(t, n, child, side), child, n)

\* x takes the place of y below parent.
Replace(t, x, parent) ==
  updateChildPointer(updateParentPointer(t, x, parent), parent, x, "INVALID")

\* x, the child of y on that side, rises: its other child goes to y, and y to x.
Rise(t, x, y, side, other) ==
  updateHeight(updateHeight(Adopt(Adopt(t, y, Child(t, x, other), side), x, y, other), y), x)

\* The rotation that lifts the child of y on that side: CLOCKWISE lifts the
\* left one, ANTI_CLOCKWISE the right one.
performRotation(t, y, side) ==
  Rise(Replace(t, Child(t, y, side), t.node[y].parent),
       Child(t, y, side), y, side, IF side = "LEFT" THEN "RIGHT" ELSE "LEFT")

\* The side n leans to
HeavySide(t, n, default) ==
  IF Lean(t, n) = 0 THEN default ELSE IF Lean(t, n) > 0 THEN "LEFT" ELSE "RIGHT"

\* y is the heavy child of z, on ySide, and leans to xSide itself.
\* The new root of the subtree comes along.
Rotations(t, z, y, ySide, xSide) ==
  <<performRotation(IF xSide = ySide THEN t ELSE performRotation(t, y, xSide), z, ySide),
    IF xSide = ySide THEN y ELSE Child(t, y, xSide)>>

HeavyChild(t, z, y, ySide) == Rotations(t, z, y, ySide, HeavySide(t, y, ySide))

\* The single or double rotation at z
balanceHeight(t, z) ==
  LET ySide == HeavySide(t, z, "RIGHT")
  IN  HeavyChild(t, z, Child(t, z, ySide), ySide)

\* done is a tree and the root of the subtree that was balanced in it.
Checked(done) == Assert0(done[1], heightBalanced(done[1], done[2]), "unbalanced")

Balanced(t, n) == IF heightBalanced(t, n) THEN <<updateHeight(t, n), n>> ELSE balanceHeight(t, n)

\* On to the parent while the height is not what it was
RECURSIVE RebalanceFrom(_, _)
RebalanceFrom(done, old_height) ==
  LET root == done[1].node[done[2]]
  IN  IF root.height = old_height \/ root.parent = Null THEN Checked(done)
      ELSE RebalanceFrom(Balanced(Checked(done), root.parent), done[1].node[root.parent].height)

rebalanceAVLTree(t, n) ==
  IF n = Null THEN t ELSE RebalanceFrom(Balanced(t, n), t.node[n].height)

\* The node below which n is to hang
RECURSIVE insertBelow(_, _, _)
insertBelow(t, key, root) ==
  LET next == Child(t, root, IF key < t.node[root].key THEN "LEFT" ELSE "RIGHT")
  IN  IF key = t.node[root].key \/ next = Null THEN root ELSE insertBelow(t, key, next)

insertInTree(t, n, parent) ==
  IF t.node[n].key = t.node[parent].key THEN Assert0(t, FALSE, "same_key")
  ELSE rebalanceAVLTree(Adopt(t, parent, n, IF t.node[n].key < t.node[parent].key THEN "LEFT" ELSE "RIGHT"), parent)

insert(t, n) == insertInTree([t EXCEPT !.size = @ + 1], n, insertBelow(t, t.node[n].key, t.root))

RECURSIVE findMinKeyNode(_, _)
findMinKeyNode(t, n) ==
  IF t.node[n].left = Null THEN n ELSE findMinKeyNode(t, t.node[n].left)

\* swap: the two nodes exchange contents, not places.
swap(t, n, m) ==
  [t EXCEPT !.node[n].key = t.node[m].key, !.node[n].interval = t.node[m].interval,
            !.node[m].key = t.node[n].key, !.node[m].interval = t.node[n].interval]

\* The child, if any, of a node with one child at most takes its place.
HangChild(t, n) ==
  IF n.left # Null THEN updateChildPointer(t, n.parent, n.left, "INVALID")
  ELSE IF n.parent = Null THEN t
  ELSE updateChildPointer(t, n.parent, n.right,
                          IF t.node[n.parent].key < n.key THEN "RIGHT" ELSE "LEFT")

Splice(t, n) ==
  rebalanceAVLTree(updateParentPointer(HangChild(t, n), IF n.left = Null THEN n.right ELSE n.left, n.parent),
                   n.parent)

\* The block that leaves the tree: a node with two children is emptied in
\* favour of its successor.
Leaves(t, n) ==
  IF t.node[n].left = Null \/ t.node[n].right = Null THEN n ELSE findMinKeyNode(t, t.node[n].right)

\* swap does nothing to a node and itself.
RemoveBlock(t, n, gone) == <<swap(Splice(t, t.node[gone]), n, gone), gone>>

removeFromTree(t, n) == RemoveBlock(t, n, Leaves(t, n))

remove(t, n) == removeFromTree([t EXCEPT !.size = @ - 1], n)

\* The leftmost node the interval fits in, at its time or later
RECURSIVE searchTree(_, _, _)
searchTree(t, interval, root) ==
  IF root = Null THEN Null
  ELSE LET here == t.node[root].interval
           left == IF interval[2] < here[1]
                   THEN searchTree(t, interval, t.node[root].left) ELSE Null
       IN  IF interval[1] >= here[1] /\ interval[2] <= here[2] THEN root
           ELSE IF left # Null THEN left
           ELSE IF interval[1] < here[1] /\ here[2] - here[1] >= interval[2] - interval[1] THEN root
           ELSE searchTree(t, interval, t.node[root].right)

search(t, interval) == searchTree(t, interval, t.root)

RECURSIVE inOrderTraversalTree(_, _)
inOrderTraversalTree(t, root) ==
  IF root = Null THEN <<>>
  ELSE inOrderTraversalTree(t, t.node[root].left) \o <<t.node[root].interval>>
         \o inOrderTraversalTree(t, t.node[root].right)

inOrderTraversal(t) == inOrderTraversalTree(t, t.root)

------------------------------------------------------------------------------
(* The nodes hung below root *)
RECURSIVE Below(_, _)
Below(t, root) ==
  IF root = Null THEN {}
  ELSE {root} \cup Below(t, t.node[root].left) \cup Below(t, t.node[root].right)

\* What a search relies on: the links agree in both directions, heights are
\* those of the subtrees and differ by one at most, keys are the starts of
\* the intervals, and the intervals are in order.
SoundTree(t) ==
  /\ t.size = Len(inOrderTraversal(t))
  /\ t.root # Null => t.node[t.root].parent = Null
  /\ \A n \in Below(t, t.root) :
       LET b == t.node[n]
       IN  /\ b.key = b.interval[1]
           /\ b.height = updateHeight(t, n).node[n].height
           /\ heightBalanced(t, n)
           /\ \A c \in {b.left, b.right} \ {Null} : t.node[c].parent = n
  /\ LET s == inOrderTraversal(t)
     IN  \A i \in 1 .. Len(s) : s[i][1] < s[i][2] /\ (i > 1 => s[i - 1][2] < s[i][1])
=============================================================================
