------------------------------- MODULE Rbtree -------------------------------
(***************************************************************************)
(* Red-black trees (kernel/rbtree.c), which index the inodes of a super    *)
(* block, the pages of a file and the vmas of an address space.  A node is *)
(* its key.  A tree is a record of the root and, for every linked node,    *)
(* its parent, its colour and its two children: what rb_parent_color and   *)
(* rb_child hold.  Nodes that are not linked have no fields, so code that  *)
(* looked at one would stop TLC.                                           *)
(***************************************************************************)
EXTENDS Integers, Sequences, FiniteSets

CONSTANT MaxKey     \* the keys are 1..MaxKey

KeyAssumption == MaxKey \in Nat

VARIABLE tree

Keys == 1 .. MaxKey
NULL == 0
RB_LEFT == 0
RB_RIGHT == 1
RB_RED == "red"
RB_BLACK == "black"

Linked(t) == DOMAIN t.col
RB_ROOT == [root |-> NULL, up |-> <<>>, col |-> <<>>, ch |-> <<>>]

IsRed(t, n) == n # NULL /\ t.col[n] = RB_RED
SetColor(t, n, c) == [t EXCEPT !.col[n] = c]
SetParent(t, n, p) == IF n = NULL THEN t ELSE [t EXCEPT !.up[n] = p]
SetChild(t, n, side, c) == [t EXCEPT !.ch[n][side] = c]
SideOf(t, p, n) == IF t.ch[p][RB_LEFT] = n THEN RB_LEFT ELSE RB_RIGHT

\* The place that pointed to old, in its parent or in the root, points to new.
Replace(t, parent, old, new) ==
  IF parent = NULL THEN [t EXCEPT !.root = new]
  ELSE SetChild(t, parent, SideOf(t, parent, old), new)

\* node goes down on the given side and its other child takes its place.
rb_rotate_drop(t, node, side) ==
  LET other == t.ch[node][1 - side]
      t1    == SetParent(SetChild(SetChild(t, node, 1 - side, NULL), other, side, node), other, t.up[node])
  IN  SetParent(Replace(t1, t.up[node], node, other), node, other)
rb_rotate(t, node, side) ==
  LET other  == t.ch[node][1 - side]
      inner  == t.ch[other][side]
      parent == t.up[node]
      below  == SetParent(SetChild(t, node, 1 - side, inner), inner, node)
      above  == SetParent(SetChild(below, other, side, node), other, parent)
  IN  SetParent(Replace(above, parent, node, other), node, other)

\* The two halves of the loop are mirror images: s is the parent's side.
RECURSIVE rb_insert_color(_, _)
rb_insert_color_skewed(t, node) == SetColor(t, t.root, RB_BLACK)
rb_insert_color(t, node) ==
  LET parent == t.up[node] IN
  IF ~IsRed(t, parent) THEN SetColor(t, t.root, RB_BLACK)
  ELSE LET gparent == t.up[parent]
           s       == SideOf(t, gparent, parent)
           uncle   == t.ch[gparent][1 - s]
       IN  IF IsRed(t, uncle)
           THEN rb_insert_color([t EXCEPT !.col[uncle] = RB_BLACK, !.col[parent] = RB_BLACK,
                                          !.col[gparent] = RB_RED], gparent)
           ELSE LET bent == t.ch[parent][1 - s] = node
                    t1   == IF bent THEN rb_rotate(t, parent, s) ELSE t
                    p    == IF bent THEN node ELSE parent
                    n    == IF bent THEN parent ELSE node
                    t2   == [t1 EXCEPT !.col[p] = RB_BLACK, !.col[gparent] = RB_RED]
                IN  rb_insert_color(rb_rotate(t2, gparent, 1 - s), n)

\* node, possibly NULL, is the side s child of parent and lacks one black.
RECURSIVE rb_erase_color(_, _, _)
rb_erase_color(t, node, parent) ==
  IF IsRed(t, node) \/ node = t.root
  THEN IF node = NULL THEN t ELSE SetColor(t, node, RB_BLACK)
  ELSE LET s    == SideOf(t, parent, node)
           sib  == t.ch[parent][1 - s]
           t1   == IF IsRed(t, sib)
                   THEN rb_rotate([t EXCEPT !.col[sib] = RB_BLACK, !.col[parent] = RB_RED], parent, s)
                   ELSE t
           o1   == t1.ch[parent][1 - s]
           near == t1.ch[o1][s]
           far  == t1.ch[o1][1 - s]
       IN  IF ~IsRed(t1, near) /\ ~IsRed(t1, far)
           THEN rb_erase_color(SetColor(t1, o1, RB_RED), parent, t1.up[parent])
           ELSE LET t2 == IF ~IsRed(t1, far)
                          THEN rb_rotate([t1 EXCEPT !.col[near] = RB_BLACK, !.col[o1] = RB_RED], o1, 1 - s)
                          ELSE t1
                    o2 == t2.ch[parent][1 - s]
                    t3 == [t2 EXCEPT !.col[o2] = t2.col[parent], !.col[parent] = RB_BLACK,
                                     !.col[t2.ch[o2][1 - s]] = RB_BLACK]
                    t4 == rb_rotate(t3, parent, s)
                IN  SetColor(t4, t4.root, RB_BLACK)

RECURSIVE Outermost(_, _, _)
Outermost(t, n, side) ==
  IF t.ch[n][side] = NULL THEN n ELSE Outermost(t, t.ch[n][side], side)

\* The successor of a node with two children takes its place and its colour.
Spliced(t, old) ==
  LET node   == Outermost(t, t.ch[old][RB_RIGHT], RB_LEFT)
      child  == t.ch[node][RB_RIGHT]
      parent == t.up[node]
      t1     == Replace(t, t.up[old], old, node)
      t2     == IF parent = old THEN t1
                ELSE SetParent(SetChild(SetChild(SetParent(t1, child, parent), parent, RB_LEFT, child),
                                        node, RB_RIGHT, t1.ch[old][RB_RIGHT]),
                               t1.ch[old][RB_RIGHT], node)
      t3     == [t2 EXCEPT !.up[node] = t2.up[old], !.col[node] = t2.col[old],
                           !.ch[node][RB_LEFT] = t2.ch[old][RB_LEFT]]
  IN  [t |-> SetParent(t3, t2.ch[old][RB_LEFT], node), child |-> child,
       parent |-> IF parent = old THEN node ELSE parent, color |-> t.col[node]]

Unhooked(t, node) ==
  LET child  == IF t.ch[node][RB_LEFT] = NULL THEN t.ch[node][RB_RIGHT] ELSE t.ch[node][RB_LEFT]
      parent == t.up[node]
  IN  [t |-> Replace(SetParent(t, child, parent), parent, node, child), child |-> child,
       parent |-> parent, color |-> t.col[node]]

Forget(t, n) ==
  LET rest == Linked(t) \ {n}
      Drop(f) == [m \in rest |-> f[m]]
  IN  [root |-> t.root, up |-> Drop(t.up), col |-> Drop(t.col), ch |-> Drop(t.ch)]

rb_erase(t, node) ==
  LET e == IF NULL \in {t.ch[node][RB_LEFT], t.ch[node][RB_RIGHT]}
           THEN Unhooked(t, node) ELSE Spliced(t, node)
  IN  Forget(IF e.color = RB_BLACK THEN rb_erase_color(e.t, e.child, e.parent) ELSE e.t, node)

rb_first(t) == IF t.root = NULL THEN NULL ELSE Outermost(t, t.root, RB_LEFT)
rb_last(t) == IF t.root = NULL THEN NULL ELSE Outermost(t, t.root, RB_RIGHT)

\* Up from node while it is a child on the given side; the parent reached.
RECURSIVE Climb(_, _, _)
Climb(t, node, side) ==
  LET parent == t.up[node] IN
  IF parent # NULL /\ node = t.ch[parent][side] THEN Climb(t, parent, side) ELSE parent

rb_step(t, node, side) ==
  IF t.up[node] = node THEN NULL
  ELSE IF t.ch[node][side] # NULL THEN Outermost(t, t.ch[node][side], 1 - side)
  ELSE Climb(t, node, side)

rb_next(t, node) == rb_step(t, node, RB_RIGHT)
rb_prev(t, node) == rb_step(t, node, RB_LEFT)

rb_replace_node(t, victim, new) ==
  LET parent == t.up[victim]
      t1 == SetParent(SetParent(Replace(t, parent, victim, new), t.ch[victim][RB_LEFT], new),
                      t.ch[victim][RB_RIGHT], new)
      Put(f) == [m \in Linked(t) \cup {new} |-> IF m = new THEN f[victim] ELSE f[m]]
  IN  Forget([root |-> t1.root, up |-> Put(t1.up), col |-> Put(t1.col), ch |-> Put(t1.ch)], victim)

\* The search every user of the tree writes out: the parent of the new leaf,
\* or the node with the key.
RECURSIVE Search(_, _, _, _)
Search(t, n, parent, key) ==
  IF n = NULL THEN [found |-> NULL, parent |-> parent]
  ELSE IF key = n THEN [found |-> n, parent |-> parent]
  ELSE Search(t, t.ch[n][IF key < n THEN RB_LEFT ELSE RB_RIGHT], n, key)

rb_link_node(t, node, parent) ==
  LET Put(f, v) == [m \in Linked(t) \cup {node} |-> IF m = node THEN v ELSE f[m]]
      t1 == [root |-> t.root, up |-> Put(t.up, parent), col |-> Put(t.col, RB_RED),
             ch |-> Put(t.ch, [side \in {RB_LEFT, RB_RIGHT} |-> NULL])]
  IN  IF parent = NULL THEN [t1 EXCEPT !.root = node]
      ELSE SetChild(t1, parent, IF node < parent THEN RB_LEFT ELSE RB_RIGHT, node)

----------------------------------------------------------------------------

Init == tree = RB_ROOT

Insert(k) ==
  LET s == Search(tree, tree.root, NULL, k) IN
  /\ s.found = NULL
  /\ tree' = rb_insert_color(rb_link_node(tree, k, s.parent), k)

Erase(k) ==
  /\ Search(tree, tree.root, NULL, k).found # NULL
  /\ tree' = rb_erase(tree, k)

\* The caller promises that new has victim's place in the order.
Exchange(victim, new) ==
  /\ victim \in Linked(tree) /\ new \notin Linked(tree)
  /\ \A n \in Linked(tree) \ {victim} : n < victim <=> n < new
  /\ tree' = rb_replace_node(tree, victim, new)

Next ==
  \/ \E k \in Keys : Insert(k) \/ Erase(k)
  \/ \E victim, new \in Keys : Exchange(victim, new)

Spec == Init /\ [][Next]_tree

----------------------------------------------------------------------------

RECURSIVE Below(_, _)
Below(t, n) == IF n = NULL THEN {} ELSE {n} \cup Below(t, t.ch[n][RB_LEFT]) \cup Below(t, t.ch[n][RB_RIGHT])

\* The number of black nodes on every way down from n, -1 if they differ.
RECURSIVE BlackHeight(_, _)
BlackHeight(t, n) ==
  IF n = NULL THEN 0
  ELSE LET l == BlackHeight(t, t.ch[n][RB_LEFT])
           r == BlackHeight(t, t.ch[n][RB_RIGHT])
       IN  IF l # r \/ l = -1 THEN -1 ELSE l + (IF IsRed(t, n) THEN 0 ELSE 1)

\* Whatever was inserted and erased, in any order, the tree stays balanced:
\* the root is black, no red node has a red child, and every way down from
\* the root meets as many black nodes (rb_insert_color, __rb_erase_color).
RedBlack ==
  /\ ~IsRed(tree, tree.root)
  /\ \A n \in Linked(tree), side \in {RB_LEFT, RB_RIGHT} :
       ~(IsRed(tree, n) /\ IsRed(tree, tree.ch[n][side]))
  /\ BlackHeight(tree, tree.root) # -1

\* The links agree in both directions and nothing is linked that the root
\* does not reach: the parent of a child is the node it hangs from, through
\* all rotations and the splicing of rb_erase.
LinksAgree ==
  /\ Linked(tree) = Below(tree, tree.root)
  /\ tree.root # NULL => tree.up[tree.root] = NULL
  /\ \A n \in Linked(tree), side \in {RB_LEFT, RB_RIGHT} :
       tree.ch[n][side] # NULL => tree.up[tree.ch[n][side]] = n

RECURSIVE Walk(_, _, _)
Walk(t, n, side) ==
  IF n = NULL THEN <<>>
  ELSE <<n>> \o Walk(t, IF side = RB_RIGHT THEN rb_next(t, n) ELSE rb_prev(t, n), side)

\* Walking from rb_first with rb_next, or from rb_last with rb_prev, meets
\* every node once and in order.
WalksInOrder ==
  LET up   == Walk(tree, rb_first(tree), RB_RIGHT)
      down == Walk(tree, rb_last(tree), RB_LEFT)
      n    == Cardinality(Linked(tree))
  IN  /\ Len(up) = n /\ Len(down) = n
      /\ \A i \in 1 .. n - 1 : up[i] < up[i + 1]
      /\ \A i \in 1 .. n : down[i] = up[n + 1 - i]

\* A user of the tree sees a set of keys: the search finds exactly what was
\* inserted and not erased since.
Found == {k \in Keys : Search(tree, tree.root, NULL, k).found = k}
Index == INSTANCE AbsMap WITH keys <- Found
ImplementsMap == Index!Spec
=============================================================================
