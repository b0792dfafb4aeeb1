------------------------------ MODULE MerkleTree ------------------------------
(***************************************************************************)
(* The trees under which a bundle's claims and a claim's dependencies are  *)
(* hashed (scripts/proof-bundle.mjs), and the membership paths a plan gives *)
(* for their leaves (scripts/proof-planner.mjs).  Leaves are sorted by     *)
(* hash, so the k-th leaf is k; Node stands for the hash of two children,  *)
(* and two nodes are equal only if what was hashed is.                     *)
(***************************************************************************)
EXTENDS Integers, Sequences

Leaf(k) == <<k>>
LeavesTo(n) == [k \in 1 .. n |-> Leaf(k)]
Node(left, right) == <<left, right>>

\* The level above: neighbours are hashed together, an odd last one with itself.
Above(level) ==
  [n \in 1 .. (Len(level) + 1) \div 2 |->
     Node(level[2 * n - 1], IF 2 * n <= Len(level) THEN level[2 * n] ELSE level[2 * n - 1])]

\* The level that many levels above the leaves.
LevelAbove(leaves, height) ==
  LET level[h \in 0 .. height] == IF h = 0 THEN leaves ELSE Above(level[h - 1])
  IN level[height]

\* How many levels are made of the leaves: more as long as the last has more than one node.
Height(leaves) ==
  CHOOSE h \in 0 .. Len(leaves) :
    /\ Len(LevelAbove(leaves, h)) <= 1
    /\ \A g \in 0 .. h - 1 : Len(LevelAbove(leaves, g)) > 1

RootOf(leaves) == LevelAbove(leaves, Height(leaves))[1]

\* Places of a level are counted from 0.  The place in that level that a leaf is below.
Place(index, height) ==
  LET place[h \in 0 .. height] == IF h = 0 THEN index ELSE place[h - 1] \div 2
  IN place[height]

\* The place beside: that of the sibling, which for an odd last node is the node itself.
Beside(level, place) ==
  IF place % 2 = 1 THEN place - 1 ELSE IF place + 1 < Len(level) THEN place + 1 ELSE place

\* Mutant of Membership: the sibling of an odd last node is the node before it.
MembershipBefore(n, k) ==
  [h \in 1 .. Height(LeavesTo(n)) |->
     LET level == LevelAbove(LeavesTo(n), h - 1)
         place == Place(k - 1, h - 1)
         beside == IF place % 2 = 0 /\ place + 1 < Len(level) THEN place + 1 ELSE place - 1
     IN [node |-> level[beside + 1], left |-> beside < place]]

\* The path of leaf k of n: at each level the sibling and its side.
Membership(n, k) ==
  [h \in 1 .. Height(LeavesTo(n)) |->
     LET level == LevelAbove(LeavesTo(n), h - 1)
         place == Place(k - 1, h - 1)
     IN [node |-> level[Beside(level, place) + 1], left |-> Beside(level, place) < place]]

\* Where a path leads from a leaf.
Climb(leaf, steps) ==
  LET node[h \in 0 .. Len(steps)] ==
        IF h = 0 THEN leaf
        ELSE IF steps[h].left THEN Node(steps[h].node, node[h - 1])
        ELSE Node(node[h - 1], steps[h].node)
  IN node[Len(steps)]

=============================================================================
