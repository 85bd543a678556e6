---------------------------- MODULE BranchSearch ----------------------------
(***************************************************************************)
(* findPrunedStates of lib/Core/BranchTree.cpp: the walk over the pointers *)
(* of the BranchTree that finds the states on the other side of a branch.  *)
(***************************************************************************)
EXTENDS BranchTree

\* The recursion goes from a node to its child branches.
FindChildStates(n) ==
  LET below[m \in DOMAIN nodes] ==
        UNION {({nodes[m].childStates[b]} \ {Null})
                 \cup (IF nodes[m].childBranches[b] = Null THEN {}
                       ELSE below[nodes[m].childBranches[b]]) : b \in Side}
  IN below[n]

\* What is below side b of node n.
Below(n, b) == ({nodes[n].childStates[b]} \ {Null})
                 \cup (IF nodes[n].childBranches[b] = Null THEN {}
                       ELSE FindChildStates(nodes[n].childBranches[b]))

\* The states on the other side of node n, seen from s or from the child prev.
OtherSide(n, prev, s) ==
  UNION {Below(n, 1 - b) : b \in
    {b \in Side : \/ nodes[n].childStates[b] = s
                  \/ prev # Null /\ nodes[n].childBranches[b] = prev}}

\* The node the loop is at, the one it was at before, newPrunedStates, and
\* whether the function has returned.
Loop(cur, prev, found, returned) ==
  [cur |-> cur, prev |-> prev, found |-> found, returned |-> returned]

\* Mutant: return at the first node with the index.
BacktrackToFirst(x, s, i) ==
  IF x.returned \/ x.cur = Null THEN x
  ELSE IF nodes[x.cur].idx = i
         THEN Loop(x.cur, x.prev, OtherSide(x.cur, x.prev, s), TRUE)
         ELSE Loop(nodes[x.cur].parentBranch, x.cur, x.found, FALSE)

\* One iteration of the loop, which ends above the root: collect at a node with
\* index i, and return there if the parent has another index; all branches in
\* one external call share one.
Backtrack(x, s, i) ==
  LET hit == nodes[x.cur].idx = i
      p   == nodes[x.cur].parentBranch
      new == IF hit THEN x.found \cup OtherSide(x.cur, x.prev, s) ELSE x.found
  IN IF x.returned \/ x.cur = Null THEN x
     ELSE IF hit /\ (p = Null \/ nodes[p].idx # i)
            THEN Loop(x.cur, x.prev, new, TRUE)
            ELSE Loop(p, x.cur, new, FALSE)

\* Each iteration visits another node, so there are no more than nodes.
Walk(s, i) ==
  LET walk[k \in 0..Len(nodes)] ==
        IF k = 0 THEN Loop(parentBranch[s], Null, {}, FALSE)
        ELSE Backtrack(walk[k - 1], s, i)
  IN walk[Len(nodes)]

\* The set is only handed over at the return inside the loop.
FindPrunedStates(s, i) ==
  IF root = Null \/ ~Walk(s, i).returned THEN {} ELSE Walk(s, i).found

-----------------------------------------------------------------------------
\* The pointers to and from the parent of node n agree with its decisions: those
\* of the parent, and the side of the parent that n is on.
Linked(n) ==
  LET p == nodes[n].parentBranch
      b == IF nodes[p].childBranches[0] = n THEN 0 ELSE 1
  IN IF p = Null THEN n = root /\ trail[n] = <<>>
     ELSE /\ p \in 1..(n - 1) /\ nodes[p].childBranches[b] = n
          /\ trail[n] = Append(trail[p], [idx |-> nodes[p].idx, side |-> b])

\* findPrunedStates returns what the header says, "all the states reachable in
\* the other sub tree of the branch" (BranchTree.h:28-30), for every branch of
\* the index, and never the state itself (it would abort, BranchTree.cpp:147).
\* The pointers still lead along the decisions that made each node.
FindsOtherSubtree ==
  /\ \A s \in live, i \in Idx :
       /\ FindPrunedStates(s, i) =
            Paths!Pruned([t \in live |-> StatePath(t)], s, {i})
       /\ s \notin FindPrunedStates(s, i)
  /\ \A n \in DOMAIN nodes : Linked(n)
=============================================================================
