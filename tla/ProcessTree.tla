---------------------------- MODULE ProcessTree ----------------------------
(***************************************************************************)
(* PTree: the tree of forks.  A tree is a function from its nodes to       *)
(* [parent, left, right, data]; 0 is no node and no state.  The nodes      *)
(* without children are the live states.                                   *)
(***************************************************************************)
EXTENDS Integers, FiniteSets, FiniteSetsExt, TLC

Leaf(p, s) == [parent |-> p, left |-> 0, right |-> 0, data |-> s]
PTreeNew(s) == (1 :> Leaf(0, s))
Childless(t, n) == t[n].left = 0 /\ t[n].right = 0

\* Two nodes that are not in use.
FreshNode(t) == Max(DOMAIN t) + 1

\* Mutant: the forked node keeps its state.
SplitKeepsData(t, n, l, r) ==
  LET i == FreshNode(t)
  IN [t EXCEPT ![n].left = i, ![n].right = i + 1] @@ (i :> Leaf(n, l)) @@ (i + 1 :> Leaf(n, r))

\* split(); its callers have set data to 0.
Split(t, n, l, r) ==
  LET i == FreshNode(t)
  IN [t EXCEPT ![n].left = i, ![n].right = i + 1, ![n].data = 0]
     @@ (i :> Leaf(n, l)) @@ (i + 1 :> Leaf(n, r))

\* remove(): the node, and every ancestor that has no other child.
RECURSIVE RemoveNode(_, _)
RemoveNode(t, n) ==
  LET p == t[n].parent
      rest == [m \in DOMAIN t \ {n} |->
                 IF m # p THEN t[m]
                 ELSE IF t[m].left = n THEN [t[m] EXCEPT !.left = 0] ELSE [t[m] EXCEPT !.right = 0]]
  IN IF p # 0 /\ Childless(rest, p) THEN RemoveNode(rest, p) ELSE rest

\* Where the random walk from n can end: 0 is a NULL node.
RECURSIVE Ends(_, _)
Ends(t, n) ==
  IF n \notin DOMAIN t THEN {0}
  ELSE IF t[n].data # 0 THEN {t[n].data}
  ELSE IF t[n].left = 0 THEN Ends(t, t[n].right)
  ELSE IF t[n].right = 0 THEN Ends(t, t[n].left)
  ELSE Ends(t, t[n].left) \cup Ends(t, t[n].right)
=============================================================================
