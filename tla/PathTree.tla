------------------------------ MODULE PathTree ------------------------------
(***************************************************************************)
(* What the branch tree of lib/Core/BranchTree.cpp promises, without its   *)
(* nodes and pointers.  Each execution state attached to the tree has a    *)
(* path: the decisions that led to it, each the dynamic index of a branch  *)
(* and the side taken there.  The tree of nodes is the trie of the paths.  *)
(***************************************************************************)
EXTENDS Naturals, Sequences, FiniteSets

CONSTANTS State,        \* addresses of ExecutionState objects
          InitState,    \* the state run() starts with
          MaxIdx,       \* bound: dynamic instruction indices are 1..MaxIdx
          MaxPath       \* bound: forks along one path

ASSUME InitStateAssumption == InitState \in State
ASSUME BoundAssumption == MaxIdx \in Nat \ {0} /\ MaxPath \in Nat

VARIABLE path           \* attached state |-> its decisions, root first

Idx == 1..MaxIdx
Decision == [idx : Idx, side : {0, 1}]

-----------------------------------------------------------------------------
\* The decisions of s; the first fork finds an empty tree and no parent node.
Decisions(p, s) == IF s \in DOMAIN p THEN p[s] ELSE <<>>

\* The trace a dynamic index comes from only grows, so indices never decrease;
\* all the forks made inside one external call carry the index of the call.
MayBranchAt(ds, i) ==
  /\ Len(ds) < MaxPath
  /\ Len(ds) > 0 => ds[Len(ds)].idx <= i

\* addBranch: s keeps side 0 of the new branch, its copy c gets side 1.
Branch(p, s, i, c) ==
  LET ds == Decisions(p, s)
  IN [t \in DOMAIN p \cup {s, c} |->
        IF t = c THEN Append(ds, [idx |-> i, side |-> 1])
        ELSE IF t = s THEN Append(ds, [idx |-> i, side |-> 0])
        ELSE p[t]]

\* removeState, for each state of S.
Detach(p, S) == [t \in DOMAIN p \ S |-> p[t]]

\* ds and es part at position k: same branch, opposite sides.
PartAt(ds, es, k) ==
  /\ k \in DOMAIN ds /\ k \in DOMAIN es
  /\ \A j \in 1..(k - 1) : ds[j] = es[j]
  /\ ds[k].idx = es[k].idx
  /\ ds[k].side # es[k].side

\* findPrunedStates for each index of I: the states in the other subtree of a
\* branch of s whose index is in I.
Pruned(p, s, I) ==
  {t \in DOMAIN p : \E k \in DOMAIN Decisions(p, s) :
     /\ Decisions(p, s)[k].idx \in I
     /\ PartAt(Decisions(p, s), p[t], k)}

-----------------------------------------------------------------------------
PathInit == path = [s \in {InitState} |-> <<>>]

AddBranch(s, i, c) ==
  /\ s \in DOMAIN path /\ c \notin DOMAIN path
  /\ MayBranchAt(path[s], i)
  /\ path' = Branch(path, s, i, c)

RemoveStates(S) ==
  /\ S \subseteq DOMAIN path
  /\ path' = Detach(path, S)

PathNext ==
  \/ \E s, c \in State, i \in Idx : AddBranch(s, i, c)
  \/ \E S \in SUBSET State : RemoveStates(S)

PathSpec == PathInit /\ [][PathNext]_path

-----------------------------------------------------------------------------
Typed(p) == DOMAIN p \subseteq State /\ p \in [DOMAIN p -> Seq(Decision)]

Antichain(p) ==
  \A s, t \in DOMAIN p : s # t => \E k \in DOMAIN p[s] : PartAt(p[s], p[t], k)

Ordered(p) ==
  \A s \in DOMAIN p : \A j, k \in DOMAIN p[s] :
    j <= k => p[s][j].idx <= p[s][k].idx

\* Attached states have sequences of decisions.
PathTypeOK == Typed(path)

\* Any two attached states took opposite sides of one common branch: the tree
\* holds states at its leaves only, never at an inner node (BranchTree.cpp:199,
\* 203 clear the parent's slot when the state moves below it).
LeavesOnly == Antichain(path)

\* The indices along a path never decrease, which is what lets
\* findPrunedStates stop at the first parent with another index.
IndicesOrdered == Ordered(path)
=============================================================================
