----------------------------- MODULE BranchTree -----------------------------
(***************************************************************************)
(* lib/Core/BranchTree.cpp: the tree of BranchNodes, with its parent and   *)
(* child pointers, that finds the states the path slicer may prune.  Its   *)
(* client is the executor, which forks and removes live states.            *)
(***************************************************************************)
EXTENDS Naturals, Sequences

CONSTANTS State, InitState,
          MaxIdx,            \* bound: dynamic instruction indices are 1..MaxIdx
          MaxNodes,          \* bound: BranchNodes allocated (none is freed)
          Null               \* the null pointer

ASSUME StatesAssumption == InitState \in State /\ Null \notin State
ASSUME NodesAssumption == MaxNodes \in Nat /\ Null \notin Nat
ASSUME IndexAssumption == MaxIdx \in Nat \ {0}

VARIABLES
  nodes,         \* the BranchNodes, in the order of their allocation
  root,          \* Null, or the number of a node
  parentBranch,  \* the field of each state
  live,          \* the executor's states: the ones not removed
  failed,        \* an assert failed
  trail          \* history: the decisions that led to each node

vars == <<nodes, root, parentBranch, live, failed, trail>>

Idx == 1..MaxIdx
Side == {0, 1}
Ptr == 1..MaxNodes \cup {Null}

Node == [idx : Idx, childStates : [Side -> State \cup {Null}],
         childBranches : [Side -> Ptr], parentBranch : Ptr]

\* Mutant: the constructor's index (size_t)-1 is left in the node.
NewNodeWithoutIndex(i, s, c, p) ==
  [idx |-> MaxIdx + 1, childStates |-> [b \in Side |-> IF b = 0 THEN s ELSE c],
   childBranches |-> [b \in Side |-> Null], parentBranch |-> p]

NewNode(i, s, c, p) ==
  [idx |-> i, childStates |-> [b \in Side |-> IF b = 0 THEN s ELSE c],
   childBranches |-> [b \in Side |-> Null], parentBranch |-> p]

-----------------------------------------------------------------------------
(* The meaning of the tree as an abstract PathTree: the decisions that led *)
(* to a state are those that led to its node, and its side there.          *)

StatePath(s) ==
  LET n == parentBranch[s]
      b == IF nodes[n].childStates[0] = s THEN 0 ELSE 1
  IN IF n = Null THEN <<>>
     ELSE Append(trail[n], [idx |-> nodes[n].idx, side |-> b])

Paths == INSTANCE PathTree WITH path <- [s \in live |-> StatePath(s)],
                                MaxPath <- MaxNodes

-----------------------------------------------------------------------------
Init == /\ nodes = <<>> /\ root = Null
        /\ parentBranch = [s \in State |-> Null]
        /\ live = {InitState} /\ failed = FALSE /\ trail = <<>>

\* Mutant: the parent's slot keeps the state that moves below the new node.
AddBranchKeepsSlot(s, i, c) ==
  LET new == Len(nodes) + 1
      p   == parentBranch[s]
      b   == IF nodes[p].childStates[0] = s THEN 0 ELSE 1
  IN /\ ~failed /\ s \in live /\ c \notin live /\ new <= MaxNodes
     /\ p # Null => nodes[p].idx <= i
     /\ IF root = Null
          THEN root' = new /\ nodes' = <<NewNode(i, s, c, Null)>>
          ELSE /\ nodes' = Append([nodes EXCEPT ![p].childBranches[b] = new],
                                 NewNode(i, s, c, p))
               /\ UNCHANGED root
     /\ parentBranch' = [parentBranch EXCEPT ![s] = new, ![c] = new]
     /\ live' = live \cup {c}
     /\ trail' = Append(trail, StatePath(s))
     /\ UNCHANGED failed

\* addBranch(s, i, c) for the copy c of s.  The dynamic index comes from the
\* trace of s, which only grows.
AddBranch(s, i, c) ==
  LET new == Len(nodes) + 1
      p   == parentBranch[s]
      b   == IF nodes[p].childStates[0] = s THEN 0 ELSE 1
  IN /\ ~failed /\ s \in live /\ c \notin live /\ new <= MaxNodes
     /\ p # Null => nodes[p].idx <= i
     /\ IF root = Null
          THEN /\ root' = new /\ nodes' = <<NewNode(i, s, c, Null)>>
               /\ failed' = FALSE
          ELSE /\ failed' = (p = Null \/ nodes[p].childStates[b] # s)
               /\ nodes' = IF failed' THEN nodes
                  ELSE Append([nodes EXCEPT ![p].childBranches[b] = new,
                                            ![p].childStates[b] = Null],
                              NewNode(i, s, c, p))
               /\ UNCHANGED root
     /\ parentBranch' = [parentBranch EXCEPT ![s] = new, ![c] = new]
     /\ live' = live \cup {c}
     /\ trail' = IF failed' THEN trail ELSE Append(trail, StatePath(s))

\* removeState(s); without any branch there is nothing to remove.
RemoveState(s) ==
  LET n == parentBranch[s]
      b == IF nodes[n].childStates[0] = s THEN 0 ELSE 1
  IN /\ ~failed /\ s \in live
     /\ live' = live \ {s} /\ UNCHANGED trail
     /\ IF root = Null THEN UNCHANGED <<nodes, root, parentBranch, failed>>
        ELSE /\ failed' = (n = Null \/ nodes[n].childStates[b] # s)
             /\ nodes' = IF failed' THEN nodes
                         ELSE [nodes EXCEPT ![n].childStates[b] = Null]
             /\ parentBranch' = [parentBranch EXCEPT ![s] = Null]
             /\ UNCHANGED root

Next == \/ \E s, c \in State, i \in Idx : AddBranch(s, i, c)
        \/ \E s \in State : RemoveState(s)
        \/ (failed \/ live = {}) /\ UNCHANGED vars

Spec == Init /\ [][Next]_vars

-----------------------------------------------------------------------------
TypeOK == /\ nodes \in Seq(Node) /\ Len(nodes) <= MaxNodes
          /\ root \in Ptr
          /\ parentBranch \in [State -> Ptr]
          /\ live \subseteq State /\ failed \in BOOLEAN
          /\ trail \in Seq(Seq([idx : Idx, side : Side]))

\* No assert of addBranch and removeState fails: "each state must have a parent
\* if it is attached to the branch tree" (BranchTree.cpp:168, 172, 195, 201).
AssertsHold == ~failed

\* Side b of node n holds no state, or one that is live and has n for its
\* parent, and then no branch.
SlotOK(n, b) ==
  LET s == nodes[n].childStates[b] IN
    s # Null => /\ nodes[n].childBranches[b] = Null
                /\ s \in live /\ parentBranch[s] = n

\* s is on one side of the node it points to.
InItsSlot(s) ==
  /\ parentBranch[s] \in DOMAIN nodes
  /\ \E b \in Side : /\ nodes[parentBranch[s]].childStates[b] = s
                     /\ nodes[parentBranch[s]].childStates[1 - b] # s

\* A slot holds a state or a branch, never both, and no slot keeps a dead
\* state; a live state is in one slot only, the one its parentBranch points to.
\* So the asserts of addBranch and removeState hold.
SlotsMatchStates ==
  /\ AssertsHold
  /\ \A n \in DOMAIN nodes, b \in Side : SlotOK(n, b)
  /\ root # Null => \A s \in live : InItsSlot(s)

\* The tree of nodes implements the set of paths: PathTree.tla.
ImplementsPaths == Paths!PathSpec
=============================================================================
