-------------------------- MODULE BranchTreeProofs --------------------------
(***************************************************************************)
(* For any number of states and nodes, the asserts of the branch tree hold *)
(* and its nodes and pointers implement the set of paths of PathTree.      *)
(***************************************************************************)
EXTENDS BranchSearch, WellFoundedInduction, TLAPS

Decision == [idx : Idx, side : Side]

\* Before the first branch there is one state at most, and no node.
BeforeFirst ==
  root = Null => /\ nodes = <<>> /\ live \subseteq {InitState}
                 /\ parentBranch[InitState] = Null

\* A node comes later than the nodes its decisions were made at.
TrailsShort ==
  /\ Len(trail) = Len(nodes)
  /\ \A n \in 1..Len(trail) : Len(trail[n]) < n

TreeInv == TypeOK /\ SlotsMatchStates /\ BeforeFirst /\ TrailsShort

\* The tree as a set of paths, which Paths is about.
PathMap == [s \in live |-> StatePath(s)]

-----------------------------------------------------------------------------
\* What Append does to the nodes.
LEMMA AppendNode ==
  ASSUME NEW ns \in Seq(Node), NEW x \in Node
  PROVE  /\ Append(ns, x) \in Seq(Node) /\ Len(ns) \in Nat
         /\ Len(Append(ns, x)) = Len(ns) + 1
         /\ DOMAIN ns = 1..Len(ns) /\ DOMAIN Append(ns, x) = 1..(Len(ns) + 1)
         /\ \A n \in DOMAIN ns : Append(ns, x)[n] = ns[n]
         /\ Append(ns, x)[Len(ns) + 1] = x
  OBVIOUS

\* What Append does to the trails.
LEMMA AppendTrail ==
  ASSUME NEW ts \in Seq(Seq(Decision)), NEW ds \in Seq(Decision)
  PROVE  /\ Append(ts, ds) \in Seq(Seq(Decision)) /\ Len(ts) \in Nat
         /\ Len(Append(ts, ds)) = Len(ts) + 1
         /\ \A n \in 1..Len(ts) : Append(ts, ds)[n] = ts[n]
         /\ Append(ts, ds)[Len(ts) + 1] = ds
  OBVIOUS

\* A pointer that is not Null is the number of a node.
LEMMA PtrNat ==
  /\ Null \in Ptr /\ \A n \in Ptr : n # Null => n \in 1..MaxNodes
  /\ \A n \in 1..MaxNodes : n \in Ptr /\ n # Null
  /\ 0 \in Side /\ 1 \in Side /\ \A b \in Side : 1 - b \in Side /\ 1 - b # b
  BY NodesAssumption DEF Ptr, Side

\* The constructor of a node (BranchTree.cpp:12) and addBranch's assignments.
LEMMA NewNodeFields ==
  ASSUME NEW i \in Idx, NEW s \in State, NEW c \in State, NEW p \in Ptr
  PROVE  /\ NewNode(i, s, c, p) \in Node
         /\ NewNode(i, s, c, p).idx = i
         /\ NewNode(i, s, c, p).childStates[0] = s
         /\ NewNode(i, s, c, p).childStates[1] = c
         /\ \A b \in Side : NewNode(i, s, c, p).childBranches[b] = Null
         /\ NewNode(i, s, c, p).parentBranch = p
  BY PtrNat DEF NewNode, Node, Side

\* The path of a state is typed, and ends at the index of its node.
LEMMA StatePathTyped ==
  ASSUME TreeInv, NEW s \in live
  PROVE  /\ StatePath(s) \in Seq(Decision)
         /\ parentBranch[s] = Null => StatePath(s) = <<>>
         /\ parentBranch[s] # Null =>
              LET n == parentBranch[s] IN
                /\ n \in 1..Len(nodes)
                /\ Len(StatePath(s)) = Len(trail[n]) + 1
                /\ Len(StatePath(s)) <= Len(nodes)
                /\ StatePath(s)[Len(StatePath(s))].idx = nodes[n].idx
<1> DEFINE n == parentBranch[s]
           b == IF nodes[n].childStates[0] = s THEN 0 ELSE 1
           d == [idx |-> nodes[n].idx, side |-> b]
<1>1. CASE n = Null
  <2>1. StatePath(s) = <<>>
    BY <1>1, Zenon DEF StatePath
  <2>2. <<>> \in Seq(Decision)
    OBVIOUS
  <2> QED
    BY <1>1, <2>1, <2>2, Zenon
<1>2. CASE n # Null
  <2>1. root # Null
    BY <1>2 DEF TreeInv, BeforeFirst
  <2>2. /\ nodes \in Seq(Node) /\ n \in DOMAIN nodes /\ DOMAIN nodes = 1..Len(nodes)
        /\ Len(nodes) \in Nat
    BY <2>1 DEF TreeInv, TypeOK, SlotsMatchStates, InItsSlot
  <2>a. nodes[n] \in Node
    BY <2>2
  <2>3. nodes[n].idx \in Idx
    BY <2>a DEF Node
  <2>4. d \in Decision
    BY <2>3 DEF Decision, Side
  <2>5. /\ trail \in Seq(Seq(Decision)) /\ Len(trail) = Len(nodes)
        /\ Len(trail[n]) < n
    BY <2>2 DEF TreeInv, TypeOK, TrailsShort, Decision
  <2>6. trail[n] \in Seq(Decision) /\ Len(trail[n]) \in Nat
    BY <2>2, <2>5
  <2>7. StatePath(s) = Append(trail[n], d)
    BY <1>2 DEF StatePath
  <2>8. /\ Append(trail[n], d) \in Seq(Decision)
        /\ Len(Append(trail[n], d)) = Len(trail[n]) + 1
        /\ Append(trail[n], d)[Len(trail[n]) + 1] = d
    BY <2>4, <2>6
  <2> HIDE DEF d
  <2>9. Len(trail[n]) + 1 <= Len(nodes)
    BY <2>2, <2>5, <2>6
  <2>10. d.idx = nodes[n].idx
    BY DEF d
  <2> QED
    BY <1>2, <2>2, <2>7, <2>8, <2>9, <2>10
<1> QED
  BY <1>1, <1>2

-----------------------------------------------------------------------------
\* Where a state of the tree is: on side b of the node it points to, the side
\* that addBranch and removeState look for.
LEMMA StateInSlot ==
  ASSUME TreeInv, root # Null, NEW s \in live,
         NEW p, p = parentBranch[s],
         NEW b, b = IF nodes[p].childStates[0] = s THEN 0 ELSE 1
  PROVE  /\ p \in 1..Len(nodes) /\ p \in Ptr /\ p # Null /\ b \in Side
         /\ nodes[p].childStates[b] = s
         /\ nodes[p].childStates[1 - b] # s
         /\ nodes[p].childBranches[b] = Null
<1>1. /\ nodes \in Seq(Node) /\ p \in DOMAIN nodes /\ DOMAIN nodes = 1..Len(nodes)
      /\ \E a \in Side : nodes[p].childStates[a] = s /\ nodes[p].childStates[1 - a] # s
      /\ Len(nodes) \in Nat /\ Len(nodes) <= MaxNodes
  BY DEF TreeInv, TypeOK, SlotsMatchStates, InItsSlot
<1>2. p \in 1..MaxNodes
  BY <1>1, NodesAssumption
<1>3. /\ b \in Side /\ nodes[p].childStates[b] = s
      /\ nodes[p].childStates[1 - b] # s
  <2>1. PICK a \in Side : nodes[p].childStates[a] = s /\ nodes[p].childStates[1 - a] # s
    BY <1>1
  <2>2. CASE a = 0
    BY <2>1, <2>2 DEF Side
  <2>3. CASE a = 1
    BY <2>1, <2>3 DEF Side
  <2> QED
    BY <2>2, <2>3 DEF Side
<1>4. s # Null
  BY StatesAssumption DEF TreeInv, TypeOK
<1>5. nodes[p].childBranches[b] = Null
  BY <1>1, <1>3, <1>4 DEF TreeInv, SlotsMatchStates, SlotOK
<1> QED
  BY <1>1, <1>2, <1>3, <1>5, PtrNat

\* addBranch on a tree with nodes (BranchTree.cpp:194-212): s moves from its
\* slot to the new node; every other slot is left alone.
LEMMA AddBelow ==
  ASSUME TreeInv, NEW s \in State, NEW c \in State, NEW i \in Idx,
         AddBranch(s, i, c), root # Null,
         NEW p, p = parentBranch[s],
         NEW b, b = IF nodes[p].childStates[0] = s THEN 0 ELSE 1
  PROVE  /\ ~failed' /\ root' = root
         /\ nodes' \in Seq(Node) /\ Len(nodes') = Len(nodes) + 1
         /\ nodes'[Len(nodes) + 1] = NewNode(i, s, c, p)
         /\ \A n \in 1..Len(nodes) : /\ nodes'[n].idx = nodes[n].idx
                                    /\ nodes'[n].parentBranch = nodes[n].parentBranch
         /\ nodes'[p].childBranches[b] = Len(nodes) + 1
         /\ \A n \in 1..Len(nodes), a \in Side :
              IF n = p /\ a = b
                THEN nodes'[n].childStates[a] = Null
                ELSE /\ nodes'[n].childStates[a] = nodes[n].childStates[a]
                     /\ nodes'[n].childBranches[a] = nodes[n].childBranches[a]
<1> DEFINE new == Len(nodes) + 1
           ms == [nodes EXCEPT ![p].childBranches[b] = new,
                               ![p].childStates[b] = Null]
<1>1. s \in live /\ new <= MaxNodes
  BY DEF AddBranch
<1>2. /\ p \in 1..Len(nodes) /\ p \in Ptr /\ p # Null /\ b \in Side
      /\ nodes[p].childStates[b] = s
  BY <1>1, StateInSlot
<1>3. failed' = FALSE
  BY <1>2, Zenon DEF AddBranch
<1>4. nodes' = Append(ms, NewNode(i, s, c, p)) /\ root' = root
  BY <1>3, Zenon DEF AddBranch
<1>5. /\ nodes \in Seq(Node) /\ Len(nodes) \in Nat /\ DOMAIN nodes = 1..Len(nodes)
      /\ \A n \in 1..Len(nodes) : nodes[n] \in Node
  BY DEF TreeInv, TypeOK
<1>6. new \in Ptr
  BY <1>1, <1>5, NodesAssumption DEF Ptr
<1>7. /\ nodes[p].childStates \in [Side -> State \cup {Null}]
      /\ nodes[p].childBranches \in [Side -> Ptr]
      /\ nodes[p].idx \in Idx /\ nodes[p].parentBranch \in Ptr
  BY <1>2, <1>5 DEF Node
<1> DEFINE np == [idx |-> nodes[p].idx,
                  childStates |-> [nodes[p].childStates EXCEPT ![b] = Null],
                  childBranches |-> [nodes[p].childBranches EXCEPT ![b] = new],
                  parentBranch |-> nodes[p].parentBranch]
<1>8. /\ DOMAIN ms = DOMAIN nodes
      /\ \A n \in 1..Len(nodes) : n # p => ms[n] = nodes[n]
      /\ ms[p] = np
  <2>1. nodes[p] \in Node /\ p \in DOMAIN nodes
    BY <1>2, <1>5
  <2> QED
    BY <1>5, <2>1, Zenon DEF Node
<1>9. np \in Node
  BY <1>2, <1>6, <1>7 DEF Node
<1>10. ms \in Seq(Node) /\ Len(ms) = Len(nodes)
  <2>1. \A n \in 1..Len(nodes) : ms[n] \in Node
    BY <1>5, <1>8, <1>9, Zenon
  <2>2. ms = [n \in DOMAIN nodes |-> ms[n]]
    BY ZenonT(40)
  <2> HIDE DEF ms
  <2>3. ms \in [1..Len(nodes) -> Node]
    BY <1>5, <2>1, <2>2
  <2> QED
    BY <1>5, <2>3
<1>11. NewNode(i, s, c, p) \in Node
  BY <1>2, NewNodeFields
<1>12. /\ np.idx = nodes[p].idx /\ np.parentBranch = nodes[p].parentBranch
       /\ np.childBranches[b] = new
       /\ np.childStates[b] = Null
       /\ \A a \in Side : a # b => /\ np.childStates[a] = nodes[p].childStates[a]
                                   /\ np.childBranches[a] = nodes[p].childBranches[a]
  BY <1>2, <1>7
<1> HIDE DEF ms, np
<1>13. /\ nodes' \in Seq(Node) /\ Len(nodes') = Len(nodes) + 1
       /\ nodes'[Len(nodes) + 1] = NewNode(i, s, c, p)
       /\ \A n \in 1..Len(nodes) : nodes'[n] = ms[n]
  BY <1>4, <1>5, <1>8, <1>10, <1>11, AppendNode
<1>14. ASSUME NEW n \in 1..Len(nodes)
       PROVE  /\ nodes'[n].idx = nodes[n].idx
              /\ nodes'[n].parentBranch = nodes[n].parentBranch
              /\ \A a \in Side :
                   IF n = p /\ a = b
                     THEN nodes'[n].childStates[a] = Null
                     ELSE /\ nodes'[n].childStates[a] = nodes[n].childStates[a]
                          /\ nodes'[n].childBranches[a] = nodes[n].childBranches[a]
  <2>1. CASE n = p
    <3>1. nodes'[n] = np
      BY <1>8, <1>13, <2>1
    <3> QED
      BY <1>12, <2>1, <3>1, Zenon
  <2>2. CASE n # p
    <3>1. nodes'[n] = nodes[n]
      BY <1>8, <1>13, <2>2
    <3> QED
      BY <2>2, <3>1
  <2> QED
    BY <2>1, <2>2
<1>15. nodes'[p].childBranches[b] = Len(nodes) + 1
  <2>1. nodes'[p] = np
    BY <1>2, <1>8, <1>13
  <2> QED
    BY <1>12, <2>1, Zenon
<1> QED
  BY <1>3, <1>4, <1>13, <1>14, <1>15, Zenon

\* addBranch on an empty tree (BranchTree.cpp:184-192): the state is the one
\* run() starts with, and the new node is the root.
LEMMA AddRoot ==
  ASSUME TreeInv, NEW s \in State, NEW c \in State, NEW i \in Idx,
         AddBranch(s, i, c), root = Null
  PROVE  /\ ~failed' /\ root' = 1 /\ live = {s} /\ parentBranch[s] = Null
         /\ nodes = <<>> /\ Len(nodes) = 0 /\ StatePath(s) = <<>>
         /\ nodes' = <<NewNode(i, s, c, Null)>> /\ nodes' \in Seq(Node)
         /\ Len(nodes') = 1 /\ nodes'[1] = NewNode(i, s, c, Null)
<1>1. s \in live /\ failed' = FALSE /\ root' = Len(nodes) + 1
      /\ nodes' = <<NewNode(i, s, c, Null)>>
  BY DEF AddBranch
<1>2. nodes = <<>> /\ live = {s} /\ parentBranch[s] = Null
  BY <1>1 DEF TreeInv, BeforeFirst
<1>3. Len(nodes) = 0
  BY <1>2
<1>4. StatePath(s) = <<>>
  BY <1>1, <1>2, StatePathTyped
<1>5. NewNode(i, s, c, Null) \in Node
  BY NewNodeFields, PtrNat
<1> HIDE DEF NewNode
<1>6. /\ <<NewNode(i, s, c, Null)>> \in Seq(Node)
      /\ Len(<<NewNode(i, s, c, Null)>>) = 1
      /\ <<NewNode(i, s, c, Null)>>[1] = NewNode(i, s, c, Null)
  BY <1>5
<1> QED
  BY <1>1, <1>2, <1>3, <1>4, <1>6

\* In both cases: the nodes before keep their indices, s and c are on the two
\* sides of the new node, s has left its slot, and the other slots are the same.
LEMMA AddEffect ==
  ASSUME TreeInv, NEW s \in State, NEW c \in State, NEW i \in Idx,
         AddBranch(s, i, c),
         NEW new, new = Len(nodes) + 1
  PROVE  /\ ~failed' /\ root' # Null /\ new \in 1..MaxNodes /\ s # c
         /\ nodes' \in Seq(Node) /\ Len(nodes') = new /\ Len(nodes) \in Nat
         /\ nodes'[new].idx = i
         /\ nodes'[new].childStates[0] = s /\ nodes'[new].childStates[1] = c
         /\ \A a \in Side : nodes'[new].childBranches[a] = Null
         /\ \A n \in 1..Len(nodes) : nodes'[n].idx = nodes[n].idx
         /\ \A n \in 1..Len(nodes), a \in Side :
              \/ nodes[n].childStates[a] = s /\ nodes'[n].childStates[a] = Null
              \/ /\ nodes'[n].childStates[a] = nodes[n].childStates[a]
                 /\ nodes'[n].childBranches[a] = nodes[n].childBranches[a]
                 /\ nodes[n].childStates[a] # s
         /\ parentBranch' = [parentBranch EXCEPT ![s] = new, ![c] = new]
         /\ live' = live \cup {c} /\ s \in live /\ c \notin live
         /\ trail' = Append(trail, StatePath(s))
<1>1. /\ s \in live /\ c \notin live /\ s # c /\ new <= MaxNodes
      /\ parentBranch' = [parentBranch EXCEPT ![s] = new, ![c] = new]
      /\ live' = live \cup {c}
      /\ trail' = IF failed' THEN trail ELSE Append(trail, StatePath(s))
  BY DEF AddBranch
<1>2. /\ Len(nodes) \in Nat /\ new \in 1..MaxNodes
      /\ s # Null /\ nodes \in Seq(Node)
  BY <1>1, NodesAssumption, StatesAssumption DEF TreeInv, TypeOK
<1>3. CASE root = Null
  <2>1. /\ ~failed' /\ root' = 1 /\ Len(nodes) = 0
        /\ nodes' \in Seq(Node) /\ Len(nodes') = 1
        /\ nodes'[1] = NewNode(i, s, c, Null)
    BY <1>3, AddRoot
  <2>2. new = 1 /\ root' # Null
    BY <2>1, NodesAssumption
  <2>3. 1..Len(nodes) = {}
    BY <2>1
  <2>4. /\ NewNode(i, s, c, Null).idx = i
        /\ NewNode(i, s, c, Null).childStates[0] = s
        /\ NewNode(i, s, c, Null).childStates[1] = c
        /\ \A a \in Side : NewNode(i, s, c, Null).childBranches[a] = Null
    BY NewNodeFields, PtrNat
  <2> QED
    BY <1>1, <1>2, <2>1, <2>2, <2>3, <2>4, Zenon
<1>4. CASE root # Null
  <2>a. PICK p, b : /\ p = parentBranch[s]
                    /\ b = IF nodes[p].childStates[0] = s THEN 0 ELSE 1
    OBVIOUS
  <2>1. /\ ~failed' /\ root' = root
        /\ nodes' \in Seq(Node) /\ Len(nodes') = Len(nodes) + 1
        /\ nodes'[Len(nodes) + 1] = NewNode(i, s, c, p)
        /\ \A n \in 1..Len(nodes) : nodes'[n].idx = nodes[n].idx
        /\ \A n \in 1..Len(nodes), a \in Side :
             IF n = p /\ a = b
               THEN nodes'[n].childStates[a] = Null
               ELSE /\ nodes'[n].childStates[a] = nodes[n].childStates[a]
                    /\ nodes'[n].childBranches[a] = nodes[n].childBranches[a]
    BY <1>4, <2>a, AddBelow
  <2>2. /\ p \in 1..Len(nodes) /\ p \in Ptr /\ b \in Side
        /\ nodes[p].childStates[b] = s /\ nodes[p].childStates[1 - b] # s
    BY <1>1, <1>4, <2>a, StateInSlot
  <2>3. /\ NewNode(i, s, c, p).idx = i
        /\ NewNode(i, s, c, p).childStates[0] = s
        /\ NewNode(i, s, c, p).childStates[1] = c
        /\ \A a \in Side : NewNode(i, s, c, p).childBranches[a] = Null
    BY <2>2, NewNodeFields
  <2>4. ASSUME NEW n \in 1..Len(nodes), NEW a \in Side, nodes[n].childStates[a] = s
        PROVE  n = p /\ a = b
    <3>1. n = p
      <4>1. n \in DOMAIN nodes
        BY <1>2
      <4> QED
        BY <1>2, <2>4, <2>a, <4>1, Zenon DEF TreeInv, SlotsMatchStates, SlotOK
    <3>2. a # 1 - b
      BY <2>2, <2>4, <3>1
    <3> QED
      BY <2>2, <3>1, <3>2 DEF Side
  <2>5. ASSUME NEW n \in 1..Len(nodes), NEW a \in Side
        PROVE  \/ nodes[n].childStates[a] = s /\ nodes'[n].childStates[a] = Null
               \/ /\ nodes'[n].childStates[a] = nodes[n].childStates[a]
                  /\ nodes'[n].childBranches[a] = nodes[n].childBranches[a]
                  /\ nodes[n].childStates[a] # s
    BY <2>1, <2>2, <2>4, Zenon
  <2> QED
    BY <1>1, <1>2, <1>4, <2>1, <2>3, <2>5, Zenon
<1> QED
  BY <1>3, <1>4

\* addBranch leaves the paths of the other states alone; the paths of s and c
\* are the one of s before it and the two sides of the new branch.
LEMMA AddPaths ==
  ASSUME TreeInv, NEW s \in State, NEW c \in State, NEW i \in Idx,
         AddBranch(s, i, c)
  PROVE  /\ StatePath(s)' = Append(StatePath(s), [idx |-> i, side |-> 0])
         /\ StatePath(c)' = Append(StatePath(s), [idx |-> i, side |-> 1])
         /\ \A t \in live \ {s} : StatePath(t)' = StatePath(t)
<1>0. PICK new : new = Len(nodes) + 1
  OBVIOUS
<1>1. /\ new \in 1..MaxNodes /\ s # c /\ Len(nodes) \in Nat
      /\ nodes'[new].idx = i
      /\ nodes'[new].childStates[0] = s /\ nodes'[new].childStates[1] = c
      /\ \A n \in 1..Len(nodes) : nodes'[n].idx = nodes[n].idx
      /\ \A n \in 1..Len(nodes), a \in Side :
           \/ nodes[n].childStates[a] = s /\ nodes'[n].childStates[a] = Null
           \/ /\ nodes'[n].childStates[a] = nodes[n].childStates[a]
              /\ nodes[n].childStates[a] # s
      /\ parentBranch' = [parentBranch EXCEPT ![s] = new, ![c] = new]
      /\ s \in live /\ c \notin live
      /\ trail' = Append(trail, StatePath(s))
  BY <1>0, AddEffect
<1>2. new # Null
  BY <1>1, PtrNat
<1>3. /\ parentBranch \in [State -> Ptr] /\ live \subseteq State
      /\ trail \in Seq(Seq(Decision)) /\ Len(trail) = Len(nodes)
  BY DEF TreeInv, TypeOK, TrailsShort, Decision
<1>4. /\ parentBranch'[s] = new /\ parentBranch'[c] = new
      /\ \A t \in live \ {s} : parentBranch'[t] = parentBranch[t]
  BY <1>1, <1>3
<1>5. StatePath(s) \in Seq(Decision)
  BY <1>1, StatePathTyped
<1>6. /\ trail'[new] = StatePath(s)
      /\ \A n \in 1..Len(nodes) : trail'[n] = trail[n]
  BY <1>0, <1>1, <1>3, <1>5, AppendTrail
<1>7. StatePath(s)' = Append(StatePath(s), [idx |-> i, side |-> 0])
  <2>1. StatePath(s)' = Append(trail'[new], [idx |-> nodes'[new].idx, side |-> 0])
    BY <1>1, <1>2, <1>4, Zenon DEF StatePath
  <2> QED
    BY <1>1, <1>6, <2>1
<1>8. StatePath(c)' = Append(StatePath(s), [idx |-> i, side |-> 1])
  <2>1. StatePath(c)' = Append(trail'[new], [idx |-> nodes'[new].idx, side |-> 1])
    BY <1>1, <1>2, <1>4, Zenon DEF StatePath
  <2> QED
    BY <1>1, <1>6, <2>1
<1>9. ASSUME NEW t \in live \ {s} PROVE StatePath(t)' = StatePath(t)
  <2>1. CASE parentBranch[t] = Null
    BY <1>4, <2>1, Zenon DEF StatePath
  <2>2. CASE parentBranch[t] # Null
    <3>1. parentBranch[t] \in 1..Len(nodes)
      BY <2>2, StatePathTyped
    <3>2. PICK n \in 1..Len(nodes) : n = parentBranch[t]
      BY <3>1
    <3>3. t # Null /\ t # s
      BY <1>3, StatesAssumption
    <3>4. nodes'[n].childStates[0] = t <=> nodes[n].childStates[0] = t
      BY <1>1, <3>3, PtrNat
    <3>5. /\ nodes'[n].idx = nodes[n].idx /\ trail'[n] = trail[n]
          /\ parentBranch'[t] = n
      BY <1>1, <1>4, <1>6, <3>2, Zenon
    <3> QED
      BY <3>2, <3>4, <3>5, Zenon DEF StatePath
  <2> QED
    BY <2>1, <2>2
<1> QED
  BY <1>7, <1>8, <1>9

\* addBranch keeps the invariant.
LEMMA AddKeeps ==
  ASSUME TreeInv, NEW s \in State, NEW c \in State, NEW i \in Idx,
         AddBranch(s, i, c)
  PROVE  TreeInv'
<1>0. PICK new : new = Len(nodes) + 1
  OBVIOUS
<1>1. /\ ~failed' /\ root' # Null /\ new \in 1..MaxNodes /\ s # c
      /\ nodes' \in Seq(Node) /\ Len(nodes') = new /\ Len(nodes) \in Nat
      /\ nodes'[new].childStates[0] = s /\ nodes'[new].childStates[1] = c
      /\ \A a \in Side : nodes'[new].childBranches[a] = Null
      /\ \A n \in 1..Len(nodes), a \in Side :
           \/ nodes[n].childStates[a] = s /\ nodes'[n].childStates[a] = Null
           \/ /\ nodes'[n].childStates[a] = nodes[n].childStates[a]
              /\ nodes'[n].childBranches[a] = nodes[n].childBranches[a]
              /\ nodes[n].childStates[a] # s
      /\ parentBranch' = [parentBranch EXCEPT ![s] = new, ![c] = new]
      /\ live' = live \cup {c} /\ s \in live /\ c \notin live
      /\ trail' = Append(trail, StatePath(s))
  BY <1>0, AddEffect
<1>2. /\ parentBranch \in [State -> Ptr] /\ live \subseteq State
      /\ trail \in Seq(Seq(Decision)) /\ Len(trail) = Len(nodes)
      /\ \A n \in 1..Len(trail) : Len(trail[n]) < n
      /\ nodes \in Seq(Node) /\ DOMAIN nodes = 1..Len(nodes)
      /\ Null \notin live
  BY StatesAssumption DEF TreeInv, TypeOK, TrailsShort, Decision
<1>3. StatePath(s) \in Seq(Decision) /\ Len(StatePath(s)) < new
  <2>1. StatePath(s) \in Seq(Decision) /\ Len(StatePath(s)) <= Len(nodes)
    BY <1>1, StatePathTyped
  <2> QED
    BY <1>0, <1>1, <2>1
<1>4. TrailsShort'
  <2>1. /\ trail' \in Seq(Seq(Decision)) /\ Len(trail') = new
        /\ \A n \in 1..Len(nodes) : trail'[n] = trail[n]
        /\ trail'[new] = StatePath(s)
    BY <1>0, <1>1, <1>2, <1>3, AppendTrail
  <2>2. ASSUME NEW n \in 1..new PROVE Len(trail'[n]) < n
    <3>1. CASE n = new
      BY <1>3, <2>1, <3>1
    <3>2. CASE n # new
      <4>1. n \in 1..Len(nodes)
        BY <1>0, <1>1, <3>2
      <4> QED
        BY <1>2, <2>1, <4>1
    <3> QED
      BY <3>1, <3>2
  <2> QED
    BY <1>1, <2>1, <2>2 DEF TrailsShort
<1>5. TypeOK'
  <2>1. parentBranch' \in [State -> Ptr] /\ live' \subseteq State /\ root' \in Ptr
    <3>1. root' \in Ptr
      BY <1>1, PtrNat DEF TreeInv, TypeOK, AddBranch
    <3> QED
      BY <1>1, <1>2, <3>1, PtrNat
  <2>2. trail' \in Seq(Seq([idx : Idx, side : Side]))
    BY <1>1, <1>2, <1>3, AppendTrail DEF Decision
  <2>3. Len(nodes') <= MaxNodes
    BY <1>1, NodesAssumption
  <2>4. failed' \in BOOLEAN
    BY Zenon DEF AddBranch
  <2> QED
    BY <1>1, <2>1, <2>2, <2>3, <2>4, Zenon DEF TypeOK
<1>6. /\ parentBranch'[s] = new /\ parentBranch'[c] = new
      /\ \A t \in live \ {s} : parentBranch'[t] = parentBranch[t]
      /\ DOMAIN nodes' = 1..new /\ new # Null
  BY <1>1, <1>2, PtrNat
<1>7. ASSUME NEW n \in DOMAIN nodes', NEW a \in Side PROVE SlotOK(n, a)'
  <2>1. CASE n = new
    <3>1. nodes'[n].childStates[a] \in {s, c}
      BY <1>1, <2>1 DEF Side
    <3>2. \A t \in {s, c} : t \in live' /\ parentBranch'[t] = n
      BY <1>1, <1>6, <2>1
    <3> QED
      BY <1>1, <2>1, <3>1, <3>2, Zenon DEF SlotOK
  <2>2. CASE n # new
    <3>1. n \in 1..Len(nodes) /\ n \in DOMAIN nodes
      BY <1>0, <1>1, <1>2, <1>6, <2>2
    <3>2. SlotOK(n, a)
      BY <3>1 DEF TreeInv, SlotsMatchStates
    <3>3. CASE nodes'[n].childStates[a] = Null
      BY <3>3, Zenon DEF SlotOK
    <3>4. CASE /\ nodes'[n].childStates[a] = nodes[n].childStates[a]
               /\ nodes'[n].childBranches[a] = nodes[n].childBranches[a]
               /\ nodes[n].childStates[a] # s
      <4>1. PICK t : t = nodes[n].childStates[a]
        OBVIOUS
      <4>2. t # Null => /\ nodes[n].childBranches[a] = Null
                        /\ t \in live \ {s} /\ parentBranch[t] = n
        BY <3>2, <3>4, <4>1, Zenon DEF SlotOK
      <4>3. t # Null => t \in live' /\ parentBranch'[t] = n
        BY <1>1, <1>6, <4>2, Zenon
      <4> QED
        BY <3>4, <4>1, <4>2, <4>3, Zenon DEF SlotOK
    <3> QED
      BY <1>1, <3>1, <3>3, <3>4
  <2> QED
    BY <2>1, <2>2
<1>8. ASSUME NEW t \in live' PROVE InItsSlot(t)'
  <2>1. CASE t = s
    <3>1. nodes'[new].childStates[0] = t /\ nodes'[new].childStates[1 - 0] # t
      BY <1>1, <2>1
    <3>2. new \in DOMAIN nodes' /\ parentBranch'[t] = new
      BY <1>1, <1>6, <2>1
    <3> QED
      BY <3>1, <3>2, PtrNat, Zenon DEF InItsSlot
  <2>a. CASE t = c
    <3>1. nodes'[new].childStates[1] = t /\ nodes'[new].childStates[1 - 1] # t
      BY <1>1, <2>a
    <3>2. new \in DOMAIN nodes' /\ parentBranch'[t] = new
      BY <1>1, <1>6, <2>a
    <3> QED
      BY <3>1, <3>2, PtrNat, Zenon DEF InItsSlot
  <2>2. CASE t \notin {s, c}
    <3>1. t \in live \ {s} /\ t # Null
      BY <1>1, <1>2, <2>2
    <3>2. root # Null
      <4>1. root = Null => live = {s}
        BY AddRoot
      <4> QED
        BY <3>1, <4>1
    <3>3. PICK n : n = parentBranch[t]
      OBVIOUS
    <3>4. /\ n \in DOMAIN nodes
          /\ \E b \in Side : nodes[n].childStates[b] = t /\ nodes[n].childStates[1 - b] # t
      BY <3>1, <3>2, <3>3, Zenon DEF TreeInv, SlotsMatchStates, InItsSlot
    <3>5. \A b \in Side : nodes'[n].childStates[b] = t <=> nodes[n].childStates[b] = t
      BY <1>1, <1>2, <3>1, <3>4
    <3>6. n \in DOMAIN nodes' /\ parentBranch'[t] = n
      BY <1>0, <1>1, <1>2, <1>6, <3>1, <3>3, <3>4, SMTT(30)
    <3> QED
      BY <3>4, <3>5, <3>6, PtrNat, Zenon DEF InItsSlot
  <2> QED
    BY <2>1, <2>2, <2>a
<1> QED
  BY <1>1, <1>4, <1>5, <1>7, <1>8
     DEF TreeInv, SlotsMatchStates, AssertsHold, BeforeFirst

-----------------------------------------------------------------------------
\* removeState (BranchTree.cpp:163): the slot of s is cleared and every other
\* slot is left alone; before the first branch there is no slot.
LEMMA RemoveEffect ==
  ASSUME TreeInv, NEW s \in State, RemoveState(s)
  PROVE  /\ ~failed' /\ failed' \in BOOLEAN /\ root' = root
         /\ s \in live /\ live' = live \ {s} /\ trail' = trail
         /\ nodes' \in Seq(Node) /\ Len(nodes') = Len(nodes)
         /\ parentBranch' \in [State -> Ptr]
         /\ \A t \in State \ {s} : parentBranch'[t] = parentBranch[t]
         /\ root = Null => nodes' = nodes /\ parentBranch' = parentBranch
         /\ \A n \in 1..Len(nodes) : /\ nodes'[n].idx = nodes[n].idx
                                    /\ nodes'[n].parentBranch = nodes[n].parentBranch
         /\ root # Null => \A n \in 1..Len(nodes), a \in Side :
              /\ nodes'[n].childBranches[a] = nodes[n].childBranches[a]
              /\ \/ nodes[n].childStates[a] = s /\ nodes'[n].childStates[a] = Null
                 \/ /\ nodes'[n].childStates[a] = nodes[n].childStates[a]
                    /\ nodes[n].childStates[a] # s
<1>1. /\ s \in live /\ live' = live \ {s} /\ trail' = trail /\ failed = FALSE
  BY DEF RemoveState, TreeInv, TypeOK, SlotsMatchStates, AssertsHold
<1>2. /\ nodes \in Seq(Node) /\ Len(nodes) \in Nat /\ DOMAIN nodes = 1..Len(nodes)
      /\ \A n \in 1..Len(nodes) : nodes[n] \in Node
      /\ parentBranch \in [State -> Ptr] /\ s # Null
  BY StatesAssumption DEF TreeInv, TypeOK
<1>3. CASE root = Null
  <2>1. UNCHANGED <<nodes, root, parentBranch, failed>>
    BY <1>3 DEF RemoveState
  <2> QED
    BY <1>1, <1>2, <1>3, <2>1, Zenon
<1>4. CASE root # Null
  <2>a. PICK p, b : /\ p = parentBranch[s]
                    /\ b = IF nodes[p].childStates[0] = s THEN 0 ELSE 1
    OBVIOUS
  <2>1. /\ p \in 1..Len(nodes) /\ p \in Ptr /\ p # Null /\ b \in Side
        /\ nodes[p].childStates[b] = s /\ nodes[p].childStates[1 - b] # s
    BY <1>1, <1>4, <2>a, StateInSlot
  <2>2. failed' = FALSE
    BY <1>4, <2>a, <2>1, Zenon DEF RemoveState
  <2>3. /\ nodes' = [nodes EXCEPT ![p].childStates[b] = Null]
        /\ parentBranch' = [parentBranch EXCEPT ![s] = Null] /\ root' = root
    BY <1>4, <2>a, <2>2, Zenon DEF RemoveState
  <2> DEFINE np == [idx |-> nodes[p].idx,
                    childStates |-> [nodes[p].childStates EXCEPT ![b] = Null],
                    childBranches |-> nodes[p].childBranches,
                    parentBranch |-> nodes[p].parentBranch]
  <2>4. /\ nodes[p].childStates \in [Side -> State \cup {Null}]
        /\ nodes[p].childBranches \in [Side -> Ptr]
        /\ nodes[p].idx \in Idx /\ nodes[p].parentBranch \in Ptr
    BY <1>2, <2>1 DEF Node
  <2>5. /\ DOMAIN nodes' = DOMAIN nodes /\ nodes'[p] = np
        /\ \A n \in 1..Len(nodes) : n # p => nodes'[n] = nodes[n]
    <3>1. nodes[p] \in Node /\ p \in DOMAIN nodes
      BY <1>2, <2>1
    <3> QED
      BY <1>2, <2>3, <3>1, Zenon DEF Node
  <2>6. /\ np \in Node /\ np.idx = nodes[p].idx
        /\ np.parentBranch = nodes[p].parentBranch
        /\ np.childStates[b] = Null
        /\ \A a \in Side : /\ np.childBranches[a] = nodes[p].childBranches[a]
                           /\ a # b => np.childStates[a] = nodes[p].childStates[a]
    BY <2>1, <2>4 DEF Node
  <2> HIDE DEF np
  <2>7. nodes' \in Seq(Node) /\ Len(nodes') = Len(nodes)
    <3>1. \A n \in 1..Len(nodes) : nodes'[n] \in Node
      BY <1>2, <2>5, <2>6
    <3>2. nodes' = [n \in DOMAIN nodes |-> nodes'[n]]
      BY <2>3, Zenon
    <3>3. nodes' \in [1..Len(nodes) -> Node]
      BY <1>2, <3>1, <3>2
    <3> QED
      BY <1>2, <3>3
  <2>8. ASSUME NEW n \in 1..Len(nodes), NEW a \in Side, nodes[n].childStates[a] = s
        PROVE  n = p /\ a = b
    <3>1. n \in DOMAIN nodes
      BY <1>2
    <3>2. n = p
      BY <1>2, <2>8, <2>a, <3>1, Zenon DEF TreeInv, SlotsMatchStates, SlotOK
    <3>3. a # 1 - b
      BY <2>1, <2>8, <3>2
    <3> QED
      BY <2>1, <3>2, <3>3 DEF Side
  <2>9. ASSUME NEW n \in 1..Len(nodes)
        PROVE  /\ nodes'[n].idx = nodes[n].idx
               /\ nodes'[n].parentBranch = nodes[n].parentBranch
               /\ \A a \in Side :
                    /\ nodes'[n].childBranches[a] = nodes[n].childBranches[a]
                    /\ \/ nodes[n].childStates[a] = s /\ nodes'[n].childStates[a] = Null
                       \/ /\ nodes'[n].childStates[a] = nodes[n].childStates[a]
                          /\ nodes[n].childStates[a] # s
    <3>1. CASE n = p
      BY <2>1, <2>5, <2>6, <2>8, <3>1, Zenon
    <3>2. CASE n # p
      BY <2>5, <2>8, <3>2, Zenon
    <3> QED
      BY <3>1, <3>2
  <2>10. /\ parentBranch' \in [State -> Ptr]
         /\ \A t \in State \ {s} : parentBranch'[t] = parentBranch[t]
    BY <1>2, <2>3, PtrNat
  <2> QED
    BY <1>1, <1>4, <2>2, <2>3, <2>7, <2>9, <2>10, Zenon
<1> QED
  BY <1>3, <1>4

\* removeState leaves the paths of the other states alone.
LEMMA RemovePaths ==
  ASSUME TreeInv, NEW s \in State, RemoveState(s), NEW t \in live \ {s}
  PROVE  StatePath(t)' = StatePath(t)
<1>1. t \in State \ {s} /\ t # Null /\ t \in live /\ 0 \in Side
  BY StatesAssumption, PtrNat DEF TreeInv, TypeOK
<1>2. parentBranch'[t] = parentBranch[t] /\ trail' = trail
  BY <1>1, RemoveEffect
<1>3. CASE parentBranch[t] = Null
  BY <1>2, <1>3, Zenon DEF StatePath
<1>4. CASE parentBranch[t] # Null
  <2>1. PICK n \in 1..Len(nodes) : n = parentBranch[t]
    BY <1>1, <1>4, StatePathTyped
  <2>2. root # Null
    BY <1>1, <1>4 DEF TreeInv, BeforeFirst
  <2>3. nodes'[n].idx = nodes[n].idx
    BY RemoveEffect
  <2>4. nodes'[n].childStates[0] = t <=> nodes[n].childStates[0] = t
    BY <1>1, <2>2, RemoveEffect
  <2> QED
    BY <1>2, <2>1, <2>3, <2>4, Zenon DEF StatePath
<1> QED
  BY <1>3, <1>4

\* removeState keeps the invariant.
LEMMA RemoveKeeps ==
  ASSUME TreeInv, NEW s \in State, RemoveState(s)
  PROVE  TreeInv'
<1>1. /\ ~failed' /\ failed' \in BOOLEAN /\ root' = root
      /\ s \in live /\ live' = live \ {s} /\ trail' = trail
      /\ nodes' \in Seq(Node) /\ Len(nodes') = Len(nodes)
      /\ parentBranch' \in [State -> Ptr]
      /\ \A t \in State \ {s} : parentBranch'[t] = parentBranch[t]
      /\ root = Null => nodes' = nodes /\ parentBranch' = parentBranch
  BY RemoveEffect
<1>2. /\ live \subseteq State /\ Null \notin live /\ nodes \in Seq(Node)
      /\ DOMAIN nodes = 1..Len(nodes) /\ DOMAIN nodes' = 1..Len(nodes)
  BY <1>1, StatesAssumption DEF TreeInv, TypeOK
<1>3. TypeOK'
  BY <1>1, <1>2 DEF TreeInv, TypeOK
<1>4. TrailsShort' /\ BeforeFirst'
  BY <1>1 DEF TreeInv, TrailsShort, BeforeFirst
<1>5. CASE root = Null
  <2>1. DOMAIN nodes' = {}
    BY <1>1, <1>5 DEF TreeInv, BeforeFirst
  <2>2. SlotsMatchStates'
    BY <1>1, <1>5, <2>1, Zenon DEF SlotsMatchStates, AssertsHold
  <2> QED
    BY <1>3, <1>4, <2>2 DEF TreeInv
<1>6. CASE root # Null
  <2>1. ASSUME NEW n \in 1..Len(nodes), NEW a \in Side
        PROVE  /\ nodes'[n].childBranches[a] = nodes[n].childBranches[a]
               /\ \/ nodes[n].childStates[a] = s /\ nodes'[n].childStates[a] = Null
                  \/ /\ nodes'[n].childStates[a] = nodes[n].childStates[a]
                     /\ nodes[n].childStates[a] # s
    BY <1>6, RemoveEffect
  <2>2. ASSUME NEW n \in DOMAIN nodes', NEW a \in Side PROVE SlotOK(n, a)'
    <3>1. n \in 1..Len(nodes) /\ SlotOK(n, a)
      BY <1>2 DEF TreeInv, SlotsMatchStates
    <3>2. PICK t : t = nodes'[n].childStates[a]
      OBVIOUS
    <3>3. t # Null => /\ t = nodes[n].childStates[a] /\ t # s
                      /\ nodes'[n].childBranches[a] = nodes[n].childBranches[a]
      BY <2>1, <3>1, <3>2, Zenon
    <3>4. t # Null => /\ nodes[n].childBranches[a] = Null
                      /\ t \in live /\ parentBranch[t] = n
      BY <3>1, <3>3, Zenon DEF SlotOK
    <3>5. t # Null => t \in live' /\ parentBranch'[t] = n
      BY <1>1, <1>2, <3>3, <3>4
    <3> QED
      BY <3>2, <3>3, <3>4, <3>5, Zenon DEF SlotOK
  <2>3. ASSUME NEW t \in live' PROVE InItsSlot(t)'
    <3>1. t \in live /\ t # s /\ t # Null /\ parentBranch'[t] = parentBranch[t]
      BY <1>1, <1>2
    <3>2. PICK n : n = parentBranch[t]
      OBVIOUS
    <3>3. /\ n \in DOMAIN nodes
          /\ \E b \in Side : nodes[n].childStates[b] = t /\ nodes[n].childStates[1 - b] # t
      BY <1>6, <3>1, <3>2, Zenon DEF TreeInv, SlotsMatchStates, InItsSlot
    <3>4. \A b \in Side : nodes'[n].childStates[b] = t <=> nodes[n].childStates[b] = t
      BY <1>2, <2>1, <3>1, <3>3
    <3> QED
      BY <1>2, <3>1, <3>2, <3>3, <3>4, PtrNat, Zenon DEF InItsSlot
  <2> QED
    BY <1>1, <1>3, <1>4, <2>2, <2>3 DEF TreeInv, SlotsMatchStates, AssertsHold
<1> QED
  BY <1>5, <1>6

-----------------------------------------------------------------------------
\* The tree the executor starts with has no node.
LEMMA TreeInvInit == Init => TreeInv
<1> SUFFICES ASSUME Init PROVE TreeInv
  OBVIOUS
<1>1. /\ nodes = <<>> /\ root = Null /\ live = {InitState} /\ failed = FALSE
      /\ trail = <<>> /\ parentBranch = [s \in State |-> Null]
  BY DEF Init
<1>2. TypeOK
  <2>1. <<>> \in Seq(Node) /\ Len(<<>>) <= MaxNodes
    BY NodesAssumption
  <2>2. <<>> \in Seq(Seq([idx : Idx, side : Side]))
    OBVIOUS
  <2>3. [s \in State |-> Null] \in [State -> Ptr] /\ root \in Ptr
    BY <1>1, PtrNat
  <2>4. live \subseteq State /\ failed \in BOOLEAN
    BY <1>1, StatesAssumption, Zenon
  <2> QED
    BY <1>1, <2>1, <2>2, <2>3, <2>4, Zenon DEF TypeOK
<1>3. SlotsMatchStates
  BY <1>1 DEF SlotsMatchStates, AssertsHold
<1>4. BeforeFirst /\ TrailsShort
  BY <1>1, StatesAssumption DEF BeforeFirst, TrailsShort
<1> QED
  BY <1>2, <1>3, <1>4 DEF TreeInv

\* Both operations keep the invariant.
LEMMA TreeInvNext == TreeInv /\ [Next]_vars => TreeInv'
<1> SUFFICES ASSUME TreeInv, [Next]_vars PROVE TreeInv'
  OBVIOUS
<1>1. CASE UNCHANGED vars
  BY <1>1 DEF vars, TreeInv, TypeOK, SlotsMatchStates, AssertsHold, SlotOK,
              InItsSlot, BeforeFirst, TrailsShort
<1>2. ASSUME NEW s \in State, NEW c \in State, NEW i \in Idx, AddBranch(s, i, c)
      PROVE  TreeInv'
  BY <1>2, AddKeeps
<1>3. ASSUME NEW s \in State, RemoveState(s) PROVE TreeInv'
  BY <1>3, RemoveKeeps
<1> QED
  BY <1>1, <1>2, <1>3 DEF Next

\* The asserts of addBranch and removeState hold, no slot keeps a state that is
\* dead or has moved, and a live state is in the one slot it points to.
THEOREM SlotsStayRight == Spec => []SlotsMatchStates
  BY TreeInvInit, TreeInvNext, PTL DEF Spec, TreeInv

\* An addBranch of the tree is one of the paths: the index is not below the
\* last one of the path, and the bound on the nodes bounds the path.
LEMMA AddIsBranch ==
  ASSUME TreeInv, NEW s \in State, NEW c \in State, NEW i \in Idx,
         AddBranch(s, i, c)
  PROVE  Paths!AddBranch(s, i, c)
<1> DEFINE P == PathMap
<1>0. PICK new : new = Len(nodes) + 1
  OBVIOUS
<1>1. /\ s \in live /\ c \notin live /\ live' = live \cup {c}
      /\ new \in 1..MaxNodes /\ Len(nodes) \in Nat
      /\ parentBranch[s] # Null => nodes[parentBranch[s]].idx <= i
  <2>1. /\ s \in live /\ c \notin live /\ live' = live \cup {c}
        /\ new \in 1..MaxNodes /\ Len(nodes) \in Nat
    BY <1>0, AddEffect, SMTT(30)
  <2>2. parentBranch[s] # Null => nodes[parentBranch[s]].idx <= i
    BY DEF AddBranch
  <2> QED
    BY <2>1, <2>2
<1>2. P[s] = StatePath(s) /\ DOMAIN P = live
  BY <1>1 DEF PathMap
<1>3. Paths!MayBranchAt(StatePath(s), i)
  <2>1. CASE parentBranch[s] = Null
    <3>1. StatePath(s) = <<>> /\ Len(<<>>) = 0
      BY <1>1, <2>1, StatePathTyped
    <3>2. 0 < MaxNodes
      BY <1>1, NodesAssumption
    <3> QED
      BY <3>1, <3>2 DEF Paths!MayBranchAt
  <2>2. CASE parentBranch[s] # Null
    <3>1. /\ StatePath(s) \in Seq(Decision) /\ Len(StatePath(s)) <= Len(nodes)
          /\ StatePath(s)[Len(StatePath(s))].idx = nodes[parentBranch[s]].idx
      BY <1>1, <2>2, StatePathTyped
    <3>2. Len(StatePath(s)) < MaxNodes
      BY <1>0, <1>1, <3>1, NodesAssumption
    <3> QED
      BY <1>1, <2>2, <3>1, <3>2 DEF Paths!MayBranchAt
  <2> QED
    BY <2>1, <2>2
<1>4. P' = Paths!Branch(P, s, i, c)
  <2>1. Paths!Decisions(P, s) = StatePath(s)
    BY <1>1, <1>2 DEF Paths!Decisions
  <2>2. P' = [t \in live' |-> StatePath(t)']
    BY DEF PathMap
  <2>3. Paths!Branch(P, s, i, c) =
          [t \in live \cup {s, c} |->
             IF t = c THEN Append(StatePath(s), [idx |-> i, side |-> 1])
             ELSE IF t = s THEN Append(StatePath(s), [idx |-> i, side |-> 0])
             ELSE P[t]]
    BY <1>2, <2>1 DEF Paths!Branch
  <2>4. /\ StatePath(s)' = Append(StatePath(s), [idx |-> i, side |-> 0])
        /\ StatePath(c)' = Append(StatePath(s), [idx |-> i, side |-> 1])
        /\ \A t \in live \ {s} : StatePath(t)' = StatePath(t) /\ P[t] = StatePath(t)
    BY AddPaths DEF PathMap
  <2>5. live' = live \cup {s, c} /\ s # c
    BY <1>1
  <2> HIDE DEF P
  <2>6. \A t \in live' : StatePath(t)' =
             IF t = c THEN Append(StatePath(s), [idx |-> i, side |-> 1])
             ELSE IF t = s THEN Append(StatePath(s), [idx |-> i, side |-> 0])
             ELSE P[t]
    BY <2>4, <2>5, Zenon
  <2> QED
    BY <2>2, <2>3, <2>5, <2>6, Zenon
<1> QED
  BY <1>1, <1>2, <1>3, <1>4 DEF Paths!AddBranch, PathMap

\* The tree of nodes and pointers implements the set of paths: an addBranch
\* adds a branch to the path of s, a removeState detaches s.
THEOREM TreeIsPaths == Spec => ImplementsPaths
<1>1. Init => Paths!PathInit
  <2> SUFFICES ASSUME Init PROVE Paths!PathInit
    OBVIOUS
  <2>1. live = {InitState} /\ parentBranch[InitState] = Null
    BY StatesAssumption DEF Init
  <2>2. \A s \in live : StatePath(s) = <<>>
    BY <2>1, Zenon DEF StatePath
  <2> QED
    BY <2>1, <2>2, Zenon DEF Paths!PathInit
<1>2. TreeInv /\ [Next]_vars => [Paths!PathNext]_PathMap
  <2> SUFFICES ASSUME TreeInv, [Next]_vars PROVE Paths!PathNext \/ PathMap' = PathMap
    BY DEF PathMap
  <2>1. CASE UNCHANGED vars
    BY <2>1 DEF vars, PathMap, StatePath
  <2>2. ASSUME NEW s \in State, NEW c \in State, NEW i \in Idx, AddBranch(s, i, c)
        PROVE  Paths!PathNext
    <3>1. i \in Paths!Idx
      BY DEF Idx, Paths!Idx
    <3> QED
      BY <2>2, <3>1, AddIsBranch DEF Paths!PathNext
  <2>3. ASSUME NEW s \in State, RemoveState(s) PROVE Paths!PathNext
    <3>1. s \in live /\ live' = live \ {s}
      BY <2>3, RemoveEffect
    <3>2. PathMap' = [t \in live \ {s} |-> StatePath(t)]
      BY <2>3, <3>1, RemovePaths DEF PathMap
    <3>3. Paths!Detach(PathMap, {s}) = [t \in live \ {s} |-> StatePath(t)]
      BY DEF Paths!Detach, PathMap
    <3>4. Paths!RemoveStates({s})
      BY <3>1, <3>2, <3>3 DEF Paths!RemoveStates, PathMap
    <3> QED
      BY <3>4 DEF Paths!PathNext
  <2> QED
    BY <2>1, <2>2, <2>3 DEF Next
<1> QED
  BY <1>1, <1>2, TreeInvInit, TreeInvNext, PTL
     DEF Spec, ImplementsPaths, Paths!PathSpec, PathMap

-----------------------------------------------------------------------------
(* findPrunedStates: the pointers it follows, in both directions.          *)

\* A child branch of node n is a later node, has n for its parent, and its
\* decisions are those of n and the side it is on.
ChildLinked(n, b) ==
  LET c == nodes[n].childBranches[b] IN
    c # Null => /\ c \in (n + 1)..Len(nodes) /\ nodes[c].parentBranch = n
                /\ trail[c] = Append(trail[n], [idx |-> nodes[n].idx, side |-> b])

\* The indices of the decisions that led to node n, and its own, never decrease.
TrailOrdered(n) ==
  /\ \A k \in DOMAIN trail[n] : trail[n][k].idx <= nodes[n].idx
  /\ \A j, k \in DOMAIN trail[n] : j <= k => trail[n][j].idx <= trail[n][k].idx

Links == \A n \in 1..Len(nodes) :
           Linked(n) /\ TrailOrdered(n) /\ \A b \in Side : ChildLinked(n, b)

SearchInv == TreeInv /\ Links

\* The indices of a path that is extended by one that is not lower.
LEMMA OrderedAppend ==
  ASSUME NEW ds \in Seq(Decision), NEW d \in Decision, NEW i \in Idx, d.idx <= i,
         \A k \in DOMAIN ds : ds[k].idx <= d.idx,
         \A j, k \in DOMAIN ds : j <= k => ds[j].idx <= ds[k].idx
  PROVE  /\ \A k \in DOMAIN Append(ds, d) : Append(ds, d)[k].idx <= i
         /\ \A j, k \in DOMAIN Append(ds, d) :
              j <= k => Append(ds, d)[j].idx <= Append(ds, d)[k].idx
<1>1. /\ Len(ds) \in Nat /\ DOMAIN ds = 1..Len(ds)
      /\ DOMAIN Append(ds, d) = 1..(Len(ds) + 1)
      /\ \A k \in 1..Len(ds) : Append(ds, d)[k] = ds[k] /\ ds[k] \in Decision
      /\ Append(ds, d)[Len(ds) + 1] = d
  OBVIOUS
<1>2. /\ \A k \in 1..Len(ds) : ds[k].idx \in Nat
      /\ d.idx \in Nat /\ i \in Nat
  BY <1>1, IndexAssumption DEF Decision, Idx
<1> PICK es : es = Append(ds, d)
  BY Zenon
<1>3. ASSUME NEW j \in 1..(Len(ds) + 1), NEW k \in 1..(Len(ds) + 1), j <= k
      PROVE  es[j].idx <= es[k].idx /\ es[k].idx <= i
  <2>1. CASE k = Len(ds) + 1 /\ j = k
    BY <1>1, <1>2, <2>1
  <2>2. CASE k = Len(ds) + 1 /\ j # k
    <3>1. j \in 1..Len(ds)
      BY <1>1, <2>2
    <3> QED BY <1>1, <1>2, <2>2, <3>1
  <2>3. CASE k # Len(ds) + 1
    <3>1. j \in 1..Len(ds) /\ k \in 1..Len(ds)
      BY <1>1, <1>3, <2>3
    <3>2. es[j] = ds[j] /\ es[k] = ds[k]
      BY <1>1, <3>1
    <3>3. ds[j].idx <= ds[k].idx /\ ds[k].idx <= d.idx
      BY <1>1, <1>3, <3>1
    <3> QED BY <1>2, <3>1, <3>2, <3>3
  <2> QED BY <2>1, <2>2, <2>3
<1>4. \A k \in 1..(Len(ds) + 1) : k <= k
  BY <1>1
<1> QED BY <1>1, <1>3, <1>4

\* A tree with a node keeps its links when addBranch puts a node below them:
\* the one pointer that changes was Null and now leads to the new node.
LEMMA AddLinks ==
  ASSUME SearchInv, NEW s \in State, NEW c \in State, NEW i \in Idx,
         AddBranch(s, i, c), root # Null
  PROVE  Links'
<1>a. PICK p, b : /\ p = parentBranch[s]
                  /\ b = IF nodes[p].childStates[0] = s THEN 0 ELSE 1
  OBVIOUS
<1>b. PICK new : new = Len(nodes) + 1
  BY SMTT(30)
<1>0. TreeInv /\ s \in live /\ (p # Null => nodes[p].idx <= i)
  BY <1>a DEF SearchInv, AddBranch
<1>1. /\ root' = root
      /\ nodes' \in Seq(Node) /\ Len(nodes') = new
      /\ nodes'[new] = NewNode(i, s, c, p)
      /\ \A n \in 1..Len(nodes) : /\ nodes'[n].idx = nodes[n].idx
                                  /\ nodes'[n].parentBranch = nodes[n].parentBranch
      /\ nodes'[p].childBranches[b] = new
      /\ \A n \in 1..Len(nodes), a \in Side :
           ~(n = p /\ a = b) => nodes'[n].childBranches[a] = nodes[n].childBranches[a]
  <2>1. /\ root' = root
        /\ nodes' \in Seq(Node) /\ Len(nodes') = Len(nodes) + 1
        /\ nodes'[Len(nodes) + 1] = NewNode(i, s, c, p)
        /\ \A n \in 1..Len(nodes) : /\ nodes'[n].idx = nodes[n].idx
                                    /\ nodes'[n].parentBranch = nodes[n].parentBranch
        /\ nodes'[p].childBranches[b] = Len(nodes) + 1
        /\ \A n \in 1..Len(nodes), a \in Side :
             IF n = p /\ a = b
               THEN nodes'[n].childStates[a] = Null
               ELSE /\ nodes'[n].childStates[a] = nodes[n].childStates[a]
                    /\ nodes'[n].childBranches[a] = nodes[n].childBranches[a]
    BY <1>0, <1>a, AddBelow, SMTT(30)
  <2> QED BY <1>b, <2>1, Zenon
<1>2. /\ p \in 1..Len(nodes) /\ p \in Ptr /\ p # Null /\ b \in Side
      /\ nodes[p].childBranches[b] = Null
  BY <1>0, <1>a, StateInSlot
<1>3. /\ nodes'[new].idx = i /\ nodes'[new].parentBranch = p
      /\ \A a \in Side : nodes'[new].childBranches[a] = Null
  BY <1>1, <1>2, NewNodeFields, SMTT(30)
<1>4. /\ Len(nodes) \in Nat /\ trail \in Seq(Seq(Decision)) /\ Len(trail) = Len(nodes)
      /\ \A n \in 1..Len(nodes) : nodes[n] \in Node
      /\ trail' = Append(trail, StatePath(s)) /\ new \in 1..MaxNodes
  BY <1>0, <1>b, AddEffect DEF TreeInv, TypeOK, TrailsShort, Decision
<1>5. new # Null /\ nodes[p].idx \in Idx /\ nodes[p].idx <= i
  BY <1>0, <1>2, <1>4, PtrNat DEF Node
<1>6. PICK d : d = [idx |-> nodes[p].idx, side |-> b]
  BY Zenon
<1>7. d \in Decision /\ d.idx = nodes[p].idx
  BY <1>2, <1>5, <1>6 DEF Decision
<1>8. StatePath(s) = Append(trail[p], d)
  BY <1>a, <1>2, <1>6 DEF StatePath
<1>9. trail[p] \in Seq(Decision) /\ StatePath(s) \in Seq(Decision)
  BY <1>0, <1>2, <1>4, StatePathTyped
<1>10. /\ trail'[new] = Append(trail[p], d)
       /\ \A n \in 1..Len(nodes) : trail'[n] = trail[n]
  BY <1>b, <1>4, <1>8, <1>9, AppendTrail
<1>11. \A n \in 1..Len(nodes) : /\ Linked(n) /\ TrailOrdered(n)
                                /\ \A a \in Side : ChildLinked(n, a)
  BY DEF SearchInv, Links
<1>12. ASSUME NEW n \in 1..Len(nodes) PROVE Linked(n)'
  <2>1. CASE nodes[n].parentBranch = Null
    <3>1. n = root /\ trail[n] = <<>>
      BY <1>11, <2>1, Zenon DEF Linked
    <3> QED BY <1>1, <1>10, <2>1, <3>1, Zenon DEF Linked
  <2>2. CASE nodes[n].parentBranch # Null
    <3>1. PICK q : q = nodes[n].parentBranch
      OBVIOUS
    <3>2. PICK a : a = IF nodes[q].childBranches[0] = n THEN 0 ELSE 1
      OBVIOUS
    <3>3. /\ q \in 1..(n - 1) /\ nodes[q].childBranches[a] = n
          /\ trail[n] = Append(trail[q], [idx |-> nodes[q].idx, side |-> a])
      BY <1>11, <2>2, <3>1, <3>2, Zenon DEF Linked
    <3>4. q \in 1..Len(nodes) /\ a \in Side /\ 0 \in Side /\ n # new /\ n # Null
      BY <1>b, <1>4, <3>2, <3>3, NodesAssumption DEF Side
    <3>5. \A e \in Side : nodes'[q].childBranches[e] = n <=> nodes[q].childBranches[e] = n
      BY <1>1, <1>2, <3>4, Zenon
    <3>6. a = IF nodes'[q].childBranches[0] = n THEN 0 ELSE 1
      BY <3>2, <3>4, <3>5, Zenon
    <3>7. /\ nodes'[n].parentBranch = q /\ nodes'[q].childBranches[a] = n /\ q # Null
          /\ trail'[n] = Append(trail'[q], [idx |-> nodes'[q].idx, side |-> a])
      BY <1>1, <1>10, <2>2, <3>1, <3>3, <3>4, <3>5, Zenon
    <3> QED BY <3>3, <3>6, <3>7, Zenon DEF Linked
  <2> QED BY <2>1, <2>2
<1>13. Linked(new)'
  <2>1. \A a \in Side : a # b => nodes'[p].childBranches[a] # new
    <3> TAKE a \in Side
    <3> HAVE a # b
    <3>1. nodes'[p].childBranches[a] = nodes[p].childBranches[a] /\ ChildLinked(p, a)
      BY <1>1, <1>2, <1>11, SMTT(30)
    <3>2. nodes[p].childBranches[a] # new
      BY <1>b, <1>4, <1>5, <3>1 DEF ChildLinked
    <3> QED BY <3>1, <3>2
  <2>2. b = IF nodes'[p].childBranches[0] = new THEN 0 ELSE 1
    BY <1>1, <1>2, <2>1 DEF Side
  <2>3. p \in 1..(new - 1)
    BY <1>b, <1>2, <1>4
  <2>4. trail'[new] = Append(trail'[p], [idx |-> nodes'[p].idx, side |-> b])
    BY <1>1, <1>2, <1>6, <1>10, Zenon
  <2> QED BY <1>1, <1>2, <1>3, <2>2, <2>3, <2>4, Zenon DEF Linked
<1>14. ASSUME NEW n \in 1..Len(nodes), NEW a \in Side PROVE ChildLinked(n, a)'
  <2>1. CASE n = p /\ a = b
    <3>1. new \in (p + 1)..Len(nodes')
      BY <1>b, <1>1, <1>2, <1>4
    <3>2. trail'[new] = Append(trail'[p], [idx |-> nodes'[p].idx, side |-> b])
      BY <1>1, <1>2, <1>6, <1>10, Zenon
    <3> QED BY <1>1, <1>3, <2>1, <3>1, <3>2, Zenon DEF ChildLinked
  <2>2. CASE ~(n = p /\ a = b)
    <3>1. PICK e : e = nodes[n].childBranches[a]
      OBVIOUS
    <3>2. nodes'[n].childBranches[a] = e
      BY <1>1, <2>2, <3>1, Zenon
    <3>3. CASE e = Null
      BY <3>2, <3>3, Zenon DEF ChildLinked
    <3>4. CASE e # Null
      <4>1. /\ e \in (n + 1)..Len(nodes) /\ nodes[e].parentBranch = n
            /\ trail[e] = Append(trail[n], [idx |-> nodes[n].idx, side |-> a])
        BY <1>11, <3>1, <3>4, Zenon DEF ChildLinked
      <4>2. e \in 1..Len(nodes) /\ e \in (n + 1)..Len(nodes')
        BY <1>b, <1>1, <1>4, <4>1
      <4>3. /\ nodes'[e].parentBranch = n
            /\ trail'[e] = Append(trail'[n], [idx |-> nodes'[n].idx, side |-> a])
        BY <1>1, <1>10, <4>1, <4>2, Zenon
      <4> QED BY <3>2, <4>2, <4>3, Zenon DEF ChildLinked
    <3> QED BY <3>3, <3>4
  <2> QED BY <2>1, <2>2
<1>15. ASSUME NEW a \in Side PROVE ChildLinked(new, a)'
  BY <1>3, Zenon DEF ChildLinked
<1>16. ASSUME NEW n \in 1..Len(nodes) PROVE TrailOrdered(n)'
  <2>1. TrailOrdered(n) /\ trail'[n] = trail[n] /\ nodes'[n].idx = nodes[n].idx
    BY <1>1, <1>10, <1>11
  <2> QED BY <2>1, Zenon DEF TrailOrdered
<1>17. TrailOrdered(new)'
  <2>1. /\ \A k \in DOMAIN trail[p] : trail[p][k].idx <= d.idx
        /\ \A j, k \in DOMAIN trail[p] : j <= k => trail[p][j].idx <= trail[p][k].idx
    BY <1>2, <1>7, <1>11, Zenon DEF TrailOrdered
  <2>2. d.idx <= i
    BY <1>5, <1>7
  <2>3. /\ \A k \in DOMAIN Append(trail[p], d) : Append(trail[p], d)[k].idx <= i
        /\ \A j, k \in DOMAIN Append(trail[p], d) :
             j <= k => Append(trail[p], d)[j].idx <= Append(trail[p], d)[k].idx
    BY <1>7, <1>9, <2>1, <2>2, OrderedAppend, Zenon
  <2> QED BY <1>3, <1>10, <2>3, Zenon DEF TrailOrdered
<1>18. \A n \in 1..Len(nodes') : n \in 1..Len(nodes) \/ n = new
  BY <1>b, <1>1, <1>4
<1> QED BY <1>12, <1>13, <1>14, <1>15, <1>16, <1>17, <1>18, Zenon DEF Links

\* addBranch on an empty tree: the new node is the root.
LEMMA AddRootLinks ==
  ASSUME SearchInv, NEW s \in State, NEW c \in State, NEW i \in Idx,
         AddBranch(s, i, c), root = Null
  PROVE  Links'
<1>0. TreeInv
  BY DEF SearchInv
<1>1. /\ root' = 1 /\ nodes = <<>> /\ Len(nodes) = 0 /\ StatePath(s) = <<>>
      /\ Len(nodes') = 1 /\ nodes'[1] = NewNode(i, s, c, Null)
  BY <1>0, AddRoot
<1>2. /\ nodes'[1].parentBranch = Null
      /\ \A a \in Side : nodes'[1].childBranches[a] = Null
  BY <1>1, NewNodeFields, PtrNat
<1>3. trail' = Append(trail, StatePath(s)) /\ Len(trail) = 0
      /\ trail \in Seq(Seq(Decision))
  <2>1. trail' = Append(trail, StatePath(s))
    BY <1>0, AddEffect
  <2> QED BY <1>0, <1>1, <2>1 DEF TreeInv, TrailsShort, TypeOK, Decision
<1>4. trail'[1] = <<>>
  <2>1. <<>> \in Seq(Decision)
    OBVIOUS
  <2> QED BY <1>1, <1>3, <2>1, AppendTrail
<1>5. DOMAIN trail'[1] = {}
  BY <1>4
<1>6. Linked(1)' /\ \A a \in Side : ChildLinked(1, a)'
  BY <1>1, <1>2, <1>4, Zenon DEF Linked, ChildLinked
<1>7. TrailOrdered(1)'
  BY <1>5, Zenon DEF TrailOrdered
<1>8. 1..Len(nodes') = {1}
  BY <1>1
<1> QED BY <1>6, <1>7, <1>8, Zenon DEF Links

\* removeState clears a slot and no pointer between nodes.
LEMMA RemoveLinks ==
  ASSUME SearchInv, NEW s \in State, RemoveState(s)
  PROVE  Links'
<1>1. TreeInv /\ \A n \in 1..Len(nodes) : /\ Linked(n) /\ TrailOrdered(n)
                                          /\ \A a \in Side : ChildLinked(n, a)
  BY DEF SearchInv, Links
<1>2. /\ root' = root /\ trail' = trail /\ Len(nodes') = Len(nodes)
      /\ \A n \in 1..Len(nodes) : /\ nodes'[n].idx = nodes[n].idx
                                  /\ nodes'[n].parentBranch = nodes[n].parentBranch
      /\ root = Null => nodes' = nodes
  BY <1>1, RemoveEffect
<1>3. \A n \in 1..Len(nodes), a \in Side :
        nodes'[n].childBranches[a] = nodes[n].childBranches[a]
  <2>1. CASE root = Null
    BY <1>2, <2>1
  <2>2. CASE root # Null
    BY <1>1, <2>2, RemoveEffect
  <2> QED BY <2>1, <2>2
<1>4. /\ 0 \in Side /\ 1 \in Side /\ Len(nodes) \in Nat
  BY <1>1 DEF TreeInv, TypeOK, Side
<1>5. ASSUME NEW n \in 1..Len(nodes) PROVE Linked(n)'
  <2>1. CASE nodes[n].parentBranch = Null
    BY <1>1, <1>2, <2>1, Zenon DEF Linked
  <2>2. CASE nodes[n].parentBranch # Null
    <3>1. PICK q : q = nodes[n].parentBranch
      OBVIOUS
    <3>2. PICK a : a = IF nodes[q].childBranches[0] = n THEN 0 ELSE 1
      OBVIOUS
    <3>3. /\ q \in 1..(n - 1) /\ nodes[q].childBranches[a] = n
          /\ trail[n] = Append(trail[q], [idx |-> nodes[q].idx, side |-> a])
      BY <1>1, <2>2, <3>1, <3>2, Zenon DEF Linked
    <3>4. q \in 1..Len(nodes) /\ a \in Side
      BY <1>4, <3>2, <3>3
    <3>5. /\ nodes'[q].childBranches[0] = nodes[q].childBranches[0]
          /\ nodes'[q].childBranches[a] = n /\ q # Null
          /\ nodes'[q].idx = nodes[q].idx /\ nodes'[n].parentBranch = q
      BY <1>2, <1>3, <1>4, <2>2, <3>1, <3>3, <3>4, Zenon
    <3>6. a = IF nodes'[q].childBranches[0] = n THEN 0 ELSE 1
      BY <3>2, <3>5, Zenon
    <3>7. trail'[n] = Append(trail'[q], [idx |-> nodes'[q].idx, side |-> a])
      BY <1>2, <3>3, <3>5, Zenon
    <3> QED BY <3>3, <3>5, <3>6, <3>7, Zenon DEF Linked
  <2> QED BY <2>1, <2>2
<1>6. ASSUME NEW n \in 1..Len(nodes), NEW a \in Side PROVE ChildLinked(n, a)'
  <2>1. PICK e : e = nodes[n].childBranches[a]
    OBVIOUS
  <2>2. CASE e = Null
    BY <1>3, <2>1, <2>2, Zenon DEF ChildLinked
  <2>3. CASE e # Null
    <3>1. e \in (n + 1)..Len(nodes) /\ nodes[e].parentBranch = n
          /\ trail[e] = Append(trail[n], [idx |-> nodes[n].idx, side |-> a])
      BY <1>1, <2>1, <2>3, Zenon DEF ChildLinked
    <3>2. e \in 1..Len(nodes)
      BY <1>4, <3>1
    <3> QED BY <1>2, <1>3, <2>1, <3>1, <3>2, Zenon DEF ChildLinked
  <2> QED BY <2>2, <2>3
<1>7. ASSUME NEW n \in 1..Len(nodes) PROVE TrailOrdered(n)'
  BY <1>1, <1>2, Zenon DEF TrailOrdered
<1> QED BY <1>2, <1>5, <1>6, <1>7, Zenon DEF Links

\* Both operations keep the links.
LEMMA SearchInvHolds ==
  /\ Init => SearchInv
  /\ SearchInv /\ [Next]_vars => SearchInv'
<1>1. Init => SearchInv
  <2> SUFFICES ASSUME Init PROVE SearchInv
    OBVIOUS
  <2>1. nodes = <<>>
    BY DEF Init
  <2>2. 1..Len(nodes) = {}
    BY <2>1
  <2>3. Links
    BY <2>2, Zenon DEF Links
  <2> QED BY <2>3, TreeInvInit DEF SearchInv
<1>2. ASSUME SearchInv, [Next]_vars PROVE SearchInv'
  <2>1. TreeInv'
    BY <1>2, TreeInvNext DEF SearchInv
  <2>2. CASE UNCHANGED vars
    <3>1. Links'
      BY <1>2, <2>2 DEF SearchInv, vars, Links, Linked, ChildLinked, TrailOrdered
    <3> QED BY <2>1, <3>1, SMTT(30) DEF SearchInv
  <2>3. ASSUME NEW s \in State, NEW c \in State, NEW i \in Idx, AddBranch(s, i, c)
        PROVE  Links'
    BY <1>2, <2>3, AddLinks, AddRootLinks, Zenon
  <2>4. ASSUME NEW s \in State, RemoveState(s) PROVE Links'
    BY <1>2, <2>4, RemoveLinks, Zenon
  <2>5. CASE Next
    BY <2>1, <2>2, <2>3, <2>4, <2>5 DEF Next, SearchInv
  <2> QED BY <1>2, <2>2, <2>5
<1> QED BY <1>1, <1>2

-----------------------------------------------------------------------------
(* such function, and only one, is proved first.                           *)

\* A set of numbers has a least one.
LEMMA LeastNumber ==
  ASSUME NEW T, T \subseteq Nat, T # {}
  PROVE  \E x \in T : \A y \in T : x <= y
<1>1. \E x \in T : \A y \in T : ~(<<y, x>> \in OpToRel(<, Nat))
  BY NatLessThanWellFounded, WFMin, Zenon
<1>2. PICK R : R = OpToRel(<, Nat)
  BY Zenon
<1>3. R = {p \in Nat \X Nat : p[1] < p[2]}
  BY <1>2, Zenon DEF OpToRel
<1>4. PICK x \in T : \A y \in T : ~(<<y, x>> \in R)
  BY <1>1, <1>2, Zenon
<1>5. ASSUME NEW y \in T PROVE x <= y
  <2>1. x \in Nat /\ y \in Nat /\ (y < x => <<y, x>> \in R)
    BY <1>3
  <2>2. ~(y < x)
    BY <1>4, <2>1, Zenon
  <2> QED BY <2>1, <2>2
<1> QED BY <1>5, Zenon

\* So a set of numbers that has 0 and, with a number, the next one, has them all.
LEMMA Induction ==
  ASSUME NEW n \in Nat, NEW T, 0 \in T, \A i \in 0..(n - 1) : i \in T => i + 1 \in T
  PROVE  \A i \in 0..n : i \in T
<1> DEFINE U == {i \in 0..n : i \notin T}
<1> SUFFICES ASSUME U # {} PROVE FALSE
  OBVIOUS
<1>1. U \subseteq Nat
  OBVIOUS
<1>2. PICK x \in U : \A y \in U : x <= y
  <2> HIDE DEF U
  <2> QED BY <1>1, LeastNumber, Zenon
<1>3. x \in 0..n /\ x \notin T
  BY <1>2
<1>4. x - 1 \in 0..(n - 1) /\ (x - 1) + 1 = x /\ x - 1 \in 0..n /\ ~(x <= x - 1)
  BY <1>3
<1>5. x - 1 \in T
  BY <1>2, <1>4
<1> QED BY <1>3, <1>4, <1>5


\* The decision made at side b of node n.
At(n, b) == [idx |-> nodes[n].idx, side |-> b]

\* The decisions ds are the first of es.
OnWay(ds, es) == Len(ds) <= Len(es) /\ \A k \in 1..Len(ds) : ds[k] = es[k]

\* One more decision on either side.
LEMMA OnWayAppend ==
  ASSUME NEW ds \in Seq(Decision), NEW es \in Seq(Decision),
         NEW d \in Decision, NEW e \in Decision
  PROVE  /\ OnWay(ds, es) => OnWay(ds, Append(es, e))
         /\ OnWay(ds, Append(es, e)) /\ Len(ds) <= Len(es) => OnWay(ds, es)
         /\ OnWay(Append(ds, d), es) <=>
              OnWay(ds, es) /\ Len(ds) < Len(es) /\ es[Len(ds) + 1] = d
         /\ OnWay(ds, es) /\ Len(ds) = Len(es) => ds = es
<1>1. /\ Len(ds) \in Nat /\ Len(es) \in Nat
      /\ Len(Append(ds, d)) = Len(ds) + 1 /\ Len(Append(es, e)) = Len(es) + 1
      /\ \A k \in 1..Len(ds) : Append(ds, d)[k] = ds[k]
      /\ \A k \in 1..Len(es) : Append(es, e)[k] = es[k]
      /\ Append(ds, d)[Len(ds) + 1] = d
  OBVIOUS
<1>2. PICK dd : dd = Append(ds, d)
  BY Zenon
<1>3. PICK ee : ee = Append(es, e)
  BY Zenon
<1>4. /\ Len(dd) = Len(ds) + 1 /\ Len(ee) = Len(es) + 1
      /\ \A k \in 1..Len(ds) : dd[k] = ds[k]
      /\ \A k \in 1..Len(es) : ee[k] = es[k]
      /\ dd[Len(ds) + 1] = d
  BY <1>1, <1>2, <1>3, Zenon
<1>5. OnWay(ds, es) => OnWay(ds, ee)
  BY <1>1, <1>4 DEF OnWay
<1>6. OnWay(ds, ee) /\ Len(ds) <= Len(es) => OnWay(ds, es)
  BY <1>1, <1>4 DEF OnWay
<1>7. OnWay(dd, es) => OnWay(ds, es) /\ Len(ds) < Len(es) /\ es[Len(ds) + 1] = d
  BY <1>1, <1>4 DEF OnWay
<1>8. OnWay(ds, es) /\ Len(ds) < Len(es) /\ es[Len(ds) + 1] = d => OnWay(dd, es)
  BY <1>1, <1>4 DEF OnWay
<1>9. OnWay(ds, es) /\ Len(ds) = Len(es) => ds = es
  BY <1>1 DEF OnWay
<1> QED BY <1>2, <1>3, <1>5, <1>6, <1>7, <1>8, <1>9, Zenon

\* The types of a node and of its decisions.
LEMMA NodeTyped ==
  ASSUME SearchInv, NEW n \in 1..Len(nodes)
  PROVE  /\ trail[n] \in Seq(Decision) /\ Len(trail[n]) \in Nat
         /\ n # Null /\ n \in Nat /\ Len(nodes) \in Nat /\ DOMAIN nodes = 1..Len(nodes)
         /\ nodes[n].idx \in Idx /\ \A b \in Side : At(n, b) \in Decision
<1>1. /\ nodes \in Seq(Node) /\ trail \in Seq(Seq(Decision)) /\ Len(trail) = Len(nodes)
  BY DEF SearchInv, TreeInv, TypeOK, TrailsShort, Decision
<1>2. /\ nodes[n] \in Node /\ trail[n] \in Seq(Decision) /\ n \in Nat
      /\ Len(nodes) \in Nat /\ DOMAIN nodes = 1..Len(nodes)
  BY <1>1
<1>3. Len(trail[n]) \in Nat
  BY <1>2
<1>4. nodes[n].idx \in Idx
  BY <1>2 DEF Node
<1>5. \A b \in Side : At(n, b) \in Decision
  BY <1>4 DEF At, Decision
<1> QED BY <1>2, <1>3, <1>4, <1>5, NodesAssumption

\* The parent of a node, if it is not the root.
LEMMA NodeParent ==
  ASSUME SearchInv, NEW n \in 1..Len(nodes)
  PROVE  \/ n = root /\ trail[n] = <<>> /\ nodes[n].parentBranch = Null
         \/ \E p \in 1..(n - 1), b \in Side :
              /\ p \in 1..Len(nodes)
              /\ nodes[n].parentBranch = p /\ nodes[p].childBranches[b] = n
              /\ trail[n] = Append(trail[p], At(p, b))
<1>1. Linked(n) /\ Len(nodes) \in Nat
  BY NodeTyped DEF SearchInv, Links
<1>2. CASE nodes[n].parentBranch = Null
  BY <1>1, <1>2, Zenon DEF Linked
<1>3. CASE nodes[n].parentBranch # Null
  <2>1. PICK p : p = nodes[n].parentBranch
    OBVIOUS
  <2>2. PICK b : b = IF nodes[p].childBranches[0] = n THEN 0 ELSE 1
    OBVIOUS
  <2>3. /\ p \in 1..(n - 1) /\ nodes[p].childBranches[b] = n
        /\ trail[n] = Append(trail[p], At(p, b))
    BY <1>1, <1>3, <2>1, <2>2, Zenon DEF Linked, At
  <2>4. p \in 1..Len(nodes) /\ b \in Side
    BY <1>1, <2>2, <2>3 DEF Side
  <2> QED BY <2>1, <2>3, <2>4, Zenon
<1> QED BY <1>2, <1>3

\* The child branch on one side of a node.
LEMMA NodeChild ==
  ASSUME SearchInv, NEW n \in 1..Len(nodes), NEW b \in Side,
         nodes[n].childBranches[b] # Null
  PROVE  \E c \in 1..Len(nodes) : /\ c = nodes[n].childBranches[b] /\ n < c
                                  /\ nodes[c].parentBranch = n
                                  /\ trail[c] = Append(trail[n], At(n, b))
<1>1. ChildLinked(n, b) /\ Len(nodes) \in Nat
  BY NodeTyped DEF SearchInv, Links
<1>2. PICK c : c = nodes[n].childBranches[b]
  OBVIOUS
<1>3. /\ c \in (n + 1)..Len(nodes) /\ nodes[c].parentBranch = n
      /\ trail[c] = Append(trail[n], At(n, b))
  BY <1>1, <1>2, Zenon DEF ChildLinked, At
<1>4. c \in 1..Len(nodes) /\ n < c
  BY <1>1, <1>3
<1> QED BY <1>2, <1>3, <1>4, SMTT(30)

\* Two sequences of decisions that are the same after one more.
LEMMA AppendSame ==
  ASSUME NEW ds \in Seq(Decision), NEW es \in Seq(Decision),
         NEW d \in Decision, NEW e \in Decision, Append(ds, d) = Append(es, e)
  PROVE  /\ Len(ds) = Len(es) /\ d = e /\ \A k \in 1..Len(ds) : ds[k] = es[k]
<1>1. /\ Len(ds) \in Nat /\ Len(es) \in Nat
      /\ Len(Append(ds, d)) = Len(ds) + 1 /\ Len(Append(es, e)) = Len(es) + 1
      /\ \A k \in 1..Len(ds) : Append(ds, d)[k] = ds[k]
      /\ \A k \in 1..Len(es) : Append(es, e)[k] = es[k]
      /\ Append(ds, d)[Len(ds) + 1] = d /\ Append(es, e)[Len(es) + 1] = e
  OBVIOUS
<1>2. Len(ds) = Len(es)
  BY <1>1
<1> QED BY <1>1, <1>2, Zenon

\* The way down from n goes on to m.
Descends(n, m) ==
  n = m \/ \E b \in Side : /\ nodes[n].childBranches[b] # Null
                           /\ OnWay(trail[nodes[n].childBranches[b]], trail[m])

\* One level: if the parent p of m can be reached from every node on its way,
\* so can m.
LEMMA DescendsStep ==
  ASSUME SearchInv, NEW n \in 1..Len(nodes), NEW m \in 1..Len(nodes),
         NEW p \in 1..Len(nodes), NEW b \in Side,
         nodes[p].childBranches[b] = m, trail[m] = Append(trail[p], At(p, b)),
         \A q \in 1..Len(nodes) : OnWay(trail[q], trail[p]) => Descends(q, p),
         OnWay(trail[n], trail[m])
  PROVE  Descends(n, m)
<1>1. /\ trail[n] \in Seq(Decision) /\ trail[p] \in Seq(Decision)
      /\ Len(trail[n]) \in Nat /\ Len(trail[p]) \in Nat /\ At(p, b) \in Decision
      /\ m # Null /\ trail[m] \in Seq(Decision)
  BY NodeTyped, SMTT(30)
<1>2. Len(trail[m]) = Len(trail[p]) + 1 /\ trail[m][Len(trail[p]) + 1] = At(p, b)
  BY <1>1
<1>3. CASE Len(trail[n]) <= Len(trail[p])
  <2>1. OnWay(trail[n], trail[p])
    <3>1. OnWay(trail[n], Append(trail[p], At(p, b)))
      BY Zenon
    <3> QED BY <1>1, <1>3, <3>1, OnWayAppend, Zenon
  <2>2. CASE n = p
    <3>1. OnWay(trail[m], trail[m])
      BY <1>1 DEF OnWay
    <3> QED BY <1>1, <2>2, <3>1, Zenon DEF Descends
  <2>3. CASE n # p
    <3>1. PICK a \in Side : /\ nodes[n].childBranches[a] # Null
                            /\ OnWay(trail[nodes[n].childBranches[a]], trail[p])
      BY <2>1, <2>3, Zenon DEF Descends
    <3>2. PICK c \in 1..Len(nodes) : c = nodes[n].childBranches[a]
      BY <3>1, NodeChild
    <3>3. trail[c] \in Seq(Decision) /\ OnWay(trail[c], trail[p])
      BY <3>1, <3>2, NodeTyped
    <3>4. OnWay(trail[c], trail[m])
      <4>1. OnWay(trail[c], Append(trail[p], At(p, b)))
        BY <1>1, <3>3, OnWayAppend, Zenon
      <4> QED BY <4>1, Zenon
    <3> QED BY <3>1, <3>2, <3>4, Zenon DEF Descends
  <2> QED BY <2>2, <2>3
<1>4. CASE ~(Len(trail[n]) <= Len(trail[p]))
  <2>1. Len(trail[n]) = Len(trail[m])
    BY <1>1, <1>2, <1>4 DEF OnWay
  <2>2. trail[n] = trail[m]
    BY <1>1, <2>1, OnWayAppend, Zenon
  <2>3. trail[n] # <<>>
    BY <1>1, <1>2, <2>1
  <2>4. PICK q \in 1..(n - 1), a \in Side :
          /\ q \in 1..Len(nodes) /\ nodes[q].childBranches[a] = n
          /\ trail[n] = Append(trail[q], At(q, a))
    BY <2>3, NodeParent, Zenon
  <2>5. trail[q] \in Seq(Decision) /\ Len(trail[q]) \in Nat /\ At(q, a) \in Decision
    BY <2>4, NodeTyped, SMTT(30)
  <2>6. Len(trail[q]) = Len(trail[p]) /\ At(q, a) = At(p, b)
        /\ \A k \in 1..Len(trail[q]) : trail[q][k] = trail[p][k]
    <3>1. Append(trail[q], At(q, a)) = Append(trail[p], At(p, b))
      BY <2>2, <2>4
    <3>2. PICK ds \in Seq(Decision) : ds = trail[q]
      BY <2>5, Zenon
    <3>3. PICK es \in Seq(Decision) : es = trail[p]
      BY <1>1, Zenon
    <3>4. PICK d \in Decision : d = At(q, a)
      BY <2>5, Zenon
    <3>5. PICK e \in Decision : e = At(p, b)
      BY <1>1, Zenon
    <3>6. Append(ds, d) = Append(es, e)
      BY <3>1, <3>2, <3>3, <3>4, <3>5, Zenon
    <3>7. Len(ds) = Len(es) /\ d = e /\ \A k \in 1..Len(ds) : ds[k] = es[k]
      BY <3>6, AppendSame, SMTT(30)
    <3> QED BY <3>2, <3>3, <3>4, <3>5, <3>7, Zenon
  <2>7. OnWay(trail[q], trail[p])
    BY <2>5, <2>6 DEF OnWay
  <2>8. q = p
    <3>1. ASSUME q # p PROVE FALSE
      <4>1. PICK e \in Side : /\ nodes[q].childBranches[e] # Null
                              /\ OnWay(trail[nodes[q].childBranches[e]], trail[p])
        BY <2>4, <2>7, <3>1, Zenon DEF Descends
      <4>2. PICK c \in 1..Len(nodes) : /\ c = nodes[q].childBranches[e]
                                       /\ trail[c] = Append(trail[q], At(q, e))
        BY <2>4, <4>1, NodeChild, SMTT(30)
      <4>3. At(q, e) \in Decision
        BY <2>4, NodeTyped
      <4>4. Len(trail[c]) = Len(trail[q]) + 1
        BY <2>5, <4>2, <4>3
      <4>5. Len(trail[c]) <= Len(trail[p])
        BY <4>1, <4>2, Zenon DEF OnWay
      <4> QED BY <1>1, <2>5, <2>6, <4>4, <4>5
    <3> QED BY <3>1
  <2>9. a = b
    BY <2>6 DEF At
  <2> QED BY <2>4, <2>8, <2>9 DEF Descends
<1> QED BY <1>3, <1>4

\* Every node whose decisions are on the way to m has m below it, and the way
\* goes through one of its child branches.
LEMMA WayDown ==
  ASSUME SearchInv, NEW n \in 1..Len(nodes), NEW m \in 1..Len(nodes),
         OnWay(trail[n], trail[m])
  PROVE  Descends(n, m)
<1> DEFINE T == {k \in 0..Len(nodes) : \A l \in 1..k : \A q \in 1..Len(nodes) :
                   OnWay(trail[q], trail[l]) => Descends(q, l)}
<1>1. Len(nodes) \in Nat
  BY NodeTyped
<1>2. 0 \in T
  BY <1>1
<1>3. ASSUME NEW k \in 0..(Len(nodes) - 1), k \in T PROVE k + 1 \in T
  <2>1. k + 1 \in 0..Len(nodes) /\ k + 1 \in 1..Len(nodes)
    BY <1>1
  <2>2. ASSUME NEW q \in 1..Len(nodes), OnWay(trail[q], trail[k + 1])
        PROVE  Descends(q, k + 1)
    <3>1. CASE k + 1 = root /\ trail[k + 1] = <<>>
      <4>1. trail[q] \in Seq(Decision) /\ Len(trail[q]) = 0
        <5>1. trail[q] \in Seq(Decision) /\ Len(trail[q]) \in Nat /\ Len(<<>>) = 0
          BY NodeTyped
        <5> QED BY <2>2, <3>1, <5>1 DEF OnWay
      <4>2. q = root
        <5>1. ASSUME NEW p \in 1..Len(nodes), NEW b \in Side
              PROVE  trail[q] # Append(trail[p], At(p, b))
          <6>1. trail[p] \in Seq(Decision) /\ At(p, b) \in Decision
            BY NodeTyped
          <6>2. Len(Append(trail[p], At(p, b))) # 0
            BY <6>1
          <6> QED BY <4>1, <6>2
        <5> QED BY <5>1, NodeParent, ZenonT(40)
      <4> QED BY <3>1, <4>2 DEF Descends
    <3>2. CASE ~(k + 1 = root /\ trail[k + 1] = <<>>)
      <4>1. PICK p \in 1..((k + 1) - 1), b \in Side :
              /\ p \in 1..Len(nodes) /\ nodes[p].childBranches[b] = k + 1
              /\ trail[k + 1] = Append(trail[p], At(p, b))
        BY <2>1, <3>2, NodeParent, Zenon
      <4>2. p \in 1..k
        BY <1>1, <4>1
      <4>3. \A r \in 1..Len(nodes) : OnWay(trail[r], trail[p]) => Descends(r, p)
        BY <1>3, <4>2
      <4> QED BY <2>1, <2>2, <4>1, <4>3, DescendsStep, Zenon
    <3> QED BY <3>1, <3>2
  <2>3. \A l \in 1..(k + 1) : l \in 1..k \/ l = k + 1
    BY <1>1
  <2>4. \A l \in 1..(k + 1) : \A q \in 1..Len(nodes) :
          OnWay(trail[q], trail[l]) => Descends(q, l)
    BY <1>3, <2>2, <2>3, Zenon
  <2> QED BY <2>1, <2>4, Zenon
<1> HIDE DEF T
<1>4. \A k \in 0..Len(nodes) : k \in T
  BY <1>1, <1>2, <1>3, Induction, Zenon
<1>5. Len(nodes) \in T
  BY <1>1, <1>4
<1> QED BY <1>5 DEF T

\* So two nodes are not reached by the same decisions.
LEMMA SameTrail ==
  ASSUME SearchInv, NEW n \in 1..Len(nodes), NEW m \in 1..Len(nodes),
         trail[n] = trail[m]
  PROVE  n = m
<1>1. trail[n] \in Seq(Decision) /\ Len(trail[n]) \in Nat
  BY NodeTyped
<1>2. OnWay(trail[n], trail[m])
  BY <1>1 DEF OnWay
<1>3. Descends(n, m)
  BY <1>2, WayDown
<1> SUFFICES ASSUME n # m PROVE FALSE
  OBVIOUS
<1>4. PICK b \in Side : /\ nodes[n].childBranches[b] # Null
                        /\ OnWay(trail[nodes[n].childBranches[b]], trail[m])
  BY <1>3, Zenon DEF Descends
<1>5. PICK c \in 1..Len(nodes) : /\ c = nodes[n].childBranches[b]
                                 /\ trail[c] = Append(trail[n], At(n, b))
  BY <1>4, NodeChild, Zenon
<1>6. At(n, b) \in Decision
  BY NodeTyped
<1>7. Len(trail[c]) = Len(trail[n]) + 1
  BY <1>1, <1>5, <1>6
<1>8. Len(trail[c]) <= Len(trail[m])
  BY <1>4, <1>5, Zenon DEF OnWay
<1> QED BY <1>1, <1>7, <1>8

-----------------------------------------------------------------------------
\* A state of the tree is on one side of its node, and its path ends there.
LEMMA StateAt ==
  ASSUME SearchInv, NEW t \in live, root # Null
  PROVE  \E m \in 1..Len(nodes), b \in Side :
           /\ parentBranch[t] = m /\ parentBranch[t] # Null
           /\ nodes[m].childStates[b] = t /\ nodes[m].childStates[1 - b] # t
           /\ StatePath(t) = Append(trail[m], At(m, b))
<1>1. PICK m : m = parentBranch[t]
  OBVIOUS
<1>2. PICK b : b = IF nodes[m].childStates[0] = t THEN 0 ELSE 1
  OBVIOUS
<1>3. TreeInv
  BY DEF SearchInv
<1>4. /\ m \in 1..Len(nodes) /\ m # Null /\ b \in Side
      /\ nodes[m].childStates[b] = t /\ nodes[m].childStates[1 - b] # t
  BY <1>1, <1>2, <1>3, StateInSlot
<1>5. StatePath(t) = Append(trail[m], At(m, b))
  BY <1>1, <1>2, <1>4, Zenon DEF StatePath, At
<1> QED BY <1>1, <1>4, <1>5, Zenon

\* A state in a slot of node n is live, and the node is its own.
LEMMA SlotState ==
  ASSUME SearchInv, NEW n \in 1..Len(nodes), NEW b \in Side,
         nodes[n].childStates[b] # Null
  PROVE  /\ nodes[n].childStates[b] \in live
         /\ parentBranch[nodes[n].childStates[b]] = n
<1>1. n \in DOMAIN nodes
  BY NodeTyped
<1> QED BY <1>1, Zenon DEF SearchInv, TreeInv, SlotsMatchStates, SlotOK

\* There is a root when there is a node.
LEMMA RootFirst ==
  ASSUME SearchInv, NEW n \in 1..Len(nodes)
  PROVE  root # Null
<1>1. nodes # <<>>
  OBVIOUS
<1> QED BY <1>1 DEF SearchInv, TreeInv, BeforeFirst

\* The states below node n: their nodes are reached through it.
Under(n) == {t \in live : /\ parentBranch[t] # Null
                          /\ OnWay(trail[n], trail[parentBranch[t]])}

\* findChildStates at node m, with g for the recursive calls.
BelowNode(g, m) ==
  UNION {({nodes[m].childStates[b]} \ {Null})
           \cup (IF nodes[m].childBranches[b] = Null THEN {}
                 ELSE g[nodes[m].childBranches[b]]) : b \in Side}

IsBelow(g) == g = [m \in DOMAIN nodes |-> BelowNode(g, m)]

\* What is below one side of node n.
LEMMA UnderSide ==
  ASSUME SearchInv, NEW n \in 1..Len(nodes), NEW b \in Side, NEW t
  PROVE  \/ t # Null /\ t = nodes[n].childStates[b]
         \/ /\ nodes[n].childBranches[b] # Null
            /\ t \in Under(nodes[n].childBranches[b])
         <=> t \in live /\ parentBranch[t] # Null /\ OnWay(Append(trail[n], At(n, b)), StatePath(t))
<1> USE RootFirst
<1>1. trail[n] \in Seq(Decision) /\ Len(trail[n]) \in Nat /\ At(n, b) \in Decision
      /\ n # Null
  BY NodeTyped
<1>2. ASSUME t # Null, t = nodes[n].childStates[b]
      PROVE  t \in live /\ parentBranch[t] # Null
             /\ OnWay(Append(trail[n], At(n, b)), StatePath(t))
  <2>1. t \in live /\ parentBranch[t] = n
    BY <1>2, SlotState
  <2>2. PICK m \in 1..Len(nodes), a \in Side :
           /\ parentBranch[t] = m /\ nodes[m].childStates[a] = t
           /\ nodes[m].childStates[1 - a] # t
           /\ StatePath(t) = Append(trail[m], At(m, a))
    BY <2>1, StateAt
  <2>3. m = n /\ a = b
    <3>1. m = n
      BY <2>1, <2>2
    <3>2. b # 1 - a
      BY <1>2, <2>2, <3>1
    <3> QED BY <3>1, <3>2 DEF Side
  <2>4. Append(trail[n], At(n, b)) \in Seq(Decision)
    BY <1>1
  <2>5. PICK es \in Seq(Decision) : es = Append(trail[n], At(n, b))
    BY <2>4, Zenon
  <2>6. OnWay(es, es)
    BY DEF OnWay
  <2>7. StatePath(t) = es
    BY <2>2, <2>3, <2>5, Zenon
  <2> QED BY <1>1, <2>1, <2>5, <2>6, <2>7, Zenon
<1>3. ASSUME nodes[n].childBranches[b] # Null, t \in Under(nodes[n].childBranches[b])
      PROVE  t \in live /\ parentBranch[t] # Null
             /\ OnWay(Append(trail[n], At(n, b)), StatePath(t))
  <2>1. PICK c \in 1..Len(nodes) : /\ c = nodes[n].childBranches[b]
                                   /\ trail[c] = Append(trail[n], At(n, b))
    BY <1>3, NodeChild
  <2>2. t \in live /\ parentBranch[t] # Null /\ OnWay(trail[c], trail[parentBranch[t]])
    BY <1>3, <2>1, Zenon DEF Under
  <2>3. PICK m \in 1..Len(nodes), a \in Side :
           parentBranch[t] = m /\ StatePath(t) = Append(trail[m], At(m, a))
    BY <2>2, StateAt
  <2>4. trail[m] \in Seq(Decision) /\ At(m, a) \in Decision /\ trail[c] \in Seq(Decision)
    BY NodeTyped
  <2>5. OnWay(trail[c], trail[m])
    BY <2>2, <2>3, Zenon
  <2>6. OnWay(trail[c], Append(trail[m], At(m, a)))
    BY <2>4, <2>5, OnWayAppend, Zenon
  <2> QED BY <2>1, <2>2, <2>3, <2>6, Zenon
<1>4. ASSUME t \in live, parentBranch[t] # Null,
             OnWay(Append(trail[n], At(n, b)), StatePath(t)),
             ~(nodes[n].childBranches[b] # Null /\ t \in Under(nodes[n].childBranches[b]))
      PROVE  t # Null /\ t = nodes[n].childStates[b]
  <2>1. PICK m \in 1..Len(nodes), a \in Side :
           /\ parentBranch[t] = m /\ nodes[m].childStates[a] = t
           /\ StatePath(t) = Append(trail[m], At(m, a))
    BY <1>4, StateAt
  <2>2. trail[m] \in Seq(Decision) /\ Len(trail[m]) \in Nat /\ At(m, a) \in Decision
    BY NodeTyped
  <2>3. PICK e \in Decision : e = At(m, a)
    BY <2>2, Zenon
  <2>4. PICK d \in Decision : d = At(n, b)
    BY <1>1, Zenon
  <2>5. PICK ds \in Seq(Decision) : ds = trail[n]
    BY <1>1, Zenon
  <2>6. PICK es \in Seq(Decision) : es = trail[m]
    BY <2>2, Zenon
  <2>7. OnWay(Append(ds, d), Append(es, e))
    BY <1>4, <2>1, <2>3, <2>4, <2>5, <2>6, Zenon
  <2>8. /\ Append(es, e) \in Seq(Decision) /\ Len(Append(es, e)) = Len(es) + 1
        /\ Append(es, e)[Len(es) + 1] = e /\ Len(es) \in Nat /\ Len(ds) \in Nat
        /\ \A k \in 1..Len(es) : Append(es, e)[k] = es[k]
    OBVIOUS
  <2>9. OnWay(ds, Append(es, e)) /\ Len(ds) < Len(es) + 1 /\ Append(es, e)[Len(ds) + 1] = d
    <3>1. PICK fs \in Seq(Decision) : fs = Append(es, e)
      BY <2>8, Zenon
    <3>2. OnWay(Append(ds, d), fs)
      BY <2>7, <3>1, Zenon
    <3>3. OnWay(ds, fs) /\ Len(ds) < Len(fs) /\ fs[Len(ds) + 1] = d
      BY <3>2, OnWayAppend, Zenon
    <3> QED BY <2>8, <3>1, <3>3, Zenon
  <2>10. OnWay(ds, es) /\ Len(ds) <= Len(es)
    <3>1. Len(ds) <= Len(es)
      BY <2>8, <2>9
    <3> QED BY <2>9, <3>1, OnWayAppend, Zenon
  <2>11. Descends(n, m)
    BY <2>5, <2>6, <2>10, WayDown, Zenon
  <2>12. CASE n = m
    <3>1. e = d
      BY <2>5, <2>6, <2>8, <2>9, <2>12, Zenon
    <3>2. a = b
      BY <2>3, <2>4, <3>1 DEF At
    <3>3. t # Null
      BY <1>4, StatesAssumption DEF SearchInv, TreeInv, TypeOK
    <3> QED BY <2>1, <2>12, <3>2, <3>3
  <2>13. CASE n # m
    <3>1. PICK f \in Side : /\ nodes[n].childBranches[f] # Null
                            /\ OnWay(trail[nodes[n].childBranches[f]], trail[m])
      BY <2>11, <2>13, Zenon DEF Descends
    <3>2. PICK c \in 1..Len(nodes) : /\ c = nodes[n].childBranches[f]
                                     /\ trail[c] = Append(trail[n], At(n, f))
      BY <3>1, NodeChild
    <3>3. At(n, f) \in Decision
      BY NodeTyped
    <3>4. PICK g \in Decision : g = At(n, f)
      BY <3>3, Zenon
    <3>5. OnWay(Append(ds, g), es)
      BY <2>5, <2>6, <3>1, <3>2, <3>4, Zenon
    <3>6. Len(ds) < Len(es) /\ es[Len(ds) + 1] = g
      BY <3>5, OnWayAppend, Zenon
    <3>7. g = d
      BY <2>8, <2>9, <3>6
    <3>8. f = b
      BY <2>4, <3>4, <3>7, SMTT(30) DEF At
    <3>9. t \in Under(nodes[n].childBranches[b])
      BY <1>4, <2>1, <3>1, <3>8 DEF Under
    <3> QED BY <1>4, <3>1, <3>8, <3>9
  <2> QED BY <2>12, <2>13
<1> QED BY <1>2, <1>3, <1>4, Zenon

\* What is below node n is below one of its sides.
LEMMA UnderNode ==
  ASSUME SearchInv, NEW n \in 1..Len(nodes), NEW t
  PROVE  t \in Under(n) <=>
           \E b \in Side : \/ t # Null /\ t = nodes[n].childStates[b]
                           \/ /\ nodes[n].childBranches[b] # Null
                              /\ t \in Under(nodes[n].childBranches[b])
<1> USE RootFirst
<1>1. trail[n] \in Seq(Decision) /\ Len(trail[n]) \in Nat /\ n # Null
  BY NodeTyped
<1>2. ASSUME t \in Under(n)
      PROVE  \E b \in Side : \/ t # Null /\ t = nodes[n].childStates[b]
                             \/ /\ nodes[n].childBranches[b] # Null
                                /\ t \in Under(nodes[n].childBranches[b])
  <2>1. t \in live /\ parentBranch[t] # Null /\ OnWay(trail[n], trail[parentBranch[t]])
    BY <1>2 DEF Under
  <2>2. PICK m \in 1..Len(nodes), a \in Side :
          parentBranch[t] = m /\ nodes[m].childStates[a] = t
    BY <2>1, StateAt
  <2>3. Descends(n, m)
    BY <2>1, <2>2, WayDown
  <2>4. t # Null
    BY <2>1, StatesAssumption DEF SearchInv, TreeInv, TypeOK
  <2>5. CASE n = m
    BY <2>2, <2>4, <2>5
  <2>6. CASE n # m
    <3>1. PICK f \in Side : /\ nodes[n].childBranches[f] # Null
                            /\ OnWay(trail[nodes[n].childBranches[f]], trail[m])
      BY <2>3, <2>6, Zenon DEF Descends
    <3>2. t \in Under(nodes[n].childBranches[f])
      BY <2>1, <2>2, <3>1 DEF Under
    <3> QED BY <3>1, <3>2
  <2> QED BY <2>5, <2>6
<1>3. ASSUME NEW b \in Side, \/ t # Null /\ t = nodes[n].childStates[b]
                             \/ /\ nodes[n].childBranches[b] # Null
                                /\ t \in Under(nodes[n].childBranches[b])
      PROVE  t \in Under(n)
  <2>1. t \in live /\ parentBranch[t] # Null /\ OnWay(Append(trail[n], At(n, b)), StatePath(t))
    BY <1>3, UnderSide
  <2>2. PICK m \in 1..Len(nodes), a \in Side :
          parentBranch[t] = m /\ StatePath(t) = Append(trail[m], At(m, a))
    BY <2>1, StateAt
  <2>3. /\ trail[m] \in Seq(Decision) /\ At(m, a) \in Decision /\ At(n, b) \in Decision
    BY NodeTyped
  <2>4. PICK es \in Seq(Decision) : es = trail[m]
    BY <2>3, Zenon
  <2>5. PICK e \in Decision : e = At(m, a)
    BY <2>3, Zenon
  <2>6. Append(es, e) \in Seq(Decision) /\ Len(Append(es, e)) = Len(es) + 1
        /\ Len(es) \in Nat
    OBVIOUS
  <2>7. PICK fs \in Seq(Decision) : fs = Append(es, e)
    BY <2>6, Zenon
  <2>8. OnWay(Append(trail[n], At(n, b)), fs)
    BY <2>1, <2>2, <2>4, <2>5, <2>7, Zenon
  <2>9. OnWay(trail[n], fs) /\ Len(trail[n]) < Len(fs)
    BY <1>1, <2>3, <2>8, OnWayAppend, Zenon
  <2>10. Len(trail[n]) <= Len(es)
    BY <1>1, <2>6, <2>7, <2>9
  <2>11. OnWay(trail[n], Append(es, e))
    BY <2>7, <2>9, Zenon
  <2>12. OnWay(trail[n], es)
    BY <1>1, <2>10, <2>11, OnWayAppend, Zenon
  <2> QED BY <2>1, <2>2, <2>4, <2>12 DEF Under
<1> QED BY <1>2, <1>3, Zenon

\* findChildStates at node m collects the slots and what the calls return.
LEMMA BelowNodeHas ==
  ASSUME NEW g, NEW m, NEW t
  PROVE  t \in BelowNode(g, m) <=>
           \E b \in Side : \/ t # Null /\ t = nodes[m].childStates[b]
                           \/ /\ nodes[m].childBranches[b] # Null
                              /\ t \in g[nodes[m].childBranches[b]]
<1>1. ASSUME NEW b \in Side
      PROVE  t \in (({nodes[m].childStates[b]} \ {Null})
                     \cup (IF nodes[m].childBranches[b] = Null THEN {}
                           ELSE g[nodes[m].childBranches[b]]))
             <=> \/ t # Null /\ t = nodes[m].childStates[b]
                 \/ /\ nodes[m].childBranches[b] # Null
                    /\ t \in g[nodes[m].childBranches[b]]
  <2>1. CASE nodes[m].childBranches[b] = Null
    BY <2>1
  <2>2. CASE nodes[m].childBranches[b] # Null
    BY <2>2
  <2> QED BY <2>1, <2>2
<1> QED BY <1>1, Zenon DEF BelowNode

\* So the sets of states below the nodes are a solution of the recursion ...
LEMMA BelowExists ==
  ASSUME SearchInv
  PROVE  IsBelow([m \in DOMAIN nodes |-> Under(m)])
<1> DEFINE g == [m \in DOMAIN nodes |-> Under(m)]
<1>1. ASSUME NEW m \in DOMAIN nodes PROVE BelowNode(g, m) = Under(m)
  <2>1. m \in 1..Len(nodes) /\ DOMAIN nodes = 1..Len(nodes)
    BY DEF SearchInv, TreeInv, TypeOK
  <2>2. ASSUME NEW b \in Side, nodes[m].childBranches[b] # Null
        PROVE  g[nodes[m].childBranches[b]] = Under(nodes[m].childBranches[b])
    <3>1. nodes[m].childBranches[b] \in DOMAIN nodes
      BY <2>1, <2>2, NodeChild
    <3> QED BY <3>1, Zenon
  <2> HIDE DEF g
  <2>3. ASSUME NEW t PROVE t \in BelowNode(g, m) <=> t \in Under(m)
    <3>1. t \in BelowNode(g, m) <=>
           \E b \in Side : \/ t # Null /\ t = nodes[m].childStates[b]
                           \/ /\ nodes[m].childBranches[b] # Null
                              /\ t \in g[nodes[m].childBranches[b]]
      BY BelowNodeHas
    <3>2. t \in Under(m) <=>
           \E b \in Side : \/ t # Null /\ t = nodes[m].childStates[b]
                           \/ /\ nodes[m].childBranches[b] # Null
                              /\ t \in Under(nodes[m].childBranches[b])
      BY <2>1, UnderNode
    <3> QED BY <2>2, <3>1, <3>2, Zenon
  <2> QED BY <2>3
<1>2. [m \in DOMAIN nodes |-> BelowNode(g, m)] = [m \in DOMAIN nodes |-> Under(m)]
  BY <1>1, Zenon
<1> QED BY <1>2, Zenon DEF IsBelow

\* ... and the only one, since a child branch is a later node.
LEMMA BelowAgree ==
  ASSUME SearchInv, NEW g, IsBelow(g), NEW h, IsBelow(h), NEW n \in 1..Len(nodes)
  PROVE  g[n] = h[n]
<1> DEFINE T == {k \in 0..Len(nodes) :
                   \A m \in 1..Len(nodes) : m > Len(nodes) - k => g[m] = h[m]}
<1>1. Len(nodes) \in Nat /\ DOMAIN nodes = 1..Len(nodes)
  BY NodeTyped
<1>2. 0 \in T
  BY <1>1
<1>3. ASSUME NEW k \in 0..(Len(nodes) - 1), k \in T PROVE k + 1 \in T
  <2>1. k + 1 \in 0..Len(nodes)
    BY <1>1
  <2>2. ASSUME NEW m \in 1..Len(nodes), m > Len(nodes) - (k + 1) PROVE g[m] = h[m]
    <3>1. ASSUME NEW b \in Side, nodes[m].childBranches[b] # Null
          PROVE  g[nodes[m].childBranches[b]] = h[nodes[m].childBranches[b]]
      <4>1. PICK c \in 1..Len(nodes) : c = nodes[m].childBranches[b] /\ m < c
        BY <3>1, NodeChild
      <4>2. c > Len(nodes) - k
        BY <1>1, <2>2, <4>1
      <4> QED BY <1>3, <4>1, <4>2
    <3>2. \A t : t \in BelowNode(g, m) <=> t \in BelowNode(h, m)
      <4> TAKE t
      <4>1. t \in BelowNode(g, m) <=>
             \E b \in Side : \/ t # Null /\ t = nodes[m].childStates[b]
                             \/ /\ nodes[m].childBranches[b] # Null
                                /\ t \in g[nodes[m].childBranches[b]]
        BY BelowNodeHas
      <4>2. t \in BelowNode(h, m) <=>
             \E b \in Side : \/ t # Null /\ t = nodes[m].childStates[b]
                             \/ /\ nodes[m].childBranches[b] # Null
                                /\ t \in h[nodes[m].childBranches[b]]
        BY BelowNodeHas
      <4> QED BY <3>1, <4>1, <4>2, Zenon
    <3>3. BelowNode(g, m) = BelowNode(h, m)
      BY <3>2
    <3>4. g[m] = BelowNode(g, m) /\ h[m] = BelowNode(h, m)
      <4>1. g = [l \in DOMAIN nodes |-> BelowNode(g, l)]
        BY DEF IsBelow
      <4>2. h = [l \in DOMAIN nodes |-> BelowNode(h, l)]
        BY DEF IsBelow
      <4>3. m \in DOMAIN nodes
        BY <1>1
      <4>4. [l \in DOMAIN nodes |-> BelowNode(g, l)][m] = BelowNode(g, m)
        BY <4>3, Zenon
      <4>5. [l \in DOMAIN nodes |-> BelowNode(h, l)][m] = BelowNode(h, m)
        BY <4>3, Zenon
      <4> QED BY <4>1, <4>2, <4>4, <4>5, Zenon
    <3> QED BY <3>3, <3>4
  <2> QED BY <2>1, <2>2
<1> HIDE DEF T
<1>4. \A k \in 0..Len(nodes) : k \in T
  BY <1>1, <1>2, <1>3, Induction, Zenon
<1>5. Len(nodes) \in T /\ n > Len(nodes) - Len(nodes)
  BY <1>1, <1>4
<1> QED BY <1>5 DEF T

\* findChildStates finds the states below a node.
LEMMA FindChildStatesIs ==
  ASSUME SearchInv, NEW n \in 1..Len(nodes)
  PROVE  FindChildStates(n) = Under(n)
<1> DEFINE below == CHOOSE g : g = [m \in DOMAIN nodes |->
        UNION {({nodes[m].childStates[b]} \ {Null})
                 \cup (IF nodes[m].childBranches[b] = Null THEN {}
                       ELSE g[nodes[m].childBranches[b]]) : b \in Side}]
<1>1. FindChildStates(n) = below[n]
  BY DEF FindChildStates
<1>2. below = CHOOSE g : IsBelow(g)
  BY DEF IsBelow, BelowNode
<1>3. IsBelow(below)
  BY <1>2, BelowExists, Zenon
<1> HIDE DEF below
<1>4. below[n] = [m \in DOMAIN nodes |-> Under(m)][n]
  BY <1>3, BelowExists, BelowAgree, Zenon
<1>5. n \in DOMAIN nodes
  BY NodeTyped
<1> QED BY <1>1, <1>4, <1>5, Zenon

\* The states below one side of a node are those whose paths take that side.
LEMMA BelowIs ==
  ASSUME SearchInv, NEW n \in 1..Len(nodes), NEW b \in Side, NEW t
  PROVE  t \in Below(n, b) <=>
           /\ t \in live /\ parentBranch[t] # Null
           /\ OnWay(Append(trail[n], At(n, b)), StatePath(t))
<1>1. CASE nodes[n].childBranches[b] = Null
  <2>1. t \in Below(n, b) <=> t # Null /\ t = nodes[n].childStates[b]
    BY <1>1 DEF Below
  <2> QED BY <1>1, <2>1, UnderSide
<1>2. CASE nodes[n].childBranches[b] # Null
  <2>1. FindChildStates(nodes[n].childBranches[b]) = Under(nodes[n].childBranches[b])
    BY <1>2, NodeChild, FindChildStatesIs, ZenonT(40)
  <2>2. t \in Below(n, b) <=> \/ t # Null /\ t = nodes[n].childStates[b]
                              \/ t \in Under(nodes[n].childBranches[b])
    BY <1>2, <2>1 DEF Below
  <2> QED BY <1>2, <2>2, UnderSide
<1> QED BY <1>1, <1>2

-----------------------------------------------------------------------------
\* The decisions d and e are the two sides of one branch, and ss takes side d of
\* it: another path parts from ss there exactly if it takes side e.
LEMMA PartsAt ==
  ASSUME NEW ds \in Seq(Decision), NEW ss \in Seq(Decision), NEW ts \in Seq(Decision),
         NEW d \in Decision, NEW e \in Decision, d.idx = e.idx, d.side = 1 - e.side,
         OnWay(Append(ds, d), ss)
  PROVE  Paths!PartAt(ss, ts, Len(ds) + 1) <=> OnWay(Append(ds, e), ts)
<1>1. OnWay(ds, ss) /\ Len(ds) < Len(ss) /\ ss[Len(ds) + 1] = d
  BY OnWayAppend, Zenon
<1>2. OnWay(Append(ds, e), ts) <=>
        OnWay(ds, ts) /\ Len(ds) < Len(ts) /\ ts[Len(ds) + 1] = e
  BY OnWayAppend, Zenon
<1>3. /\ Len(ds) \in Nat /\ Len(ss) \in Nat /\ Len(ts) \in Nat
      /\ DOMAIN ss = 1..Len(ss) /\ DOMAIN ts = 1..Len(ts)
      /\ \A k \in 1..Len(ts) : ts[k] \in Decision
  OBVIOUS
<1>4. ASSUME Paths!PartAt(ss, ts, Len(ds) + 1)
      PROVE  OnWay(ds, ts) /\ Len(ds) < Len(ts) /\ ts[Len(ds) + 1] = e
  <2>1. /\ Len(ds) + 1 \in 1..Len(ts)
        /\ \A j \in 1..((Len(ds) + 1) - 1) : ss[j] = ts[j]
        /\ ss[Len(ds) + 1].idx = ts[Len(ds) + 1].idx
        /\ ss[Len(ds) + 1].side # ts[Len(ds) + 1].side
    BY <1>3, <1>4 DEF Paths!PartAt
  <2>2. \A j \in 1..Len(ds) : ss[j] = ts[j]
    BY <1>3, <2>1
  <2>3. PICK f \in Decision : f = ts[Len(ds) + 1]
    BY <1>3, <2>1
  <2>4. f.idx = e.idx /\ f.side # 1 - e.side
    BY <1>1, <2>1, <2>3
  <2>5. f = e
    BY <2>4 DEF Decision, Side
  <2> QED BY <1>1, <1>3, <2>1, <2>2, <2>3, <2>5 DEF OnWay
<1>5. ASSUME OnWay(ds, ts), Len(ds) < Len(ts), ts[Len(ds) + 1] = e
      PROVE  Paths!PartAt(ss, ts, Len(ds) + 1)
  <2>1. Len(ds) + 1 \in DOMAIN ss /\ Len(ds) + 1 \in DOMAIN ts
    BY <1>1, <1>3, <1>5, SMTT(30)
  <2>2. \A j \in 1..((Len(ds) + 1) - 1) : ss[j] = ts[j]
    BY <1>1, <1>3, <1>5 DEF OnWay
  <2>3. d.side # e.side
    BY DEF Decision, Side
  <2> QED BY <1>1, <1>5, <2>1, <2>2, <2>3 DEF Paths!PartAt
<1> QED BY <1>2, <1>4, <1>5

\* The branches of s with index i below level l, and the states that part there.
PrunedFrom(s, i, l) ==
  {t \in live : \E j \in DOMAIN StatePath(s) :
     /\ j > l /\ StatePath(s)[j].idx = i
     /\ Paths!PartAt(StatePath(s), StatePath(t), j)}

\* The path of s takes side b of node n; the loop came there from prev, or it
\* starts there.
CameFrom(n, b, prev, s) ==
  /\ OnWay(Append(trail[n], At(n, b)), StatePath(s))
  /\ IF prev = Null THEN nodes[n].childStates[b] = s /\ nodes[n].childStates[1 - b] # s
     ELSE Len(trail[n]) + 1 < Len(StatePath(s)) /\ nodes[n].childBranches[b] = prev

\* The loop finds the side it came from.
LEMMA OtherSideIs ==
  ASSUME SearchInv, NEW s \in live, NEW n \in 1..Len(nodes), NEW b \in Side, NEW prev,
         CameFrom(n, b, prev, s)
  PROVE  OtherSide(n, prev, s) = Below(n, 1 - b)
<1> DEFINE B == {a \in Side : \/ nodes[n].childStates[a] = s
                              \/ prev # Null /\ nodes[n].childBranches[a] = prev}
<1> SUFFICES B = {b}
  <2>1. OtherSide(n, prev, s) = UNION {Below(n, 1 - a) : a \in B}
    BY DEF OtherSide
  <2> HIDE DEF B
  <2>2. ASSUME B = {b} PROVE {Below(n, 1 - a) : a \in B} = {Below(n, 1 - b)}
    BY <2>2, Zenon
  <2>3. UNION {Below(n, 1 - b)} = Below(n, 1 - b)
    BY Zenon
  <2> QED BY <2>1, <2>2, <2>3
<1>1. root # Null /\ s # Null
  BY RootFirst, StatesAssumption DEF SearchInv, TreeInv, TypeOK
<1>2. CASE prev = Null
  <2>1. nodes[n].childStates[b] = s /\ nodes[n].childStates[1 - b] # s
    BY <1>2, Zenon DEF CameFrom
  <2> QED BY <1>2, <2>1 DEF Side
<1>3. CASE prev # Null
  <2>1. Len(trail[n]) + 1 < Len(StatePath(s)) /\ nodes[n].childBranches[b] = prev
    BY <1>3, Zenon DEF CameFrom
  <2>2. trail[n] \in Seq(Decision) /\ Len(trail[n]) \in Nat
        /\ \A a \in Side : At(n, a) \in Decision
    BY NodeTyped
  <2>3. ASSUME NEW a \in Side PROVE nodes[n].childStates[a] # s
    <3> SUFFICES ASSUME nodes[n].childStates[a] = s PROVE FALSE
      OBVIOUS
    <3>1. parentBranch[s] = n
      BY <1>1, SlotState
    <3>2. PICK m \in 1..Len(nodes), f \in Side :
             parentBranch[s] = m /\ StatePath(s) = Append(trail[m], At(m, f))
      BY <1>1, StateAt
    <3>3. StatePath(s) = Append(trail[n], At(n, f))
      BY <3>1, <3>2
    <3>4. Len(Append(trail[n], At(n, f))) = Len(trail[n]) + 1
      BY <2>2
    <3> QED BY <2>1, <2>2, <3>3, <3>4
  <2>4. ASSUME NEW a \in Side, nodes[n].childBranches[a] = prev PROVE a = b
    <3>1. PICK c \in 1..Len(nodes) : /\ c = nodes[n].childBranches[b]
                                     /\ trail[c] = Append(trail[n], At(n, b))
      BY <1>3, <2>1, NodeChild
    <3>2. PICK f \in 1..Len(nodes) : /\ f = nodes[n].childBranches[a]
                                     /\ trail[f] = Append(trail[n], At(n, a))
      BY <1>3, <2>4, NodeChild
    <3>3. Append(trail[n], At(n, a)) = Append(trail[n], At(n, b))
      BY <2>1, <2>4, <3>1, <3>2
    <3>4. PICK d \in Decision : d = At(n, a)
      BY <2>2
    <3>5. PICK e \in Decision : e = At(n, b)
      BY <2>2
    <3>6. Append(trail[n], d) = Append(trail[n], e)
      BY <3>3, <3>4, <3>5, Zenon
    <3>7. d = e
      BY <2>2, <3>6, AppendSame
    <3> QED BY <3>4, <3>5, <3>7 DEF At
  <2> QED BY <1>3, <2>1, <2>3, <2>4
<1> QED BY <1>2, <1>3

\* The states that part from s at node n are on the other side of it.
LEMMA PartHere ==
  ASSUME SearchInv, NEW s \in live, NEW t \in live, NEW n \in 1..Len(nodes), NEW b \in Side,
         OnWay(Append(trail[n], At(n, b)), StatePath(s))
  PROVE  Paths!PartAt(StatePath(s), StatePath(t), Len(trail[n]) + 1) <=> t \in Below(n, 1 - b)
<1>1. TreeInv /\ root # Null
  BY RootFirst DEF SearchInv
<1>2. StatePath(s) \in Seq(Decision) /\ StatePath(t) \in Seq(Decision)
  BY <1>1, StatePathTyped
<1>3. parentBranch[t] # Null
  BY <1>1, StateAt
<1>4. 1 - b \in Side /\ trail[n] \in Seq(Decision)
      /\ At(n, b) \in Decision /\ At(n, 1 - b) \in Decision
  BY NodeTyped, PtrNat
<1>5. PICK d \in Decision : d = At(n, b)
  BY <1>4
<1>6. PICK e \in Decision : e = At(n, 1 - b)
  BY <1>4
<1>7. d.idx = e.idx /\ d.side = 1 - e.side
  BY <1>5, <1>6 DEF At, Side
<1>8. OnWay(Append(trail[n], d), StatePath(s))
  BY <1>5, Zenon
<1>9. Paths!PartAt(StatePath(s), StatePath(t), Len(trail[n]) + 1)
        <=> OnWay(Append(trail[n], e), StatePath(t))
  BY <1>2, <1>4, <1>7, <1>8, PartsAt, Zenon
<1>10. t \in Below(n, 1 - b) <=> OnWay(Append(trail[n], At(n, 1 - b)), StatePath(t))
  BY <1>3, <1>4, BelowIs
<1> QED BY <1>6, <1>9, <1>10, Zenon

\* One level up: the branches of s from level n + 1 on are those from the next
\* level on and, if its index is i, the one of node n.
LEMMA PrunedStep ==
  ASSUME SearchInv, NEW s \in live, NEW i \in Idx, NEW n \in 1..Len(nodes), NEW b \in Side,
         OnWay(Append(trail[n], At(n, b)), StatePath(s))
  PROVE  /\ StatePath(s) \in Seq(Decision) /\ Len(StatePath(s)) \in Nat
         /\ Len(trail[n]) + 1 <= Len(StatePath(s))
         /\ StatePath(s)[Len(trail[n]) + 1].idx = nodes[n].idx
         /\ \A k \in 1..Len(trail[n]) : StatePath(s)[k] = trail[n][k]
         /\ nodes[n].idx = i => PrunedFrom(s, i, Len(trail[n])) =
              PrunedFrom(s, i, Len(trail[n]) + 1) \cup Below(n, 1 - b)
         /\ nodes[n].idx # i => PrunedFrom(s, i, Len(trail[n])) =
              PrunedFrom(s, i, Len(trail[n]) + 1)
<1>1. TreeInv
  BY DEF SearchInv
<1>2. PICK ss \in Seq(Decision) : ss = StatePath(s)
  BY <1>1, StatePathTyped
<1>3. trail[n] \in Seq(Decision) /\ At(n, b) \in Decision /\ Len(trail[n]) \in Nat
      /\ 1 - b \in Side
  BY NodeTyped, PtrNat
<1>4. PICK l \in Nat : l = Len(trail[n])
  BY <1>3
<1>5. OnWay(trail[n], ss) /\ l < Len(ss) /\ ss[l + 1] = At(n, b)
  <2>1. OnWay(Append(trail[n], At(n, b)), ss)
    BY <1>2, Zenon
  <2> QED BY <1>3, <1>4, <2>1, OnWayAppend, Zenon
<1>6. ss[l + 1].idx = nodes[n].idx
  BY <1>5 DEF At
<1>7. Len(ss) \in Nat /\ DOMAIN ss = 1..Len(ss) /\ l + 1 <= Len(ss)
      /\ \A k \in 1..l : ss[k] = trail[n][k]
  BY <1>4, <1>5 DEF OnWay
<1>8. ASSUME NEW t \in live
      PROVE  Paths!PartAt(ss, StatePath(t), l + 1) <=> t \in Below(n, 1 - b)
  BY <1>2, <1>4, PartHere, Zenon
<1>9. \A t : t \in Below(n, 1 - b) => t \in live
  BY <1>3, BelowIs, Zenon
<1>10. \A j \in DOMAIN ss : /\ j > l <=> (j > l + 1 \/ j = l + 1)
                            /\ l + 1 \in DOMAIN ss
  BY <1>7
<1>11. ASSUME NEW k
       PROVE  PrunedFrom(s, i, k) = {t \in live : \E j \in DOMAIN ss :
                /\ j > k /\ ss[j].idx = i /\ Paths!PartAt(ss, StatePath(t), j)}
  BY <1>2, Zenon DEF PrunedFrom
<1>12. ASSUME NEW t \in live
       PROVE  t \in PrunedFrom(s, i, l) <=>
                \/ t \in PrunedFrom(s, i, l + 1)
                \/ nodes[n].idx = i /\ t \in Below(n, 1 - b)
  <2>1. ASSUME NEW k
        PROVE  t \in PrunedFrom(s, i, k) <=> \E j \in DOMAIN ss :
                /\ j > k /\ ss[j].idx = i /\ Paths!PartAt(ss, StatePath(t), j)
    BY <1>11
  <2>2. t \in PrunedFrom(s, i, l) <=> \E j \in DOMAIN ss :
                /\ j > l /\ ss[j].idx = i /\ Paths!PartAt(ss, StatePath(t), j)
    BY <2>1
  <2>3. t \in PrunedFrom(s, i, l + 1) <=> \E j \in DOMAIN ss :
                /\ j > l + 1 /\ ss[j].idx = i /\ Paths!PartAt(ss, StatePath(t), j)
    BY <2>1
  <2>4. l + 1 \in DOMAIN ss
    BY <1>7
  <2> QED BY <1>6, <1>8, <1>10, <2>2, <2>3, <2>4, Zenon
<1>13. ASSUME NEW k PROVE PrunedFrom(s, i, k) \subseteq live
  BY DEF PrunedFrom
<1>14. nodes[n].idx = i => PrunedFrom(s, i, l) = PrunedFrom(s, i, l + 1) \cup Below(n, 1 - b)
  BY <1>9, <1>12, <1>13
<1>15. nodes[n].idx # i => PrunedFrom(s, i, l) = PrunedFrom(s, i, l + 1)
  BY <1>12, <1>13
<1> QED BY <1>2, <1>4, <1>6, <1>7, <1>14, <1>15, Zenon

\* The loop at node n after k iterations.
Walking(x, k, s, i) ==
  \E n \in 1..Len(nodes), b \in Side, prev \in Ptr :
    /\ x = Loop(n, prev, PrunedFrom(s, i, Len(trail[n]) + 1), FALSE)
    /\ CameFrom(n, b, prev, s)
    /\ Len(trail[n]) + 1 + k = Len(StatePath(s))
    /\ \A j \in DOMAIN StatePath(s) :
         j > Len(trail[n]) + 1 /\ StatePath(s)[j].idx = i => nodes[n].idx = i

\* The function returns the branches of the whole path ...
Returned(x, s, i) == \E c, prev : x = Loop(c, prev, PrunedFrom(s, i, 0), TRUE)

\* ... or the loop ends, and there are none.
Ended(x, s, i) == /\ \E prev, found : x = Loop(Null, prev, found, FALSE)
                  /\ PrunedFrom(s, i, 0) = {}

\* A loop that has ended stays as it is.
LEMMA BacktrackRests ==
  ASSUME NEW s, NEW i, NEW x, x.returned \/ x.cur = Null
  PROVE  Backtrack(x, s, i) = x
  BY ZenonT(40) DEF Backtrack

\* An iteration of the loop at a node: it returns, ends above the root, or goes
\* on at the parent.  The indices above a node it returns at are lower than i.
LEMMA WalkStep ==
  ASSUME SearchInv, NEW s \in live, NEW i \in Idx, NEW k \in Nat, NEW x, Walking(x, k, s, i)
  PROVE  \/ Walking(Backtrack(x, s, i), k + 1, s, i)
         \/ Returned(Backtrack(x, s, i), s, i) \/ Ended(Backtrack(x, s, i), s, i)
<1>1. PICK n \in 1..Len(nodes), b \in Side, prev \in Ptr :
        /\ x = Loop(n, prev, PrunedFrom(s, i, Len(trail[n]) + 1), FALSE)
        /\ CameFrom(n, b, prev, s)
        /\ Len(trail[n]) + 1 + k = Len(StatePath(s))
        /\ \A j \in DOMAIN StatePath(s) :
             j > Len(trail[n]) + 1 /\ StatePath(s)[j].idx = i => nodes[n].idx = i
  BY Zenon DEF Walking
<1>2. OnWay(Append(trail[n], At(n, b)), StatePath(s))
  BY <1>1, Zenon DEF CameFrom
<1>3. PICK l \in Nat : l = Len(trail[n])
  BY NodeTyped, SMTT(30)
<1>4. PICK ss \in Seq(Decision) : ss = StatePath(s)
  BY <1>2, PrunedStep
<1>5. /\ Len(ss) \in Nat /\ l + 1 <= Len(ss) /\ ss[l + 1].idx = nodes[n].idx
      /\ \A j \in 1..l : ss[j] = trail[n][j]
      /\ nodes[n].idx = i =>
           PrunedFrom(s, i, l) = PrunedFrom(s, i, l + 1) \cup Below(n, 1 - b)
      /\ nodes[n].idx # i => PrunedFrom(s, i, l) = PrunedFrom(s, i, l + 1)
  BY <1>2, <1>3, <1>4, PrunedStep, ZenonT(40)
<1>6. OtherSide(n, prev, s) = Below(n, 1 - b)
  BY <1>1, OtherSideIs
<1>7. PICK f : f = PrunedFrom(s, i, l + 1)
  OBVIOUS
<1>8. PICK new : new = IF nodes[n].idx = i THEN f \cup OtherSide(n, prev, s) ELSE f
  BY Zenon
<1>9. new = PrunedFrom(s, i, l)
  BY <1>5, <1>6, <1>7, <1>8
<1>10. PICK p : p = nodes[n].parentBranch
  OBVIOUS
<1>11. Backtrack(x, s, i) =
         IF nodes[n].idx = i /\ (p = Null \/ nodes[p].idx # i)
           THEN Loop(n, prev, new, TRUE) ELSE Loop(p, n, new, FALSE)
  <2>1. n # Null /\ x = Loop(n, prev, f, FALSE)
    BY <1>1, <1>3, <1>7, NodeTyped, SMTT(30)
  <2>2. x.cur = n /\ x.prev = prev /\ x.found = f /\ x.returned = FALSE
    BY <2>1 DEF Loop
  <2> QED BY <1>8, <1>10, <2>1, <2>2, ZenonT(40) DEF Backtrack
<1>12. DOMAIN ss = 1..Len(ss)
  OBVIOUS
<1>13. nodes[n].idx # i => PrunedFrom(s, i, l) = {}
  <2> SUFFICES ASSUME nodes[n].idx # i PROVE PrunedFrom(s, i, l + 1) = {}
    BY <1>5
  <2>1. \A j \in DOMAIN ss : ~(j > l + 1 /\ ss[j].idx = i)
    BY <1>1, <1>3, <1>4, Zenon
  <2> QED BY <1>4, <2>1, ZenonT(40) DEF PrunedFrom
<1>14. CASE n = root /\ trail[n] = <<>> /\ nodes[n].parentBranch = Null
  <2>1. l = 0 /\ p = Null
    BY <1>3, <1>10, <1>14
  <2>2. CASE nodes[n].idx = i
    <3>1. Backtrack(x, s, i) = Loop(n, prev, PrunedFrom(s, i, 0), TRUE)
      BY <1>9, <1>11, <2>1, <2>2, Zenon
    <3> QED BY <3>1, Zenon DEF Returned
  <2>3. CASE nodes[n].idx # i
    <3>1. Backtrack(x, s, i) = Loop(Null, n, new, FALSE)
      BY <1>11, <2>1, <2>3, Zenon
    <3> QED BY <1>13, <2>1, <2>3, <3>1, Zenon DEF Ended
  <2> QED BY <2>2, <2>3, SMTT(30)
<1>15. CASE ~(n = root /\ trail[n] = <<>> /\ nodes[n].parentBranch = Null)
  <2>1. PICK q \in 1..(n - 1), a \in Side :
          /\ q \in 1..Len(nodes)
          /\ nodes[n].parentBranch = q /\ nodes[q].childBranches[a] = n
          /\ trail[n] = Append(trail[q], At(q, a))
    BY <1>15, NodeParent, Zenon
  <2>2. /\ trail[q] \in Seq(Decision) /\ At(q, a) \in Decision /\ q # Null /\ n # Null
        /\ Len(trail[q]) \in Nat /\ trail[n] \in Seq(Decision) /\ q = p
        /\ nodes[n].idx \in Nat /\ nodes[q].idx \in Nat /\ i \in Nat
    BY <1>10, <2>1, NodeTyped, IndexAssumption, SMTT(30) DEF Idx
  <2>3. /\ l = Len(trail[q]) + 1 /\ trail[n][l] = At(q, a) /\ DOMAIN trail[n] = 1..l
        /\ l \in 1..l
    BY <1>3, <2>1, <2>2, SMTT(30)
  <2>4. trail[n][l].idx = nodes[q].idx
    BY <2>3 DEF At
  <2>5. TrailOrdered(n)
    BY DEF SearchInv, Links
  <2>6. CASE nodes[n].idx = i /\ nodes[q].idx # i
    <3>1. Backtrack(x, s, i) = Loop(n, prev, PrunedFrom(s, i, l), TRUE)
      BY <1>9, <1>11, <2>2, <2>6, ZenonT(40)
    <3>2. nodes[q].idx <= i
      BY <2>3, <2>4, <2>5, <2>6 DEF TrailOrdered
    <3>3. nodes[q].idx < i
      BY <2>2, <2>6, <3>2
    <3>4. ASSUME NEW j \in 1..l PROVE ss[j].idx # i
      <4>1. j \in DOMAIN trail[n] /\ l \in DOMAIN trail[n] /\ j <= l
        BY <2>3
      <4>2. trail[n][j].idx <= nodes[q].idx
        BY <2>4, <2>5, <4>1, SMTT(30) DEF TrailOrdered
      <4>3. ss[j] = trail[n][j]
        BY <1>5
      <4> QED BY <2>2, <3>3, <4>2, <4>3, SMTT(30)
    <3>5. \A j \in DOMAIN ss : (j > l /\ ss[j].idx = i) <=> (j > 0 /\ ss[j].idx = i)
      BY <1>12, <3>4
    <3>6. PrunedFrom(s, i, l) = PrunedFrom(s, i, 0)
      BY <1>4, <3>5 DEF PrunedFrom
    <3> QED BY <3>1, <3>6, Zenon DEF Returned
  <2>7. CASE ~(nodes[n].idx = i /\ nodes[q].idx # i)
    <3>1. Backtrack(x, s, i) = Loop(q, n, PrunedFrom(s, i, Len(trail[q]) + 1), FALSE)
      BY <1>9, <1>11, <2>2, <2>3, <2>7, ZenonT(40)
    <3>2. OnWay(trail[n], ss)
      BY <1>3, <1>5 DEF OnWay
    <3>3. OnWay(Append(trail[q], At(q, a)), StatePath(s))
      BY <1>4, <2>1, <3>2, ZenonT(40)
    <3>4. Len(trail[q]) + 1 < Len(StatePath(s))
      BY <1>4, <1>5, <2>2, <2>3
    <3>5. CameFrom(q, a, n, s)
      BY <2>1, <2>2, <3>3, <3>4, Zenon DEF CameFrom
    <3>6. Len(trail[q]) + 1 + (k + 1) = Len(StatePath(s))
      <4>1. l + 1 + k = Len(ss)
        BY <1>1, <1>3, <1>4, Zenon
      <4>2. PICK m \in Nat : m = Len(trail[q])
        BY <2>2, Zenon
      <4>3. l = m + 1
        BY <2>3, <4>2, Zenon
      <4>4. m + 1 + (k + 1) = l + 1 + k
        BY <4>3
      <4> QED BY <1>4, <4>1, <4>2, <4>4, Zenon
    <3>7. \A j \in DOMAIN StatePath(s) :
            j > Len(trail[q]) + 1 /\ StatePath(s)[j].idx = i => nodes[q].idx = i
      <4>1. ASSUME NEW j \in DOMAIN ss, j > l, ss[j].idx = i PROVE nodes[q].idx = i
        <5>1. j = l + 1 \/ j > l + 1
          BY <1>12, <4>1
        <5>2. nodes[n].idx = i
          BY <1>1, <1>3, <1>4, <1>5, <4>1, <5>1, Zenon
        <5> QED BY <2>7, <5>2
      <4> QED BY <1>4, <2>3, <4>1, Zenon
    <3>8. n \in Ptr
      <4>1. Len(nodes) <= MaxNodes /\ Len(nodes) \in Nat
        BY DEF SearchInv, TreeInv, TypeOK
      <4> QED BY <4>1, NodesAssumption DEF Ptr
    <3> QED BY <2>1, <3>1, <3>5, <3>6, <3>7, <3>8, Zenon DEF Walking
  <2> QED BY <2>6, <2>7
<1> QED BY <1>14, <1>15

-----------------------------------------------------------------------------
\* g is the loop of findPrunedStates(s, i) from x, for n iterations.
IsWalk(g, n, x, s, i) == g = [k \in 0..n |-> IF k = 0 THEN x ELSE Backtrack(g[k - 1], s, i)]

\* What that means, iteration by iteration.
LEMMA WalkSteps ==
  ASSUME NEW g, NEW n \in Nat, NEW x, NEW s, NEW i, IsWalk(g, n, x, s, i)
  PROVE  /\ g[0] = x /\ \A k \in 1..n : g[k] = Backtrack(g[k - 1], s, i)
<1> DEFINE h == [k \in 0..n |-> IF k = 0 THEN x ELSE Backtrack(g[k - 1], s, i)]
<1>1. g = h
  BY DEF IsWalk
<1>2. h[0] = x /\ \A k \in 1..n : h[k] = Backtrack(g[k - 1], s, i)
  OBVIOUS
<1> HIDE DEF h
<1> QED BY <1>1, <1>2, Zenon

\* There is such a loop for every number of iterations.
LEMMA WalkExists ==
  ASSUME NEW n \in Nat, NEW x, NEW s, NEW i
  PROVE  \E g : IsWalk(g, n, x, s, i)
<1> DEFINE T == {m \in Nat : \E g : IsWalk(g, m, x, s, i)}
<1>1. 0 \in T
  <2> DEFINE g == [k \in 0..0 |-> x]
  <2>1. g = [k \in 0..0 |-> IF k = 0 THEN x ELSE Backtrack(g[k - 1], s, i)]
    OBVIOUS
  <2> HIDE DEF g
  <2> QED BY <2>1 DEF IsWalk
<1>2. ASSUME NEW m \in 0..(n - 1), m \in T PROVE m + 1 \in T
  <2>1. PICK g : IsWalk(g, m, x, s, i)
    BY <1>2
  <2>2. g[0] = x /\ \A k \in 1..m : g[k] = Backtrack(g[k - 1], s, i)
    BY <2>1, WalkSteps
  <2> DEFINE y == Backtrack(g[m], s, i)
             h == [k \in 0..(m + 1) |-> IF k = m + 1 THEN y ELSE g[k]]
             e == [k \in 0..(m + 1) |-> IF k = 0 THEN x ELSE Backtrack(h[k - 1], s, i)]
  <2> HIDE DEF y
  <2>3. ASSUME NEW k \in 0..(m + 1) PROVE h[k] = e[k]
    <3>1. CASE k = 0
      BY <2>2, <3>1
    <3>2. CASE k \in 1..m
      <4>1. h[k] = g[k] /\ h[k - 1] = g[k - 1]
        BY <3>2
      <4>2. e[k] = Backtrack(h[k - 1], s, i)
        BY <3>2
      <4> HIDE DEF h, e
      <4> QED BY <2>2, <3>2, <4>1, <4>2
    <3>3. CASE k = m + 1
      <4>1. h[k] = y /\ h[k - 1] = g[m] /\ e[k] = Backtrack(h[k - 1], s, i)
        BY <3>3
      <4> HIDE DEF h, e
      <4> QED BY <3>3, <4>1 DEF y
    <3> QED BY <3>1, <3>2, <3>3
  <2>4. h = e
    BY <2>3
  <2>5. IsWalk(h, m + 1, x, s, i)
    <3> HIDE DEF h
    <3> QED BY <2>4 DEF IsWalk, e
  <2> QED BY <2>5
<1> HIDE DEF T
<1>3. n \in T
  BY <1>1, <1>2, Induction
<1> QED BY <1>3 DEF T

\* The loop ends, as there is a node less above it after each iteration: with
\* what the path of s says, whether it returns or reaches the root.
LEMMA WalkIs ==
  ASSUME SearchInv, NEW s \in live, NEW i \in Idx, root # Null
  PROVE  Returned(Walk(s, i), s, i) \/ Ended(Walk(s, i), s, i)
<1>0. PICK x : x = Loop(parentBranch[s], Null, {}, FALSE)
  BY Zenon
<1>1. PICK m \in 1..Len(nodes), b \in Side :
           /\ parentBranch[s] = m
           /\ nodes[m].childStates[b] = s /\ nodes[m].childStates[1 - b] # s
           /\ StatePath(s) = Append(trail[m], At(m, b))
  BY StateAt
<1>2. /\ trail[m] \in Seq(Decision) /\ At(m, b) \in Decision /\ Len(nodes) \in Nat
      /\ Len(trail[m]) \in Nat
  BY NodeTyped
<1>3. PICK ss \in Seq(Decision) : ss = StatePath(s)
  BY <1>1, <1>2, SMTT(30)
<1>4. Len(ss) = Len(trail[m]) + 1 /\ DOMAIN ss = 1..Len(ss) /\ Len(ss) \in Nat
  BY <1>1, <1>2, <1>3
<1>5. Walking(x, 0, s, i)
  <2>1. OnWay(ss, ss)
    BY <1>4 DEF OnWay
  <2>2. CameFrom(m, b, Null, s)
    BY <1>1, <1>3, <2>1, Zenon DEF CameFrom
  <2>3. \A j \in DOMAIN ss : ~(j > Len(trail[m]) + 1)
    BY <1>4
  <2>4. PrunedFrom(s, i, Len(trail[m]) + 1) = {}
    BY <1>3, <2>3, Zenon DEF PrunedFrom
  <2>5. Len(trail[m]) + 1 + 0 = Len(StatePath(s))
    BY <1>2, <1>3, <1>4
  <2>6. x = Loop(m, Null, PrunedFrom(s, i, Len(trail[m]) + 1), FALSE)
    BY <1>0, <1>1, <2>4, Zenon
  <2>7. Null \in Ptr /\ \A j \in DOMAIN StatePath(s) : ~(j > Len(trail[m]) + 1)
    BY <1>3, <2>3, PtrNat
  <2> QED BY <2>2, <2>5, <2>6, <2>7, Zenon DEF Walking
<1> DEFINE walk == CHOOSE g : g = [k \in 0..Len(nodes) |->
                     IF k = 0 THEN Loop(parentBranch[s], Null, {}, FALSE)
                     ELSE Backtrack(g[k - 1], s, i)]
<1>6. Walk(s, i) = walk[Len(nodes)]
  BY DEF Walk
<1>7. walk = CHOOSE g : IsWalk(g, Len(nodes), Loop(parentBranch[s], Null, {}, FALSE), s, i)
  BY DEF IsWalk
<1>8. \E g : IsWalk(g, Len(nodes), Loop(parentBranch[s], Null, {}, FALSE), s, i)
  BY <1>2, WalkExists, Zenon
<1>9. IsWalk(walk, Len(nodes), Loop(parentBranch[s], Null, {}, FALSE), s, i)
  BY <1>7, <1>8, Zenon
<1> HIDE DEF walk
<1>10. IsWalk(walk, Len(nodes), x, s, i)
  BY <1>0, <1>9, Zenon
<1>11. walk[0] = x /\ \A k \in 1..Len(nodes) : walk[k] = Backtrack(walk[k - 1], s, i)
  BY <1>2, <1>10, WalkSteps
<1> DEFINE T == {k \in 0..Len(nodes) : \/ Walking(walk[k], k, s, i)
                                       \/ Returned(walk[k], s, i) \/ Ended(walk[k], s, i)}
<1>12. 0 \in T
  BY <1>2, <1>5, <1>11, SMTT(30)
<1>13. ASSUME NEW k \in 0..(Len(nodes) - 1), k \in T PROVE k + 1 \in T
  <2>1. k + 1 \in 1..Len(nodes) /\ k + 1 \in 0..Len(nodes) /\ (k + 1) - 1 = k /\ k \in Nat
    BY <1>2
  <2>2. PICK y : y = walk[k]
    OBVIOUS
  <2>3. walk[k + 1] = Backtrack(y, s, i)
    BY <1>11, <2>1, <2>2
  <2>4. Walking(y, k, s, i) \/ Returned(y, s, i) \/ Ended(y, s, i)
    BY <1>13, <2>2, Zenon
  <2>5. CASE Walking(y, k, s, i)
    BY <2>1, <2>3, <2>5, WalkStep, Zenon
  <2>6. CASE Returned(y, s, i) \/ Ended(y, s, i)
    <3>1. y.returned \/ y.cur = Null
      BY <2>6 DEF Returned, Ended, Loop
    <3>2. Backtrack(y, s, i) = y
      BY <3>1, BacktrackRests
    <3> QED BY <2>1, <2>3, <2>6, <3>2, ZenonT(40)
  <2> QED BY <2>4, <2>5, <2>6
<1> HIDE DEF T
<1>14. \A k \in 0..Len(nodes) : k \in T
  BY <1>2, <1>12, <1>13, Induction, Zenon
<1>15. Len(nodes) \in T
  BY <1>2, <1>14
<1>16. ~Walking(walk[Len(nodes)], Len(nodes), s, i)
  <2> SUFFICES ASSUME NEW n \in 1..Len(nodes),
                      Len(trail[n]) + 1 + Len(nodes) = Len(StatePath(s))
               PROVE  FALSE
    BY Zenon DEF Walking
  <2>1. TreeInv
    BY DEF SearchInv
  <2>2. Len(StatePath(s)) <= Len(nodes)
    <3>1. parentBranch[s] # Null
      BY StateAt
    <3> QED BY <2>1, <3>1, StatePathTyped
  <2>3. Len(trail[n]) \in Nat
    BY NodeTyped
  <2> QED BY <1>2, <1>3, <1>4, <2>2, <2>3
<1> QED BY <1>6, <1>15, <1>16 DEF T

\* The walk over the pointers finds what the paths say, for every index.
LEMMA SearchFinds ==
  ASSUME SearchInv, NEW s \in live, NEW i \in Idx
  PROVE  FindPrunedStates(s, i) = PrunedFrom(s, i, 0)
<1>1. CASE root = Null
  <2>1. parentBranch[s] = Null /\ TreeInv
    BY <1>1 DEF SearchInv, TreeInv, BeforeFirst
  <2>2. StatePath(s) = <<>>
    BY <2>1, StatePathTyped
  <2>3. DOMAIN StatePath(s) = {}
    BY <2>2
  <2>4. PrunedFrom(s, i, 0) = {}
    BY <2>3, Zenon DEF PrunedFrom
  <2> QED BY <1>1, <2>4 DEF FindPrunedStates
<1>2. CASE root # Null
  <2>1. PICK x : x = Walk(s, i)
    OBVIOUS
  <2>2. Returned(x, s, i) \/ Ended(x, s, i)
    BY <1>2, <2>1, WalkIs, Zenon
  <2>3. CASE Returned(x, s, i)
    <3>1. x.returned = TRUE /\ x.found = PrunedFrom(s, i, 0)
      BY <2>3 DEF Returned, Loop
    <3> QED BY <1>2, <2>1, <3>1 DEF FindPrunedStates
  <2>4. CASE Ended(x, s, i)
    <3>1. x.returned = FALSE /\ PrunedFrom(s, i, 0) = {}
      BY <2>4 DEF Ended, Loop
    <3> QED BY <1>2, <2>1, <3>1 DEF FindPrunedStates
  <2> QED BY <2>2, <2>3, <2>4
<1> QED BY <1>1, <1>2

\* What the invariant says of the search.
LEMMA SearchRight == SearchInv => FindsOtherSubtree
<1> SUFFICES ASSUME SearchInv PROVE FindsOtherSubtree
  OBVIOUS
<1>1. \A n \in DOMAIN nodes : Linked(n)
  <2>1. DOMAIN nodes = 1..Len(nodes)
    BY DEF SearchInv, TreeInv, TypeOK
  <2> QED BY <2>1 DEF SearchInv, Links
<1>2. ASSUME NEW s \in live, NEW i \in Idx
      PROVE  /\ FindPrunedStates(s, i) = Paths!Pruned(PathMap, s, {i})
             /\ s \notin FindPrunedStates(s, i)
  <2>1. FindPrunedStates(s, i) = PrunedFrom(s, i, 0)
    BY SearchFinds
  <2>2. /\ DOMAIN PathMap = live /\ \A t \in live : PathMap[t] = StatePath(t)
        /\ Paths!Decisions(PathMap, s) = StatePath(s)
    BY DEF PathMap, Paths!Decisions
  <2>3. StatePath(s) \in Seq(Decision)
    BY StatePathTyped DEF SearchInv
  <2>4. \A j \in DOMAIN StatePath(s) : j > 0
    BY <2>3
  <2>5. Paths!Pruned(PathMap, s, {i}) = PrunedFrom(s, i, 0)
    <3>1. Paths!Pruned(PathMap, s, {i}) =
            {t \in live : \E k \in DOMAIN StatePath(s) :
               /\ StatePath(s)[k].idx \in {i}
               /\ Paths!PartAt(StatePath(s), PathMap[t], k)}
      BY <2>2, Zenon DEF Paths!Pruned
    <3>2. ASSUME NEW t \in live
          PROVE  (\E k \in DOMAIN StatePath(s) :
                   /\ StatePath(s)[k].idx \in {i}
                   /\ Paths!PartAt(StatePath(s), PathMap[t], k))
                 <=> t \in PrunedFrom(s, i, 0)
      BY <2>2, <2>4, Zenon DEF PrunedFrom
    <3>3. PrunedFrom(s, i, 0) \subseteq live
      BY DEF PrunedFrom
    <3> QED BY <3>1, <3>2, <3>3, Zenon
  <2>6. s \notin PrunedFrom(s, i, 0)
    BY DEF PrunedFrom, Paths!PartAt
  <2> QED BY <2>1, <2>5, <2>6
<1> QED BY <1>1, <1>2 DEF FindsOtherSubtree, PathMap

\* findPrunedStates finds, for every index, exactly the states in the other
\* subtree of a branch of the state, and never the state itself: the abort at
\* BranchTree.cpp:147 is not reached, for any number of states and branches.
THEOREM SearchFindsSubtree == Spec => []FindsOtherSubtree
  BY SearchInvHolds, SearchRight, PTL DEF Spec
=============================================================================
