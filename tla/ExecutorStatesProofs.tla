------------------------ MODULE ExecutorStatesProofs ------------------------
(***************************************************************************)
(* The bookkeeping of execution states is right for any number of states,  *)
(* when no external function is reached through a symbolic pointer.        *)
(***************************************************************************)
EXTENDS ExecutorStates, SequenceTheorems, TLAPS

\* What Append does to the positions of a sequence of decisions.
LEMMA AppendDecision ==
  ASSUME NEW ds \in Seq(Decision), NEW d \in Decision
  PROVE  /\ Append(ds, d) \in Seq(Decision)
         /\ Len(Append(ds, d)) = Len(ds) + 1
         /\ DOMAIN Append(ds, d) = 1..(Len(ds) + 1)
         /\ DOMAIN ds = 1..Len(ds)
         /\ Len(ds) \in Nat
         /\ \A k \in DOMAIN ds : Append(ds, d)[k] = ds[k]
         /\ Append(ds, d)[Len(ds) + 1] = d
  OBVIOUS

\* addBranch (BranchTree.cpp:180) keeps the types of the paths.
LEMMA BranchTyped ==
  ASSUME NEW p, NEW s \in DOMAIN p, NEW c \in State, NEW i \in Idx, Typed(p)
  PROVE  Typed(Branch(p, s, i, c)) /\ DOMAIN Branch(p, s, i, c) = DOMAIN p \cup {c}
<1> DEFINE q == Branch(p, s, i, c)
<1>1. p[s] \in Seq(Decision) /\ Decisions(p, s) = p[s]
  BY DEF Typed, Decisions
<1>2. [idx |-> i, side |-> 0] \in Decision /\ [idx |-> i, side |-> 1] \in Decision
  BY DEF Decision
<1>3. DOMAIN q = DOMAIN p \cup {c}
  BY DEF Branch
<1>4. \A t \in DOMAIN q : q[t] \in Seq(Decision)
  BY <1>1, <1>2, <1>3, AppendDecision DEF Branch, Typed
<1>5. q = [t \in DOMAIN q |-> q[t]]
  BY DEF Branch
<1>6. q \in [DOMAIN q -> Seq(Decision)]
  BY <1>4, <1>5
<1> QED
  BY <1>3, <1>6 DEF Typed

\* removeState (BranchTree.cpp:163) keeps the types of the paths.
LEMMA DetachTyped ==
  ASSUME NEW p, NEW S, Typed(p)
  PROVE  /\ Typed(Detach(p, S)) /\ DOMAIN Detach(p, S) = DOMAIN p \ S
         /\ \A t \in DOMAIN p \ S : Detach(p, S)[t] = p[t]
  BY DEF Typed, Detach

\* Two paths that part still part when the first, or the second, grows.
LEMMA PartGrows ==
  ASSUME NEW ds \in Seq(Decision), NEW es \in Seq(Decision), NEW d \in Decision,
         NEW k \in DOMAIN ds, PartAt(ds, es, k)
  PROVE  PartAt(Append(ds, d), es, k) /\ PartAt(ds, Append(es, d), k)
<1>1. k \in DOMAIN es /\ \A j \in 1..(k - 1) : ds[j] = es[j]
  BY DEF PartAt
<1>2. k \in 1..Len(ds) /\ k \in 1..Len(es)
  BY <1>1, AppendDecision
<1>3. \A j \in 1..(k - 1) : j \in DOMAIN ds /\ j \in DOMAIN es
  BY <1>2, AppendDecision
<1>4. k \in DOMAIN Append(ds, d) /\ k \in DOMAIN Append(es, d)
  BY <1>2, AppendDecision
<1>5. /\ \A j \in 1..(k - 1) : Append(ds, d)[j] = es[j] /\ ds[j] = Append(es, d)[j]
      /\ Append(ds, d)[k] = ds[k] /\ Append(es, d)[k] = es[k]
  BY <1>1, <1>3, AppendDecision
<1> QED
  BY <1>1, <1>4, <1>5 DEF PartAt

\* Parting is symmetric.
LEMMA PartSymmetric ==
  ASSUME NEW ds, NEW es, NEW k, PartAt(ds, es, k)
  PROVE  PartAt(es, ds, k)
  BY DEF PartAt

\* addBranch keeps the states at the leaves: a path that parts from the one of
\* s parts from both its extensions, and these part at the new branch.
LEMMA BranchAntichain ==
  ASSUME NEW p, NEW s \in DOMAIN p, NEW c \in State, NEW i \in Idx,
         c \notin DOMAIN p, Typed(p), Antichain(p)
  PROVE  Antichain(Branch(p, s, i, c))
<1> DEFINE q == Branch(p, s, i, c)
           d0 == [idx |-> i, side |-> 0]
           d1 == [idx |-> i, side |-> 1]
<1>1. /\ p[s] \in Seq(Decision) /\ d0 \in Decision /\ d1 \in Decision
      /\ \A t \in DOMAIN p : p[t] \in Seq(Decision)
  BY Zenon DEF Typed, Decision
<1>2. /\ DOMAIN q = DOMAIN p \cup {c}
      /\ q[s] = Append(p[s], d0) /\ q[c] = Append(p[s], d1)
      /\ \A t \in DOMAIN p \ {s} : q[t] = p[t]
  BY DEF Branch, Decisions
<1>3. ASSUME NEW t \in DOMAIN p \ {s}, NEW d \in Decision
      PROVE  \E k : PartAt(Append(p[s], d), p[t], k)
  <2>1. PICK k \in DOMAIN p[s] : PartAt(p[s], p[t], k)
    BY DEF Antichain
  <2> QED
    BY <1>1, <2>1, PartGrows
<1>4. \E k : PartAt(q[s], q[c], k)
  <2>1. PartAt(q[s], q[c], Len(p[s]) + 1)
    <3>1. /\ Len(p[s]) + 1 \in DOMAIN q[s] /\ Len(p[s]) + 1 \in DOMAIN q[c]
          /\ q[s][Len(p[s]) + 1] = d0 /\ q[c][Len(p[s]) + 1] = d1
      BY <1>1, <1>2, AppendDecision
    <3>2. \A j \in 1..((Len(p[s]) + 1) - 1) : q[s][j] = q[c][j]
      <4>1. Len(p[s]) \in Nat /\ DOMAIN p[s] = 1..Len(p[s])
        BY <1>1, AppendDecision
      <4>2. \A j \in DOMAIN p[s] : q[s][j] = p[s][j] /\ q[c][j] = p[s][j]
        BY <1>1, <1>2, AppendDecision
      <4> QED
        BY <4>1, <4>2
    <3> QED
      BY <3>1, <3>2 DEF PartAt
  <2> QED
    BY <2>1
<1>5. ASSUME NEW t \in DOMAIN q, NEW u \in DOMAIN q, t # u
      PROVE  \E k : PartAt(q[t], q[u], k)
  <2>1. CASE t \in {s, c} /\ u \in {s, c}
    BY <1>4, <1>5, <2>1, PartSymmetric
  <2>2. CASE t \in {s, c} /\ u \notin {s, c}
    <3>1. u \in DOMAIN p \ {s}
      BY <1>2, <2>2
    <3>2. \E k : PartAt(Append(p[s], d0), p[u], k)
      BY <3>1, <1>3, <1>1
    <3>3. \E k : PartAt(Append(p[s], d1), p[u], k)
      BY <3>1, <1>3, <1>1
    <3> QED
      BY <3>1, <3>2, <3>3, <1>2, <2>2, Zenon
  <2>3. CASE t \notin {s, c} /\ u \in {s, c}
    <3>1. t \in DOMAIN p \ {s}
      BY <1>2, <2>3
    <3>2. \E k : PartAt(p[t], Append(p[s], d0), k)
      BY <3>1, <1>3, <1>1, PartSymmetric
    <3>3. \E k : PartAt(p[t], Append(p[s], d1), k)
      BY <3>1, <1>3, <1>1, PartSymmetric
    <3> QED
      BY <3>1, <3>2, <3>3, <1>2, <2>3, Zenon
  <2>4. CASE t \notin {s, c} /\ u \notin {s, c}
    <3>1. /\ t \in DOMAIN p \ {s} /\ u \in DOMAIN p \ {s}
          /\ q[t] = p[t] /\ q[u] = p[u]
      BY <1>2, <2>4
    <3> QED
      BY <3>1, <1>5 DEF Antichain
  <2> QED
    BY <2>1, <2>2, <2>3, <2>4
<1> QED
  BY <1>5 DEF Antichain, PartAt

\* removeState keeps the states at the leaves.
LEMMA DetachAntichain ==
  ASSUME NEW p, NEW S, Typed(p), Antichain(p)
  PROVE  Antichain(Detach(p, S))
<1> DEFINE q == Detach(p, S)
<1>1. DOMAIN q = DOMAIN p \ S /\ \A t \in DOMAIN q : q[t] = p[t]
  BY DEF Detach
<1>2. ASSUME NEW r, DOMAIN r = DOMAIN p \ S, \A t \in DOMAIN r : r[t] = p[t]
      PROVE  Antichain(r)
  BY <1>2 DEF Antichain
<1> QED
  BY <1>1, <1>2

\* addBranch keeps the indices of a path in order, since the index of a new
\* branch is not below the last one (getLatestBrOrExtCallIdx).
LEMMA BranchOrdered ==
  ASSUME NEW p, NEW s \in DOMAIN p, NEW c \in State, NEW i \in Idx,
         c \notin DOMAIN p, Typed(p), Ordered(p), MayBranchAt(p[s], i)
  PROVE  Ordered(Branch(p, s, i, c))
<1> DEFINE q == Branch(p, s, i, c)
           n == Len(p[s])
<1>1. p[s] \in Seq(Decision) /\ \A t \in DOMAIN p : p[t] \in Seq(Decision)
  BY DEF Typed
<1>2. i \in Nat /\ Idx \subseteq Nat
  BY BoundAssumption DEF Idx
<1>3. ASSUME NEW b \in {0, 1}, NEW ds, ds = Append(p[s], [idx |-> i, side |-> b]),
             NEW j \in DOMAIN ds, NEW k \in DOMAIN ds, j <= k
      PROVE  ds[j].idx <= ds[k].idx
  <2>1. [idx |-> i, side |-> b] \in Decision
    BY DEF Decision
  <2>2. /\ n \in Nat /\ DOMAIN p[s] = 1..n /\ DOMAIN ds = 1..(n + 1)
        /\ \A m \in 1..n : ds[m] = p[s][m]
        /\ ds[n + 1].idx = i
    BY <1>1, <1>3, <2>1, AppendDecision
  <2>3. \A m \in 1..n : p[s][m].idx \in Nat /\ p[s][m].idx <= p[s][n].idx
    <3>1. \A m \in 1..n : p[s][m] \in Decision
      BY <1>1, <2>2
    <3>2. \A m \in 1..n : p[s][m].idx \in Nat
      BY <1>2, <3>1, Zenon DEF Decision
    <3>3. \A m \in 1..n : m <= n /\ n \in DOMAIN p[s] /\ m \in DOMAIN p[s]
      BY <2>2
    <3>4. \A m \in 1..n : p[s][m].idx <= p[s][n].idx
      BY <3>3 DEF Ordered
    <3> QED
      BY <3>2, <3>4
  <2>4. n > 0 => p[s][n].idx <= i
    BY DEF MayBranchAt
  <2>5. CASE k = n + 1
    BY <1>2, <1>3, <2>2, <2>3, <2>4, <2>5
  <2>6. CASE k # n + 1
    <3>1. j \in 1..n /\ k \in 1..n
      BY <1>3, <2>2, <2>6
    <3> QED
      BY <1>3, <2>2, <3>1 DEF Ordered
  <2> QED
    BY <2>5, <2>6
<1>4. /\ DOMAIN q = DOMAIN p \cup {c}
      /\ q[s] = Append(p[s], [idx |-> i, side |-> 0])
      /\ q[c] = Append(p[s], [idx |-> i, side |-> 1])
      /\ \A t \in DOMAIN p \ {s} : q[t] = p[t]
  BY DEF Branch, Decisions
<1>5. ASSUME NEW t \in DOMAIN q, NEW j \in DOMAIN q[t], NEW k \in DOMAIN q[t], j <= k
      PROVE  q[t][j].idx <= q[t][k].idx
  <2>1. CASE t = s
    BY <1>3, <1>4, <1>5, <2>1, Zenon
  <2>2. CASE t = c
    BY <1>3, <1>4, <1>5, <2>2, Zenon
  <2>3. CASE t \in DOMAIN p \ {s}
    BY <1>4, <1>5, <2>3 DEF Ordered
  <2> QED
    BY <1>4, <2>1, <2>2, <2>3
<1> QED
  BY <1>5 DEF Ordered

\* removeState keeps the indices in order.
LEMMA DetachOrdered ==
  ASSUME NEW p, NEW S, Typed(p), Ordered(p)
  PROVE  Ordered(Detach(p, S))
<1> DEFINE q == Detach(p, S)
<1>1. DOMAIN q = DOMAIN p \ S /\ \A t \in DOMAIN q : q[t] = p[t]
  BY DEF Detach
<1>2. ASSUME NEW r, DOMAIN r = DOMAIN p \ S, \A t \in DOMAIN r : r[t] = p[t]
      PROVE  Ordered(r)
  BY <1>2 DEF Ordered
<1> QED
  BY <1>1, <1>2

\* The branch tree before the first fork.
LEMMA InitPaths ==
  ASSUME PathInit
  PROVE  Typed(path) /\ Antichain(path) /\ Ordered(path)
<1>1. DOMAIN path = {InitState} /\ path[InitState] = <<>>
      /\ path = [t \in DOMAIN path |-> path[t]]
  BY DEF PathInit
<1>2. <<>> \in Seq(Decision) /\ DOMAIN <<>> = {}
  OBVIOUS
<1> QED
  BY <1>1, <1>2, InitStateAssumption DEF Typed, Antichain, Ordered

-----------------------------------------------------------------------------
\* Whatever branches the executor adds and whatever states it removes, every
\* two attached states are on opposite sides of a common branch, and the
\* indices along each path are in order (BranchTree.cpp).
THEOREM PathTreeCorrect == PathSpec => [](PathTypeOK /\ LeavesOnly /\ IndicesOrdered)
<1> DEFINE Inv == PathTypeOK /\ LeavesOnly /\ IndicesOrdered
<1>1. PathInit => Inv
  BY InitPaths DEF PathTypeOK, LeavesOnly, IndicesOrdered
<1>2. Inv /\ [PathNext]_path => Inv'
  <2> SUFFICES ASSUME Inv, [PathNext]_path PROVE Inv'
    OBVIOUS
  <2> USE DEF PathTypeOK, LeavesOnly, IndicesOrdered
  <2>1. CASE UNCHANGED path
    BY <2>1
  <2>2. ASSUME NEW s \in State, NEW c \in State, NEW i \in Idx, AddBranch(s, i, c)
        PROVE  Inv'
    BY <2>2, BranchTyped, BranchAntichain, BranchOrdered, Zenon DEF AddBranch
  <2>3. ASSUME NEW S \in SUBSET State, RemoveStates(S)
        PROVE  Inv'
    BY <2>3, DetachTyped, DetachAntichain, DetachOrdered, Zenon DEF RemoveStates
  <2> QED
    BY <2>1, <2>2, <2>3 DEF PathNext
<1> QED
  BY <1>1, <1>2, PTL DEF PathSpec

-----------------------------------------------------------------------------
USE DEF At

\* The two halves of the type invariant.
HeapOK ==
  /\ Typed(path)
  /\ states \subseteq State /\ addedStates \subseteq State
  /\ removedStates \subseteq State /\ seedMap \subseteq State
  /\ searcher \subseteq State /\ alloc \subseteq State
  /\ ptree \subseteq State /\ isPruned \subseteq State

ControlOK ==
  /\ hand \subseteq State
  /\ phase \in {"seed", "search", "dump", "done"}
  /\ pc \in {"select", "exec", "timers", "memory", "update", "done"}
  /\ current \in State \cup {NoState} /\ free \in State \cup {NoState}
  /\ callee \in State \cup {NoState}
  /\ symcall \in BOOLEAN /\ handler \in Handler /\ haltExecution \in BOOLEAN

\* The part of the invariant that is about the sets and the trees.
Books ==
  /\ HeapOK
  /\ fault = "none"
  /\ addedStates \cap removedStates = {}
  /\ removedStates \subseteq states
  /\ addedStates \cap states = {}
  /\ Live \subseteq alloc
  /\ alloc \ Live \subseteq isPruned
  /\ ptree = Live /\ DOMAIN path = Live
  /\ seedMap \subseteq Live
  /\ Antichain(path) /\ Ordered(path)
  /\ isPruned \subseteq alloc
  /\ ~MarkPrunedOnly => isPruned \cap Live = {}
  /\ phase = "search" => searcher = states

\* The part that is about the step of run() and the pointers a handler holds.
Pointers ==
  /\ ControlOK
  /\ phase = "done" <=> pc = "done"
  /\ phase = "dump" => pc \in {"select", "update"} /\ addedStates = {}
  /\ phase = "done" => addedStates = {} /\ removedStates = {}
  /\ phase = "done" /\ DumpStatesOnHalt => states = {}
  /\ phase = "dump" /\ pc = "update" => removedStates = states
  /\ pc = "select" => addedStates = {} /\ removedStates = {}
  /\ pc \in {"exec", "timers", "memory"} => phase \in {"seed", "search"}
  /\ pc = "memory" => phase = "search"
  /\ pc \in {"exec", "timers", "memory"} => current \in states
  /\ pc = "update" /\ phase \in {"seed", "search"} => current \in states
  /\ pc = "exec" => hand \subseteq Live
  /\ pc # "exec" => hand = {}
  /\ pc \notin {"exec", "timers", "memory", "update"} => current = NoState
  /\ phase = "dump" => current = NoState
  /\ pc = "exec" /\ free # NoState => free \in Live \ hand /\ symcall
  /\ pc = "exec" /\ callee # NoState => callee = current /\ ~symcall
  /\ pc = "exec" /\ symcall => handler = "none"
  /\ pc = "exec" /\ handler \in {"exit", "call"} =>
       hand \subseteq {current} /\ addedStates = {}

IInv == Books /\ Pointers

-----------------------------------------------------------------------------
(* What the operations on the sets and the trees keep.                     *)

\* terminateState (Executor.cpp:2955) keeps the books: the states it deletes
\* leave addedStates and both trees, the others stay known.
LEMMA TerminateStateBooks ==
  ASSUME Books, NEW S \in SUBSET Live, TerminateState(S),
         states' = states, searcher' = searcher,
         phase' = "search" => phase = "search"
  PROVE  /\ Books'
         /\ addedStates' = addedStates \ S
         /\ removedStates' = removedStates \cup (S \ addedStates)
<1> DEFINE now == S \cap addedStates
<1>1. /\ addedStates' = addedStates \ now
      /\ removedStates' = removedStates \cup (S \ now)
      /\ seedMap' = seedMap \ now /\ alloc' = alloc \ now
      /\ ptree' = ptree \ now /\ isPruned' = isPruned \ now
      /\ path' = Detach(path, now)
      /\ fault' = TreesHold(now, Touch(S))
  BY DEF TerminateState
<1>2. /\ Typed(path') /\ Antichain(path') /\ Ordered(path')
      /\ DOMAIN path' = DOMAIN path \ now
  BY <1>1, DetachTyped, DetachAntichain, DetachOrdered, Zenon DEF Books, HeapOK
<1>3. Live' = Live \ now
  BY <1>1 DEF Books, Live
<1>4. fault' = "none"
  BY <1>1, Zenon DEF TreesHold, Touch, Books, Live
<1>5. HeapOK'
  BY <1>1, <1>2 DEF Books, HeapOK, Live
<1>6. /\ (addedStates \cap removedStates = {})' /\ (removedStates \subseteq states)'
      /\ (addedStates \cap states = {})'
  BY <1>1 DEF Books, Live
<1>7. /\ (Live \subseteq alloc)' /\ (alloc \ Live \subseteq isPruned)'
      /\ (ptree = Live)' /\ (DOMAIN path = Live)' /\ (seedMap \subseteq Live)'
      /\ (isPruned \subseteq alloc)'
      /\ ~MarkPrunedOnly => (isPruned \cap Live = {})'
  BY <1>1, <1>2, <1>3 DEF Books
<1>8. (phase = "search" => searcher = states)'
  BY DEF Books
<1> QED
  BY <1>1, <1>2, <1>4, <1>5, <1>6, <1>7, <1>8 DEF Books

\* The copy made by fork() and branch() (Executor.cpp:617, 857) keeps the
\* books: it is a new object that enters addedStates and both trees.
LEMMA BranchStateBooks ==
  ASSUME Books, NEW s \in Live, NEW c \in State, NEW i \in Idx,
         BranchState(s, c, i), UNCHANGED <<states, searcher, phase>>
  PROVE  Books' /\ addedStates' = addedStates \cup {c} /\ c \notin Live
<1>1. /\ c \notin alloc /\ c \notin Live /\ c \notin DOMAIN path
      /\ s \in DOMAIN path /\ Decisions(path, s) = path[s]
  BY DEF BranchState, Books, Decisions
<1>2. /\ addedStates' = addedStates \cup {c} /\ alloc' = alloc \cup {c}
      /\ ptree' = ptree \cup {c} /\ path' = Branch(path, s, i, c)
      /\ removedStates' = removedStates
      /\ fault' = TreesHold({s}, Touch({s}))
      /\ MayBranchAt(path[s], i)
  BY <1>1 DEF BranchState
<1>3. /\ Typed(path') /\ Antichain(path') /\ Ordered(path')
      /\ DOMAIN path' = DOMAIN path \cup {c}
  BY <1>1, <1>2, BranchTyped, BranchAntichain, BranchOrdered, Zenon DEF Books, HeapOK
<1>4. isPruned' \in {isPruned, isPruned \cup {c}}
      /\ (c \in isPruned' => s \in isPruned \/ c \in isPruned)
  BY DEF BranchState
<1>5. seedMap' \subseteq seedMap \cup {s, c}
  BY DEF BranchState
<1>6. Live' = Live \cup {c}
  BY <1>2 DEF Live
<1>7. fault' = "none"
  BY <1>1, <1>2, Zenon DEF TreesHold, Touch, Books
<1>8. HeapOK'
  BY <1>2, <1>3, <1>4, <1>5 DEF Books, HeapOK, Live
<1>9. /\ (addedStates \cap removedStates = {})' /\ (removedStates \subseteq states)'
      /\ (addedStates \cap states = {})'
  BY <1>1, <1>2 DEF Books, Live
<1>10. /\ (Live \subseteq alloc)' /\ (alloc \ Live \subseteq isPruned)'
       /\ (ptree = Live)' /\ (DOMAIN path = Live)' /\ (seedMap \subseteq Live)'
       /\ (isPruned \subseteq alloc)'
  BY <1>2, <1>3, <1>4, <1>5, <1>6 DEF Books
<1>11. ~MarkPrunedOnly => (isPruned \cap Live = {})'
  BY <1>1, <1>4, <1>6 DEF Books
<1> QED
  BY <1>1, <1>2, <1>3, <1>7, <1>8, <1>9, <1>10, <1>11 DEF Books

\* fork() beyond the depth limit (Executor.cpp:924) keeps the books.
LEMMA BranchTooDeepBooks ==
  ASSUME Books, NEW s \in Live, NEW c \in State, NEW i \in Idx,
         BranchTooDeep(s, c, i), UNCHANGED <<states, searcher, phase>>
  PROVE  Books' /\ addedStates' = addedStates \ {s}
<1> DEFINE now == {s} \cap addedStates
           q   == Branch(path, s, i, c)
<1>1. /\ c \notin alloc /\ c \notin Live /\ c \notin DOMAIN path
      /\ s \in DOMAIN path /\ Decisions(path, s) = path[s]
  BY DEF BranchTooDeep, Books, Decisions
<1>2. /\ addedStates' = addedStates \ now
      /\ removedStates' = removedStates \cup ({s} \ now)
      /\ alloc' = alloc \ now /\ ptree' = ptree \ now
      /\ isPruned' = isPruned \ now
      /\ path' = Detach(q, now \cup {c})
      /\ fault' = TreesHold({s}, Touch({s}))
      /\ MayBranchAt(path[s], i)
      /\ seedMap' \subseteq seedMap \ now
  BY <1>1 DEF BranchTooDeep
<1>3. /\ Typed(q) /\ Antichain(q) /\ Ordered(q)
      /\ DOMAIN q = DOMAIN path \cup {c}
  BY <1>1, <1>2, BranchTyped, BranchAntichain, BranchOrdered, Zenon DEF Books, HeapOK
<1> HIDE DEF q
<1>4. /\ Typed(path') /\ Antichain(path') /\ Ordered(path')
      /\ DOMAIN path' = DOMAIN q \ (now \cup {c})
  BY <1>2, <1>3, DetachTyped, DetachAntichain, DetachOrdered, Zenon
<1>5. Live' = Live \ now /\ DOMAIN path' = DOMAIN path \ now
  BY <1>1, <1>2, <1>3, <1>4, ZenonT(40) DEF Live, Books
<1>6. fault' = "none"
  BY <1>1, <1>2, Zenon DEF TreesHold, Touch, Books
<1>7. HeapOK'
  BY <1>2, <1>4 DEF Books, HeapOK, Live
<1>8. /\ (addedStates \cap removedStates = {})' /\ (removedStates \subseteq states)'
      /\ (addedStates \cap states = {})'
  BY <1>2 DEF Books, Live
<1>9. /\ (Live \subseteq alloc)' /\ (alloc \ Live \subseteq isPruned)'
      /\ (ptree = Live)' /\ (DOMAIN path = Live)' /\ (seedMap \subseteq Live)'
      /\ (isPruned \subseteq alloc)'
      /\ ~MarkPrunedOnly => (isPruned \cap Live = {})'
  BY <1>2, <1>5 DEF Books
<1> QED
  BY <1>2, <1>4, <1>6, <1>7, <1>8, <1>9 DEF Books

\* No state is on the other side of one of its own branches (the abort() of
\* BranchTree.cpp:147 is not reached).
LEMMA NotPrunedItself ==
  ASSUME NEW p, NEW s \in DOMAIN p, NEW I
  PROVE  Pruned(p, s, I) \subseteq DOMAIN p \ {s}
<1>1. Decisions(p, s) = p[s]
  BY DEF Decisions
<1>2. \A k : ~PartAt(p[s], p[s], k)
  BY DEF PartAt
<1> QED
  BY <1>1, <1>2 DEF Pruned

\* terminateStateOnExit (Executor.cpp:2995) keeps the books when no state is
\* waiting in addedStates: every victim is known to the searcher.
LEMMA TerminateOnExitBooks ==
  ASSUME Books, NEW s \in states, NEW I, addedStates = {}, TerminateOnExit(s, I)
  PROVE  /\ Books' /\ addedStates' = {} /\ hand' = hand \ {s}
         /\ states' \subseteq states /\ s \in states'
<1> DEFINE victims == IF s \in isPruned THEN {} ELSE Pruned(path, s, I)
           gone == AtOnce(victims)
<1>1. victims \subseteq Live \ {s}
  BY NotPrunedItself DEF Books, Live
<1>2. gone = (IF MarkPrunedOnly THEN {} ELSE victims) /\ gone \subseteq states \ {s}
  BY <1>1 DEF AtOnce, Live
<1>3. {s} \cap addedStates = {}
  OBVIOUS
<1>4. /\ searcher' = searcher \ gone /\ states' = states \ gone
      /\ addedStates' = addedStates \ gone
      /\ removedStates' = (removedStates \ gone) \cup {s}
      /\ seedMap' = seedMap \ gone /\ ptree' = ptree \ gone
      /\ path' = Detach(path, gone)
      /\ isPruned' = isPruned \cup victims /\ alloc' = alloc
      /\ hand' = hand \ {s} /\ phase' = phase
      /\ fault' = IF phase = "search" /\ ~(gone \subseteq searcher) THEN "assert"
                  ELSE TreesHold({s} \cup gone, Touch({s} \cup gone))
  <2>1. /\ gone \cup ({s} \cap addedStates) = gone
        /\ {s} \ ({s} \cap addedStates) = {s}
        /\ (isPruned \cup victims) \ ({s} \cap addedStates) = isPruned \cup victims
        /\ alloc \ ({s} \cap addedStates) = alloc
    BY <1>3
  <2> HIDE DEF gone, victims
  <2> QED
    BY <2>1, Zenon DEF TerminateOnExit, victims, gone
<1> HIDE DEF gone, victims
<1>5. /\ Typed(path') /\ Antichain(path') /\ Ordered(path')
      /\ DOMAIN path' = DOMAIN path \ gone
  BY <1>4, DetachTyped, DetachAntichain, DetachOrdered, Zenon DEF Books, HeapOK
<1>6. Live' = Live \ gone
  BY <1>4 DEF Live
<1>7. fault' = "none"
  BY <1>2, <1>4, Zenon DEF TreesHold, Touch, Books, Live
<1>8. HeapOK'
  BY <1>1, <1>4, <1>5 DEF Books, HeapOK, Live
<1>9. /\ (addedStates \cap removedStates = {})' /\ (removedStates \subseteq states)'
      /\ (addedStates \cap states = {})'
  BY <1>2, <1>4 DEF Books
<1>10. /\ (Live \subseteq alloc)' /\ (alloc \ Live \subseteq isPruned)'
       /\ (ptree = Live)' /\ (DOMAIN path = Live)' /\ (seedMap \subseteq Live)'
       /\ (isPruned \subseteq alloc)'
       /\ ~MarkPrunedOnly => (isPruned \cap Live = {})'
  BY <1>1, <1>2, <1>4, <1>5, <1>6 DEF Books
<1>11. (phase = "search" => searcher = states)'
  BY <1>4 DEF Books
<1> QED
  BY <1>2, <1>4, <1>5, <1>7, <1>8, <1>9, <1>10, <1>11 DEF Books

\* updateStates (Executor.cpp:2571) keeps the books: the added states become
\* known, the removed ones are deleted; its assertions hold.
LEMMA UpdateStatesBooks ==
  ASSUME Books, NEW cur, UpdateStates(cur), phase' = "search" => phase = "search",
         cur \notin isPruned \/ MarkPrunedOnly
  PROVE  /\ Books' /\ addedStates' = {} /\ removedStates' = {}
         /\ states' = (states \cup addedStates) \ removedStates
<1>1. /\ states' = (states \cup addedStates) \ removedStates
      /\ addedStates' = {} /\ removedStates' = {}
      /\ seedMap' = seedMap \ removedStates /\ ptree' = ptree \ removedStates
      /\ path' = Detach(path, removedStates)
      /\ isPruned' = isPruned \ removedStates /\ alloc' = alloc \ removedStates
      /\ searcher' = (IF phase = "search"
                        THEN (searcher \cup addedStates) \ removedStates
                        ELSE searcher)
      /\ fault' = IF /\ phase = "search" => removedStates \subseteq searcher
                     /\ removedStates \subseteq Live
                    THEN TreesHold(removedStates, Touch(removedStates))
                    ELSE "assert"
  BY DEF UpdateStates
<1>2. /\ Typed(path') /\ Antichain(path') /\ Ordered(path')
      /\ DOMAIN path' = DOMAIN path \ removedStates
  BY <1>1, DetachTyped, DetachAntichain, DetachOrdered, Zenon DEF Books, HeapOK
<1>3. Live' = Live \ removedStates
  BY <1>1 DEF Live
<1>4. fault' = "none"
  BY <1>1, Zenon DEF TreesHold, Touch, Books, Live
<1>5. HeapOK'
  BY <1>1, <1>2 DEF Books, HeapOK
<1>6. /\ (Live \subseteq alloc)' /\ (alloc \ Live \subseteq isPruned)'
      /\ (ptree = Live)' /\ (DOMAIN path = Live)' /\ (seedMap \subseteq Live)'
      /\ (isPruned \subseteq alloc)'
      /\ ~MarkPrunedOnly => (isPruned \cap Live = {})'
  BY <1>1, <1>2, <1>3 DEF Books
<1>7. (phase = "search" => searcher = states)'
  BY <1>1 DEF Books
<1> QED
  BY <1>1, <1>2, <1>4, <1>5, <1>6, <1>7 DEF Books

\* Steps that leave the sets and the trees alone keep the books.
LEMMA SameBooks ==
  ASSUME Books, UNCHANGED <<states, heap>>, fault' = "none",
         searcher' \subseteq State, phase' = "search" => searcher' = states
  PROVE  Books'
<1>1. /\ states' = states /\ addedStates' = addedStates
      /\ removedStates' = removedStates /\ seedMap' = seedMap /\ alloc' = alloc
      /\ ptree' = ptree /\ isPruned' = isPruned /\ path' = path
  BY DEF heap
<1>2. HeapOK'
  BY <1>1 DEF Books, HeapOK
<1>3. Live' = Live
  BY <1>1 DEF Live
<1> QED
  BY <1>1, <1>2, <1>3 DEF Books

-----------------------------------------------------------------------------
(* The invariant holds initially, and every step keeps it.                 *)

\* Before run() the initial state is the only one.
LEMMA InitIInv == Init => IInv
<1> SUFFICES ASSUME Init PROVE IInv
  OBVIOUS
<1>1. Typed(path) /\ Antichain(path) /\ Ordered(path) /\ DOMAIN path = {InitState}
  BY InitPaths DEF Init, PathInit
<1>2. Books
  BY <1>1, InitStateAssumption DEF Init, Books, HeapOK, Live
<1>3. Pointers
  BY InitStateAssumption, Zenon DEF Init, Pointers, ControlOK, Handler, Live
<1> QED
  BY <1>2, <1>3 DEF IInv

\* run() choosing a state, and leaving its loops (Executor.cpp:2760).
LEMMA LoopHeadIInv ==
  ASSUME IInv, ~ExternalTargets,
         \/ SetHaltExecution \/ SeedingDone \/ LeaveLoop
         \/ \E s \in State, h \in Handler, sym \in BOOLEAN : SelectState(s, h, sym)
  PROVE  IInv'
<1> USE DEF IInv
<1>1. CASE SetHaltExecution
  <2>1. Books'
    BY <1>1, SameBooks DEF SetHaltExecution, Books, HeapOK
  <2>2. Pointers'
    BY <1>1 DEF SetHaltExecution, Pointers, ControlOK, heap, instr, Live
  <2> QED
    BY <2>1, <2>2
<1>2. CASE SeedingDone
  <2>1. Books'
    BY <1>2, SameBooks DEF SeedingDone, Books, HeapOK
  <2>2. Pointers'
    BY <1>2 DEF SeedingDone, Pointers, ControlOK, heap, instr, Live
  <2> QED
    BY <2>1, <2>2
<1>3. CASE LeaveLoop
  <2>1. Books'
    BY <1>3, SameBooks DEF LeaveLoop, Books, HeapOK
  <2>2. Pointers'
    BY <1>3 DEF LeaveLoop, Pointers, ControlOK, heap, instr, Live
  <2> QED
    BY <2>1, <2>2
<1>4. ASSUME NEW s \in State, NEW h \in Handler, NEW sym \in BOOLEAN,
             SelectState(s, h, sym)
      PROVE  IInv'
  <2>1. s \in states
    BY <1>4, Zenon DEF SelectState, Books, Pointers, Live
  <2>2. fault' = "none"
    BY <1>4, <2>1, Zenon DEF SelectState, Touch, Books, Live
  <2>3. Books'
    BY <1>4, <2>2, SameBooks DEF SelectState, Books, HeapOK
  <2>4. Pointers'
    BY <1>4, <2>1, NoStateAssumption
      DEF SelectState, Pointers, ControlOK, heap, Live, Handler
  <2> QED
    BY <2>3, <2>4
<1> QED
  BY <1>1, <1>2, <1>3, <1>4

\* The steps of an instruction on the states its handler holds.
LEMMA HandlerIInv ==
  ASSUME IInv, ~ExternalTargets, NEW s \in State, NEW c \in State, NEW i \in Idx,
         NEW I \in SUBSET Idx,
         \/ Fork(s, c, i) \/ ForkTooDeep(s, c, i) \/ Terminate(s)
         \/ TerminateOnExit(s, I)
  PROVE  IInv'
<1> USE DEF IInv
<1>0. pc = "exec" /\ s \in hand /\ s \in Live
  BY Zenon DEF Fork, ForkTooDeep, Terminate, TerminateOnExit, Pointers
<1>1. CASE Fork(s, c, i)
  <2>1. Books' /\ addedStates' = addedStates \cup {c}
    BY <1>0, <1>1, BranchStateBooks DEF Fork
  <2>2. Pointers'
    BY <1>1, <2>1, NoStateAssumption DEF Fork, Pointers, ControlOK, Live, Handler
  <2> QED
    BY <2>1, <2>2
<1>2. CASE ForkTooDeep(s, c, i)
  <2>1. Books' /\ addedStates' = addedStates \ {s}
    BY <1>0, <1>2, BranchTooDeepBooks DEF ForkTooDeep
  <2>2. Pointers'
    BY <1>2, <2>1, NoStateAssumption DEF ForkTooDeep, Pointers, ControlOK, Live, Handler
  <2> QED
    BY <2>1, <2>2
<1>3. CASE Terminate(s)
  <2>1. Books' /\ addedStates' = addedStates \ {s}
    BY <1>0, <1>3, TerminateStateBooks DEF Terminate
  <2>2. Pointers'
    BY <1>3, <2>1, NoStateAssumption DEF Terminate, Pointers, ControlOK, Live, Handler
  <2> QED
    BY <2>1, <2>2
<1>4. CASE TerminateOnExit(s, I)
  <2>1. handler = "exit" /\ addedStates = {} /\ s = current /\ s \in states
    BY <1>0, <1>4, Zenon DEF TerminateOnExit, Pointers
  <2>2. /\ Books' /\ addedStates' = {} /\ hand' = hand \ {s}
        /\ states' \subseteq states /\ s \in states'
    BY <1>4, <2>1, TerminateOnExitBooks
  <2>3. Pointers'
    BY <1>0, <1>4, <2>1, <2>2, NoStateAssumption, Zenon
      DEF TerminateOnExit, Pointers, ControlOK, Live, Handler
  <2> QED
    BY <2>2, <2>3
<1> QED
  BY <1>1, <1>2, <1>3, <1>4

\* Calls, direct and through a symbolic pointer (Executor.cpp:1878, 3077).
LEMMA CallIInv ==
  ASSUME IInv, ~ExternalTargets, NEW s \in State, NEW h \in Handler,
         NEW c \in State, NEW i \in Idx, NEW b \in BOOLEAN,
         \/ CallExternal(s, h) \/ ReturnExternal(b) \/ ResolveTarget(c, i)
         \/ ResolveTooDeep(c, i) \/ ResolveLast(b) \/ InvalidTarget
         \/ EndInstruction
  PROVE  IInv'
<1> USE DEF IInv
<1>0. pc = "exec" /\ current \in states /\ phase \in {"seed", "search"}
  BY DEF CallExternal, ReturnExternal, ResolveTarget, ResolveTooDeep, ResolveLast,
         InvalidTarget, EndInstruction, Pointers
<1>1. CASE CallExternal(s, h)
  <2>1. Books'
    BY <1>1, SameBooks, SMTT(30) DEF CallExternal, Books, HeapOK
  <2>2. Pointers'
    BY <1>0, <1>1, NoStateAssumption
      DEF CallExternal, Pointers, ControlOK, heap, Live, Handler
  <2> QED
    BY <2>1, <2>2, SMTT(30)
<1>2. CASE ReturnExternal(b)
  <2>1. callee = current /\ callee \in states /\ ~symcall
    BY <1>0, <1>2 DEF ReturnExternal, Pointers
  <2>2. Books' /\ addedStates' \subseteq addedStates /\ states' = states
    <3>1. CASE b
      BY <1>2, <2>1, <3>1, TerminateStateBooks, SMTT(30) DEF ReturnExternal, Live
    <3>2. CASE ~b
      <4>1. fault' = "none"
        BY <1>2, <2>1, <3>2, ZenonT(40) DEF ReturnExternal, Touch, Books, Live
      <4> QED
        BY <1>2, <3>2, <4>1, SameBooks DEF ReturnExternal, Books, HeapOK, heap
    <3> QED
      BY <3>1, <3>2
  <2>3. Pointers'
    BY <1>0, <1>2, <2>1, <2>2, NoStateAssumption
      DEF ReturnExternal, Pointers, ControlOK, Live, Handler
  <2> QED
    BY <2>2, <2>3
<1>3. CASE ResolveTarget(c, i)
  <2>1. free \in Live /\ symcall /\ handler = "none" /\ callee = NoState
    BY <1>0, <1>3 DEF ResolveTarget, Pointers
  <2>2. Books' /\ addedStates' = addedStates \cup {c} /\ c \notin Live
    BY <1>3, <2>1, BranchStateBooks DEF ResolveTarget
  <2>3. /\ hand' \in {{free}, {c}} /\ free' \in {free, c} /\ free' \notin hand'
        /\ states' = states
    BY <1>3, <2>1, <2>2, SMTT(30) DEF ResolveTarget
  <2>4. Pointers'
    BY <1>0, <1>3, <2>1, <2>2, <2>3, NoStateAssumption
      DEF ResolveTarget, Pointers, ControlOK, Live, Handler
  <2> QED
    BY <2>2, <2>4
<1>4. CASE ResolveTooDeep(c, i)
  <2>1. free \in Live /\ symcall /\ handler = "none"
    BY <1>0, <1>4 DEF ResolveTooDeep, Pointers
  <2>2. Books' /\ addedStates' = addedStates \ {free}
    BY <1>4, <2>1, BranchTooDeepBooks, SMTT(30) DEF ResolveTooDeep
  <2>3. Pointers'
    BY <1>0, <1>4, <2>1, <2>2, NoStateAssumption
      DEF ResolveTooDeep, Pointers, ControlOK, Live, Handler
  <2> QED
    BY <2>2, <2>3
<1>5. CASE ResolveLast(b)
  <2>1. free \in Live /\ symcall /\ handler = "none" /\ callee = NoState
    BY <1>0, <1>5 DEF ResolveLast, Pointers
  <2>2. CASE b
    <3>1. Books'
      BY <1>5, <2>1, <2>2, TerminateStateBooks, SMTT(30) DEF ResolveLast
    <3>2. Pointers'
      BY <1>0, <1>5, <2>1, <2>2, NoStateAssumption
        DEF ResolveLast, Pointers, ControlOK, Live, Handler
    <3> QED
      BY <3>1, <3>2
  <2>3. CASE ~b
    <3>1. fault' = "none"
      BY <1>5, <2>1, <2>3, ZenonT(40) DEF ResolveLast, Touch, Books
    <3>2. Books'
      BY <1>5, <2>3, <3>1, SameBooks, SMTT(30) DEF ResolveLast, Books, HeapOK
    <3>3. Pointers'
      BY <1>0, <1>5, <2>1, <2>3, NoStateAssumption
        DEF ResolveLast, Pointers, ControlOK, Live, Handler, heap
    <3> QED
      BY <3>2, <3>3
  <2> QED
    BY <2>2, <2>3
<1>6. CASE InvalidTarget
  <2>1. Books' /\ addedStates' = addedStates \ {current}
    BY <1>0, <1>6, TerminateStateBooks DEF InvalidTarget, Live
  <2>2. addedStates' = addedStates
    BY <1>0, <2>1, SMTT(30) DEF Books
  <2>3. Pointers'
    BY <1>0, <1>6, <2>2, NoStateAssumption, SMTT(30)
      DEF InvalidTarget, Pointers, ControlOK, Live, Handler
  <2> QED
    BY <2>1, <2>3
<1>7. CASE EndInstruction
  <2>1. Books'
    BY <1>7, SameBooks DEF EndInstruction, Books, HeapOK
  <2>2. Pointers'
    BY <1>0, <1>7, Zenon DEF EndInstruction, Pointers, ControlOK, heap, Live, Handler
  <2> QED
    BY <2>1, <2>2
<1> QED
  BY <1>1, <1>2, <1>3, <1>4, <1>5, <1>6, <1>7, SMTT(30)

\* The end of an iteration of the loop, and the end of run().
LEMMA LoopTailIInv ==
  ASSUME IInv, NEW b \in BOOLEAN, NEW K \in SUBSET State,
         \/ ProcessTimers(b) \/ CheckMemory(K) \/ EndIteration \/ DumpStates
         \/ FinishDump
  PROVE  IInv'
<1> USE DEF IInv
<1>1. CASE ProcessTimers(b)
  <2>1. current \in states /\ phase \in {"seed", "search"}
    BY <1>1 DEF ProcessTimers, Pointers
  <2>2. Books'
    <3>1. CASE b /\ current \notin removedStates
      BY <1>1, <2>1, <3>1, TerminateStateBooks, SMTT(30) DEF ProcessTimers, Live
    <3>2. CASE ~(b /\ current \notin removedStates)
      BY <1>1, <3>2, SameBooks, SMTT(30) DEF ProcessTimers, Books, HeapOK
    <3> QED
      BY <3>1, <3>2
  <2>3. Pointers'
    BY <1>1, <2>1 DEF ProcessTimers, Pointers, ControlOK, instr, Live
  <2> QED
    BY <2>2, <2>3
<1>2. CASE CheckMemory(K)
  <2>1. current \in states /\ phase \in {"seed", "search"}
    BY <1>2 DEF CheckMemory, Pointers
  <2>2. Books'
    BY <1>2, TerminateStateBooks, SMTT(30) DEF CheckMemory, Live
  <2>3. Pointers'
    BY <1>2, <2>1 DEF CheckMemory, Pointers, ControlOK, instr, Live
  <2> QED
    BY <2>2, <2>3
<1>3. CASE EndIteration
  <2>1. current \in states
    BY <1>3 DEF EndIteration, Pointers
  <2>2. current \notin isPruned \/ MarkPrunedOnly
    BY <2>1 DEF Books, Live
  <2>3. Books' /\ addedStates' = {} /\ removedStates' = {}
    BY <1>3, <2>2, UpdateStatesBooks, SMTT(30) DEF EndIteration
  <2>4. Pointers'
    BY <1>3, <2>3 DEF EndIteration, Pointers, ControlOK, Live
  <2> QED
    BY <2>3, <2>4
<1>4. CASE DumpStates
  <2>1. pc = "select" /\ phase = "dump" /\ addedStates = {} /\ removedStates = {}
    BY <1>4 DEF DumpStates, Pointers
  <2>2. CASE DumpStatesOnHalt /\ states # {}
    <3>1. TerminateState(states) /\ pc' = "update" /\ phase' = "dump"
          /\ UNCHANGED <<states, searcher, instr, haltExecution>>
      BY <1>4, <2>1, <2>2 DEF DumpStates
    <3>2. /\ Books' /\ addedStates' = {}
          /\ removedStates' = removedStates \cup (states \ addedStates)
      BY <2>1, <3>1, TerminateStateBooks, SMTT(30) DEF Live
    <3>3. Pointers'
      BY <2>1, <3>1, <3>2 DEF Pointers, ControlOK, instr, Live
    <3> QED
      BY <3>2, <3>3
  <2>3. CASE ~(DumpStatesOnHalt /\ states # {})
    <3>1. UNCHANGED <<heap, fault>> /\ pc' = "done" /\ phase' = "done"
          /\ UNCHANGED <<states, searcher, instr, haltExecution>>
      BY <1>4, <2>1, <2>3, SMTT(30) DEF DumpStates
    <3>2. Books'
      BY <3>1, SameBooks, SMTT(30) DEF Books, HeapOK
    <3>3. Pointers'
      BY <2>1, <2>3, <3>1 DEF Pointers, ControlOK, instr, heap, Live
    <3> QED
      BY <3>2, <3>3
  <2> QED
    BY <2>2, <2>3
<1>5. CASE FinishDump
  <2>1. NoState \notin isPruned
    BY NoStateAssumption DEF Books, HeapOK
  <2>2. /\ Books' /\ addedStates' = {} /\ removedStates' = {}
        /\ states' = (states \cup addedStates) \ removedStates
    BY <1>5, <2>1, UpdateStatesBooks DEF FinishDump
  <2>3. Pointers'
    BY <1>5, <2>2, Zenon DEF FinishDump, Pointers, ControlOK, instr, Live
  <2> QED
    BY <2>2, <2>3
<1> QED
  BY <1>1, <1>2, <1>3, <1>4, <1>5

\* Every step of run() and of a handler keeps the invariant.
LEMMA NextIInv == ~ExternalTargets /\ IInv /\ [Next]_vars => IInv'
<1> SUFFICES ASSUME ~ExternalTargets, IInv, [Next]_vars PROVE IInv'
  OBVIOUS
<1>1. CASE UNCHANGED vars
  <2>1. Books'
    BY <1>1, SameBooks DEF vars, IInv, Books, HeapOK
  <2>2. Pointers'
    BY <1>1, ZenonT(40) DEF vars, heap, instr, IInv, Pointers, ControlOK, Live
  <2> QED
    BY <2>1, <2>2, SMTT(30) DEF IInv
<1>2. CASE Instruction
  <2>1. InitState \in State /\ 1 \in Idx /\ {} \in SUBSET Idx
        /\ "none" \in Handler /\ TRUE \in BOOLEAN
    BY InitStateAssumption, BoundAssumption DEF Idx, Handler
  <2>2. ASSUME NEW s \in State, NEW c \in State, NEW i \in Idx,
               Fork(s, c, i) \/ ForkTooDeep(s, c, i)
        PROVE  IInv'
    BY <2>1, <2>2, HandlerIInv
  <2>3. ASSUME NEW s \in State, Terminate(s) PROVE IInv'
    BY <2>1, <2>3, HandlerIInv
  <2>4. ASSUME NEW s \in State, NEW I \in SUBSET Idx, TerminateOnExit(s, I)
        PROVE  IInv'
    BY <2>1, <2>4, HandlerIInv
  <2>5. ASSUME NEW s \in State, NEW h \in Handler, CallExternal(s, h) PROVE IInv'
    BY <2>1, <2>5, CallIInv, Zenon
  <2>6. ASSUME NEW b \in BOOLEAN, ReturnExternal(b) \/ ResolveLast(b) PROVE IInv'
    BY <2>1, <2>6, CallIInv
  <2>7. ASSUME NEW c \in State, NEW i \in Idx,
               ResolveTarget(c, i) \/ ResolveTooDeep(c, i)
        PROVE  IInv'
    BY <2>1, <2>7, CallIInv, Zenon
  <2>8. ASSUME InvalidTarget \/ EndInstruction PROVE IInv'
    BY <2>1, <2>8, CallIInv, Zenon
  <2> QED
    BY <1>2, <2>2, <2>3, <2>4, <2>5, <2>6, <2>7, <2>8 DEF Instruction
<1>3. CASE MainLoop
  BY <1>3, LoopHeadIInv, LoopTailIInv, Zenon DEF MainLoop
<1>4. CASE SetHaltExecution
  BY <1>4, LoopHeadIInv
<1> QED
  BY <1>1, <1>2, <1>3, <1>4 DEF Next, Stopped

-----------------------------------------------------------------------------
\* The invariant holds as long as run() does.
LEMMA RunInvariant == ~ExternalTargets => (Spec => []IInv)
<1> SUFFICES ASSUME ~ExternalTargets PROVE Spec => []IInv
  OBVIOUS
<1>1. IInv /\ [Next]_vars => IInv'
  BY NextIInv
<1> QED
  BY InitIInv, <1>1, PTL DEF Spec

\* The sets, maps and registers of run() keep their types.
THEOREM TypesCorrect == ~ExternalTargets => (Spec => []TypeOK)
<1>1. IInv => TypeOK
  BY DEF IInv, Books, HeapOK, Pointers, ControlOK, TypeOK, PathTypeOK
<1> QED
  BY <1>1, RunInvariant, PTL

\* For any number of states, any forks, terminations, prunings, timeouts and
\* memory kills: no assertion of updateStates, of the searcher or of the two
\* trees fails, and no deleted state is used.
THEOREM NothingFaults == ~ExternalTargets => (Spec => []NoFault)
<1>1. IInv => NoFault
  BY DEF IInv, Books, NoFault
<1> QED
  BY <1>1, RunInvariant, PTL

\* No state is both added and removed, deleted while run() can reach it, or
\* left behind when run() returns, but for the pruned ones.
THEOREM StatesStayAccounted == ~ExternalTargets => (Spec => []StatesAccounted)
<1>1. IInv => AddedRemovedDisjoint /\ NoLostState
  BY DEF IInv, Books, AddedRemovedDisjoint, NoLostState
<1>2. IInv => NothingLeftBehind
  BY DEF IInv, NothingLeftBehind, Books, Pointers, Live
<1> QED
  BY <1>1, <1>2, RunInvariant, PTL DEF StatesAccounted

\* The process tree and the branch tree hold the live states, at their leaves,
\* and the indices along the branch tree are in order.
THEOREM TreesStayRight == ~ExternalTargets => (Spec => []TreesMatchStates)
<1>1. IInv => TreesMatchStates
  BY DEF IInv, Books, TreesMatchStates, LeavesOnly, IndicesOrdered
<1> QED
  BY <1>1, RunInvariant, PTL

\* selectState() and the seeds know exactly the states they should.
THEOREM SelectionStaysLive == ~ExternalTargets => (Spec => []SelectsLive)
<1>1. IInv => SelectsLive
  BY DEF IInv, Books, SelectsLive
<1> QED
  BY <1>1, RunInvariant, PTL

\* A state that terminateStateAtOnce() has pruned does not run again: it is in
\* no set of run(), no handler holds it and it is not the current state.
THEOREM PrunedStayStopped == ~ExternalTargets => (Spec => []PrunedStatesStop)
<1>1. IInv => PrunedStatesStop
  <2> SUFFICES ASSUME Books, Pointers PROVE PrunedStatesStop
    BY DEF IInv
  <2>1. hand \subseteq Live
    BY DEF Pointers
  <2>2. current \in Live \cup {NoState}
    BY DEF Pointers, ControlOK, Live
  <2> QED
    BY <2>1, <2>2, NoStateAssumption DEF PrunedStatesStop, Books, HeapOK
<1> QED
  BY <1>1, RunInvariant, PTL
=============================================================================
