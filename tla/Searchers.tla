----------------------------- MODULE Searchers -----------------------------
(***************************************************************************)
(* The searchers (Searcher.cpp), stacked as constructUserSearcher does:    *)
(* one base searcher or several interleaved ones, then batching, then a    *)
(* merging searcher, then iterative deepening by time; and the executor's  *)
(* loop that selects a state, runs one instruction of it, and updates the  *)
(* searcher and the process tree.                                          *)
(*                                                                         *)
(* States are numbers, ordered as their addresses are.  at[s] is the merge *)
(* point state s is about to call, 0 if none, and -m after terminateState  *)
(* stepped it back from merge point m.  Time budgets, random numbers and   *)
(* weights are nondeterministic choices.                                   *)
(***************************************************************************)
EXTENDS ProcessTree, Sequences, SequencesExt

CONSTANTS
  MaxStates, \* the states are 1..MaxStates
  MaxForks,  \* bound on forks
  Points,    \* the klee_merge calls of the program, as numbers from 1
  Configs    \* [kinds, batch, merge, deep, adjacent, joins]: see below

\* kinds: the base searchers; batch, merge, deep: what is stacked on them;
\* adjacent: call 2 directly follows call 1; joins: the calls begin a block,
\* so that the instruction before one in the path is not before it in the code.

ASSUME BoundsAssumption == MaxStates \in Nat \ {0} /\ MaxForks \in Nat

VARIABLES
  cfg,
  states, tree, ptreeNode,  \* of the executor
  se,       \* the searcher: see SearcherNew
  current,  \* the state selected, 0 between two iterations
  forks,
  stray     \* a state was killed that a searcher kept aside

vars == <<cfg, states, tree, ptreeNode, se, current, forks, stray>>

Sorted(S) == SetToSortSeq(S, <)

\* pools: the states of each base searcher; index: of InterleavedSearcher;
\* last: of BatchingSearcher; held: statesAtMerge; paused: pausedStates;
\* removed: the executor's removedStates; fault: a failed assert.
SearcherNew(s) ==
  [pools |-> [k \in DOMAIN cfg.kinds |-> <<s>>], index |-> 1, last |-> 0, held |-> {},
   paused |-> {}, removed |-> {}, at |-> [x \in 1..MaxStates |-> 0], fault |-> FALSE]

Init ==
  /\ cfg \in Configs
  /\ states = {1} /\ tree = PTreeNew(1) /\ ptreeNode = [s \in 1..MaxStates |-> IF s = 1 THEN 1 ELSE 0]
  /\ se = SearcherNew(1)
  /\ current = 0 /\ forks = 0 /\ stray = FALSE

-----------------------------------------------------------------------------
(* Base searchers: a vector, or a tree for the weighted one.               *)

TakeOut(kind, pool, s) ==
  IF kind = "DFS" /\ Last(pool) = s THEN Front(pool) ELSE RemoveFirst(pool, s)

\* RandomPathSearcher has no states of its own.
PoolUpdate(kind, pool, added, removed) ==
  IF kind = "RandomPath" THEN pool
  ELSE FoldLeft(LAMBDA p, s : TakeOut(kind, p, s), pool \o Sorted(added), Sorted(removed))

\* "invalid state removed", and the asserts of DiscretePDF.
PoolFails(kind, pool, cur, added, removed) ==
  /\ kind # "RandomPath"
  /\ \/ ~(removed \subseteq ToSet(pool) \cup added)
     \/ /\ kind = "Weighted"
        /\ \/ added \cap ToSet(pool) # {}
           \/ cur # 0 /\ cur \notin removed \cup ToSet(pool)

InterleavedUpdate(x, cur, added, removed) ==
  LET fails == \E k \in DOMAIN cfg.kinds : PoolFails(cfg.kinds[k], x.pools[k], cur, added, removed)
  IN IF fails \/ x.fault THEN [x EXCEPT !.fault = TRUE]
     ELSE [x EXCEPT !.pools = [k \in DOMAIN cfg.kinds |->
                                 PoolUpdate(cfg.kinds[k], @[k], added, removed)]]

\* empty() of InterleavedSearcher asks the first one.
BaseEmpty(x) == IF cfg.kinds[1] = "RandomPath" THEN states = {} ELSE x.pools[1] = <<>>

NextIndex(k) == IF k = 1 THEN Len(cfg.kinds) ELSE k - 1

\* Selecting is a set of choices [s, x]: the state and the searcher after it.
InterleavedSelect(x) ==
  LET k == x.index
      kind == cfg.kinds[k]
      y == [x EXCEPT !.index = NextIndex(@)]
      from == CASE kind = "RandomPath" -> Ends(tree, 1)
                [] kind = "DFS" /\ x.pools[k] # <<>> -> {Last(x.pools[k])}
                [] OTHER -> ToSet(x.pools[k])
  IN IF from \subseteq {0} THEN {[s |-> 0, x |-> [y EXCEPT !.fault = TRUE]]}
     ELSE {[s |-> s, x |-> y] : s \in from}

-----------------------------------------------------------------------------
(* BatchingSearcher.                                                       *)

\* Mutant: the state of the batch is kept when it is removed.
BatchingUpdateKeeps(x, cur, added, removed) == InterleavedUpdate(x, cur, added, removed)

BatchingUpdate(x, cur, added, removed) ==
  InterleavedUpdate([x EXCEPT !.last = IF @ \in removed THEN 0 ELSE @], cur, added, removed)

\* The batch goes on, or its budget is used up.
BatchingSelect(x) ==
  IF ~cfg.batch THEN InterleavedSelect(x)
  ELSE {[s |-> c.s, x |-> [c.x EXCEPT !.last = c.s]] : c \in InterleavedSelect(x)}
       \cup (IF x.last = 0 THEN {} ELSE {[s |-> x.last, x |-> x]})

-----------------------------------------------------------------------------
(* The merging searchers.  held is a set of states; BumpMergingSearcher    *)
(* has at most one of them for a merge point.                              *)

\* ++pc
Past(m) ==
  CASE m < 0 -> IF cfg.joins THEN 0 ELSE -m
    [] m = 1 /\ cfg.adjacent -> 2
    [] OTHER -> 0

\* stepBack(): to the last instruction run, which is before call 1 for a state
\* that was moved on to call 2.
Back(m) == IF m <= 0 THEN m ELSE IF cfg.adjacent THEN -1 ELSE -m

\* executor.terminateState
Terminated(x, S) ==
  [x EXCEPT !.removed = @ \cup S,
            !.at = [s \in DOMAIN @ |-> IF s \in S THEN Back(@[s]) ELSE @[s]]]

MergeEmpty(x) == BaseEmpty(x) /\ x.held = {}

\* selectState() of a searcher that is empty, or after a failed assert.
Lost(x) == {[s |-> 0, x |-> [x EXCEPT !.fault = TRUE]]}

\* One state steps past the merge point and goes back to the base searcher.
Released(x, s) ==
  BatchingUpdate([x EXCEPT !.held = @ \ {s}, !.at[s] = Past(@)], 0, {s}, {})

\* Merges the states todo of one point, as far as the merges succeed.
RECURSIVE MergePoint(_, _)
MergePoint(x, todo) ==
  IF todo = {} THEN {x}
  ELSE LET base == Min(todo)
       IN UNION {MergePoint(Released(Terminated(x, gone), base), todo \ (gone \cup {base}))
                 : gone \in SUBSET (todo \ {base})}

\* merges is a map: NULL, of states stepped back, is its first key.
RECURSIVE MergeAll(_, _)
MergeAll(x, keys) ==
  IF keys = {} THEN {x}
  ELSE LET m == Min(keys)
       IN UNION {MergeAll(y, keys \ {m}) : y \in MergePoint(x, {s \in x.held : Max({0, x.at[s]}) = m})}

RECURSIVE MergingSelect(_)
MergingSelect(x) ==
  IF x.fault \/ MergeEmpty(x) THEN Lost(x)
  ELSE IF BaseEmpty(x)
  THEN UNION {MergingSelect(y) : y \in MergeAll(x, {Max({0, x.at[s]}) : s \in x.held})}
  ELSE UNION {IF c.s # 0 /\ c.x.at[c.s] > 0
              THEN MergingSelect([BatchingUpdate(c.x, c.s, {}, {c.s}) EXCEPT !.held = @ \cup {c.s}])
              ELSE {c}
              : c \in BatchingSelect(x)}

\* A state at a merge point: kept, merged into the one that waits there, or
\* kept instead of it.
Bumps(x, s) ==
  LET m == x.at[s]
      y == BatchingUpdate(x, 0, {}, {s})
      waits == {w \in x.held : x.at[w] = m}
  IN IF waits = {} THEN {[y EXCEPT !.held = @ \cup {s}]}
     ELSE {BatchingUpdate(Terminated(y, {s}), 0, {s}, {}),
           Released([y EXCEPT !.held = @ \cup {s}], CHOOSE w \in waits : TRUE)}

RECURSIVE BumpSelect(_)
BumpSelect(x) ==
  LET first == CHOOSE s \in x.held : \A w \in x.held : x.at[s] <= x.at[w]
      y == IF BaseEmpty(x) THEN Released(x, first) ELSE x
  IN IF x.fault \/ MergeEmpty(x) THEN Lost(x)
     ELSE UNION {IF c.s # 0 /\ c.x.at[c.s] > 0 THEN UNION {BumpSelect(z) : z \in Bumps(c.x, c.s)}
                 ELSE {c}
                 : c \in BatchingSelect(y)}

\* Mutant: MergingSearcher does not look for removed states at merge points.
MergeUpdateBelow(x, cur, added, removed) == BatchingUpdate(x, cur, added, removed)

\* Only MergingSearcher looks for removed states at merge points.
MergeUpdate(x, cur, added, removed) ==
  IF cfg.merge = "merge"
  THEN BatchingUpdate([x EXCEPT !.held = @ \ removed], cur, added, removed \ x.held)
  ELSE BatchingUpdate(x, cur, added, removed)

MergeSelect(x) ==
  CASE cfg.merge = "none" -> BatchingSelect(x)
    [] cfg.merge = "merge" -> MergingSelect(x)
    [] cfg.merge = "bump" -> BumpSelect(x)

-----------------------------------------------------------------------------
(* IterativeDeepeningTimeSearcher.                                         *)

\* Mutant: paused states are not given back.
ResumedNever(x) == x

\* The paused states are given back once the searcher below is empty.
Resumed(x) ==
  IF ~x.fault /\ MergeEmpty(x) THEN MergeUpdate([x EXCEPT !.paused = {}], 0, x.paused, {}) ELSE x

\* Mutant: a state over its time is paused and left in the searcher below.
PausedTwice(x, cur) == [x EXCEPT !.paused = @ \cup {cur}]

Paused(x, cur) == MergeUpdate([x EXCEPT !.paused = @ \cup {cur}], 0, {}, {cur})

\* What update() may lead to: current is over its time, or not.  A removed
\* state that is paused is erased through the iterator of another set.
DeepUpdate(x, cur, added, removed) ==
  LET y == MergeUpdate(x, cur, added, removed)
  IN IF ~cfg.deep THEN {y}
     ELSE IF removed \cap x.paused # {} THEN {[x EXCEPT !.fault = TRUE]}
     ELSE {Resumed(y)} \cup (IF cur \in removed \/ y.fault THEN {} ELSE {Resumed(Paused(y, cur))})

-----------------------------------------------------------------------------
(* The executor.                                                           *)

Select ==
  /\ current = 0 /\ states # {} /\ ~se.fault
  /\ \E c \in MergeSelect(se) : current' = c.s /\ se' = c.x
  /\ UNCHANGED <<cfg, states, tree, ptreeNode, forks, stray>>

RemoveAll(t, nodes) == FoldSet(LAMBDA n, u : RemoveNode(u, n), t, nodes)

\* The states kept aside that update() does not find there.
Overlooked == se.paused \cup (IF cfg.merge = "bump" THEN se.held ELSE {})

\* updateStates(): t and node are the tree and the states' nodes after the
\* instruction, dead the states it or the memory limit terminated, at where the
\* states are.
UpdateStates(t, node, added, dead, at) ==
  /\ \E y \in DeepUpdate([se EXCEPT !.at = at], current, added, dead) :
       se' = [y EXCEPT !.removed = {},
                       !.at = [s \in DOMAIN @ |-> IF s \in dead THEN 0 ELSE @[s]]]
  /\ states' = (states \cup added) \ dead
  /\ tree' = RemoveAll(t, {node[s] : s \in dead})
  /\ ptreeNode' = [s \in DOMAIN node |-> IF s \in states' THEN node[s] ELSE 0]
  /\ stray' = (stray \/ dead \cap Overlooked # {})
  /\ current' = 0
  /\ UNCHANGED cfg

\* Where an instruction may lead: a merge call is one of Points.
Reached == IF cfg.merge = "none" THEN {0} ELSE IF cfg.adjacent THEN {0, 1} ELSE {0} \cup Points

\* The states killed over the memory limit are any of those known to run().
Step ==
  /\ current # 0
  /\ \E m \in Reached, kills \in SUBSET states :
       UpdateStates(tree, ptreeNode, {}, kills \cup se.removed, [se.at EXCEPT ![current] = m])
  /\ UNCHANGED forks

\* The state ends: it returned from main, or failed.
Finish ==
  /\ current # 0
  /\ \E kills \in SUBSET states :
       UpdateStates(tree, ptreeNode, {}, kills \cup se.removed \cup {current}, se.at)
  /\ UNCHANGED forks

\* fork(); the new state may be terminated in the same instruction, before
\* the searcher knows of it.
Fork ==
  /\ current # 0 /\ forks < MaxForks /\ states # 1..MaxStates
  /\ forks' = forks + 1
  /\ \E s \in {Min(1..MaxStates \ states)}, m \in Reached, n \in Reached, dies \in BOOLEAN,
        kills \in SUBSET states :
       LET i == FreshNode(tree)
           t == Split(tree, ptreeNode[current], s, current)
           node == [ptreeNode EXCEPT ![s] = i, ![current] = i + 1]
       IN UpdateStates(IF dies THEN RemoveNode(t, i) ELSE t, node,
                       IF dies THEN {} ELSE {s}, kills \cup se.removed,
                       [se.at EXCEPT ![current] = m, ![s] = IF dies THEN 0 ELSE n])

\* haltExecution: the searcher is deleted and the states are dumped.
Halt ==
  /\ current = 0 /\ states # {} /\ ~se.fault
  /\ se' = [SearcherNew(1) EXCEPT !.pools = [k \in DOMAIN @ |-> <<>>]]
  /\ states' = {} /\ tree' = RemoveAll(tree, {ptreeNode[s] : s \in states})
  /\ ptreeNode' = [s \in DOMAIN ptreeNode |-> 0]
  /\ UNCHANGED <<cfg, current, forks, stray>>

Next == Select \/ Step \/ Finish \/ Fork \/ Halt

Spec == Init /\ [][Next]_vars

\* A step in which the state that runs is terminated.
Ended == current # 0 /\ current \notin states'

\* Weak fairness of the loop and strong fairness of Ended, with their ENABLED
\* written out: run() goes on, and while it does the paths come to their ends.
FairSpec ==
  /\ Spec
  /\ []<>(states = {} \/ se.fault) \/ []<><<TRUE>>_current
  /\ []<>(current # 0) => []<><<Ended>>_vars

-----------------------------------------------------------------------------
(* Properties.                                                             *)

Pooled == {k \in DOMAIN cfg.kinds : cfg.kinds[k] # "RandomPath"}

\* RandomPathSearcher selects paused states too, which the searchers
\* interleaved with it no longer know.
Leaky == cfg.deep /\ Pooled \notin {{}, DOMAIN cfg.kinds}

\* Between two iterations of run() every state of the executor is known once:
\* to each base searcher, or to the merging searcher, or to the deepening one;
\* and they know no other state, so none is lost and none is a deleted one.  The
\* state of a batch is one that the base searcher would select.
HeldOnce ==
  current = 0 /\ ~se.fault
    => /\ se.held \cap se.paused = {}
       /\ \A k \in Pooled :
            /\ Len(se.pools[k]) = Cardinality(ToSet(se.pools[k]))
            /\ ToSet(se.pools[k]) = states \ (se.held \cup se.paused)
       /\ se.held \cup se.paused \subseteq states
       /\ se.last # 0 =>
            se.last \in states \ (se.held \cup (IF Pooled = DOMAIN cfg.kinds THEN se.paused ELSE {}))

\* run() executes a state that is neither kept aside nor terminated.  The two
\* exceptions are the code's: BumpMergingSearcher puts a merged state back, and
\* a second merge round in one selectState() steps a terminated state forward.
RunsLive ==
  current # 0
    => /\ current \in states
       /\ current \notin se.held
       /\ Pooled = DOMAIN cfg.kinds => current \notin se.paused
       /\ current \in se.removed => cfg.merge = "bump" \/ (cfg.adjacent /\ cfg.joins)

\* The asserts of the searchers ("invalid state removed" and those of
\* DiscretePDF) fail only when a state was killed that BumpMergingSearcher or
\* IterativeDeepeningTimeSearcher keeps aside, or paused states leak.
FaultsExplained == se.fault => stray \/ Leaky

\* The random walk from the root of the process tree ends at the executor's
\* states, at each of them, and never at a NULL node; the nodes of the states
\* hold them; and nothing is left of the tree when no state is.
TreeLeads ==
  /\ states = {} <=> DOMAIN tree = {}
  /\ states # {} => Ends(tree, 1) = states
  /\ \A s \in states : ptreeNode[s] # 0 /\ tree[ptreeNode[s]].data = s

\* Every state is run to its end: what is paused or waits at a merge point is
\* given back, so the search ends, if no assert fails as FaultsExplained says.
SearchEnds == <>(states = {} \/ (se.fault /\ (stray \/ Leaky)))
=============================================================================
