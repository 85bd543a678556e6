-------------------------- MODULE MCSolverCaches --------------------------
(***************************************************************************)
(* A two byte array A and a one byte array B, and the conditions A[0],     *)
(* A[1], A[B[0]] and their negations.                                      *)
(***************************************************************************)
EXTENDS SolverRoutines, FiniteSetsExt

Trie == INSTANCE MapOfSets

MCSize == [a \in {"A", "B"} |-> IF a = "A" THEN 2 ELSE 1]
Conditions == {"a0", "a1", "ab"}
MCExprs == Conditions \X BOOLEAN
MCNeg == [e \in MCExprs |-> <<e[1], ~e[2]>>]
MCReads ==
  [e \in MCExprs |->
     CASE e[1] = "a0" -> {<<"A", 0>>}
       [] e[1] = "a1" -> {<<"A", 1>>}
       [] OTHER       -> {<<"B", 0>>, <<"A", Symbolic>>}]
Holds(c, v) ==
  CASE c = "a0" -> v["A"][0] = 1
    [] c = "a1" -> v["A"][1] = 1
    [] OTHER    -> v["A"][v["B"][0]] = 1
MCModels == [e \in MCExprs |-> {v \in Valuations : Holds(e[1], v) = e[2]}]
MCSmaller == {e \in MCExprs : e[1] = "a0" <=> e[2]}
MCPreferences == {<<"ab", TRUE>>}

\* The last answer does not influence what follows; ImplementsOracle is checked
\* on every step, also on those that only differ in it.
View == <<paths, tryAll, store, asked, gone>>
---------------------------------------------------------------------------
\* The order in which std::set iterates the expressions of a key.
Rank(e) ==
  (CASE e[1] = "a0" -> 1 [] e[1] = "ab" -> 3 [] OTHER -> 5) + (IF e[2] THEN 1 ELSE 0)
Ranked(key) == Trie!InOrder({Rank(e) : e \in key})

TrieOf(keys) ==
  FoldSet(LAMBDA k, n : Trie!Insert(n, Ranked(k), k), Trie!EmptyNode, keys)

\* The trie behind the counterexample cache answers as a map of sets would, for
\* the keys the live states may ask for: findSubset and findSuperset find an
\* entry that the predicate accepts exactly when there is one, and it is one.
TrieFinds ==
  LET keys == DOMAIN store.map
      root == TrieOf(keys)
      null == {k \in keys : store.map[k] = Null}
      Agrees(found, expected) == IF expected = {} THEN found = {} ELSE \E x \in expected : found = {x}
  IN  \A pc \in paths : \A e \in Exprs :
        LET key == KeyOf(Members(pc), e)
            good == null \cup {k \in keys \ null : Satisfies(store.map[k], key)}
        IN  /\ Trie!Lookup(root, Ranked(key)) = {key} \cap keys
            /\ Agrees(Trie!FindSuperset(root, Ranked(key), keys \ null),
                      {k \in keys \ null : key \subseteq k})
            /\ Agrees(Trie!FindSubset(root, Ranked(key), good), {k \in good : k \subseteq key})

\* The worklist ends with the least set of constraints that nothing outside it
\* touches, each once, in whatever order the path added them.
WorklistIsLeast ==
  \A pc \in paths : \A e \in Exprs :
    LET required == GetIndependentConstraints(pc, e)
    IN  /\ Members(required) = RequiredConstraints(Members(pc), e)
        /\ Len(required) <= Len(pc)

\* getRange returns the least and the greatest value that the three bit number
\* B[0] A[1] A[0] can have on the path.
RangeIsTight ==
  \A pc \in paths :
    LET S == {v["A"][0] + 2 * v["A"][1] + 4 * v["B"][0] : v \in Satisfying(Members(pc))}
    IN  GetRange(S, 3) = <<Min(S), Max(S)>>
=============================================================================
