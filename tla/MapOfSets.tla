----------------------------- MODULE MapOfSets -----------------------------
(***************************************************************************)
(* MapOfSets.h, the trie in which CexCachingSolver keeps its entries: a    *)
(* path from the root spells a set in increasing order.  The elements are  *)
(* numbers, and a set is given as the sequence in which std::set is        *)
(* iterated.  A predicate on values is the set of the values it accepts; a *)
(* search yields the empty set or the singleton of the value it found.     *)
(***************************************************************************)
EXTENDS Naturals, Sequences, SequencesExt

InOrder(S) == SetToSortSeq(S, <)

EmptyNode == [end |-> FALSE, value |-> {}, children |-> <<>>]

RECURSIVE Insert(_, _, _)
Insert(n, s, v) ==
  IF s = <<>> THEN [n EXCEPT !.end = TRUE, !.value = v]
  ELSE LET k == Head(s)
           child == IF k \in DOMAIN n.children THEN n.children[k] ELSE EmptyNode
       IN  [n EXCEPT !.children =
              [c \in DOMAIN @ \cup {k} |-> IF c = k THEN Insert(child, Tail(s), v) ELSE @[c]]]

RECURSIVE Lookup(_, _)
Lookup(n, s) ==
  IF s = <<>> THEN IF n.end THEN {n.value} ELSE {}
  ELSE IF Head(s) \in DOMAIN n.children THEN Lookup(n.children[Head(s)], Tail(s)) ELSE {}

\* What is left of the sequence s from its first element not below k.
LowerBound(s, k) == SelectSeq(s, LAMBDA x : x >= k)

RECURSIVE FindSubset(_, _, _)
RECURSIVE ScanChildren(_, _, _, _)
FindSubset(n, s, good) ==
  IF n.end /\ n.value \in good THEN {n.value}
  ELSE IF s = <<>> THEN {}
  ELSE ScanChildren(n, LowerBound(InOrder(DOMAIN n.children), Head(s)), s, good)

\* Mutant: only the first child is tried.
ScanFirstMatch(n, ks, it, good) ==
  LET match == {i \in DOMAIN it : ks # <<>> /\ it[i] = Head(ks)}
  IN  UNION {FindSubset(n.children[it[i]], SubSeq(it, i + 1, Len(it)), good) : i \in match}

\* The loop of findSubset: ks are the children from kbegin on, it the elements
\* still to be matched.
ScanChildren(n, ks, it, good) ==
  IF ks = <<>> \/ LowerBound(it, Head(ks)) = <<>> THEN {}
  ELSE LET at == LowerBound(it, Head(ks))
           rest == Tail(at)
           found == FindSubset(n.children[Head(ks)], rest, good)
       IN  IF Head(at) # Head(ks) THEN ScanChildren(n, LowerBound(ks, Head(at)), at, good)
           ELSE IF found # {} \/ rest = <<>> THEN found
           ELSE ScanChildren(n, LowerBound(ks, Head(rest)), rest, good)

\* The first of the searches that finds something.
FirstFound(searches) ==
  LET hits == SelectSeq(searches, LAMBDA r : r # {})
  IN  IF hits = <<>> THEN {} ELSE Head(hits)

RECURSIVE FindSuperset(_, _, _)
FindSuperset(n, s, good) ==
  LET ks == InOrder(DOMAIN n.children)
      below == FirstFound([i \in DOMAIN ks |-> FindSuperset(n.children[ks[i]], s, good)])
  IN  IF s = <<>> /\ n.end /\ n.value \in good THEN {n.value}
      ELSE IF below # {} \/ s = <<>> THEN below
      ELSE IF Head(s) \in DOMAIN n.children
           THEN FindSuperset(n.children[Head(s)], Tail(s), good)
           ELSE {}
=============================================================================
