---------------------------- MODULE MCSearchers ----------------------------
(***************************************************************************)
(* Searchers for TLC.  RandomPathSearcher under a merging searcher is left *)
(* out: there selectState() need not return.                               *)
(***************************************************************************)
EXTENDS Searchers

Config(ks, b, m, d, a, j) ==
  [kinds |-> ks, batch |-> b, merge |-> m, deep |-> d, adjacent |-> a, joins |-> j]

MCConfigs ==
  {Config(ks, d, "none", d, FALSE, FALSE) :
     ks \in {<<"DFS">>, <<"Weighted">>, <<"RandomPath">>, <<"RandomPath", "Random">>},
     d \in BOOLEAN}
  \cup {Config(<<"DFS", "Weighted">>, TRUE, "none", TRUE, FALSE, FALSE)}
  \cup {Config(ks, ~d, m, d, FALSE, FALSE) :
          ks \in {<<"DFS">>, <<"Random", "Weighted">>}, m \in {"merge", "bump"}, d \in BOOLEAN}
  \cup {Config(<<"Random">>, TRUE, m, FALSE, TRUE, j) : m \in {"merge", "bump"}, j \in BOOLEAN}
=============================================================================
