--------------------------- MODULE SolverRoutines ---------------------------
(***************************************************************************)
(* Two loops of the solver library as the code runs them: the worklist of  *)
(* getIndependentConstraints in IndependentSolver.cpp and the binary       *)
(* searches of Solver::getRange.                                           *)
(***************************************************************************)
EXTENDS SolverCaches

\* IndependentElementSet::add.
AddElements(x, y) ==
  LET whole == x.whole \cup y.whole
  IN  [whole |-> whole, elements |-> {r \in x.elements \cup y.elements : r[1] \notin whole}]

\* One pass over the worklist: what stays on it, the constraints taken, the
\* elements they add, and whether any was new.
RECURSIVE Pass(_, _)
Pass(todo, w) ==
  IF todo = <<>> THEN w
  ELSE LET c == Head(todo)
           more == AddElements(w.closure, ElementSet(c))
       IN  IF Intersects(ElementSet(c), w.closure)
           THEN Pass(Tail(todo), [w EXCEPT !.closure = more, !.result = Append(@, c),
                                           !.done = @ /\ more = w.closure])
           ELSE Pass(Tail(todo), [w EXCEPT !.worklist = Append(@, c)])

\* Mutant: the worklist is gone through once.
OnePassOnly(worklist, closure, result) ==
  Pass(worklist, [worklist |-> <<>>, closure |-> closure, result |-> result, done |-> TRUE]).result

RECURSIVE Passes(_, _, _)
Passes(worklist, closure, result) ==
  LET w == Pass(worklist, [worklist |-> <<>>, closure |-> closure, result |-> result, done |-> TRUE])
  IN  IF w.done THEN w.result ELSE Passes(w.worklist, w.closure, w.result)

GetIndependentConstraints(pc, e) == Passes(pc, ElementSet(e), <<>>)
-----------------------------------------------------------------------------
\* The least number in lo .. hi of which Test holds, by bisection.
Bisect(lo, hi, Test(_)) ==
  LET f[l \in Nat, h \in Nat] ==
        LET mid == l + (h - l) \div 2
        IN  IF l >= h THEN l ELSE IF Test(mid) THEN f[l, mid] ELSE f[mid + 1, h]
  IN  f[lo, hi]

\* Mutant: the search for the width ends one bit short.
GetRangeNarrow(S, width) ==
  LET bits == Bisect(0, width - 1, LAMBDA m : \A x \in S : x \div 2^m = 0)
      top  == 2^bits - 1
  IN  <<Bisect(0, top, LAMBDA m : \E x \in S : x <= m),
        Bisect(0, top, LAMBDA m : \A x \in S : x <= m)>>

\* Solver::getRange of an expression of the given width whose possible values
\* are S; mustBeTrue and mayBeTrue quantify over S.
GetRange(S, width) ==
  LET bits == Bisect(0, width, LAMBDA m : \A x \in S : x \div 2^m = 0)
      top  == 2^bits - 1
      min  == IF 0 \in S THEN 0 ELSE Bisect(0, top, LAMBDA m : \E x \in S : x <= m)
      max  == Bisect(min, top, LAMBDA m : \A x \in S : x <= m)
  IN  <<min, max>>
=============================================================================
