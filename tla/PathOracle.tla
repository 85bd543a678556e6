---------------------------- MODULE PathOracle ----------------------------
(***************************************************************************)
(* What the solver chain promises the executor: every query is answered by *)
(* an oracle that decides it over all inputs, or fails because the solver  *)
(* underneath did.  There are no caches and no independence here.          *)
(***************************************************************************)
EXTENDS Sequences

CONSTANTS Inputs, Exprs, Neg, Models, Null

VARIABLES paths, gone, answer

Members(s) == {s[i] : i \in DOMAIN s}
Satisfying(E) == {v \in Inputs : \A e \in E : v \in Models[e]}
Valid(cs, e) == Satisfying(cs) \subseteq Models[e]

Verdict(cs, e) ==
  IF Valid(cs, e) THEN "True" ELSE IF Valid(cs, Neg[e]) THEN "False" ELSE "Unknown"

\* A query succeeds with the result res, or fails with none when stp is set.
Answer(op, pc, e, stp, res, input) ==
  answer' = [op |-> op, cs |-> Members(pc), e |-> e, stp |-> stp,
             res |-> IF stp THEN Null ELSE res, input |-> IF stp THEN Null ELSE input]

Truth(b) == IF b THEN "True" ELSE "False"

Replace(pc, P) ==
  LET kept == UNION {Satisfying(Members(p)) : p \in P}
  IN  /\ paths' = (paths \ {pc}) \cup P
      /\ gone' = gone \cup (Satisfying(Members(pc)) \ kept)

Init ==
  /\ paths = {<<>>}
  /\ gone = {}
  /\ answer = [op |-> "none", cs |-> {}, e |-> Null, res |-> Null, input |-> Null, stp |-> FALSE]

Fork(pc, e, stp) ==
  LET res == Verdict(Members(pc), e)
  IN  /\ Answer("evaluate", pc, e, stp, res, Null)
      /\ \/ stp /\ Replace(pc, {})
         \/ ~stp /\ res # "Unknown" /\ UNCHANGED <<paths, gone>>
         \/ ~stp /\ res = "Unknown" /\ Replace(pc, {Append(pc, e), Append(pc, Neg[e])})
         \/ ~stp /\ res = "Unknown" /\ \E side \in {e, Neg[e]} : Replace(pc, {Append(pc, side)})

ToConstant(pc, e, stp) ==
  \E v \in Satisfying(Members(pc)) :
    /\ Answer("getValue", pc, e, stp, Truth(v \in Models[e]), Null)
    /\ \/ ~stp /\ Replace(pc, {Append(pc, IF v \in Models[e] THEN e ELSE Neg[e])})
       \/ stp /\ paths' = {} /\ gone' = Inputs

MustBeTrue(pc, e, stp) ==
  /\ Answer("mustBeTrue", pc, e, stp, Truth(Valid(Members(pc), e)), Null)
  /\ IF stp THEN Replace(pc, {}) ELSE UNCHANGED <<paths, gone>>

MayBeTrue(pc, e, stp) ==
  /\ Answer("mayBeTrue", pc, e, stp, Truth(~Valid(Members(pc), Neg[e])), Null)
  /\ IF stp THEN Replace(pc, {}) ELSE UNCHANGED <<paths, gone>>

GetSymbolicSolution(pc, stp) ==
  \E v \in Satisfying(Members(pc)) :
    Answer("getInitialValues", pc, Null, stp, Null, v) /\ Replace(pc, {})

Next ==
  \E pc \in paths : \E stp \in BOOLEAN :
    \/ GetSymbolicSolution(pc, stp)
    \/ \E e \in Exprs :
         Fork(pc, e, stp) \/ ToConstant(pc, e, stp) \/ MustBeTrue(pc, e, stp) \/ MayBeTrue(pc, e, stp)

vars == <<paths, gone, answer>>
Spec == Init /\ [][Next]_vars
=============================================================================
