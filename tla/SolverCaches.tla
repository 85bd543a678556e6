--------------------------- MODULE SolverCaches ---------------------------
(***************************************************************************)
(* The solver chain that Executor.cpp builds by default, IndependentSolver *)
(* over CachingSolver over CexCachingSolver over STP, together with the    *)
(* places of the executor that turn its answers into path conditions.      *)
(*                                                                         *)
(* An expression is a constant of the model.  What matters of it is its    *)
(* negation (Expr::createIsZero), the array bytes it reads, and the inputs *)
(* (values of the symbolic arrays) for which it holds.  The constraint     *)
(* vector of a query is abstracted to the set of its members.  STP is      *)
(* external: it answers truthfully, with any satisfying assignment, or     *)
(* fails (a timeout).                                                      *)
(***************************************************************************)
EXTENDS Naturals, FiniteSets, Sequences

CONSTANTS Arrays,       \* the symbolic arrays
          Size,         \* the number of bytes of each
          Byte,         \* the values of a byte
          Exprs,        \* boolean expressions, no constant among them
          Neg,          \* Expr::createIsZero
          Reads,        \* pairs of an array and an index an expression reads
          Symbolic,     \* the index of a read at an index that is not constant
          Models,       \* the inputs for which an expression holds
          Smaller,      \* the expressions that compare below their negation
          Preferences,  \* MemoryObject::cexPreferences
          Null,         \* no assignment, or no result
          Experimental, \* the option cex-cache-exp
          MaxDepth,     \* bound: constraints on one path
          MaxQueries    \* bound: queries asked in one behaviour

VARIABLES paths,   \* the constraint vectors of the live states
          tryAll,  \* the option cex-cache-try-all
          store,   \* cache: CachingSolver::cache; map: CexCachingSolver::cache;
                   \* table: CexCachingSolver::assignmentsTable
          answer,  \* the last query and what the chain answered
          asked,   \* the number of queries so far
          gone     \* ghost: the inputs of the paths that ended

vars == <<paths, tryAll, store, answer, asked, gone>>

Contents(a) == [0 .. Size[a] - 1 -> Byte]

Valuations ==
  {v \in [Arrays -> UNION {Contents(a) : a \in Arrays}] :
     \A a \in Arrays : v[a] \in Contents(a)}

Members(s) == {s[i] : i \in DOMAIN s}

\* Two inputs agree on every byte that e reads; a read at an index that is
\* not constant may be a read of any byte.
AgreeOn(e, v, w) ==
  \A r \in Reads[e] :
    IF r[2] = Symbolic THEN v[r[1]] = w[r[1]] ELSE v[r[1]][r[2]] = w[r[1]][r[2]]

ASSUME ArrayAssumption == Size \in [Arrays -> Nat \ {0}] /\ 0 \in Byte

ASSUME ExprAssumption ==
  /\ Neg \in [Exprs -> Exprs]
  /\ Models \in [Exprs -> SUBSET Valuations]
  /\ Symbolic \notin Nat
  /\ \A e \in Exprs :
       /\ Reads[e] \subseteq
            {r \in Arrays \X (Nat \cup {Symbolic}) :
               r[2] = Symbolic \/ r[2] \in 0 .. Size[r[1]] - 1}
       /\ Reads[Neg[e]] = Reads[e]
       /\ Models[Neg[e]] = Valuations \ Models[e]

\* An expression is a function of the bytes it reads.
ASSUME ReadsAssumption ==
  \A e \in Exprs : \A v, w \in Valuations :
    AgreeOn(e, v, w) => (v \in Models[e] <=> w \in Models[e])

ASSUME OtherAssumption ==
  /\ Preferences \subseteq Exprs
  /\ Experimental \in BOOLEAN
  /\ Null \notin BOOLEAN
  /\ \A A \in SUBSET Arrays : Null \notin [A -> UNION {Contents(a) : a \in Arrays}]
  /\ MaxDepth \in Nat
  /\ MaxQueries \in Nat

Satisfying(E) == {v \in Valuations : \A e \in E : v \in Models[e]}
---------------------------------------------------------------------------
(* Assignments.  An assignment binds some of the arrays; reading an array   *)
(* it does not bind gives zeros.                                            *)

Zeros(a) == [i \in 0 .. Size[a] - 1 |-> 0]

Complete(b) == [a \in Arrays |-> IF a \in DOMAIN b THEN b[a] ELSE Zeros(a)]

\* The values computeInitialValues returns for the arrays asked for.
FillIn(b) == [a \in Arrays |-> IF a \in DOMAIN b THEN b[a] ELSE Zeros(a)]

Satisfies(b, key) == \A e \in key : Complete(b) \in Models[e]

FindSymbolicObjects(key) == {a \in Arrays : \E e \in key : \E r \in Reads[e] : r[1] = a}

\* STPSolver::computeInitialValues when it does not fail.
STPAnswers(key) ==
  IF Satisfying(key) = {} THEN {Null}
  ELSE {[a \in FindSymbolicObjects(key) |-> v[a]] : v \in Satisfying(key)}
---------------------------------------------------------------------------
(* CexCachingSolver.  A call yields the set of its outcomes: whether it     *)
(* succeeds, its result, the caches it leaves, and whether STP failed.      *)

Outcome(ok, res, s, stp) == [ok |-> ok, res |-> res, store |-> s, stp |-> stp]
Failed(o) == Outcome(FALSE, Null, o.store, o.stp)

SearchForAssignment(key, s) ==
  LET Supersets == {s.map[k] : k \in {k \in DOMAIN s.map : key \subseteq k}} \ {Null}
      Subsets   == {s.map[k] : k \in {k \in DOMAIN s.map : k \subseteq key}}
      Usable    == {b \in Subsets : b = Null \/ (~tryAll /\ Satisfies(b, key))}
      Tried     == {b \in s.table : tryAll /\ Satisfies(b, key)}
  IN  IF key \in DOMAIN s.map THEN {s.map[key]}
      ELSE IF Supersets # {} THEN Supersets
      ELSE IF Usable # {} THEN Usable
      ELSE Tried

Extended(f, x, y) == [k \in DOMAIN f \cup {x} |-> IF k = x THEN y ELSE f[k]]

Memoize(key, b, s) ==
  [cache |-> s.cache, map |-> Extended(s.map, key, b),
   table |-> IF b = Null THEN s.table ELSE s.table \cup {b}]

\* The key of a query: its constraints and its negated expression.
KeyOf(cs, e) == cs \cup {Neg[e]}

GetAssignment(key, s) ==
  LET found == SearchForAssignment(key, s)
  IN  IF found # {} THEN {Outcome(TRUE, b, s, FALSE) : b \in found}
      ELSE {Outcome(FALSE, Null, s, TRUE)}
             \cup {Outcome(TRUE, b, Memoize(key, b, s), FALSE) : b \in STPAnswers(key)}

\* computeValidity once it has the assignment of o: the side that it does not
\* satisfy is the one left to ask for.
OtherSide(cs, e, o) ==
  LET holds == Complete(o.res) \in Models[e]
  IN  {IF p.ok THEN Outcome(TRUE, IF p.res # Null THEN "Unknown"
                                  ELSE IF holds THEN "True" ELSE "False", p.store, p.stp)
       ELSE Failed(p) : p \in GetAssignment(KeyOf(cs, IF holds THEN e ELSE Neg[e]), o.store)}

CexValidity(cs, e, s) ==
  UNION {IF o.res = Null THEN {Failed(o)} ELSE OtherSide(cs, e, o) : o \in GetAssignment(cs, s)}

CexTruth(cs, e, s) ==
  IF Experimental /\ Null \in SearchForAssignment(KeyOf(cs, Neg[e]), s)
  THEN {Outcome(FALSE, Null, s, FALSE)}
  ELSE {IF o.ok THEN Outcome(TRUE, o.res = Null, o.store, o.stp) ELSE Failed(o) :
          o \in GetAssignment(KeyOf(cs, e), s)}

\* A query whose assignment is null fails the assertion of computeValue.
CexValue(cs, e, s) ==
  {IF o.res = Null THEN Failed(o)
   ELSE Outcome(TRUE, Complete(o.res) \in Models[e], o.store, o.stp) : o \in GetAssignment(cs, s)}

CexInitialValues(cs, s) ==
  {IF o.res = Null THEN Failed(o)
   ELSE Outcome(TRUE, FillIn(o.res), o.store, o.stp) : o \in GetAssignment(cs, s)}
---------------------------------------------------------------------------
(* CachingSolver.                                                           *)

NegatePartialValidity(pv) ==
  CASE pv = "MustBeTrue"  -> "MustBeFalse"
    [] pv = "MustBeFalse" -> "MustBeTrue"
    [] pv = "MayBeTrue"   -> "MayBeFalse"
    [] pv = "MayBeFalse"  -> "MayBeTrue"
    [] OTHER              -> "TrueOrFalse"

CacheKey(cs, e) == <<cs, IF e \in Smaller THEN e ELSE Neg[e]>>
Oriented(e, pv) == IF e \in Smaller THEN pv ELSE NegatePartialValidity(pv)

CacheLookup(cs, e, s) ==
  IF CacheKey(cs, e) \in DOMAIN s.cache THEN Oriented(e, s.cache[CacheKey(cs, e)]) ELSE "Miss"

\* Mutant: the answer is not turned to fit the canonical query.
CacheInsertUnoriented(cs, e, pv, s) ==
  LET k == CacheKey(cs, e)
  IN  IF k \in DOMAIN s.cache THEN s
      ELSE [cache |-> Extended(s.cache, k, pv), map |-> s.map, table |-> s.table]

\* An entry that is already there stays as it is, also when it says less.
CacheInsert(cs, e, pv, s) ==
  LET k == CacheKey(cs, e)
  IN  IF k \in DOMAIN s.cache THEN s
      ELSE [cache |-> Extended(s.cache, k, Oriented(e, pv)), map |-> s.map, table |-> s.table]

Verdict(pv) ==
  CASE pv = "MustBeTrue" -> "True" [] pv = "MustBeFalse" -> "False" [] OTHER -> "Unknown"
Recorded(verdict) ==
  CASE verdict = "True" -> "MustBeTrue" [] verdict = "False" -> "MustBeFalse"
    [] OTHER -> "TrueOrFalse"

\* The outcome o of the solver below settles the query with pv.
Settled(cs, e, pv, o) ==
  IF o.ok THEN Outcome(TRUE, Verdict(pv), CacheInsert(cs, e, pv, o.store), o.stp) ELSE Failed(o)

CachingValidity(cs, e, s) ==
  LET hit == CacheLookup(cs, e, s)
  IN  CASE hit = "Miss" ->
             {Settled(cs, e, Recorded(o.res), o) : o \in CexValidity(cs, e, s)}
        [] hit = "MayBeTrue" ->
             {Settled(cs, e, IF o.res = TRUE THEN "MustBeTrue" ELSE "TrueOrFalse", o) :
                o \in CexTruth(cs, e, s)}
        [] hit = "MayBeFalse" ->
             {Settled(cs, e, IF o.res = TRUE THEN "MustBeFalse" ELSE "TrueOrFalse", o) :
                o \in CexTruth(cs, Neg[e], s)}
        [] OTHER -> {Outcome(TRUE, Verdict(hit), s, FALSE)}

CachingTruth(cs, e, s) ==
  LET hit == CacheLookup(cs, e, s)
      Found(truth) == IF truth THEN "MustBeTrue"
                      ELSE IF hit = "MayBeTrue" THEN "TrueOrFalse" ELSE "MayBeFalse"
  IN  IF hit \in {"Miss", "MayBeTrue"}
      THEN {IF o.ok THEN Outcome(TRUE, o.res, CacheInsert(cs, e, Found(o.res), o.store), o.stp)
            ELSE Failed(o) : o \in CexTruth(cs, e, s)}
      ELSE {Outcome(TRUE, hit = "MustBeTrue", s, FALSE)}
---------------------------------------------------------------------------
(* IndependentSolver.                                                       *)

\* IndependentElementSet(e): the arrays read at an index that is not constant,
\* and the bytes of other arrays.
ElementSet(e) ==
  [whole    |-> {a \in Arrays : <<a, Symbolic>> \in Reads[e]},
   elements |-> {r \in Reads[e] : <<r[1], Symbolic>> \notin Reads[e]}]

\* Mutant: a symbolic index is not taken to read every element.
IntersectsElementwise(x, y) == x.whole \cap y.whole # {} \/ x.elements \cap y.elements # {}

Intersects(x, y) ==
  \/ \E a \in x.whole : a \in y.whole \/ \E r \in y.elements : r[1] = a
  \/ \E r \in x.elements : r[1] \in y.whole \/ r \in y.elements

\* What IndependentElementSet::add makes of the element sets of all of E.
ElementsOf(E) ==
  LET whole == UNION {ElementSet(e).whole : e \in E}
  IN  [whole    |-> whole,
       elements |-> {r \in UNION {ElementSet(e).elements : e \in E} : r[1] \notin whole}]

Closed(S, cs, e) ==
  \A c \in cs \ S : ~Intersects(ElementSet(c), ElementsOf(S \cup {e}))

\* getIndependentConstraints: the worklist stops with the least set of
\* constraints that nothing outside it intersects.
RequiredConstraints(cs, e) ==
  {c \in cs : \A S \in SUBSET cs : Closed(S, cs, e) => c \in S}

ComputeValidity(cs, e, s) == CachingValidity(RequiredConstraints(cs, e), e, s)
ComputeTruth(cs, e, s)    == CachingTruth(RequiredConstraints(cs, e), e, s)
ComputeValue(cs, e, s)    == CexValue(RequiredConstraints(cs, e), e, s)
---------------------------------------------------------------------------
(* The executor's use of the answers.                                       *)

NoAnswer == [op |-> "none", cs |-> {}, e |-> Null, res |-> Null, input |-> Null, stp |-> FALSE]

Init ==
  /\ paths = {<<>>}
  /\ tryAll \in BOOLEAN
  /\ store = [cache |-> <<>>, map |-> <<>>, table |-> {}]
  /\ answer = NoAnswer
  /\ asked = 0
  /\ gone = {}

\* The query has the outcome o; res and input are what the caller gets of it.
Ask(op, pc, e, o, res, input) ==
  /\ asked' = asked + 1
  /\ store' = o.store
  /\ answer' = [op |-> op, cs |-> Members(pc), e |-> e, stp |-> o.stp,
                res |-> IF o.ok THEN res ELSE Null, input |-> IF o.ok THEN input ELSE Null]
  /\ UNCHANGED tryAll

Truth(b) == IF b THEN "True" ELSE "False"

\* The state with path condition pc is replaced by those with the conditions P.
Replace(pc, P) ==
  LET kept == UNION {Satisfying(Members(p)) : p \in P}
  IN  /\ paths' = (paths \ {pc}) \cup P
      /\ gone' = gone \cup (Satisfying(Members(pc)) \ kept)

\* Mutant: the false side does not get its constraint.
ForkKeepsCondition(pc, e) ==
  /\ Len(pc) < MaxDepth
  /\ \E o \in ComputeValidity(Members(pc), e, store) :
       /\ Ask("evaluate", pc, e, o, o.res, Null)
       /\ IF ~o.ok THEN Replace(pc, {})
          ELSE IF o.res # "Unknown" THEN UNCHANGED <<paths, gone>>
          ELSE Replace(pc, {Append(pc, e), pc})

\* Executor::fork: a query that fails ends the state; when both sides are
\* possible each side gets its constraint, or, when forking is inhibited, the
\* state goes on with one of them.
Fork(pc, e) ==
  /\ Len(pc) < MaxDepth
  /\ \E o \in ComputeValidity(Members(pc), e, store) :
       /\ Ask("evaluate", pc, e, o, o.res, Null)
       /\ \/ ~o.ok /\ Replace(pc, {})
          \/ o.ok /\ o.res # "Unknown" /\ UNCHANGED <<paths, gone>>
          \/ o.ok /\ o.res = "Unknown" /\ Replace(pc, {Append(pc, e), Append(pc, Neg[e])})
          \/ o.ok /\ o.res = "Unknown" /\ \E side \in {e, Neg[e]} : Replace(pc, {Append(pc, side)})

\* Executor::toConstant: the value returned becomes a constraint; a failure
\* fails an assertion, which ends the program.
ToConstant(pc, e) ==
  /\ Len(pc) < MaxDepth
  /\ \E o \in ComputeValue(Members(pc), e, store) :
       /\ Ask("getValue", pc, e, o, Truth(o.res), Null)
       /\ \/ o.ok /\ Replace(pc, {Append(pc, IF o.res THEN e ELSE Neg[e])})
          \/ ~o.ok /\ paths' = {} /\ gone' = Valuations

\* TimingSolver::mustBeTrue; mustBeFalse asks it of the negated expression.
\* The caller ends the state when the query fails.
MustBeTrue(pc, e) ==
  \E o \in ComputeTruth(Members(pc), e, store) :
    /\ Ask("mustBeTrue", pc, e, o, Truth(o.res), Null)
    /\ IF o.ok THEN UNCHANGED <<paths, gone>> ELSE Replace(pc, {})

\* TimingSolver::mayBeTrue.
MayBeTrue(pc, e) ==
  \E o \in ComputeTruth(Members(pc), Neg[e], store) :
    /\ Ask("mayBeTrue", pc, e, o, Truth(~o.res), Null)
    /\ IF o.ok THEN UNCHANGED <<paths, gone>> ELSE Replace(pc, {})

\* Executor::getSymbolicSolution, with which a state ends: the preferences
\* that are possible are added to a copy of its constraints first.
Preferred(cs, p, s) ==
  {[cs |-> IF o.ok /\ ~o.res THEN cs \cup {p} ELSE cs, store |-> o.store] :
     o \in ComputeTruth(cs, Neg[p], s)}

GetSymbolicSolution(pc) ==
  LET cs == Members(pc)
  IN  \E t \in {[cs |-> cs, store |-> store]} \cup UNION {Preferred(cs, p, store) : p \in Preferences} :
        \E o \in CexInitialValues(t.cs, t.store) :
          /\ Ask("getInitialValues", pc, Null, o, Null, o.res)
          /\ Replace(pc, {})

Next ==
  /\ asked < MaxQueries
  /\ \E pc \in paths :
    \/ GetSymbolicSolution(pc)
    \/ \E e \in Exprs :
         Fork(pc, e) \/ ToConstant(pc, e) \/ MustBeTrue(pc, e) \/ MayBeTrue(pc, e)

Spec == Init /\ [][Next]_vars
---------------------------------------------------------------------------
(* Properties.                                                              *)

PartialValidities == {"MustBeTrue", "MustBeFalse", "MayBeTrue", "MayBeFalse", "TrueOrFalse"}

\* The variables hold what they are declared to hold.
TypeOK ==
  /\ paths \subseteq Seq(Exprs)
  /\ tryAll \in BOOLEAN
  /\ DOMAIN store.cache \subseteq (SUBSET Exprs) \X Exprs
  /\ \A k \in DOMAIN store.cache : store.cache[k] \in PartialValidities
  /\ DOMAIN store.map \subseteq SUBSET Exprs
  /\ Null \notin store.table
  /\ asked \in 0 .. MaxQueries
  /\ gone \subseteq Valuations

\* What an entry of CachingSolver says of the validity of e under cs.
Says(pv, cs, e) ==
  CASE pv = "MustBeTrue"  -> Satisfying(cs) \subseteq Models[e]
    [] pv = "MustBeFalse" -> Satisfying(cs) \cap Models[e] = {}
    [] pv = "MayBeTrue"   -> Satisfying(cs) \cap Models[e] # {}
    [] pv = "MayBeFalse"  -> ~(Satisfying(cs) \subseteq Models[e])
    [] OTHER              -> /\ Satisfying(cs) \cap Models[e] # {}
                             /\ ~(Satisfying(cs) \subseteq Models[e])

\* Every entry of both caches is true, whichever layer, path or orientation of
\* the query wrote it: a validity entry describes its canonical query, a key of
\* the counterexample cache is mapped to a solution of it, or to null only when
\* it has none.
CachesTrue ==
  /\ \A k \in DOMAIN store.cache : Says(store.cache[k], k[1], k[2])
  /\ \A k \in DOMAIN store.map :
       IF store.map[k] = Null THEN Satisfying(k) = {} ELSE Satisfies(store.map[k], k)

\* No state explores an impossible path: fork and toConstant add a constraint
\* on the strength of an answer that may come from the caches and was asked of
\* a part of the constraints only.
PathsFeasible == \A pc \in paths : Satisfying(Members(pc)) # {}

\* Every input is on exactly one live path, or on one that ended: fork neither
\* loses inputs nor explores them twice.
InputsPartitioned ==
  /\ \A v \in Valuations \ gone : \E pc \in paths : v \in Satisfying(Members(pc))
  /\ \A pc \in paths : Satisfying(Members(pc)) \cap gone = {}
  /\ \A p, q \in paths : p # q => Satisfying(Members(p)) \cap Satisfying(Members(q)) = {}

\* The paths share the inputs out among them: none is empty, none overlap, and
\* together with the ended ones they cover every input.
PathsShareInputs == PathsFeasible /\ InputsPartitioned

Oracle == INSTANCE PathOracle WITH Inputs <- Valuations

\* The chain implements the oracle: each answer, cached or not, is the one that
\* the whole constraint set gives, a test case satisfies its path condition, and
\* a query fails only when STP failed.
ImplementsOracle == Oracle!Spec
=============================================================================
