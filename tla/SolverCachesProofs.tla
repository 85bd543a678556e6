------------------------ MODULE SolverCachesProofs ------------------------
(***************************************************************************)
(* The caches of the solver chain stay true, the answers are those of an   *)
(* oracle, and the paths partition the inputs, for any arrays, expressions *)
(* and bounds.                                                             *)
(***************************************************************************)
EXTENDS SolverCaches, TLAPS

Binding(b) == b # Null /\ Complete(b) \in Valuations

\* b is a right answer to whether the expressions of key have a solution.
Solves(b, key) ==
  IF b = Null THEN Satisfying(key) = {} ELSE Complete(b) \in Satisfying(key)

\* The caches are well formed and true.
StoreOK(s) ==
  /\ DOMAIN s.cache \subseteq (SUBSET Exprs) \X Exprs
  /\ \A k \in DOMAIN s.cache :
       s.cache[k] \in PartialValidities /\ Says(s.cache[k], k[1], k[2])
  /\ DOMAIN s.map \subseteq SUBSET Exprs
  /\ \A k \in DOMAIN s.map : Solves(s.map[k], k)
  /\ \A b \in s.table : Binding(b)

\* What is known of every outcome of a call.
OutcomeOK(o) ==
  /\ o = Outcome(o.ok, o.res, o.store, o.stp)
  /\ o.ok \in BOOLEAN
  /\ o.stp \in BOOLEAN
  /\ StoreOK(o.store)
  /\ o.stp => ~o.ok
  /\ o.ok \/ o.stp \/ Experimental

---------------------------------------------------------------------------
(* Inputs and assignments.                                                  *)

\* The negation of an expression holds for exactly the other inputs.
LEMMA NegHolds ==
  ASSUME NEW e \in Exprs
  PROVE  /\ Neg[e] \in Exprs
         /\ \A v \in Valuations : v \in Models[Neg[e]] <=> v \notin Models[e]
         /\ Models[e] \subseteq Valuations
  BY ExprAssumption

\* Completing a restriction of an input with zeros gives an input, equal to it
\* on the arrays of the restriction.
LEMMA CompleteRestriction ==
  ASSUME NEW v \in Valuations, NEW A \in SUBSET Arrays
  PROVE  LET b == [a \in A |-> v[a]]
         IN  /\ Complete(b) \in Valuations
             /\ \A a \in A : Complete(b)[a] = v[a]
             /\ b # Null
  <1> DEFINE b == [a \in A |-> v[a]]
             all == UNION {Contents(a) : a \in Arrays}
  <1>1. \A a \in Arrays : v[a] \in Contents(a)
    BY DEF Valuations
  <1>2. \A a \in Arrays : Zeros(a) \in Contents(a)
    BY ArrayAssumption DEF Zeros, Contents
  <1>3. \A a \in Arrays : Complete(b)[a] \in Contents(a)
    BY <1>1, <1>2 DEF Complete
  <1>4. \A a \in Arrays : Contents(a) \subseteq all
    OBVIOUS
  <1>5. Complete(b) \in [Arrays -> all]
    BY <1>3, <1>4 DEF Complete
  <1>6. Complete(b) \in Valuations
    BY <1>3, <1>5, Zenon DEF Valuations
  <1>7. \A a \in A : Complete(b)[a] = v[a]
    BY DEF Complete
  <1>8. b \in [A -> all]
    BY <1>1, <1>4
  <1>9. b # Null
    BY <1>8, OtherAssumption
  <1> QED BY <1>6, <1>7, <1>9

\* Inputs that agree on the arrays that e reads agree on e.
LEMMA AgreeOnArrays ==
  ASSUME NEW e \in Exprs, NEW v \in Valuations, NEW w \in Valuations,
         \A r \in Reads[e] : v[r[1]] = w[r[1]]
  PROVE  v \in Models[e] <=> w \in Models[e]
  <1>1. AgreeOn(e, v, w)
    BY DEF AgreeOn
  <1> QED BY <1>1, ReadsAssumption

\* STP's answer solves the key: the bytes of the arrays it was not asked for do
\* not matter.
LEMMA STPSolves ==
  ASSUME NEW key \in SUBSET Exprs, NEW b \in STPAnswers(key)
  PROVE  Solves(b, key)
  <1>1. CASE Satisfying(key) = {}
    BY <1>1 DEF STPAnswers, Solves
  <1>2. CASE Satisfying(key) # {}
    <2> DEFINE A == FindSymbolicObjects(key)
    <2>1. PICK v \in Satisfying(key) : b = [a \in A |-> v[a]]
      BY <1>2 DEF STPAnswers
    <2>2. v \in Valuations /\ A \in SUBSET Arrays
      BY DEF Satisfying, FindSymbolicObjects
    <2>3. /\ Complete(b) \in Valuations
          /\ \A a \in A : Complete(b)[a] = v[a]
          /\ b # Null
      BY <2>1, <2>2, CompleteRestriction
    <2>4. ASSUME NEW e \in key PROVE Complete(b) \in Models[e]
      <3>1. \A r \in Reads[e] : r[1] \in A
        BY ExprAssumption DEF FindSymbolicObjects
      <3>2. \A r \in Reads[e] : Complete(b)[r[1]] = v[r[1]]
        BY <3>1, <2>3
      <3>3. v \in Models[e]
        BY DEF Satisfying
      <3> QED BY <2>2, <2>3, <3>2, <3>3, AgreeOnArrays
    <2> QED BY <2>3, <2>4 DEF Solves, Satisfying
  <1> QED BY <1>1, <1>2
---------------------------------------------------------------------------
(* The counterexample cache.                                                *)

\* Whatever searchForAssignment returns solves the key: a solution of a superset
\* solves it, no superset of an unsolvable set has a solution, and anything else
\* is tried first.
LEMMA SearchSolves ==
  ASSUME NEW key \in SUBSET Exprs, NEW s, StoreOK(s), NEW b \in SearchForAssignment(key, s)
  PROVE  Solves(b, key)
  <1>1. \A k \in DOMAIN s.map : k \in SUBSET Exprs /\ Solves(s.map[k], k)
    BY DEF StoreOK
  <1>2. CASE key \in DOMAIN s.map /\ b = s.map[key]
    BY <1>1, <1>2
  <1>3. CASE b # Null /\ \E k \in DOMAIN s.map : key \subseteq k /\ b = s.map[k]
    BY <1>1, <1>3 DEF Solves, Satisfying
  <1>4. CASE b = Null /\ \E k \in DOMAIN s.map : k \subseteq key /\ b = s.map[k]
    BY <1>1, <1>4, Zenon DEF Solves, Satisfying
  <1>5. CASE b # Null /\ Satisfies(b, key) /\ \E k \in DOMAIN s.map : b = s.map[k]
    BY <1>1, <1>5 DEF Solves, Satisfying, Satisfies
  <1>6. CASE b \in s.table /\ Satisfies(b, key)
    BY <1>6 DEF StoreOK, Binding, Solves, Satisfying, Satisfies
  <1> QED BY <1>2, <1>3, <1>4, <1>5, <1>6 DEF SearchForAssignment

\* Recording a solution of the key keeps the caches true.
LEMMA MemoizeOK ==
  ASSUME NEW key \in SUBSET Exprs, NEW s, StoreOK(s), NEW b, Solves(b, key)
  PROVE  StoreOK(Memoize(key, b, s))
  <1> DEFINE t == Memoize(key, b, s)
             m == [k \in DOMAIN s.map \cup {key} |-> IF k = key THEN b ELSE s.map[k]]
             tab == IF b = Null THEN s.table ELSE s.table \cup {b}
  <1>1. t.cache = s.cache /\ t.map = m /\ t.table = tab
    BY DEF Memoize, Extended
  <1>2. \A x \in tab : Binding(x)
    BY DEF StoreOK, Binding, Solves, Satisfying
  <1>3. DOMAIN m \subseteq SUBSET Exprs /\ \A k \in DOMAIN m : Solves(m[k], k)
    BY DEF StoreOK
  <1>4. StoreOK(t)
    <2> HIDE DEF m, tab, t
    <2> QED BY <1>1, <1>2, <1>3 DEF StoreOK
  <1> QED BY <1>4

\* getAssignment solves its key or fails because STP did.
LEMMA GetAssignmentOK ==
  ASSUME NEW key \in SUBSET Exprs, NEW s, StoreOK(s), NEW o \in GetAssignment(key, s)
  PROVE  /\ OutcomeOK(o)
         /\ o.ok \/ o.stp
         /\ IF o.ok THEN Solves(o.res, key) ELSE o.res = Null
  <1>1. CASE \E b \in SearchForAssignment(key, s) : o = Outcome(TRUE, b, s, FALSE)
    BY <1>1, SearchSolves DEF Outcome, OutcomeOK
  <1>2. CASE o = Outcome(FALSE, Null, s, TRUE)
    BY <1>2 DEF Outcome, OutcomeOK
  <1>3. CASE \E b \in STPAnswers(key) : o = Outcome(TRUE, b, Memoize(key, b, s), FALSE)
    BY <1>3, STPSolves, MemoizeOK DEF Outcome, OutcomeOK
  <1> QED BY <1>1, <1>2, <1>3, Zenon DEF GetAssignment

Valid(cs, e) == Satisfying(cs) \subseteq Models[e]
Judgement(cs, e) ==
  IF Valid(cs, e) THEN "True" ELSE IF Valid(cs, Neg[e]) THEN "False" ELSE "Unknown"

\* The key of a query has no solution exactly when the query is valid.
LEMMA KeySolved ==
  ASSUME NEW cs \in SUBSET Exprs, NEW e \in Exprs, NEW b, Solves(b, KeyOf(cs, e))
  PROVE  /\ KeyOf(cs, e) \in SUBSET Exprs
         /\ b = Null <=> Valid(cs, e)
  BY NegHolds DEF KeyOf, Solves, Satisfying, Valid

\* CexCachingSolver::computeValidity judges the query, the constraints being
\* satisfiable.
LEMMA CexValidityOK ==
  ASSUME NEW cs \in SUBSET Exprs, NEW e \in Exprs, NEW s, StoreOK(s),
         Satisfying(cs) # {}, NEW o \in CexValidity(cs, e, s)
  PROVE  /\ OutcomeOK(o)
         /\ o.ok => o.res = Judgement(cs, e)
  <1> DEFINE holds(a) == Complete(a.res) \in Models[e]
             other(a) == IF holds(a) THEN e ELSE Neg[e]
             result(a, p) == Outcome(TRUE, IF p.res # Null THEN "Unknown"
                                        ELSE IF holds(a) THEN "True" ELSE "False",
                                  p.store, p.stp)
  <1>1. PICK a \in GetAssignment(cs, s) :
          IF a.res = Null THEN o = Failed(a)
          ELSE \E p \in GetAssignment(KeyOf(cs, other(a)), a.store) :
                 o = IF p.ok THEN result(a, p) ELSE Failed(p)
    BY Zenon DEF CexValidity, OtherSide
  <1>2. /\ OutcomeOK(a)
        /\ a.ok \/ a.stp
        /\ IF a.ok THEN Solves(a.res, cs) ELSE a.res = Null
    BY GetAssignmentOK
  <1>3. CASE a.res = Null
    BY <1>1, <1>2, <1>3, Zenon DEF Solves, Failed, Outcome, OutcomeOK
  <1>4. CASE a.res # Null
    <2>1. PICK p \in GetAssignment(KeyOf(cs, other(a)), a.store) :
                 o = IF p.ok THEN result(a, p) ELSE Failed(p)
      BY <1>1, <1>4, Zenon
    <2>2. other(a) \in Exprs /\ KeyOf(cs, other(a)) \in SUBSET Exprs
      BY NegHolds DEF KeyOf
    <2>3. StoreOK(a.store)
      BY <1>2 DEF OutcomeOK
    <2>4. /\ OutcomeOK(p)
          /\ p.ok \/ p.stp
          /\ IF p.ok THEN Solves(p.res, KeyOf(cs, other(a))) ELSE p.res = Null
      BY <2>2, <2>3, GetAssignmentOK
    <2>5. CASE ~p.ok
      BY <2>1, <2>4, <2>5 DEF Failed, Outcome, OutcomeOK
    <2>6. CASE p.ok
      <3>1. p.res = Null <=> Valid(cs, other(a))
        BY <2>2, <2>4, <2>6, KeySolved
      <3>2. Complete(a.res) \in Satisfying(cs)
        BY <1>2, <1>4 DEF Solves
      <3>3. IF holds(a) THEN ~Valid(cs, Neg[e]) ELSE ~Valid(cs, e)
        BY <3>2, NegHolds DEF Valid, Satisfying
      <3>4. o = result(a, p)
        BY <2>1, <2>6
      <3>5. OutcomeOK(o)
        BY <3>4, <2>4, <2>6 DEF OutcomeOK, Outcome
      <3>6. o.res = Judgement(cs, e)
        BY <3>1, <3>3, <3>4 DEF Judgement, Outcome
      <3> QED BY <3>5, <3>6
    <2> QED BY <2>5, <2>6
  <1> QED BY <1>3, <1>4

\* CexCachingSolver::computeTruth tells whether the query is valid.
LEMMA CexTruthOK ==
  ASSUME NEW cs \in SUBSET Exprs, NEW e \in Exprs, NEW s, StoreOK(s),
         NEW o \in CexTruth(cs, e, s)
  PROVE  /\ OutcomeOK(o)
         /\ o.ok => o.res = Valid(cs, e)
  <1>1. CASE o = Outcome(FALSE, Null, s, FALSE) /\ Experimental
    BY <1>1 DEF Outcome, OutcomeOK
  <1>2. CASE \E p \in GetAssignment(KeyOf(cs, e), s) :
               o = IF p.ok THEN Outcome(TRUE, p.res = Null, p.store, p.stp) ELSE Failed(p)
    <2>1. PICK p \in GetAssignment(KeyOf(cs, e), s) :
               o = IF p.ok THEN Outcome(TRUE, p.res = Null, p.store, p.stp) ELSE Failed(p)
      BY <1>2, Zenon
    <2>2. KeyOf(cs, e) \in SUBSET Exprs
      BY NegHolds DEF KeyOf
    <2>3. /\ OutcomeOK(p)
          /\ p.ok \/ p.stp
          /\ p.ok => Solves(p.res, KeyOf(cs, e))
      BY <2>2, GetAssignmentOK
    <2>4. p.ok => ((p.res = Null) = Valid(cs, e))
      <3>1. p.ok => (p.res = Null <=> Valid(cs, e))
        BY <2>3, KeySolved
      <3>2. Valid(cs, e) \in BOOLEAN
        BY DEF Valid
      <3> QED BY <3>1, <3>2
    <2> QED BY <2>1, <2>3, <2>4, Zenon DEF Outcome, OutcomeOK, Failed
  <1> QED BY <1>1, <1>2, Zenon DEF CexTruth

\* CexCachingSolver::computeValue gives the value of e in some solution, and
\* computeInitialValues a solution.
LEMMA CexValueOK ==
  ASSUME NEW cs \in SUBSET Exprs, NEW e \in Exprs, NEW s, StoreOK(s),
         Satisfying(cs) # {}, NEW o \in CexValue(cs, e, s)
  PROVE  /\ OutcomeOK(o)
         /\ o.ok \/ o.stp
         /\ o.ok => \E v \in Satisfying(cs) : o.res = (v \in Models[e])
  <1>1. PICK p \in GetAssignment(cs, s) :
          o = IF p.res = Null THEN Failed(p)
              ELSE Outcome(TRUE, Complete(p.res) \in Models[e], p.store, p.stp)
    BY Zenon DEF CexValue
  <1>2. /\ OutcomeOK(p)
        /\ p.ok \/ p.stp
        /\ IF p.ok THEN Solves(p.res, cs) ELSE p.res = Null
    BY GetAssignmentOK
  <1>3. p.res # Null => p.ok /\ Complete(p.res) \in Satisfying(cs)
    BY <1>2 DEF Solves
  <1>4. p.res = Null => ~p.ok
    BY <1>2 DEF Solves
  <1> QED BY <1>1, <1>2, <1>3, <1>4, Zenon DEF Outcome, OutcomeOK, Failed

\* computeInitialValues yields an input of the path, or fails with STP.
LEMMA CexInitialValuesOK ==
  ASSUME NEW cs \in SUBSET Exprs, NEW s, StoreOK(s),
         Satisfying(cs) # {}, NEW o \in CexInitialValues(cs, s)
  PROVE  /\ OutcomeOK(o)
         /\ o.ok \/ o.stp
         /\ o.ok => o.res \in Satisfying(cs)
  <1>1. PICK p \in GetAssignment(cs, s) :
          o = IF p.res = Null THEN Failed(p) ELSE Outcome(TRUE, FillIn(p.res), p.store, p.stp)
    BY Zenon DEF CexInitialValues
  <1>2. /\ OutcomeOK(p)
        /\ p.ok \/ p.stp
        /\ IF p.ok THEN Solves(p.res, cs) ELSE p.res = Null
    BY GetAssignmentOK
  <1>3. FillIn(p.res) = Complete(p.res)
    BY DEF FillIn, Complete
  <1>4. p.res # Null => p.ok /\ FillIn(p.res) \in Satisfying(cs)
    BY <1>2, <1>3 DEF Solves
  <1>5. p.res = Null => ~p.ok
    BY <1>2 DEF Solves
  <1> QED BY <1>1, <1>2, <1>4, <1>5, Zenon DEF Outcome, OutcomeOK, Failed
---------------------------------------------------------------------------
(* The validity cache.                                                      *)

\* negatePartialValidity turns what is said of an expression into what is said
\* of its negation.
LEMMA SaysOfNegation ==
  ASSUME NEW cs \in SUBSET Exprs, NEW e \in Exprs, NEW pv \in PartialValidities
  PROVE  /\ NegatePartialValidity(pv) \in PartialValidities
         /\ NegatePartialValidity(NegatePartialValidity(pv)) = pv
         /\ Says(pv, cs, Neg[e]) <=> Says(NegatePartialValidity(pv), cs, e)
  <1>1. /\ Satisfying(cs) \subseteq Models[Neg[e]] <=> Satisfying(cs) \cap Models[e] = {}
        /\ Satisfying(cs) \cap Models[Neg[e]] = {} <=> Satisfying(cs) \subseteq Models[e]
    BY NegHolds DEF Satisfying
  <1> QED BY <1>1 DEF PartialValidities, NegatePartialValidity, Says

\* What CachingSolver finds is true, for the query or its negation.
LEMMA CacheLookupOK ==
  ASSUME NEW cs \in SUBSET Exprs, NEW e \in Exprs, NEW s, StoreOK(s),
         CacheLookup(cs, e, s) # "Miss"
  PROVE  /\ CacheLookup(cs, e, s) \in PartialValidities
         /\ Says(CacheLookup(cs, e, s), cs, e)
  <1> DEFINE k == CacheKey(cs, e)
  <1>1. k \in DOMAIN s.cache /\ CacheLookup(cs, e, s) = Oriented(e, s.cache[k])
    BY DEF CacheLookup
  <1>2. s.cache[k] \in PartialValidities /\ Says(s.cache[k], k[1], k[2])
    BY <1>1 DEF StoreOK
  <1>3. k[1] = cs /\ k[2] = IF e \in Smaller THEN e ELSE Neg[e]
    BY DEF CacheKey
  <1> QED BY <1>1, <1>2, <1>3, SaysOfNegation DEF Oriented

\* Inserting what is true keeps the cache true.
LEMMA CacheInsertOK ==
  ASSUME NEW cs \in SUBSET Exprs, NEW e \in Exprs, NEW s, StoreOK(s),
         NEW pv \in PartialValidities, Says(pv, cs, e)
  PROVE  StoreOK(CacheInsert(cs, e, pv, s))
  <1> DEFINE k == CacheKey(cs, e)
             t == CacheInsert(cs, e, pv, s)
             c == Extended(s.cache, k, Oriented(e, pv))
  <1>1. CASE k \in DOMAIN s.cache
    BY <1>1 DEF CacheInsert
  <1>2. CASE k \notin DOMAIN s.cache
    <2>1. t.cache = c /\ t.map = s.map /\ t.table = s.table
      BY <1>2 DEF CacheInsert
    <2>2. k \in (SUBSET Exprs) \X Exprs
      BY NegHolds DEF CacheKey
    <2>3. Oriented(e, pv) \in PartialValidities /\ Says(Oriented(e, pv), k[1], k[2])
      BY SaysOfNegation DEF Oriented, CacheKey
    <2>4. /\ DOMAIN c \subseteq (SUBSET Exprs) \X Exprs
          /\ \A x \in DOMAIN c : c[x] \in PartialValidities /\ Says(c[x], x[1], x[2])
      <3> HIDE DEF k
      <3> QED BY <2>2, <2>3 DEF StoreOK, Extended
    <2> HIDE DEF t, c, k
    <2>5. StoreOK(t)
      BY <2>1, <2>4 DEF StoreOK
    <2> QED BY <2>5 DEF t
  <1> QED BY <1>1, <1>2

\* A complete entry is the verdict.
LEMMA VerdictRight ==
  ASSUME NEW cs \in SUBSET Exprs, NEW e \in Exprs, Satisfying(cs) # {},
         NEW pv \in {"MustBeTrue", "MustBeFalse", "TrueOrFalse"}, Says(pv, cs, e)
  PROVE  Verdict(pv) = Judgement(cs, e)
  <1>1. Valid(cs, Neg[e]) <=> Satisfying(cs) \cap Models[e] = {}
    BY NegHolds DEF Valid, Satisfying
  <1> QED BY <1>1 DEF Verdict, Judgement, Says, Valid

\* What CachingSolver records of an answer of the solver below is true.
LEMMA SettledOK ==
  ASSUME NEW cs \in SUBSET Exprs, NEW e \in Exprs, Satisfying(cs) # {}, NEW o, OutcomeOK(o),
         NEW pv \in {"MustBeTrue", "MustBeFalse", "TrueOrFalse"}, o.ok => Says(pv, cs, e)
  PROVE  /\ OutcomeOK(Settled(cs, e, pv, o))
         /\ Settled(cs, e, pv, o).ok => Settled(cs, e, pv, o).res = Judgement(cs, e)
  <1>1. CASE ~o.ok
    BY <1>1 DEF Settled, Failed, Outcome, OutcomeOK
  <1>2. CASE o.ok
    <2>1. Verdict(pv) = Judgement(cs, e)
      BY <1>2, VerdictRight
    <2>2. StoreOK(CacheInsert(cs, e, pv, o.store))
      BY <1>2, CacheInsertOK DEF OutcomeOK, PartialValidities
    <2> QED BY <1>2, <2>1, <2>2 DEF Settled, Outcome, OutcomeOK
  <1> QED BY <1>1, <1>2 DEF OutcomeOK

\* CachingSolver::computeValidity gives the judgement of the query whether it
\* finds a full entry, half of one or none.
LEMMA CachingValidityOK ==
  ASSUME NEW cs \in SUBSET Exprs, NEW e \in Exprs, NEW s, StoreOK(s),
         Satisfying(cs) # {}, NEW o \in CachingValidity(cs, e, s)
  PROVE  /\ OutcomeOK(o)
         /\ o.ok => o.res = Judgement(cs, e)
  <1> DEFINE hit == CacheLookup(cs, e, s)
  <1>1. hit # "Miss" => hit \in PartialValidities /\ Says(hit, cs, e)
    BY CacheLookupOK
  <1>2. Valid(cs, Neg[e]) <=> Satisfying(cs) \cap Models[e] = {}
    BY NegHolds DEF Valid, Satisfying
  <1> HIDE DEF hit
  <1>3. CASE hit = "Miss"
    <2>1. PICK p \in CexValidity(cs, e, s) : o = Settled(cs, e, Recorded(p.res), p)
      BY <1>3 DEF CachingValidity, hit
    <2>2. OutcomeOK(p) /\ (p.ok => p.res = Judgement(cs, e))
      BY CexValidityOK
    <2>3. p.ok => Says(Recorded(p.res), cs, e)
      BY <1>2, <2>2 DEF Judgement, Recorded, Says, Valid
    <2>4. Recorded(p.res) \in {"MustBeTrue", "MustBeFalse", "TrueOrFalse"}
      BY DEF Recorded
    <2> QED BY <2>1, <2>2, <2>3, <2>4, SettledOK
  <1>4. CASE hit = "MayBeTrue"
    <2> DEFINE pv(p) == IF p.res = TRUE THEN "MustBeTrue" ELSE "TrueOrFalse"
    <2>1. PICK p \in CexTruth(cs, e, s) : o = Settled(cs, e, pv(p), p)
      BY <1>4 DEF CachingValidity, hit
    <2>2. OutcomeOK(p) /\ (p.ok => p.res = Valid(cs, e))
      BY CexTruthOK
    <2>3. p.ok => Says(pv(p), cs, e)
      BY <1>1, <1>4, <2>2, Zenon DEF Says, Valid
    <2>4. pv(p) \in {"MustBeTrue", "MustBeFalse", "TrueOrFalse"}
      OBVIOUS
    <2> HIDE DEF pv
    <2> QED BY <2>1, <2>2, <2>3, <2>4, SettledOK
  <1>5. CASE hit = "MayBeFalse"
    <2> DEFINE pv(p) == IF p.res = TRUE THEN "MustBeFalse" ELSE "TrueOrFalse"
    <2>1. PICK p \in CexTruth(cs, Neg[e], s) : o = Settled(cs, e, pv(p), p)
      BY <1>5 DEF CachingValidity, hit
    <2>2. OutcomeOK(p) /\ (p.ok => p.res = Valid(cs, Neg[e]))
      BY CexTruthOK, NegHolds
    <2>3. p.ok => Says(pv(p), cs, e)
      BY <1>1, <1>2, <1>5, <2>2, Zenon DEF Says, Valid
    <2>4. pv(p) \in {"MustBeTrue", "MustBeFalse", "TrueOrFalse"}
      OBVIOUS
    <2> HIDE DEF pv
    <2> QED BY <2>1, <2>2, <2>3, <2>4, SettledOK
  <1>6. CASE hit \in {"MustBeTrue", "MustBeFalse", "TrueOrFalse"}
    <2>1. o = Outcome(TRUE, Verdict(hit), s, FALSE)
      BY <1>6, Zenon DEF CachingValidity, hit
    <2>2. Verdict(hit) = Judgement(cs, e)
      BY <1>1, <1>6, VerdictRight
    <2> QED BY <2>1, <2>2 DEF Outcome, OutcomeOK
  <1> QED BY <1>1, <1>3, <1>4, <1>5, <1>6 DEF PartialValidities

\* computeTruth of CachingSolver answers truly.
LEMMA CachingTruthOK ==
  ASSUME NEW cs \in SUBSET Exprs, NEW e \in Exprs, NEW s, StoreOK(s),
         Satisfying(cs) # {}, NEW o \in CachingTruth(cs, e, s)
  PROVE  /\ OutcomeOK(o)
         /\ o.ok => o.res = Valid(cs, e)
  <1> DEFINE hit == CacheLookup(cs, e, s)
             found(truth) == IF truth THEN "MustBeTrue"
                             ELSE IF hit = "MayBeTrue" THEN "TrueOrFalse" ELSE "MayBeFalse"
  <1>1. hit # "Miss" => hit \in PartialValidities /\ Says(hit, cs, e)
    BY CacheLookupOK
  <1>2. CASE hit \in {"Miss", "MayBeTrue"}
    <2>1. PICK p \in CexTruth(cs, e, s) :
            o = IF p.ok THEN Outcome(TRUE, p.res, CacheInsert(cs, e, found(p.res), p.store), p.stp)
                ELSE Failed(p)
      BY <1>2, Zenon DEF CachingTruth
    <2>2. OutcomeOK(p) /\ (p.ok => p.res = Valid(cs, e))
      BY CexTruthOK
    <2>3. Valid(cs, e) \in BOOLEAN
      BY DEF Valid
    <2>4. p.ok => Says(found(p.res), cs, e)
      BY <1>1, <2>2, <2>3, Zenon DEF Says, Valid
    <2>5. p.ok => found(p.res) \in PartialValidities
      BY DEF PartialValidities
    <2> HIDE DEF found
    <2>6. p.ok => StoreOK(CacheInsert(cs, e, found(p.res), p.store))
      BY <2>2, <2>4, <2>5, CacheInsertOK DEF OutcomeOK
    <2> QED BY <2>1, <2>2, <2>6, Zenon DEF Outcome, OutcomeOK, Failed
  <1>3. CASE hit \notin {"Miss", "MayBeTrue"}
    <2>1. o = Outcome(TRUE, hit = "MustBeTrue", s, FALSE)
      BY <1>3 DEF CachingTruth
    <2>2. (hit = "MustBeTrue") = Valid(cs, e)
      <3>1. (hit = "MustBeTrue") <=> Valid(cs, e)
        <4> HIDE DEF hit
        <4> QED BY <1>1, <1>3 DEF Says, Valid, PartialValidities
      <3>2. Valid(cs, e) \in BOOLEAN
        BY DEF Valid
      <3> QED BY <3>1, <3>2
    <2> QED BY <2>1, <2>2 DEF Outcome, OutcomeOK
  <1> QED BY <1>2, <1>3
---------------------------------------------------------------------------
(* Independence.                                                            *)

\* More expressions touch more elements.
LEMMA ElementsMonotone ==
  ASSUME NEW E, NEW F, E \subseteq F, NEW x, Intersects(x, ElementsOf(E))
  PROVE  Intersects(x, ElementsOf(F))
  <1>1. ElementsOf(E).whole \subseteq ElementsOf(F).whole
    BY DEF ElementsOf
  <1>2. \A r \in ElementsOf(E).elements :
          r[1] \in ElementsOf(F).whole \/ r \in ElementsOf(F).elements
    BY DEF ElementsOf
  <1>3. CASE \E a \in x.whole : a \in ElementsOf(E).whole
    BY <1>1, <1>3 DEF Intersects
  <1>4. CASE \E a \in x.whole : \E r \in ElementsOf(E).elements : r[1] = a
    BY <1>2, <1>4 DEF Intersects
  <1>5. CASE \E r \in x.elements : r[1] \in ElementsOf(E).whole \/ r \in ElementsOf(E).elements
    BY <1>1, <1>2, <1>5 DEF Intersects
  <1> QED BY <1>3, <1>4, <1>5 DEF Intersects

\* Nothing outside the required constraints touches them or the expression.
LEMMA RequiredClosed ==
  ASSUME NEW cs, NEW e
  PROVE  /\ RequiredConstraints(cs, e) \subseteq cs
         /\ Closed(RequiredConstraints(cs, e), cs, e)
  <1> DEFINE R == RequiredConstraints(cs, e)
  <1>1. R \subseteq cs
    BY DEF RequiredConstraints
  <1>2. ASSUME NEW c \in cs \ R PROVE ~Intersects(ElementSet(c), ElementsOf(R \cup {e}))
    <2>1. PICK S \in SUBSET cs : Closed(S, cs, e) /\ c \notin S
      BY DEF RequiredConstraints
    <2>2. R \cup {e} \subseteq S \cup {e}
      BY <2>1 DEF RequiredConstraints
    <2>3. ~Intersects(ElementSet(c), ElementsOf(S \cup {e}))
      BY <2>1 DEF Closed
    <2> QED BY <2>2, <2>3, ElementsMonotone
  <1> QED BY <1>1, <1>2 DEF Closed

\* The input that has the bytes of v where the expressions of E read, and those
\* of w elsewhere.
Combined(E, v, w) ==
  [a \in Arrays |->
     IF a \in ElementsOf(E).whole THEN v[a]
     ELSE [i \in 0 .. Size[a] - 1 |->
             IF <<a, i>> \in ElementsOf(E).elements THEN v[a][i] ELSE w[a][i]]]

\* Two inputs combine to an input.
LEMMA CombinedIsInput ==
  ASSUME NEW E, NEW v \in Valuations, NEW w \in Valuations
  PROVE  Combined(E, v, w) \in Valuations
  <1> DEFINE all == UNION {Contents(a) : a \in Arrays}
             u == Combined(E, v, w)
  <1>1. \A a \in Arrays : v[a] \in Contents(a) /\ w[a] \in Contents(a)
    BY DEF Valuations
  <1>2. \A a \in Arrays : \A i \in 0 .. Size[a] - 1 : v[a][i] \in Byte /\ w[a][i] \in Byte
    BY <1>1, Zenon DEF Contents
  <1>3. \A a \in Arrays : u[a] \in Contents(a)
    BY <1>1, <1>2 DEF Combined, Contents
  <1>4. \A a \in Arrays : Contents(a) \subseteq all
    OBVIOUS
  <1>5. u \in [Arrays -> all]
    BY <1>3, <1>4, Zenon DEF Combined
  <1> QED BY <1>3, <1>5 DEF Valuations

\* A read names an array, and one of its bytes or a symbolic index.
LEMMA ReadForm ==
  ASSUME NEW e \in Exprs, NEW r \in Reads[e]
  PROVE  /\ r[1] \in Arrays
         /\ r = <<r[1], r[2]>>
         /\ r[2] # Symbolic => r[2] \in 0 .. Size[r[1]] - 1
  BY ExprAssumption

\* The combination agrees with v on the expressions of E ...
LEMMA CombinedInside ==
  ASSUME NEW E \in SUBSET Exprs, NEW v \in Valuations, NEW w \in Valuations, NEW d \in E
  PROVE  Combined(E, v, w) \in Models[d] <=> v \in Models[d]
  <1> DEFINE u == Combined(E, v, w)
  <1>1. ASSUME NEW r \in Reads[d]
        PROVE  IF r[2] = Symbolic THEN u[r[1]] = v[r[1]] ELSE u[r[1]][r[2]] = v[r[1]][r[2]]
    <2>1. /\ r[1] \in Arrays
          /\ r = <<r[1], r[2]>>
          /\ r[2] # Symbolic => r[2] \in 0 .. Size[r[1]] - 1
      BY ReadForm
    <2>2. CASE r[1] \in ElementsOf(E).whole
      BY <2>1, <2>2 DEF Combined
    <2>3. CASE r[1] \notin ElementsOf(E).whole
      <3>1. <<r[1], Symbolic>> \notin Reads[d]
        BY <2>1, <2>3 DEF ElementsOf, ElementSet
      <3>2. r \in ElementsOf(E).elements
        BY <2>1, <2>3, <3>1 DEF ElementsOf, ElementSet
      <3>3. r[2] # Symbolic
        BY <2>1, <3>1
      <3> QED BY <2>1, <2>3, <3>2, <3>3 DEF Combined
    <2> QED BY <2>2, <2>3
  <1>2. AgreeOn(d, u, v)
    BY <1>1 DEF AgreeOn
  <1>3. u \in Valuations
    BY CombinedIsInput
  <1> QED BY <1>2, <1>3, ReadsAssumption

\* ... and with w on an expression that does not touch them.
LEMMA CombinedOutside ==
  ASSUME NEW E \in SUBSET Exprs, NEW v \in Valuations, NEW w \in Valuations, NEW c \in Exprs,
         ~Intersects(ElementSet(c), ElementsOf(E))
  PROVE  Combined(E, v, w) \in Models[c] <=> w \in Models[c]
  <1> DEFINE u == Combined(E, v, w)
  <1>1. ASSUME NEW a \in Arrays, <<a, Symbolic>> \in Reads[c] PROVE u[a] = w[a]
    <2>1. a \in ElementSet(c).whole
      BY <1>1 DEF ElementSet
    <2>2. a \notin ElementsOf(E).whole
      BY <2>1 DEF Intersects
    <2>3. \A i \in 0 .. Size[a] - 1 : <<a, i>> \notin ElementsOf(E).elements
      <3>1. \A r \in ElementsOf(E).elements : r[1] # a
        BY <2>1 DEF Intersects
      <3> QED BY <3>1
    <2>4. w[a] \in [0 .. Size[a] - 1 -> Byte]
      BY DEF Valuations, Contents
    <2>5. u[a] = [i \in 0 .. Size[a] - 1 |-> w[a][i]]
      BY <2>2, <2>3 DEF Combined
    <2> QED BY <2>4, <2>5, Zenon
  <1>2. ASSUME NEW r \in Reads[c]
        PROVE  IF r[2] = Symbolic THEN u[r[1]] = w[r[1]] ELSE u[r[1]][r[2]] = w[r[1]][r[2]]
    <2>1. /\ r[1] \in Arrays
          /\ r = <<r[1], r[2]>>
          /\ r[2] # Symbolic => r[2] \in 0 .. Size[r[1]] - 1
      BY ReadForm
    <2>2. CASE <<r[1], Symbolic>> \in Reads[c]
      BY <1>1, <2>1, <2>2
    <2>3. CASE <<r[1], Symbolic>> \notin Reads[c]
      <3>1. r \in ElementSet(c).elements
        BY <2>3 DEF ElementSet
      <3>2. r[1] \notin ElementsOf(E).whole /\ r \notin ElementsOf(E).elements
        BY <3>1 DEF Intersects
      <3>3. r[2] # Symbolic
        BY <2>1, <2>3
      <3> QED BY <2>1, <3>2, <3>3 DEF Combined
    <2> QED BY <2>2, <2>3
  <1>3. AgreeOn(c, u, w)
    BY <1>2 DEF AgreeOn
  <1>4. u \in Valuations
    BY CombinedIsInput
  <1> QED BY <1>3, <1>4, ReadsAssumption

\* A solution of the required constraints extends to one of all constraints that
\* gives the expression the same value.
LEMMA Independence ==
  ASSUME NEW cs \in SUBSET Exprs, NEW e \in Exprs, Satisfying(cs) # {},
         NEW v \in Satisfying(RequiredConstraints(cs, e))
  PROVE  \E u \in Satisfying(cs) : u \in Models[e] <=> v \in Models[e]
  <1> DEFINE R == RequiredConstraints(cs, e)
             E == R \cup {e}
  <1>1. R \subseteq cs /\ Closed(R, cs, e)
    BY RequiredClosed
  <1>2. PICK w \in Satisfying(cs) : TRUE
    OBVIOUS
  <1>3. v \in Valuations /\ w \in Valuations /\ E \in SUBSET Exprs
    BY <1>1 DEF Satisfying
  <1> DEFINE u == Combined(E, v, w)
  <1>4. u \in Valuations
    BY <1>3, CombinedIsInput
  <1>5. u \in Models[e] <=> v \in Models[e]
    BY <1>3, CombinedInside
  <1>6. ASSUME NEW c \in cs PROVE u \in Models[c]
    <2>1. CASE c \in R
      BY <1>3, <2>1, CombinedInside DEF Satisfying
    <2>2. CASE c \notin R
      <3>1. ~Intersects(ElementSet(c), ElementsOf(E))
        BY <1>1, <2>2 DEF Closed
      <3>2. w \in Models[c]
        BY DEF Satisfying
      <3> QED BY <1>3, <3>1, <3>2, CombinedOutside
    <2> QED BY <2>1, <2>2
  <1>7. u \in Satisfying(cs)
    BY <1>4, <1>6 DEF Satisfying
  <1> HIDE DEF u
  <1> QED BY <1>5, <1>7

\* So the required constraints give the same judgement as all of them.
LEMMA RequiredSuffices ==
  ASSUME NEW cs \in SUBSET Exprs, NEW e \in Exprs, Satisfying(cs) # {}
  PROVE  LET R == RequiredConstraints(cs, e)
         IN  /\ R \in SUBSET Exprs
             /\ Satisfying(R) # {}
             /\ Valid(R, e) = Valid(cs, e)
             /\ Judgement(R, e) = Judgement(cs, e)
  <1> DEFINE R == RequiredConstraints(cs, e)
  <1>1. R \subseteq cs
    BY RequiredClosed
  <1>2. Satisfying(cs) \subseteq Satisfying(R)
    BY <1>1 DEF Satisfying
  <1>3. Valid(R, e) <=> Valid(cs, e)
    BY <1>2, Independence DEF Valid
  <1>4. Valid(R, Neg[e]) <=> Valid(cs, Neg[e])
    <2>1. \A v \in Satisfying(R) \cup Satisfying(cs) : v \in Models[Neg[e]] <=> v \notin Models[e]
      BY NegHolds DEF Satisfying
    <2> QED BY <1>2, <2>1, Independence DEF Valid
  <1>5. Valid(R, e) \in BOOLEAN /\ Valid(cs, e) \in BOOLEAN
    BY DEF Valid
  <1> QED BY <1>1, <1>2, <1>3, <1>4, <1>5 DEF Judgement
---------------------------------------------------------------------------
(* The chain as a whole, asked about a feasible path.                       *)

\* computeValidity of the chain answers truly for the whole path.
LEMMA ComputeValidityOK ==
  ASSUME NEW cs \in SUBSET Exprs, NEW e \in Exprs, Satisfying(cs) # {}, NEW s, StoreOK(s),
         NEW o \in ComputeValidity(cs, e, s)
  PROVE  OutcomeOK(o) /\ (o.ok => o.res = Judgement(cs, e))
  BY RequiredSuffices, CachingValidityOK DEF ComputeValidity

\* computeTruth of the chain answers truly for the whole path.
LEMMA ComputeTruthOK ==
  ASSUME NEW cs \in SUBSET Exprs, NEW e \in Exprs, Satisfying(cs) # {}, NEW s, StoreOK(s),
         NEW o \in ComputeTruth(cs, e, s)
  PROVE  OutcomeOK(o) /\ (o.ok => o.res = Valid(cs, e))
  BY RequiredSuffices, CachingTruthOK DEF ComputeTruth

\* computeValue of the chain yields a value the expression has on the path.
LEMMA ComputeValueOK ==
  ASSUME NEW cs \in SUBSET Exprs, NEW e \in Exprs, Satisfying(cs) # {}, NEW s, StoreOK(s),
         NEW o \in ComputeValue(cs, e, s)
  PROVE  /\ OutcomeOK(o)
         /\ o.ok \/ o.stp
         /\ o.ok => \E v \in Satisfying(cs) : o.res = (v \in Models[e])
  <1> DEFINE R == RequiredConstraints(cs, e)
  <1>1. R \in SUBSET Exprs /\ Satisfying(R) # {}
    BY RequiredSuffices
  <1>2. /\ OutcomeOK(o)
        /\ o.ok \/ o.stp
        /\ o.ok => \E v \in Satisfying(R) : o.res = (v \in Models[e])
    BY <1>1, CexValueOK DEF ComputeValue
  <1>3. \A v \in Satisfying(R) : \E u \in Satisfying(cs) : (v \in Models[e]) = (u \in Models[e])
    BY Independence
  <1> QED BY <1>2, <1>3
---------------------------------------------------------------------------
(* The invariant.                                                           *)

IInv ==
  /\ paths \subseteq Seq(Exprs)
  /\ tryAll \in BOOLEAN
  /\ StoreOK(store)
  /\ asked \in 0 .. MaxQueries
  /\ gone \subseteq Valuations
  /\ PathsFeasible
  /\ InputsPartitioned

\* A path is a satisfiable set of expressions, which a new condition splits.
LEMMA PathFacts ==
  ASSUME IInv, NEW pc \in paths
  PROVE  /\ Members(pc) \in SUBSET Exprs
         /\ Satisfying(Members(pc)) # {}
         /\ \A e \in Exprs :
              /\ Append(pc, e) \in Seq(Exprs)
              /\ Satisfying(Members(Append(pc, e))) = Satisfying(Members(pc)) \cap Models[e]
  <1>1. pc \in Seq(Exprs)
    BY DEF IInv
  <1>2. Members(pc) \in SUBSET Exprs
    BY <1>1 DEF Members
  <1>3. ASSUME NEW e \in Exprs
        PROVE  /\ Append(pc, e) \in Seq(Exprs)
               /\ Members(Append(pc, e)) = Members(pc) \cup {e}
    <2>1. Append(pc, e) \in Seq(Exprs)
      BY <1>1
    <2>2. /\ DOMAIN Append(pc, e) = 1 .. Len(pc) + 1
          /\ DOMAIN pc = 1 .. Len(pc)
          /\ Len(pc) \in Nat
          /\ Append(pc, e)[Len(pc) + 1] = e
          /\ \A i \in 1 .. Len(pc) : Append(pc, e)[i] = pc[i]
      BY <1>1
    <2>3. 1 .. Len(pc) + 1 = (1 .. Len(pc)) \cup {Len(pc) + 1}
      BY <2>2
    <2>4. Members(Append(pc, e)) = Members(pc) \cup {e}
      BY <2>2, <2>3, ZenonT(40) DEF Members
    <2> QED BY <2>1, <2>4
  <1>4. \A e \in Exprs :
          Satisfying(Members(pc) \cup {e}) = Satisfying(Members(pc)) \cap Models[e]
    BY NegHolds DEF Satisfying
  <1> QED BY <1>2, <1>3, <1>4 DEF IInv, PathsFeasible

\* Replacing a path by feasible, disjoint parts of it keeps the partition.
LEMMA ReplaceKeeps ==
  ASSUME IInv, NEW pc \in paths, NEW P \in SUBSET Seq(Exprs), Replace(pc, P),
         \A p \in P : /\ Satisfying(Members(p)) # {}
                      /\ Satisfying(Members(p)) \subseteq Satisfying(Members(pc)),
         \A p, q \in P : p # q => Satisfying(Members(p)) \cap Satisfying(Members(q)) = {}
  PROVE  /\ paths' \subseteq Seq(Exprs)
         /\ gone' \subseteq Valuations
         /\ PathsFeasible'
         /\ InputsPartitioned'
  <1> DEFINE Sat(p) == Satisfying(Members(p))
  <1>1. /\ paths' = (paths \ {pc}) \cup P
        /\ gone' = gone \cup (Sat(pc) \ UNION {Sat(p) : p \in P})
    BY DEF Replace
  <1>2. /\ \A v \in Valuations \ gone : \E p \in paths : v \in Sat(p)
        /\ \A p \in paths : Sat(p) \cap gone = {}
        /\ \A p, q \in paths : p # q => Sat(p) \cap Sat(q) = {}
        /\ \A p \in paths : Sat(p) # {}
        /\ paths \subseteq Seq(Exprs)
        /\ gone \subseteq Valuations
    BY DEF IInv, InputsPartitioned, PathsFeasible
  <1>3. \A p : Sat(p) \subseteq Valuations
    BY DEF Satisfying
  <1>4. /\ \A p \in P : Sat(p) # {} /\ Sat(p) \subseteq Sat(pc)
        /\ \A p, q \in P : p # q => Sat(p) \cap Sat(q) = {}
    OBVIOUS
  <1> HIDE DEF Sat
  <1>5. paths' \subseteq Seq(Exprs) /\ gone' \subseteq Valuations
    BY <1>1, <1>2, <1>3
  <1>6. \A p \in paths' : Sat(p) # {}
    BY <1>1, <1>2, <1>4
  <1>7. ASSUME NEW v \in Valuations \ gone' PROVE \E p \in paths' : v \in Sat(p)
    <2>1. PICK p \in paths : v \in Sat(p)
      BY <1>1, <1>2
    <2>2. CASE p = pc
      BY <1>1, <2>1, <2>2
    <2>3. CASE p # pc
      BY <1>1, <2>1, <2>3
    <2> QED BY <2>2, <2>3
  <1>8. ASSUME NEW p \in paths' PROVE Sat(p) \cap gone' = {}
    <2>1. CASE p \in P
      BY <1>1, <1>2, <1>4, <2>1
    <2>2. CASE p \in paths /\ p # pc
      BY <1>1, <1>2, <2>2
    <2> QED BY <1>1, <2>1, <2>2
  <1>9. ASSUME NEW p \in paths', NEW q \in paths', p # q PROVE Sat(p) \cap Sat(q) = {}
    <2>1. CASE p \in P /\ q \in P
      BY <1>4, <1>9, <2>1
    <2>2. CASE p \in P /\ q \in paths \ {pc}
      BY <1>2, <1>4, <2>2
    <2>3. CASE q \in P /\ p \in paths \ {pc}
      BY <1>2, <1>4, <2>3
    <2>4. CASE p \in paths /\ q \in paths
      BY <1>2, <1>9, <2>4
    <2> QED BY <1>1, <2>1, <2>2, <2>3, <2>4
  <1> QED BY <1>5, <1>6, <1>7, <1>8, <1>9 DEF PathsFeasible, InputsPartitioned, Sat
---------------------------------------------------------------------------
(* The actions.  Each keeps the invariant and, without the experimental      *)
(* option, is the oracle's action, failing when STP did.                     *)

\* A query keeps the caches and the counters.
LEMMA AskKeeps ==
  ASSUME IInv, asked < MaxQueries, NEW o, OutcomeOK(o),
         NEW op, NEW pc, NEW e, NEW res, NEW input, Ask(op, pc, e, o, res, input)
  PROVE  tryAll' \in BOOLEAN /\ StoreOK(store') /\ asked' \in 0 .. MaxQueries
  BY OtherAssumption DEF IInv, Ask, OutcomeOK

\* Without the experimental option a call fails exactly when STP failed.
LEMMA FailsWithSTP ==
  ASSUME NEW o, OutcomeOK(o), ~Experimental
  PROVE  o.stp \in BOOLEAN /\ o.ok = ~o.stp
  BY DEF OutcomeOK

\* A query that forks nothing keeps the paths.
LEMMA KeepsWhenUnchanged ==
  ASSUME IInv, UNCHANGED <<paths, gone>>
  PROVE  paths' \subseteq Seq(Exprs) /\ gone' \subseteq Valuations /\ PathsFeasible' /\ InputsPartitioned'
  BY DEF IInv, PathsFeasible, InputsPartitioned

\* A path that ends takes its inputs with it.
LEMMA KeepsWhenEnded ==
  ASSUME IInv, NEW pc \in paths, Replace(pc, {})
  PROVE  paths' \subseteq Seq(Exprs) /\ gone' \subseteq Valuations /\ PathsFeasible' /\ InputsPartitioned'
  BY ReplaceKeeps

\* The oracle speaks of the same inputs, paths and verdicts.
LEMMA SameOracle ==
  /\ \A E : Oracle!Satisfying(E) = Satisfying(E)
  /\ \A s : Oracle!Members(s) = Members(s)
  /\ \A cs, e : Oracle!Valid(cs, e) = Valid(cs, e) /\ Oracle!Verdict(cs, e) = Judgement(cs, e)
  /\ \A b : Oracle!Truth(b) = Truth(b)
  BY DEF Oracle!Satisfying, Satisfying, Oracle!Members, Members, Oracle!Valid, Valid,
         Oracle!Verdict, Judgement, Oracle!Truth, Truth

\* Replacing a path is the same in the oracle.
LEMMA SameReplace ==
  ASSUME NEW pc, NEW P, Replace(pc, P)
  PROVE  Oracle!Replace(pc, P)
  BY SameOracle DEF Replace, Oracle!Replace

\* An answer that is right, or failed with STP, is one of the oracle's.
LEMMA SameAnswer ==
  ASSUME NEW op, NEW pc, NEW e, NEW o, OutcomeOK(o), ~Experimental,
         NEW res, NEW input, NEW x, NEW y, o.ok => x = res /\ y = input,
         Ask(op, pc, e, o, x, y)
  PROVE  Oracle!Answer(op, pc, e, o.stp, res, input)
  BY SameOracle, FailsWithSTP, Zenon DEF Ask, Oracle!Answer

\* fork() keeps the invariant and is a step of the oracle.
LEMMA ForkStep ==
  ASSUME IInv, asked < MaxQueries, NEW pc \in paths, NEW e \in Exprs, Fork(pc, e)
  PROVE  IInv' /\ (~Experimental => \E stp \in BOOLEAN : Oracle!Fork(pc, e, stp))
  <1> DEFINE cs == Members(pc)
  <1>1. PICK o \in ComputeValidity(cs, e, store) :
          /\ Ask("evaluate", pc, e, o, o.res, Null)
          /\ \/ ~o.ok /\ Replace(pc, {})
             \/ o.ok /\ o.res # "Unknown" /\ UNCHANGED <<paths, gone>>
             \/ o.ok /\ o.res = "Unknown" /\ Replace(pc, {Append(pc, e), Append(pc, Neg[e])})
             \/ o.ok /\ o.res = "Unknown" /\ \E side \in {e, Neg[e]} : Replace(pc, {Append(pc, side)})
    BY DEF Fork
  <1>2. cs \in SUBSET Exprs /\ Satisfying(cs) # {} /\ StoreOK(store)
    BY PathFacts DEF IInv
  <1>3. OutcomeOK(o) /\ (o.ok => o.res = Judgement(cs, e))
    BY <1>2, ComputeValidityOK
  <1>4. tryAll' \in BOOLEAN /\ StoreOK(store') /\ asked' \in 0 .. MaxQueries
    BY <1>1, <1>3, AskKeeps
  <1>5. Neg[e] \in Exprs
    BY NegHolds
  <1>6. ASSUME o.ok, o.res = "Unknown"
        PROVE  /\ \A side \in {e, Neg[e]} :
                    /\ Append(pc, side) \in Seq(Exprs)
                    /\ Satisfying(Members(Append(pc, side))) # {}
                    /\ Satisfying(Members(Append(pc, side))) \subseteq Satisfying(cs)
               /\ Satisfying(Members(Append(pc, e))) \cap Satisfying(Members(Append(pc, Neg[e]))) = {}
    <2>1. \A side \in {e, Neg[e]} :
            /\ Append(pc, side) \in Seq(Exprs)
            /\ Satisfying(Members(Append(pc, side))) = Satisfying(cs) \cap Models[side]
      BY <1>5, PathFacts
    <2>2. \A v \in Satisfying(cs) : v \in Models[Neg[e]] <=> v \notin Models[e]
      BY NegHolds DEF Satisfying
    <2>3. ~Valid(cs, e) /\ ~Valid(cs, Neg[e])
      BY <1>3, <1>6, SMTT(30) DEF Judgement
    <2> QED BY <2>1, <2>2, <2>3 DEF Valid
  <1>7. paths' \subseteq Seq(Exprs) /\ gone' \subseteq Valuations /\ PathsFeasible' /\ InputsPartitioned'
    <2>1. CASE ~o.ok /\ Replace(pc, {})
      BY <2>1, KeepsWhenEnded
    <2>2. CASE o.ok /\ o.res # "Unknown" /\ UNCHANGED <<paths, gone>>
      BY <2>2, KeepsWhenUnchanged
    <2>3. CASE o.ok /\ o.res = "Unknown" /\ Replace(pc, {Append(pc, e), Append(pc, Neg[e])})
      <3> DEFINE P == {Append(pc, e), Append(pc, Neg[e])}
      <3>1. /\ P \in SUBSET Seq(Exprs)
            /\ \A p \in P : /\ Satisfying(Members(p)) # {}
                            /\ Satisfying(Members(p)) \subseteq Satisfying(Members(pc))
            /\ \A p, q \in P : p # q => Satisfying(Members(p)) \cap Satisfying(Members(q)) = {}
        BY <1>6, <2>3
      <3>2. Replace(pc, P)
        BY <2>3
      <3> HIDE DEF P
      <3> QED BY <3>1, <3>2, ReplaceKeeps, ZenonT(40)
    <2>4. CASE o.ok /\ o.res = "Unknown" /\ \E side \in {e, Neg[e]} : Replace(pc, {Append(pc, side)})
      <3>1. PICK side \in {e, Neg[e]} : Replace(pc, {Append(pc, side)})
        BY <2>4, Zenon
      <3> DEFINE P == {Append(pc, side)}
      <3>2. /\ P \in SUBSET Seq(Exprs)
            /\ \A p \in P : /\ Satisfying(Members(p)) # {}
                            /\ Satisfying(Members(p)) \subseteq Satisfying(Members(pc))
            /\ \A p, q \in P : p # q => Satisfying(Members(p)) \cap Satisfying(Members(q)) = {}
        BY <1>6, <2>4
      <3>3. Replace(pc, P)
        BY <3>1
      <3> HIDE DEF P
      <3> QED BY <3>2, <3>3, ReplaceKeeps, SMTT(30)
    <2> QED BY <1>1, <2>1, <2>2, <2>3, <2>4
  <1>8. ASSUME ~Experimental PROVE \E stp \in BOOLEAN : Oracle!Fork(pc, e, stp)
    <2>1. Oracle!Answer("evaluate", pc, e, o.stp, Judgement(cs, e), Null)
      BY <1>1, <1>3, <1>8, SameAnswer, Zenon
    <2>2. o.stp \in BOOLEAN /\ o.ok = ~o.stp
      BY <1>3, <1>8, FailsWithSTP
    <2>3. Oracle!Verdict(Oracle!Members(pc), e) = Judgement(cs, e)
      BY SameOracle
    <2>4. Oracle!Fork(pc, e, o.stp)
      BY <1>1, <1>3, <2>1, <2>2, <2>3, SameReplace, Zenon DEF Oracle!Fork
    <2> QED BY <2>2, <2>4
  <1> QED BY <1>4, <1>7, <1>8 DEF IInv

\* toConstant() keeps the invariant and is a step of the oracle.
LEMMA ToConstantStep ==
  ASSUME IInv, asked < MaxQueries, NEW pc \in paths, NEW e \in Exprs, ToConstant(pc, e)
  PROVE  IInv' /\ (~Experimental => \E stp \in BOOLEAN : Oracle!ToConstant(pc, e, stp))
  <1> DEFINE cs == Members(pc)
             side(b) == IF b THEN e ELSE Neg[e]
  <1>1. PICK o \in ComputeValue(cs, e, store) :
          /\ Ask("getValue", pc, e, o, Truth(o.res), Null)
          /\ \/ o.ok /\ Replace(pc, {Append(pc, side(o.res))})
             \/ ~o.ok /\ paths' = {} /\ gone' = Valuations
    BY Zenon DEF ToConstant
  <1>2. cs \in SUBSET Exprs /\ Satisfying(cs) # {} /\ StoreOK(store)
    BY PathFacts DEF IInv
  <1>3. /\ OutcomeOK(o)
        /\ o.ok => \E v \in Satisfying(cs) : o.res = (v \in Models[e])
    BY <1>2, ComputeValueOK
  <1>4. tryAll' \in BOOLEAN /\ StoreOK(store') /\ asked' \in 0 .. MaxQueries
    BY <1>1, <1>3, AskKeeps
  <1>5. PICK v \in Satisfying(cs) : o.ok => o.res = (v \in Models[e])
    BY <1>2, <1>3
  <1>6. ASSUME o.ok, Replace(pc, {Append(pc, side(o.res))}) PROVE IInv'
    <2>1. PICK d \in Exprs : d = side(o.res) /\ v \in Models[d]
      <3>1. e \in Exprs /\ Neg[e] \in Exprs /\ (v \in Models[e] \/ v \in Models[Neg[e]])
        BY NegHolds DEF Satisfying
      <3>2. o.res = (v \in Models[e])
        BY <1>5, <1>6
      <3>3. CASE v \in Models[e]
        BY <3>1, <3>2, <3>3, Zenon
      <3>4. CASE v \notin Models[e]
        BY <3>1, <3>2, <3>4, Zenon
      <3> QED BY <3>3, <3>4
    <2> DEFINE P == {Append(pc, d)}
    <2>2. Append(pc, d) \in Seq(Exprs) /\ Satisfying(Members(Append(pc, d))) = Satisfying(cs) \cap Models[d]
      BY PathFacts
    <2>3. Replace(pc, P)
      BY <1>6, <2>1
    <2>4. /\ P \in SUBSET Seq(Exprs)
          /\ \A p \in P : /\ Satisfying(Members(p)) # {}
                          /\ Satisfying(Members(p)) \subseteq Satisfying(Members(pc))
          /\ \A p, q \in P : p # q => Satisfying(Members(p)) \cap Satisfying(Members(q)) = {}
      BY <2>1, <2>2
    <2> HIDE DEF P
    <2>5. paths' \subseteq Seq(Exprs) /\ gone' \subseteq Valuations /\ PathsFeasible' /\ InputsPartitioned'
      BY <2>3, <2>4, ReplaceKeeps
    <2> QED BY <1>4, <2>5 DEF IInv
  <1>7. ASSUME paths' = {}, gone' = Valuations PROVE IInv'
    BY <1>4, <1>7 DEF IInv, PathsFeasible, InputsPartitioned
  <1>8. ASSUME ~Experimental PROVE \E stp \in BOOLEAN : Oracle!ToConstant(pc, e, stp)
    <2>1. o.stp \in BOOLEAN /\ o.ok = ~o.stp
      BY <1>3, <1>8, FailsWithSTP
    <2>2. o.ok => Truth(o.res) = Truth(v \in Models[e])
      BY <1>5
    <2>3. Oracle!Answer("getValue", pc, e, o.stp, Truth(v \in Models[e]), Null)
      BY <1>1, <1>3, <1>8, <2>2, SameAnswer, Zenon
    <2>4. Oracle!Truth(v \in Models[e]) = Truth(v \in Models[e])
      BY SameOracle
    <2>5. v \in Oracle!Satisfying(Oracle!Members(pc))
      BY SameOracle
    <2>6. \/ ~o.stp /\ Oracle!Replace(pc, {Append(pc, IF v \in Models[e] THEN e ELSE Neg[e])})
          \/ o.stp /\ paths' = {} /\ gone' = Valuations
      BY <1>1, <1>5, <2>1, SameReplace, Zenon
    <2>7. Oracle!ToConstant(pc, e, o.stp)
      BY <2>3, <2>4, <2>5, <2>6, Zenon DEF Oracle!ToConstant
    <2> QED BY <2>1, <2>7
  <1> QED BY <1>1, <1>6, <1>7, <1>8

\* mustBeTrue() keeps the invariant and is a step of the oracle.
LEMMA MustBeTrueStep ==
  ASSUME IInv, asked < MaxQueries, NEW pc \in paths, NEW e \in Exprs, MustBeTrue(pc, e)
  PROVE  IInv' /\ (~Experimental => \E stp \in BOOLEAN : Oracle!MustBeTrue(pc, e, stp))
  <1> DEFINE cs == Members(pc)
  <1>1. PICK o \in ComputeTruth(cs, e, store) :
          /\ Ask("mustBeTrue", pc, e, o, Truth(o.res), Null)
          /\ IF o.ok THEN UNCHANGED <<paths, gone>> ELSE Replace(pc, {})
    BY DEF MustBeTrue
  <1>2. cs \in SUBSET Exprs /\ Satisfying(cs) # {} /\ StoreOK(store)
    BY PathFacts DEF IInv
  <1>3. OutcomeOK(o) /\ (o.ok => o.res = Valid(cs, e))
    BY <1>2, ComputeTruthOK
  <1>4. tryAll' \in BOOLEAN /\ StoreOK(store') /\ asked' \in 0 .. MaxQueries
    BY <1>1, <1>3, AskKeeps
  <1>5. paths' \subseteq Seq(Exprs) /\ gone' \subseteq Valuations /\ PathsFeasible' /\ InputsPartitioned'
    BY <1>1, KeepsWhenEnded, KeepsWhenUnchanged
  <1>6. ASSUME ~Experimental PROVE \E stp \in BOOLEAN : Oracle!MustBeTrue(pc, e, stp)
    <2>1. o.stp \in BOOLEAN /\ o.ok = ~o.stp
      BY <1>3, <1>6, FailsWithSTP
    <2>2. Oracle!Answer("mustBeTrue", pc, e, o.stp, Truth(Valid(cs, e)), Null)
      BY <1>1, <1>3, <1>6, SameAnswer, Zenon
    <2>3. Oracle!Truth(Oracle!Valid(Oracle!Members(pc), e)) = Truth(Valid(cs, e))
      BY SameOracle
    <2>4. Oracle!MustBeTrue(pc, e, o.stp)
      BY <1>1, <2>1, <2>2, <2>3, SameReplace, Zenon DEF Oracle!MustBeTrue
    <2> QED BY <2>1, <2>4
  <1> QED BY <1>4, <1>5, <1>6 DEF IInv

\* mayBeTrue() keeps the invariant and is a step of the oracle.
LEMMA MayBeTrueStep ==
  ASSUME IInv, asked < MaxQueries, NEW pc \in paths, NEW e \in Exprs, MayBeTrue(pc, e)
  PROVE  IInv' /\ (~Experimental => \E stp \in BOOLEAN : Oracle!MayBeTrue(pc, e, stp))
  <1> DEFINE cs == Members(pc)
  <1>1. PICK o \in ComputeTruth(cs, Neg[e], store) :
          /\ Ask("mayBeTrue", pc, e, o, Truth(~o.res), Null)
          /\ IF o.ok THEN UNCHANGED <<paths, gone>> ELSE Replace(pc, {})
    BY DEF MayBeTrue
  <1>2. cs \in SUBSET Exprs /\ Satisfying(cs) # {} /\ StoreOK(store) /\ Neg[e] \in Exprs
    BY PathFacts, NegHolds DEF IInv
  <1>3. OutcomeOK(o) /\ (o.ok => o.res = Valid(cs, Neg[e]))
    BY <1>2, ComputeTruthOK
  <1>4. tryAll' \in BOOLEAN /\ StoreOK(store') /\ asked' \in 0 .. MaxQueries
    BY <1>1, <1>3, AskKeeps
  <1>5. paths' \subseteq Seq(Exprs) /\ gone' \subseteq Valuations /\ PathsFeasible' /\ InputsPartitioned'
    BY <1>1, KeepsWhenEnded, KeepsWhenUnchanged
  <1>6. ASSUME ~Experimental PROVE \E stp \in BOOLEAN : Oracle!MayBeTrue(pc, e, stp)
    <2>1. o.stp \in BOOLEAN /\ o.ok = ~o.stp
      BY <1>3, <1>6, FailsWithSTP
    <2>2. Oracle!Answer("mayBeTrue", pc, e, o.stp, Truth(~Valid(cs, Neg[e])), Null)
      BY <1>1, <1>3, <1>6, SameAnswer, Zenon
    <2>3. Oracle!Truth(~Oracle!Valid(Oracle!Members(pc), Neg[e])) = Truth(~Valid(cs, Neg[e]))
      BY SameOracle
    <2>4. Oracle!MayBeTrue(pc, e, o.stp)
      BY <1>1, <2>1, <2>2, <2>3, SameReplace, Zenon DEF Oracle!MayBeTrue
    <2> QED BY <2>1, <2>4
  <1> QED BY <1>4, <1>5, <1>6 DEF IInv

\* The constraints a test case is computed from still contain the path's, and
\* still have a solution.
LEMMA PreferredOK ==
  ASSUME NEW cs \in SUBSET Exprs, Satisfying(cs) # {}, NEW s, StoreOK(s),
         NEW p \in Exprs, NEW t \in Preferred(cs, p, s)
  PROVE  /\ t.cs \in SUBSET Exprs
         /\ Satisfying(t.cs) # {}
         /\ Satisfying(t.cs) \subseteq Satisfying(cs)
         /\ StoreOK(t.store)
  <1>1. PICK o \in ComputeTruth(cs, Neg[p], s) :
          t = [cs |-> IF o.ok /\ ~o.res THEN cs \cup {p} ELSE cs, store |-> o.store]
    BY DEF Preferred
  <1>2. OutcomeOK(o) /\ (o.ok => o.res = Valid(cs, Neg[p]))
    BY NegHolds, ComputeTruthOK
  <1>3. CASE o.ok /\ ~o.res
    <2>1. PICK v \in Satisfying(cs) : v \notin Models[Neg[p]]
      BY <1>2, <1>3, Zenon DEF Valid
    <2>2. v \in Satisfying(cs \cup {p})
      BY <2>1, NegHolds DEF Satisfying
    <2>3. Satisfying(cs \cup {p}) \subseteq Satisfying(cs)
      BY DEF Satisfying
    <2> QED BY <1>1, <1>2, <1>3, <2>2, <2>3 DEF OutcomeOK
  <1>4. CASE ~(o.ok /\ ~o.res)
    BY <1>1, <1>2, <1>4 DEF OutcomeOK
  <1> QED BY <1>3, <1>4

\* getSymbolicSolution() keeps the invariant and is a step of the oracle.
LEMMA GetSymbolicSolutionStep ==
  ASSUME IInv, asked < MaxQueries, NEW pc \in paths, GetSymbolicSolution(pc)
  PROVE  IInv' /\ (~Experimental => \E stp \in BOOLEAN : Oracle!GetSymbolicSolution(pc, stp))
  <1> DEFINE cs == Members(pc)
  <1>1. PICK t \in {[cs |-> cs, store |-> store]} \cup UNION {Preferred(cs, p, store) : p \in Preferences} :
          \E o \in CexInitialValues(t.cs, t.store) :
            Ask("getInitialValues", pc, Null, o, Null, o.res) /\ Replace(pc, {})
    BY DEF GetSymbolicSolution
  <1>2. PICK o \in CexInitialValues(t.cs, t.store) :
            Ask("getInitialValues", pc, Null, o, Null, o.res) /\ Replace(pc, {})
    BY <1>1, SMTT(30)
  <1>3. cs \in SUBSET Exprs /\ Satisfying(cs) # {} /\ StoreOK(store)
    BY PathFacts DEF IInv
  <1>4. /\ t.cs \in SUBSET Exprs
        /\ Satisfying(t.cs) # {}
        /\ Satisfying(t.cs) \subseteq Satisfying(cs)
        /\ StoreOK(t.store)
    <2>1. CASE t = [cs |-> cs, store |-> store]
      BY <1>3, <2>1
    <2>2. CASE \E p \in Preferences : t \in Preferred(cs, p, store)
      <3>1. PICK p \in Exprs : t \in Preferred(cs, p, store)
        BY <2>2, OtherAssumption
      <3> HIDE DEF cs
      <3> QED BY <1>3, <3>1, PreferredOK
    <2> QED BY <2>1, <2>2
  <1>5. OutcomeOK(o) /\ (o.ok => o.res \in Satisfying(t.cs))
    BY <1>4, CexInitialValuesOK
  <1>6. tryAll' \in BOOLEAN /\ StoreOK(store') /\ asked' \in 0 .. MaxQueries
    BY <1>2, <1>5, AskKeeps
  <1>7. paths' \subseteq Seq(Exprs) /\ gone' \subseteq Valuations /\ PathsFeasible' /\ InputsPartitioned'
    BY <1>2, KeepsWhenEnded
  <1>8. ASSUME ~Experimental PROVE \E stp \in BOOLEAN : Oracle!GetSymbolicSolution(pc, stp)
    <2>1. o.stp \in BOOLEAN /\ o.ok = ~o.stp
      BY <1>5, <1>8, FailsWithSTP
    <2>2. PICK v \in Satisfying(cs) : o.ok => v = o.res
      BY <1>3, <1>4, <1>5
    <2>3. Oracle!Answer("getInitialValues", pc, Null, o.stp, Null, v)
      BY <1>2, <1>5, <1>8, <2>2, SameAnswer, Zenon
    <2>4. v \in Oracle!Satisfying(Oracle!Members(pc))
      BY SameOracle
    <2>5. Oracle!GetSymbolicSolution(pc, o.stp)
      BY <1>2, <2>3, <2>4, SameReplace DEF Oracle!GetSymbolicSolution
    <2> QED BY <2>1, <2>5
  <1> QED BY <1>6, <1>7, <1>8 DEF IInv
---------------------------------------------------------------------------
\* At first the caches are empty and one path has all inputs.
LEMMA InitIInv == Init => IInv
  <1> SUFFICES ASSUME Init PROVE IInv
    OBVIOUS
  <1>1. Satisfying(Members(<<>>)) = Valuations
    BY DEF Satisfying, Members
  <1>2. Valuations # {}
    <2> DEFINE z == [a \in Arrays |-> Zeros(a)]
               all == UNION {Contents(a) : a \in Arrays}
    <2>1. \A a \in Arrays : Zeros(a) \in Contents(a)
      BY ArrayAssumption DEF Zeros, Contents
    <2>2. \A a \in Arrays : Contents(a) \subseteq all
      OBVIOUS
    <2>3. z \in [Arrays -> all] /\ \A a \in Arrays : z[a] \in Contents(a)
      BY <2>1, <2>2
    <2>4. z \in Valuations
      BY <2>3 DEF Valuations
    <2> QED BY <2>4
  <1>3. StoreOK(store)
    BY DEF Init, StoreOK
  <1>4. PathsFeasible /\ InputsPartitioned
    BY <1>1, <1>2 DEF Init, PathsFeasible, InputsPartitioned
  <1>5. <<>> \in Seq(Exprs)
    OBVIOUS
  <1> QED BY <1>3, <1>4, <1>5, OtherAssumption DEF Init, IInv

\* Every query keeps the invariant and is a step of the oracle.
LEMMA StepIInv ==
  ASSUME IInv, [Next]_vars
  PROVE  IInv' /\ (~Experimental => [Oracle!Next]_(Oracle!vars))
  <1>1. CASE UNCHANGED vars
    <2>1. IInv'
      BY <1>1 DEF IInv, vars, PathsFeasible, InputsPartitioned
    <2> QED BY <1>1, <2>1 DEF vars, Oracle!vars
  <1>2. CASE Next
    <2>1. asked < MaxQueries
      BY <1>2 DEF Next
    <2>2. PICK pc \in paths :
            \/ GetSymbolicSolution(pc)
            \/ \E e \in Exprs :
                 Fork(pc, e) \/ ToConstant(pc, e) \/ MustBeTrue(pc, e) \/ MayBeTrue(pc, e)
      BY <1>2 DEF Next
    <2>3. CASE GetSymbolicSolution(pc)
      BY <2>1, <2>3, GetSymbolicSolutionStep DEF Oracle!Next
    <2>4. ASSUME NEW e \in Exprs,
                 Fork(pc, e) \/ ToConstant(pc, e) \/ MustBeTrue(pc, e) \/ MayBeTrue(pc, e)
          PROVE  IInv' /\ (~Experimental => Oracle!Next)
      <3>1. CASE Fork(pc, e)
        BY <2>1, <3>1, ForkStep DEF Oracle!Next
      <3>2. CASE ToConstant(pc, e)
        BY <2>1, <3>2, ToConstantStep DEF Oracle!Next
      <3>3. CASE MustBeTrue(pc, e)
        BY <2>1, <3>3, MustBeTrueStep DEF Oracle!Next
      <3>4. CASE MayBeTrue(pc, e)
        BY <2>1, <3>4, MayBeTrueStep DEF Oracle!Next
      <3> QED BY <2>4, <3>1, <3>2, <3>3, <3>4
    <2> QED BY <2>2, <2>3, <2>4
  <1> QED BY <1>1, <1>2

\* The invariant holds, with and without cex-cache-exp.
LEMMA ChainInvariant == Spec => []IInv
  <1>1. IInv /\ [Next]_vars => IInv'
    BY StepIInv
  <1> QED BY InitIInv, <1>1, PTL DEF Spec

\* No entry of the two caches is ever false, for any arrays and expressions:
\* CachingSolver::cacheInsert and CexCachingSolver::getAssignment only record
\* what the solver below, or an entry already there, justifies.
THEOREM CachesStayTrue == Spec => []CachesTrue
  <1>1. IInv => CachesTrue
    <2> SUFFICES ASSUME IInv, NEW k \in DOMAIN store.map, store.map[k] # Null
                 PROVE  Satisfies(store.map[k], k)
      BY DEF IInv, StoreOK, CachesTrue, Solves
    <2>1. Solves(store.map[k], k)
      BY DEF IInv, StoreOK
    <2> QED BY <2>1 DEF Solves, Satisfies, Satisfying
  <1> QED BY <1>1, ChainInvariant, PTL

\* Every live state can be reached by some input, although fork and toConstant
\* ask only about the constraints that the condition depends on; and the live
\* states and the ended ones share out the inputs among them.
THEOREM PathsStayExact == Spec => []PathsShareInputs
  <1>1. IInv => PathsShareInputs
    BY DEF IInv, PathsShareInputs
  <1> QED BY <1>1, ChainInvariant, PTL

\* With the default options the chain of IndependentSolver, CachingSolver and
\* CexCachingSolver is indistinguishable from the oracle.
THEOREM ChainIsOracle == ~Experimental => (Spec => ImplementsOracle)
  <1> SUFFICES ASSUME ~Experimental PROVE Spec => ImplementsOracle
    OBVIOUS
  <1>1. Init => Oracle!Init
    BY DEF Init, Oracle!Init, NoAnswer
  <1>2. IInv /\ [Next]_vars => [Oracle!Next]_(Oracle!vars)
    BY StepIInv
  <1> QED BY <1>1, <1>2, ChainInvariant, PTL DEF Spec, ImplementsOracle, Oracle!Spec

\* The caches, the paths and the counters stay what they are declared to be
\* (CachingSolver::cache, CexCachingSolver::cache and assignmentsTable).
THEOREM ChainTyped == Spec => []TypeOK
  <1>1. IInv => TypeOK
    BY DEF IInv, StoreOK, Binding, TypeOK
  <1> QED BY <1>1, ChainInvariant, PTL
=============================================================================
