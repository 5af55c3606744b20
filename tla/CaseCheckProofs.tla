-------------------------- MODULE CaseCheckProofs --------------------------
(***************************************************************************)
(* Proofs about CaseCheck: what "not found", "ask a human" and "pass" rest *)
(* on, for all citations, records and answers.                             *)
(***************************************************************************)
EXTENDS CaseCheck, FiniteSetTheorems, TLAPS

USE DEF Refs

(* How far the routes of a citation have come where its lookup is.         *)
Searched(i) ==
  /\ pc[i] = "start" => tried[i] = 0
  /\ pc[i] \in {"start", "exact"} => exact[i] = {}
  /\ pc[i] = "exact" => tried[i] < Queries(refs[i])
  /\ pc[i] \in {"exact", "match", "supplement", "semantic", "decide"} =>
       refs[i].jurisdiction = "CN"
  /\ pc[i] \in {"match", "supplement", "semantic", "decide"} =>
       tried[i] > 0 /\ (exact[i] = {} => tried[i] = Queries(refs[i]))
  /\ pc[i] = "supplement" => found[i] \in Library

(* What the status of a lookup that is done rests on. *)
Grounded(i) ==
  pc[i] = "done" =>
    /\ status[i] = "verified" => found[i] \in Library
    /\ status[i] = "not_found" =>
         /\ refs[i].jurisdiction = "CN" /\ tried[i] = Queries(refs[i]) /\ tried[i] > 0
         /\ exact[i] = {} /\ semantic[i] = {}
    /\ status[i] = "manual_review" /\ tried[i] > 0 =>
         /\ Candidates(i) # {} /\ shown[i] \subseteq Candidates(i)
         /\ Cardinality(Candidates(i)) <= MaxShown \/ Cardinality(shown[i]) < MaxShown =>
              \A r \in Candidates(i) : \E s \in shown[i] : StandsFor(s, r)

(* The checks are those of the first citations, and their lookups are      *)
(* over.                                                                   *)
Compared ==
  /\ phase = "looking" => checks = <<>>
  /\ checks \in Seq([holding : Holdings, findings : SUBSET {"holding", "identity", "missing"},
                     outcome : {"issue", "pass", "bug"}])
  /\ PassMeansSame

IInv ==
  /\ TypeOK
  /\ \A i \in Refs : Searched(i) /\ Grounded(i)
  /\ Compared

-----------------------------------------------------------------------------
LEMMA QueriesType == \A c : Queries(c) \in Nat
BY DEF Queries

(* A record the semantic route has for a case is one of its answer. *)
LEMMA SameCaseAmongAnswers ==
  ASSUME NEW r, NEW R
  PROVE  SameCase(r, R) \subseteq R
<1> DEFINE M == IF r.number # None THEN Numbered(r.number, R) ELSE Titled(r.name, R)
<1>1. M \subseteq R
  BY DEF Numbered, Titled
<1>2. Pool(M, None) \subseteq M
  BY DEF Pool, OfType
<1>3. Resolved(M, None) \subseteq M
  BY <1>2 DEF Resolved, Best
<1>4. SameCase(r, R) = IF Cardinality(M) = 1 THEN M ELSE IF M = {} THEN {} ELSE Resolved(M, None)
  BY DEF SameCase
<1> QED
  BY <1>1, <1>3, <1>4

(* Records are told apart by no less than what StandsFor names.            *)
LEMMA KeyStandsFor ==
  ASSUME NEW r, NEW s, Key(s) = Key(r)
  PROVE  StandsFor(s, r)
<1>1. CASE r.id # None
  <2>1. Key(r) = <<"id", r.id>>
    BY <1>1 DEF Key
  <2>2. s.id # None
    BY <2>1 DEF Key
  <2> QED
    BY <2>1, <2>2 DEF Key, StandsFor
<1>2. CASE r.id = None /\ r.number # None
  <2>1. Key(r) = <<"number", r.number, r.name>>
    BY <1>2 DEF Key
  <2>2. s.id = None /\ s.number # None
    BY <2>1 DEF Key
  <2> QED
    BY <1>2, <2>1, <2>2 DEF Key, StandsFor
<1>3. CASE r.id = None /\ r.number = None
  <2>1. Key(r) = <<"title", r.name, r.court>>
    BY <1>3 DEF Key
  <2>2. s.id = None /\ s.number = None
    BY <2>1 DEF Key
  <2> QED
    BY <1>3, <2>1, <2>2 DEF Key, StandsFor
<1> QED
  BY <1>1, <1>2, <1>3

(* One of each kind of records is among them, and stands for the others. *)
LEMMA DistinctStand ==
  ASSUME NEW R, NEW D \in Distinct(R)
  PROVE  D \subseteq R /\ \A r \in R : \E s \in D : StandsFor(s, r)
BY KeyStandsFor DEF Distinct

(* Candidates that are few enough are all shown. *)
LEMMA CutType ==
  ASSUME NEW R, NEW S \in Cut(R)
  PROVE  /\ S \subseteq R
         /\ Cardinality(R) <= MaxShown \/ Cardinality(S) # MaxShown => S = R
BY DEF Cut

(* The steps of a lookup touch nothing of the others. *)
Alone(i) ==
  /\ \A j \in Refs \ {i} :
       /\ pc'[j] = pc[j] /\ tried'[j] = tried[j] /\ exact'[j] = exact[j]
       /\ semantic'[j] = semantic[j] /\ found'[j] = found[j]
       /\ status'[j] = status[j] /\ shown'[j] = shown[j]
  /\ UNCHANGED <<refs, phase, checks>>

-----------------------------------------------------------------------------
LEMMA InitInv == Init => IInv
<1> SUFFICES ASSUME Init PROVE IInv
  OBVIOUS
<1>1. TypeOK
  BY DEF Init, TypeOK, PC, Statuses
<1>2. \A i \in Refs : Searched(i) /\ Grounded(i)
  BY DEF Init, Searched, Grounded
<1>3. Compared
  BY DEF Init, Compared, PassMeansSame
<1> QED
  BY <1>1, <1>2, <1>3 DEF IInv

(* One lookup goes on: its own part of the invariant holds afterwards.     *)
LEMMA LookupStepInv ==
  ASSUME IInv, NEW i \in Refs, LookupStep(i)
  PROVE  /\ TypeOK' /\ Alone(i) /\ phase = "looking"
         /\ Searched(i)' /\ Grounded(i)'
<1> USE QueriesType DEF IInv, At, Keep
<1>0. /\ TypeOK /\ Searched(i) /\ Grounded(i)
      /\ Queries(refs[i]) \in Nat
  OBVIOUS
<1>1. CASE Start(i)
  <2>1. TypeOK' /\ Alone(i)
    BY <1>0, <1>1 DEF Start, Done, Continue, Goto, TypeOK, Alone, PC, Statuses
  <2>2. Searched(i)' /\ Grounded(i)'
    BY <1>0, <1>1 DEF Start, Done, Continue, Goto, TypeOK, Searched, Grounded
  <2> QED
    BY <1>1, <2>1, <2>2 DEF Start
<1>2. ASSUME NEW R \in Answer, SearchExact(i, R)
      PROVE  TypeOK' /\ Alone(i) /\ phase = "looking" /\ Searched(i)' /\ Grounded(i)'
  <2>1. TypeOK' /\ Alone(i)
    BY <1>0, <1>2 DEF SearchExact, Continue, Goto, TypeOK, Alone, PC, Answer
  <2>2. Searched(i)' /\ Grounded(i)'
    BY <1>0, <1>2 DEF SearchExact, Continue, Goto, TypeOK, Searched, Grounded
  <2> QED
    BY <1>2, <2>1, <2>2 DEF SearchExact
<1>3. ASSUME NEW R \in Answer, Supplement(i, R)
      PROVE  TypeOK' /\ Alone(i) /\ phase = "looking" /\ Searched(i)' /\ Grounded(i)'
  <2>1. SameCase(found[i], R) \subseteq Library
    BY SameCaseAmongAnswers DEF Answer
  <2>2. PICK e \in Library : Done(i, "verified", e, {})
    BY <1>0, <1>3, <2>1 DEF Supplement, Searched
  <2>3. TypeOK' /\ Alone(i)
    BY <1>0, <1>3, <2>2 DEF Supplement, Done, Goto, TypeOK, Alone, PC, Statuses
  <2>4. Searched(i)' /\ Grounded(i)'
    BY <1>0, <1>3, <2>2 DEF Supplement, Done, Goto, TypeOK, Searched, Grounded
  <2> QED
    BY <1>3, <2>3, <2>4 DEF Supplement
<1>4. ASSUME NEW R \in Answer, SearchSemantic(i, R)
      PROVE  TypeOK' /\ Alone(i) /\ phase = "looking" /\ Searched(i)' /\ Grounded(i)'
  <2>1. TypeOK' /\ Alone(i)
    BY <1>0, <1>4 DEF SearchSemantic, Continue, Goto, TypeOK, Alone, PC, Answer
  <2>2. Searched(i)' /\ Grounded(i)'
    BY <1>0, <1>4 DEF SearchSemantic, Continue, Goto, TypeOK, Searched, Grounded
  <2> QED
    BY <1>4, <2>1, <2>2 DEF SearchSemantic
<1>5. ASSUME NEW error \in SourceErrors, RouteFails(i, error)
      PROVE  TypeOK' /\ Alone(i) /\ phase = "looking" /\ Searched(i)' /\ Grounded(i)'
  <2>1. TypeOK' /\ Alone(i)
    BY <1>0, <1>5 DEF RouteFails, StatusOf, Done, Goto, TypeOK, Alone, PC, Statuses
  <2>2. Searched(i)' /\ Grounded(i)'
    BY <1>0, <1>5 DEF RouteFails, StatusOf, Done, Goto, TypeOK, Searched, Grounded, SourceErrors
  <2> QED
    BY <1>5, <2>1, <2>2 DEF RouteFails
<1>6. ASSUME NEW r \in Library, MatchExact(i, r)
      PROVE  TypeOK' /\ Alone(i) /\ phase = "looking" /\ Searched(i)' /\ Grounded(i)'
  <2>1. TypeOK' /\ Alone(i)
    BY <1>0, <1>6 DEF MatchExact, Done, Goto, TypeOK, Alone, PC, Statuses
  <2>2. Searched(i)' /\ Grounded(i)'
    BY <1>0, <1>6 DEF MatchExact, Done, Goto, TypeOK, Searched, Grounded
  <2> QED
    BY <1>6, <2>1, <2>2 DEF MatchExact
<1>7. ASSUME NEW r \in Library, DecideMatch(i, r)
      PROVE  TypeOK' /\ Alone(i) /\ phase = "looking" /\ Searched(i)' /\ Grounded(i)'
  <2>1. TypeOK' /\ Alone(i)
    BY <1>0, <1>7 DEF DecideMatch, Done, Goto, TypeOK, Alone, PC, Statuses
  <2>2. Searched(i)' /\ Grounded(i)'
    BY <1>0, <1>7 DEF DecideMatch, Done, Goto, TypeOK, Searched, Grounded
  <2> QED
    BY <1>7, <2>1, <2>2 DEF DecideMatch
<1>8. CASE NoExactMatch(i)
  <2>1. TypeOK' /\ Alone(i)
    BY <1>0, <1>8 DEF NoExactMatch, Continue, Goto, TypeOK, Alone, PC
  <2>2. Searched(i)' /\ Grounded(i)'
    BY <1>0, <1>8 DEF NoExactMatch, Continue, Goto, TypeOK, Searched, Grounded
  <2> QED
    BY <1>8, <2>1, <2>2 DEF NoExactMatch
<1>9. CASE SupplementFails(i)
  <2>1. TypeOK' /\ Alone(i)
    BY <1>0, <1>9 DEF SupplementFails, Continue, Goto, TypeOK, Alone, PC
  <2>2. Searched(i)' /\ Grounded(i)'
    BY <1>0, <1>9 DEF SupplementFails, Continue, Goto, TypeOK, Searched, Grounded
  <2> QED
    BY <1>9, <2>1, <2>2 DEF SupplementFails
<1>10. CASE DecideNone(i) /\ Candidates(i) # {}
  <2>1. PICK D \in Distinct(Candidates(i)) :
           \E S \in Cut(D) : Done(i, "manual_review", None, S)
    BY <1>10 DEF DecideNone
  <2>2. PICK S \in Cut(D) : Done(i, "manual_review", None, S)
    BY <2>1
  <2>3. /\ S \subseteq D /\ D \subseteq Candidates(i)
        /\ \A r \in Candidates(i) : \E s \in D : StandsFor(s, r)
        /\ Cardinality(D) <= MaxShown \/ Cardinality(S) # MaxShown => S = D
    BY CutType, DistinctStand
  <2>4. Candidates(i) \subseteq Library
    BY <1>0 DEF TypeOK, Candidates
  <2>5. IsFiniteSet(Candidates(i)) /\ IsFiniteSet(D)
    BY <2>3, <2>4, FS_Subset, CaseAssumption
  <2>6. Cardinality(D) <= Cardinality(Candidates(i))
        /\ Cardinality(D) \in Nat /\ Cardinality(Candidates(i)) \in Nat
    BY <2>3, <2>5, FS_Subset, FS_CardinalityType
  <2>7. Cardinality(Candidates(i)) <= MaxShown \/ Cardinality(S) < MaxShown => S = D
    BY <2>3, <2>6, CaseAssumption
  <2>8. TypeOK' /\ Alone(i)
    BY <1>0, <1>10, <2>2, <2>3, <2>4 DEF DecideNone, Done, Goto, TypeOK, Alone, PC, Statuses
  <2>9. /\ Candidates(i)' = Candidates(i) /\ shown'[i] = S
        /\ status'[i] = "manual_review" /\ pc'[i] = "done"
    BY <1>0, <1>10, <2>2 DEF DecideNone, Done, Goto, TypeOK, Candidates
  <2>10. Searched(i)'
    BY <1>10, <2>9 DEF Searched
  <2>11. Grounded(i)'
    BY <1>10, <2>3, <2>7, <2>9 DEF Grounded
  <2> QED
    BY <1>10, <2>8, <2>10, <2>11 DEF DecideNone
<1>11. CASE DecideNone(i) /\ Candidates(i) = {}
  <2>1. TypeOK' /\ Alone(i)
    BY <1>0, <1>11 DEF DecideNone, Done, Goto, TypeOK, Alone, PC, Statuses
  <2>2. Searched(i)' /\ Grounded(i)'
    BY <1>0, <1>11 DEF DecideNone, Done, Goto, TypeOK, Searched, Grounded, Candidates
  <2> QED
    BY <1>11, <2>1, <2>2 DEF DecideNone
<1> QED
  BY <1>1, <1>2, <1>3, <1>4, <1>5, <1>6, <1>7, <1>8, <1>9, <1>10, <1>11 DEF LookupStep

(* A check that passes found nothing to say against the record.            *)
LEMMA PassingCheck ==
  ASSUME IInv, NEW i \in Refs, pc[i] = "done", NEW holding,
         Outcome(i, Findings(i, holding)) = "pass"
  PROVE  /\ status[i] = "verified" /\ found[i] \in Library
         /\ ~Differs(refs[i], found[i]) /\ holding # "unsupported"
<1>1. Findings(i, holding) = {} /\ status[i] = "verified"
  BY DEF Outcome
<1>2. found[i] \in Library /\ found[i] # None
  BY <1>1, CaseAssumption DEF IInv, Grounded
<1>3. "identity" \notin Findings(i, holding) /\ "holding" \notin Findings(i, holding)
  BY <1>1
<1> QED
  BY <1>1, <1>2, <1>3 DEF Findings

LEMMA CompareInv ==
  ASSUME IInv, NEW holding \in Holdings, Compare(holding)
  PROVE  IInv'
<1> DEFINE i == Len(checks) + 1
           check == [holding |-> holding, findings |-> Findings(i, holding),
                     outcome |-> Outcome(i, Findings(i, holding))]
<1>1. /\ phase = "comparing" /\ i \in Refs /\ pc[i] = "done"
      /\ checks' = Append(checks, check)
      /\ UNCHANGED <<refs, lookupVars, phase>>
  BY DEF Compare
<1>2. TypeOK' /\ \A j \in Refs' : (Searched(j) /\ Grounded(j))'
  BY <1>1 DEF IInv, TypeOK, Searched, Grounded, Candidates, lookupVars
<1>3. check \in [holding : Holdings, findings : SUBSET {"holding", "identity", "missing"},
                 outcome : {"issue", "pass", "bug"}]
  BY DEF Findings, Outcome
<1>4. /\ checks' \in Seq([holding : Holdings, findings : SUBSET {"holding", "identity", "missing"},
                          outcome : {"issue", "pass", "bug"}])
      /\ DOMAIN checks' = DOMAIN checks \cup {i}
      /\ \A k \in DOMAIN checks : checks'[k] = checks[k]
      /\ checks'[i] = check
  BY <1>1, <1>3 DEF IInv, Compared
<1>5. ASSUME check.outcome = "pass"
      PROVE  /\ status[i] = "verified" /\ found[i] \in Library
             /\ ~Differs(refs[i], found[i]) /\ check.holding # "unsupported"
  BY <1>1, <1>5, PassingCheck
<1>6. ASSUME NEW k \in DOMAIN checks', checks'[k].outcome = "pass"
      PROVE  /\ status[k] = "verified" /\ found[k] \in Library
             /\ refs[k].number # None => found[k].number = refs[k].number
             /\ refs[k].court # None => found[k].court = refs[k].court
             /\ refs[k].name # None => Equivalent(refs[k], found[k])
             /\ checks'[k].holding # "unsupported"
  <2>1. CASE k = i
    BY <1>4, <1>5, <1>6, <2>1 DEF Differs
  <2>2. CASE k \in DOMAIN checks
    BY <1>4, <1>6, <2>2 DEF IInv, Compared, PassMeansSame
  <2> QED
    BY <1>4, <2>1, <2>2
<1>7. PassMeansSame'
  BY <1>1, <1>6 DEF PassMeansSame, lookupVars, Equivalent, Contained, SameGuiding, SameParties
<1> QED
  BY <1>1, <1>2, <1>4, <1>7 DEF IInv, Compared

LEMMA NextInv == IInv /\ [Next]_vars => IInv'
<1> SUFFICES ASSUME IInv, [Next]_vars PROVE IInv'
  OBVIOUS
<1>1. ASSUME NEW i \in Refs, LookupStep(i) PROVE IInv'
  <2>1. TypeOK' /\ Alone(i) /\ phase = "looking" /\ Searched(i)' /\ Grounded(i)'
    BY <1>1, LookupStepInv
  <2>2. ASSUME NEW j \in Refs \ {i} PROVE (Searched(j) /\ Grounded(j))'
    BY <2>1 DEF IInv, Alone, Searched, Grounded, Candidates
  <2>3. Compared'
    BY <2>1 DEF IInv, Compared, Alone, PassMeansSame
  <2> QED
    BY <2>1, <2>2, <2>3 DEF IInv, Alone
<1>2. ASSUME UNCHANGED <<refs, lookupVars, checks>>,
             phase' \in {"looking", "comparing", "told", "failed"},
             phase' = "looking" => phase = "looking"
      PROVE  IInv'
  <2>1. /\ UNCHANGED <<refs, checks, pc, tried, exact, semantic, found, status, shown>>
        /\ Refs' = Refs
    BY <1>2 DEF lookupVars
  <2>2. TypeOK'
    BY <1>2, <2>1 DEF IInv, TypeOK
  <2>3. \A i \in Refs' : (Searched(i) /\ Grounded(i))'
    BY <2>1 DEF IInv, Searched, Grounded, Candidates
  <2>4. PassMeansSame'
    BY <2>1 DEF IInv, Compared, PassMeansSame
  <2> QED
    BY <1>2, <2>1, <2>2, <2>3, <2>4 DEF IInv, Compared
<1>3. ASSUME NEW holding \in Holdings, Compare(holding) PROVE IInv'
  BY <1>3, CompareInv
<1>4. CASE LookupsOver \/ DocumentFails \/ Tell
  BY <1>2, <1>4 DEF LookupsOver, DocumentFails, Tell
<1>5. CASE UNCHANGED vars
  BY <1>2, <1>5 DEF vars, IInv, TypeOK
<1> QED
  BY <1>1, <1>3, <1>4, <1>5 DEF Next

(* The inductive invariant holds of every behaviour.                       *)
LEMMA Invariance == Spec => []IInv
BY InitInv, NextInv, PTL DEF Spec

(* The records of the routes and the results keep their types.             *)
THEOREM TypeCorrect == Spec => []TypeOK
<1>1. IInv => TypeOK
  BY DEF IInv
<1> QED
  BY <1>1, Invariance, PTL

(* A case is said not to exist only when every query was answered, and     *)
(* none with a record (cases.py:203-212).                                  *)
THEOREM NotFoundIsSearched == Spec => []NotFoundSearchedAll
<1>1. IInv => NotFoundSearchedAll
  BY DEF IInv, Grounded, NotFoundSearchedAll
<1> QED
  BY <1>1, Invariance, PTL

(* A human who has to decide sees of every record that was answered either *)
(* it or one with its gid or url, or, where both are without, with its     *)
(* number and title, when those shown are few enough (cases.py:193-211,    *)
(* 438-452).                                                               *)
THEOREM AmbiguityShown == Spec => []AmbiguityIsShown
<1>1. IInv => AmbiguityIsShown
  BY DEF IInv, Grounded, AmbiguityIsShown
<1> QED
  BY <1>1, Invariance, PTL

(* What passes agrees with every field the document names, by whichever    *)
(* route the record was taken (cases.py:72-113, identity.py:18-40).        *)
THEOREM PassIsSame == Spec => []PassMeansSame
<1>1. IInv => PassMeansSame
  BY DEF IInv, Compared
<1> QED
  BY <1>1, Invariance, PTL
=============================================================================
