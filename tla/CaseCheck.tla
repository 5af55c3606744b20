----------------------------- MODULE CaseCheck -----------------------------
(***************************************************************************)
(* orchestration/cases.py and verification/cases/identity.py: the check of *)
(* the cases a document cites.  Each citation is looked up on its own, by  *)
(* exact queries and then by a semantic one; when all lookups are over     *)
(* their results are compared with the citations, one after the other.     *)
(*                                                                         *)
(* A citation and a record carry what the comparisons tell apart, already  *)
(* normalised: number, name, court, kind of document.  id is the gid of a  *)
(* record, or its url; mentions are the names and parties that occur in    *)
(* its title.  What Pkulaw answers is a set: where the order of its list   *)
(* decides, the model chooses.                                             *)
(***************************************************************************)
EXTENDS Integers, FiniteSets, Sequences

CONSTANTS
  Documents,    \* the documents looked at: sequences of citations
  Library,      \* the records Pkulaw may answer with
  MaxAnswer,    \* bound on the records of one answer
  MaxShown,     \* how many candidates are shown (10)
  None          \* a field that is empty, no record

ASSUME CaseAssumption ==
  /\ None \notin Library /\ IsFiniteSet(Library)
  /\ MaxShown \in Nat

VARIABLES
  refs,         \* _unique_case_refs of the document
  pc,           \* where the lookup of each citation is
  tried,        \* exact queries answered so far
  exact,        \* records of the last exact query
  semantic,     \* records of the semantic query
  found,        \* the record taken for the citation
  status,       \* CaseLookupStatus
  shown,        \* candidate_cases
  phase,        \* "looking", "comparing", "told" or "failed"
  checks        \* the results so far

lookupVars == <<pc, tried, exact, semantic, found, status, shown>>
vars == <<refs, lookupVars, phase, checks>>

Refs == DOMAIN refs
Answer == {R \in SUBSET Library : Cardinality(R) <= MaxAnswer}
SourceErrors == {"source_error", "source_not_configured"}
Statuses == {"none", "verified", "not_found", "manual_review", "out_of_scope"} \cup SourceErrors
PC == {"start", "exact", "match", "supplement", "semantic", "decide", "done", "crashed"}

-----------------------------------------------------------------------------
(* _unique_case_refs: one citation for each claim and number, or name.     *)

Identity(c) == <<c.claim, IF c.number # None THEN c.number ELSE c.name>>
Firsts(doc) == {i \in DOMAIN doc : \A j \in 1 .. i - 1 : Identity(doc[j]) # Identity(doc[i])}
Nth(S, k) == CHOOSE i \in S : Cardinality({j \in S : j <= i}) = k
Unique(doc) == [k \in 1 .. Cardinality(Firsts(doc)) |-> doc[Nth(Firsts(doc), k)]]

(* _exact_queries: how many queries there are to try.                      *)
Queries(c) ==
  IF c.number # None THEN IF c.name # None THEN 2 ELSE 1
  ELSE IF c.guiding # None THEN 1
  ELSE IF c.parties # {} THEN 2
  ELSE IF c.name # None \/ c.words THEN 1 ELSE 0

-----------------------------------------------------------------------------
(* _match_case_record and what it calls.                                   *)

Only(R) == IF Cardinality(R) = 1 THEN R ELSE {}
Courts(R) == {r.court : r \in R} \ {None}
Dates(R) == {r.date : r \in R} \ {None}
Types(R) == {r.type : r \in R} \ {None}

OfType(R, type) == {r \in R : r.type \in {type, None}}

(* _resolve_duplicate_number_records: the records among which one is taken *)
(* for the cited kind of document.                                         *)
Pool(R, type) ==
  IF type # None /\ type \in Types(R) THEN OfType(R, type)
  ELSE IF type # None /\ Types(R) # {} THEN {}
  ELSE IF Cardinality(Types(R)) > 1
  THEN IF "judgment" \in Types(R) THEN OfType(R, "judgment") ELSE {}
  ELSE R

(* _cluster_conflict: empty fields have no say.                            *)
Contradict(R) == Cardinality(Courts(R)) > 1 \/ Cardinality(Dates(R)) > 1
Unresolved(R, type) == Pool(R, type) = {} \/ Contradict(Pool(R, type))

(* _best_record: a record with the reasons of the court before others.     *)
Best(R) == IF \E r \in R : r.holding THEN {r \in R : r.holding} ELSE R
Resolved(R, type) == IF Unresolved(R, type) THEN {} ELSE Best(Pool(R, type))

Numbered(number, R) == {r \in R : number # None /\ r.number = number}
Titled(name, R) == {r \in R : name # None /\ r.name = name}

Contained(c, r) == r.typical /\ c.name \in r.mentions
SameGuiding(c, r) == c.guiding # None /\ c.guiding = r.guiding
SameParties(c, r) == c.parties # {} /\ c.personal /\ c.parties \subseteq r.mentions

(* The ways to be sure by the name, the first that leaves one record.      *)
ByName(c, R) == <<
  IF Cardinality(Titled(c.name, R)) > 1 /\ c.court # None
    THEN {r \in Titled(c.name, R) : r.court = c.court} ELSE Titled(c.name, R),
  {r \in R : Contained(c, r)},
  {r \in R : SameGuiding(c, r)},
  {r \in R : SameParties(c, r)} >>

Named(c, R) ==
  {r \in R : c.name # None /\
     \E k \in 1 .. 4 : ByName(c, R)[k] = {r} /\ \A j \in 1 .. k - 1 : Only(ByName(c, R)[j]) = {}}

(* The records that may be the confirmed one.                              *)
Confirmed(c, R) ==
  LET N == Numbered(c.number, R) IN
  IF Cardinality(N) = 1 THEN N ELSE IF N # {} THEN Resolved(N, c.type) ELSE Named(c, R)

(* _same_case: the record of the semantic route for one of the exact       *)
(* route; the cited kind of document has no say.                           *)
SameCase(r, R) ==
  LET M == IF r.number # None THEN Numbered(r.number, R) ELSE Titled(r.name, R) IN
  IF Cardinality(M) = 1 THEN M ELSE IF M = {} THEN {} ELSE Resolved(M, None)

(* _cross_route_match: both routes agree on one number.                    *)
CrossRoute(L, R) ==
  LET numbers == ({l.number : l \in L} \cap {r.number : r \in R}) \ {None}
  IN IF Cardinality(numbers) = 1 THEN {l \in L : l.number \in numbers} ELSE {}

(* _unique_records, for candidates: by document, and by number and title   *)
(* only where a record has neither gid nor url.                            *)
(* Mutant: one candidate for each case number. *)
NumberKey(r) == IF r.number # None THEN <<"number", r.number>> ELSE <<"title", r.name, r.court>>
Key(r) ==
  IF r.id # None THEN <<"id", r.id>>
  ELSE IF r.number # None THEN <<"number", r.number, r.name>> ELSE <<"title", r.name, r.court>>

Distinct(R) ==
  {S \in SUBSET R : /\ \A r \in R : \E s \in S : Key(s) = Key(r)
                    /\ \A r, s \in S : Key(s) = Key(r) => s = r}

(* The first of them, when there are too many.                             *)
Cut(R) == IF Cardinality(R) <= MaxShown THEN {R} ELSE {S \in SUBSET R : Cardinality(S) = MaxShown}

-----------------------------------------------------------------------------
(* compare_case_identity.                                                  *)

Equivalent(c, r) ==
  \/ c.name = r.name
  \/ c.long /\ Contained(c, r)
  \/ SameGuiding(c, r)
  \/ SameParties(c, r)

(* Mutant: the court is not compared. *)
DiffersButCourt(c, r) ==
  \/ c.number # None /\ c.number # r.number
  \/ c.name # None /\ ~Equivalent(c, r)
Differs(c, r) ==
  \/ c.number # None /\ c.number # r.number
  \/ c.name # None /\ ~Equivalent(c, r)
  \/ c.court # None /\ c.court # r.court

-----------------------------------------------------------------------------
Init ==
  /\ refs \in {Unique(doc) : doc \in Documents}
  /\ pc = [i \in Refs |-> "start"] /\ tried = [i \in Refs |-> 0]
  /\ exact = [i \in Refs |-> {}] /\ semantic = [i \in Refs |-> {}]
  /\ found = [i \in Refs |-> None]
  /\ status = [i \in Refs |-> "none"]
  /\ shown = [i \in Refs |-> {}]
  /\ phase = "looking" /\ checks = <<>>

At(i, where) == phase = "looking" /\ pc[i] = where
Goto(i, where) == pc' = [pc EXCEPT ![i] = where]

(* _verify_case_reference returns.                                         *)
Done(i, s, r, candidates) ==
  /\ Goto(i, "done")
  /\ status' = [status EXCEPT ![i] = s]
  /\ found' = [found EXCEPT ![i] = r]
  /\ shown' = [shown EXCEPT ![i] = candidates]

Continue(i, where) == Goto(i, where) /\ UNCHANGED <<status, found, shown>>
Keep == UNCHANGED <<refs, phase, checks>>

(* Foreign cases and citations with nothing to search by.                  *)
Start(i) ==
  /\ At(i, "start")
  /\ IF refs[i].jurisdiction # "CN" THEN Done(i, "out_of_scope", None, {})
     ELSE IF Queries(refs[i]) = 0 THEN Done(i, "manual_review", None, {})
     ELSE Continue(i, "exact")
  /\ UNCHANGED <<tried, exact, semantic>> /\ Keep

(* One exact query; the next only when it found nothing.  "Not found" is   *)
(* an empty answer.                                                        *)
SearchExact(i, R) ==
  /\ At(i, "exact")
  /\ tried' = [tried EXCEPT ![i] = @ + 1]
  /\ exact' = [exact EXCEPT ![i] = R]
  /\ Continue(i, IF R # {} \/ tried[i] + 1 = Queries(refs[i]) THEN "match" ELSE "exact")
  /\ UNCHANGED semantic /\ Keep

(* Mutant: an error of a route counts as an empty answer. *)
ErrorAsEmpty(error) == "not_found"
StatusOf(error) == error

(* A route that did not complete ends the lookup.                          *)
RouteFails(i, error) ==
  /\ At(i, "exact") \/ At(i, "semantic")
  /\ Done(i, StatusOf(error), None, {})
  /\ UNCHANGED <<tried, exact, semantic>> /\ Keep

(* The records of the exact route.                                         *)
NeedsHolding(i, r) == refs[i].paraphrase /\ ~r.holding

MatchExact(i, r) ==
  /\ At(i, "match") /\ r \in Confirmed(refs[i], exact[i])
  /\ IF NeedsHolding(i, r)
     THEN /\ Goto(i, "supplement")
          /\ found' = [found EXCEPT ![i] = r]
          /\ UNCHANGED <<status, shown>>
     ELSE Done(i, "verified", r, {})
  /\ UNCHANGED <<tried, exact, semantic>> /\ Keep

NoExactMatch(i) ==
  /\ At(i, "match") /\ Confirmed(refs[i], exact[i]) = {}
  /\ Continue(i, "semantic")
  /\ UNCHANGED <<tried, exact, semantic>> /\ Keep

(* A confirmed case without the reasons of the court is looked for once    *)
(* more, for a record that has them.                                       *)
Supplement(i, R) ==
  /\ At(i, "supplement")
  /\ LET same == SameCase(found[i], R) IN
     \E r \in IF same = {} THEN {found[i]} ELSE same :
       Done(i, "verified", IF r.holding THEN r ELSE found[i], {})
  /\ UNCHANGED <<tried, exact, semantic>> /\ Keep

(* The supplement fails: four values are returned where five are taken.    *)
SupplementFails(i) ==
  /\ At(i, "supplement")
  /\ Continue(i, "crashed")
  /\ UNCHANGED <<tried, exact, semantic>> /\ Keep

SearchSemantic(i, R) ==
  /\ At(i, "semantic")
  /\ semantic' = [semantic EXCEPT ![i] = R]
  /\ Continue(i, "decide")
  /\ UNCHANGED <<tried, exact>> /\ Keep

Candidates(i) == exact[i] \cup semantic[i]

(* By the semantic route alone, else by both.                              *)
Matches(i) ==
  LET confirmed == Confirmed(refs[i], semantic[i])
  IN IF confirmed # {} THEN confirmed ELSE CrossRoute(exact[i], semantic[i])

DecideMatch(i, r) ==
  /\ At(i, "decide") /\ r \in Matches(i)
  /\ Done(i, "verified", r, {})
  /\ UNCHANGED <<tried, exact, semantic>> /\ Keep

DecideNone(i) ==
  /\ At(i, "decide") /\ Matches(i) = {}
  /\ IF Candidates(i) # {}
     THEN \E D \in Distinct(Candidates(i)) : \E S \in Cut(D) : Done(i, "manual_review", None, S)
     ELSE Done(i, "not_found", None, {})
  /\ UNCHANGED <<tried, exact, semantic>> /\ Keep

-----------------------------------------------------------------------------
(* verify_case_claims, when the pool is done.                              *)

LookupsOver ==
  /\ phase = "looking" /\ \A i \in Refs : pc[i] \in {"done", "crashed"}
  /\ phase' = "comparing"
  /\ UNCHANGED <<refs, lookupVars, checks>>

(* _check_holding: nothing to compare with, nobody to compare, an error of *)
(* the model, or its verdict.                                              *)
HoldingChecks(i) ==
  IF ~refs[i].paraphrase \/ status[i] # "verified" THEN {"none"}
  ELSE IF ~found[i].holding THEN {"skipped"}
  ELSE {"skipped", "llm_error", "supported", "unsupported"}

(* What a check finds, and its outcome.                                    *)
Findings(i, holding) ==
  {f \in {"holding", "identity", "missing"} :
     \/ f = "holding" /\ holding = "unsupported"
     \/ f = "identity" /\ found[i] # None /\ Differs(refs[i], found[i])
     \/ f = "missing" /\ found[i] = None /\ status[i] = "not_found"}

Outcome(i, findings) ==
  IF findings # {} \/ status[i] = "not_found" THEN "issue"
  ELSE IF status[i] = "verified" THEN "pass" ELSE "bug"

Compare(holding) ==
  LET i == Len(checks) + 1 IN
  /\ phase = "comparing" /\ i \in Refs /\ pc[i] = "done"
  /\ holding \in HoldingChecks(i)
  /\ checks' = Append(checks, [holding |-> holding, findings |-> Findings(i, holding),
                               outcome |-> Outcome(i, Findings(i, holding))])
  /\ UNCHANGED <<refs, lookupVars, phase>>

(* The tuple cannot be taken apart, or the comparison raises something     *)
(* else than SemanticCheckError: no result of the document is told.        *)
DocumentFails ==
  LET i == Len(checks) + 1 IN
  /\ phase = "comparing" /\ i \in Refs
  /\ \/ pc[i] = "crashed"
     \/ pc[i] = "done" /\ "supported" \in HoldingChecks(i)
  /\ phase' = "failed"
  /\ UNCHANGED <<refs, lookupVars, checks>>

Tell ==
  /\ phase = "comparing" /\ Len(checks) = Len(refs)
  /\ phase' = "told"
  /\ UNCHANGED <<refs, lookupVars, checks>>

-----------------------------------------------------------------------------
LookupStep(i) ==
  \/ Start(i)
  \/ \E R \in Answer : SearchExact(i, R) \/ Supplement(i, R) \/ SearchSemantic(i, R)
  \/ \E error \in SourceErrors : RouteFails(i, error)
  \/ \E r \in Library : MatchExact(i, r) \/ DecideMatch(i, r)
  \/ NoExactMatch(i) \/ SupplementFails(i) \/ DecideNone(i)

Holdings == {"none", "skipped", "llm_error", "supported", "unsupported"}

Next ==
  \/ \E i \in Refs : LookupStep(i)
  \/ LookupsOver \/ (\E holding \in Holdings : Compare(holding)) \/ DocumentFails \/ Tell

Spec == Init /\ [][Next]_vars

-----------------------------------------------------------------------------
TypeOK ==
  /\ pc \in [Refs -> PC] /\ tried \in [Refs -> Nat]
  /\ exact \in [Refs -> SUBSET Library] /\ semantic \in [Refs -> SUBSET Library]
  /\ found \in [Refs -> Library \cup {None}]
  /\ status \in [Refs -> Statuses]
  /\ shown \in [Refs -> SUBSET Library]
  /\ phase \in {"looking", "comparing", "told", "failed"}

(* That a case does not exist is told only when every exact query and the  *)
(* semantic one were answered, none with a record: a failure on the way,   *)
(* at any of the queries, is not told as its absence (cases.py:203-205).   *)
NotFoundSearchedAll ==
  \A i \in Refs : pc[i] = "done" /\ status[i] = "not_found" =>
    /\ refs[i].jurisdiction = "CN" /\ tried[i] = Queries(refs[i]) /\ tried[i] > 0
    /\ exact[i] = {} /\ semantic[i] = {}

(* What is shown of two records is either when they have one gid or url,   *)
(* or neither has any and they agree in number and title (or, without a    *)
(* number, in title and court), whatever their dates and kinds.            *)
StandsFor(s, r) ==
  \/ s = r
  \/ s.id # None /\ s.id = r.id
  \/ /\ s.id = None /\ r.id = None
     /\ s.number = r.number /\ s.name = r.name /\ s.number = None => s.court = r.court

(* A human who has to decide sees records that were answered, and as long  *)
(* as they fit every one of them, by either route, or one that stands for  *)
(* it: documents of one number with links of their own or other titles are *)
(* not taken for one another before that (cases.py:441-443).               *)
AmbiguityIsShown ==
  \A i \in Refs : pc[i] = "done" /\ status[i] = "manual_review" /\ tried[i] > 0 =>
    /\ Candidates(i) # {} /\ shown[i] \subseteq Candidates(i)
    /\ Cardinality(Candidates(i)) <= MaxShown \/ Cardinality(shown[i]) < MaxShown =>
         \A r \in Candidates(i) : \E s \in shown[i] : StandsFor(s, r)

(* A case passes only when the record it was taken for, by whatever route, *)
(* agrees with the number, the name and the court the document names, and  *)
(* no comparison found its reasons unsupported.                            *)
PassMeansSame ==
  \A k \in DOMAIN checks : checks[k].outcome = "pass" =>
    /\ status[k] = "verified" /\ found[k] \in Library
    /\ refs[k].number # None => found[k].number = refs[k].number
    /\ refs[k].court # None => found[k].court = refs[k].court
    /\ refs[k].name # None => Equivalent(refs[k], found[k])
    /\ checks[k].holding # "unsupported"

(* A data source that fails is a status of its citation, told with the     *)
(* others (cases.py:72, 540-541).                                          *)
FailureStaysLocal ==
  phase = "failed" => \A i \in Refs : pc[i] = "done"
=============================================================================
