---------------------------- MODULE DocumentCheck ----------------------------
(***************************************************************************)
(* verify_document: the citations of a document go through the stages of   *)
(* the check one after the other, the items of a stage in document order.  *)
(*                                                                         *)
(* Items with the same lookup key share one lookup and its attempts.  An   *)
(* item may be nested in the text of an earlier one, may be located        *)
(* elsewhere, corrected by a planned repair or by the successor of a       *)
(* repealed law; what is found about it decides whether the model compares *)
(* the claim with it, and all of that decides the outcome that is shown.   *)
(*                                                                         *)
(* What a lookup, a text or the model answers is a choice.  A source error *)
(* stands for a source that is not configured, too.                        *)
(***************************************************************************)
EXTENDS Integers, Sequences

CONSTANTS
  Claims, Keys, \* claims, and lookup keys
  Documents     \* the documents that may be checked

Forms == {"article", "whole", "structure", "unknown"}
Traits == {"deep", "foreign", "malformed", "dated", "queried", "unplanned"}

(* A citation: of an article, of a whole law, of a chapter, or one that is *)
(* not verifiable or out of scope.  Its traits: it names a paragraph; its  *)
(* law is not Chinese; its number is badly written; the claim or the law   *)
(* has a date that may contradict; a whole law is asked for by a query     *)
(* text; planning its lookup failed.  `within` names the citations in      *)
(* whose scope it stands, the nearest first.                               *)
ItemType == [claim : Claims, key : Keys, form : Forms, traits : SUBSET Traits,
             within : Seq(Nat)]

(* Relations are read within one claim, and backwards. *)
ASSUME DocumentAssumption ==
  \A d \in Documents :
    /\ DOMAIN d = {"items", "model"} /\ d.model \in BOOLEAN
    /\ d.items \in Seq(ItemType) /\ d.items # << >>
    /\ \A i \in DOMAIN d.items : \A n \in DOMAIN d.items[i].within :
         /\ d.items[i].within[n] \in 1 .. i - 1
         /\ d.items[d.items[i].within[n]].claim = d.items[i].claim

(* lookup_key has the number of the article, if there is one. *)
ASSUME KeyAssumption ==
  \A d \in Documents : \A i, j \in DOMAIN d.items :
    d.items[i].form = "article" /\ d.items[j].key = d.items[i].key =>
      d.items[j].form \in {"article", "unknown"}

VARIABLES
  doc,          \* the document, and whether a model is configured
  stage, at,    \* the stage, and the item it has come to
  lookup,       \* lookup_results: the shared answer and attempts by key
  relation, parent,              \* the relation of an item to the one it is nested in
  correction, verified,          \* correction_evidence: its origin; repair_verified
  resolution, mistake, triage,   \* location_resolution, what it corrects; fidelity_triage
  findings,     \* judgments: the findings about each item
  opinions,     \* what the model said of a claim, with the item each review is about
  checks,       \* application_checks
  outcome       \* the outcomes that are shown

itemVars == <<relation, parent, correction, verified, resolution, mistake, triage,
              findings, opinions, checks, outcome>>
vars == <<doc, stage, at, lookup, itemVars>>

Items == DOMAIN doc.items
Item(i) == doc.items[i]
Siblings(i) == {j \in Items : Item(j).claim = Item(i).claim}

(* What follows each stage. *)
Follower ==
  [lookups |-> "relations", relations |-> "locations", locations |-> "repairs",
   repairs |-> "relocations", relocations |-> "judgments", judgments |-> "successors",
   successors |-> "dependencies", dependencies |-> "applications",
   applications |-> "fidelity", fidelity |-> "outcomes", outcomes |-> "done"]

Stages == DOMAIN Follower \cup {"done"}
Early == {"lookups", "relations", "locations", "repairs", "relocations"}
Late == {"successors", "dependencies", "applications", "fidelity", "outcomes", "done"}

(* Every stage handles the items in order. *)
Advance ==
  IF at < Len(doc.items)
  THEN at' = at + 1 /\ stage' = stage
  ELSE at' = 1 /\ stage' = Follower[stage]

(* The stage has nothing to do for the item. *)
Pass == Advance /\ UNCHANGED <<doc, lookup, itemVars>>

-----------------------------------------------------------------------------
Statuses == {"none", "article_found", "relevant_articles_found", "article_missing",
             "text_unavailable", "law_not_found", "source_error"}
Validities == {"none", "repealed", "amended"}
Notes == {"none", "searched", "pending", "failed", "ambiguous"}

(* A lookup: its status; what is said against the law's validity; whether  *)
(* the search came to its end, the choice among related articles is        *)
(* pending or failed, the chapter is ambiguous; and the citations whose    *)
(* absence Pkulaw confirmed: the cited one, or another one that was tried  *)
(* in its place.                                                           *)
Lookups == [status : Statuses, validity : Validities, note : Notes,
            absences : SUBSET {"cited", "other"}]

Answers(statuses, validities, notes) ==
  [status : statuses, validity : validities, note : notes, absences : {{}}]

NoLookup == [status |-> "none", validity |-> "none", note |-> "none", absences |-> {}]

Unanswered ==
  Answers({"law_not_found"}, {"none"}, {"none", "searched"})
  \cup Answers({"source_error"}, {"none"}, {"none"})

ArticleAnswers ==
  Answers({"article_found", "article_missing", "relevant_articles_found"}, Validities, {"none"})
  \cup [status : {"article_missing"}, validity : Validities, note : {"none"},
        absences : {{"cited"}}]

(* A failed choice leaves no text; a pending one leaves what there is. *)
WholeAnswers(item) ==
  Answers({"text_unavailable", "relevant_articles_found"}, Validities,
          IF "queried" \in item.traits THEN {"none", "pending"} ELSE {"none"})
  \cup Answers({"text_unavailable"}, Validities,
               IF "queried" \in item.traits THEN {"failed"} ELSE {})

StructureAnswers ==
  Answers({"relevant_articles_found"}, {"none"}, {"none", "ambiguous"})
  \cup Answers({"article_missing", "law_not_found"}, {"none"}, {"none"})

AnswersTo(item) ==
  [article |-> ArticleAnswers \cup Unanswered,
   whole |-> WholeAnswers(item) \cup Unanswered,
   structure |-> StructureAnswers,
   unknown |-> {}][item.form]

LookupOf(i) == lookup[Item(i).key]
SkipLookup(i) == Item(i).form = "unknown"
HasText(i) == ~SkipLookup(i) /\ Item(i).form # "structure"
              /\ LookupOf(i).status \in {"article_found", "relevant_articles_found"}

Codes == {"format_error", "source_not_found", "law_name_error", "article_not_found",
          "article_number_error", "citation_hierarchy_error", "source_repealed",
          "source_amended"}
Findings == [code : Codes, risk : {"HIGH", "MEDIUM"}, fix : BOOLEAN]
High(code) == [code |-> code, risk |-> "HIGH", fix |-> FALSE]
Medium(code) == [code |-> code, risk |-> "MEDIUM", fix |-> FALSE]
Fix(code) == [code |-> code, risk |-> "HIGH", fix |-> TRUE]   \* with a resolved_locator

Temporal == {"source_repealed", "source_amended"}
HasTemporal(found) == \E f \in found : f.code \in Temporal

NoCheck == [status |-> "none", reviews |-> {}]

Init ==
  /\ doc \in Documents
  /\ stage = "lookups" /\ at = 1
  /\ lookup = [k \in Keys |-> NoLookup]
  /\ relation = [i \in Items |-> "none"] /\ parent = [i \in Items |-> 0]
  /\ correction = [i \in Items |-> "none"] /\ verified = [i \in Items |-> FALSE]
  /\ resolution = [i \in Items |-> "none"] /\ mistake = [i \in Items |-> "none"]
  /\ triage = [i \in Items |-> "open"]
  /\ findings = [i \in Items |-> {}]
  /\ opinions = [i \in Items |-> {}] /\ checks = [i \in Items |-> NoCheck]
  /\ outcome = [i \in Items |-> "none"]

-----------------------------------------------------------------------------
(* _run_lookups: the first item of a key asks. *)
RunLookup(i) ==
  /\ stage = "lookups" /\ i = at
  /\ IF SkipLookup(i) \/ LookupOf(i) # NoLookup
     THEN Pass
     ELSE /\ \E a \in AnswersTo(Item(i)) : lookup' = [lookup EXCEPT ![Item(i).key] = a]
          /\ Advance /\ UNCHANGED <<doc, itemVars>>

(* resolve_nested_relations: what the text of each citation in whose scope *)
(* the item stands says: no article that could be the item's, the item's,  *)
(* one other, or several others.  The nearest that says the item's or one  *)
(* other decides; failing that, the last that says several, and failing    *)
(* that, the last that has no text.                                        *)
Sayings == {"silent", "cited", "another", "several"}

Relate(i, r, p) ==
  /\ relation' = [relation EXCEPT ![i] = r] /\ parent' = [parent EXCEPT ![i] = p]

ResolveNested(i, says) ==
  LET within == Item(i).within
      texts == {n \in DOMAIN within : HasText(within[n])}
      decisive == {n \in texts : says[n] \in {"cited", "another"}}
      doubtful == {n \in texts : says[n] = "several"}
      textless == DOMAIN within \ texts
  IN \/ \E n \in decisive :
          /\ \A m \in decisive : n <= m
          /\ Relate(i, IF says[n] = "cited" THEN "confirmed" ELSE "locator_mismatch", within[n])
     \/ \E n \in doubtful :
          /\ decisive = {} /\ \A m \in doubtful : m <= n
          /\ Relate(i, "insufficient", within[n])
     \/ \E n \in textless :
          /\ decisive = {} /\ doubtful = {} /\ \A m \in textless : m <= n
          /\ Relate(i, "parent_unavailable", within[n])
     \/ /\ decisive = {} /\ doubtful = {} /\ textless = {}
        /\ UNCHANGED <<relation, parent>>

RelateItem(i) ==
  /\ stage = "relations" /\ i = at
  /\ \E says \in [DOMAIN Item(i).within -> Sayings] : ResolveNested(i, says)
  /\ Advance
  /\ UNCHANGED <<doc, lookup, correction, verified, resolution, mistake, triage, findings,
                 opinions, checks, outcome>>

-----------------------------------------------------------------------------
(* resolve_location_for_item: only the sole citation of a claim is located,*)
(* and a second time only when its correction is not verified.             *)
SoleCitation(i) == {j \in Siblings(i) : Item(j).form \in {"article", "unknown"}} = {i}

MayLocate(i) ==
  /\ Item(i).form = "article" /\ relation[i] = "none" /\ SoleCitation(i)
  /\ LookupOf(i).status \in {"article_found", "article_missing", "relevant_articles_found",
                             "law_not_found"}
  /\ stage = "relocations" => correction[i] # "none" /\ ~verified[i]

(* The model is asked once per item; a verdict that names a text, or an    *)
(* error, closes the triage, and "none" is a difference to be reviewed.    *)
TriageMay(i, verdicts) ==
  \/ triage' = triage
  \/ doc.model /\ triage[i] = "open" /\ \E t \in verdicts : triage' = [triage EXCEPT ![i] = t]

(* The cited text supports the claim, or the text that does is at the      *)
(* cited place: nothing is recorded, and what was recorded stays.          *)
Supported(i) ==
  /\ TriageMay(i, {"closed"})
  /\ UNCHANGED <<correction, verified, resolution, mistake>>

Unresolved(i) ==
  /\ resolution' = [resolution EXCEPT ![i] = "unresolved"]
  /\ TriageMay(i, {"closed", "none"})
  /\ UNCHANGED <<correction, verified, mistake>>

(* Only a Chinese law is located below its articles. *)
MayMistakeLevel(i) ==
  LookupOf(i).status = "article_found" /\ "deep" \in Item(i).traits
  /\ "foreign" \notin Item(i).traits

(* The article is right and the text names no paragraph. *)
LevelMissing(i) ==
  /\ MayMistakeLevel(i)
  /\ resolution' = [resolution EXCEPT ![i] = "unresolved"]
  /\ correction' = [correction EXCEPT ![i] = "located"]
  /\ verified' = [verified EXCEPT ![i] = FALSE]
  /\ TriageMay(i, {"closed"})
  /\ UNCHANGED mistake

Mistakes(i) ==
  {"law"}
  \cup (IF LookupOf(i).status # "law_not_found" THEN {"article", "version"} ELSE {})
  \cup (IF LookupOf(i).status = "law_not_found" /\ correction[i] # "none" THEN {"article"} ELSE {})
  \cup (IF MayMistakeLevel(i) THEN {"level"} ELSE {})

Located(i) ==
  /\ resolution' = [resolution EXCEPT ![i] = "resolved"]
  /\ correction' = [correction EXCEPT ![i] = "located"]
  /\ verified' = [verified EXCEPT ![i] = TRUE]
  /\ \E m \in Mistakes(i) : mistake' = [mistake EXCEPT ![i] = m]
  /\ TriageMay(i, {"closed"})

LocateItem(i) ==
  /\ stage \in {"locations", "relocations"} /\ i = at
  /\ IF ~MayLocate(i)
     THEN Pass
     ELSE /\ Supported(i) \/ Unresolved(i) \/ LevelMissing(i) \/ Located(i)
          /\ Advance
          /\ UNCHANGED <<doc, lookup, relation, parent, findings, opinions, checks, outcome>>

-----------------------------------------------------------------------------
(* _run_repair_plans: a plan of the model is adopted when its article is   *)
(* found; that it exists does not verify it.  The attempts of the retry,   *)
(* which concern another citation, join those of the shared lookup.        *)
(* Mutant: a located correction is planned anew. *)
MayRepairAgain(i) ==
  /\ doc.model /\ Item(i).form = "article"
  /\ LookupOf(i).status \in {"law_not_found", "article_missing", "relevant_articles_found"}

MayRepair(i) ==
  /\ doc.model /\ Item(i).form = "article" /\ ~verified[i]
  /\ LookupOf(i).status \in {"law_not_found", "article_missing", "relevant_articles_found"}

(* Mutant: what the retry found is verified. *)
AdoptVerified(i) ==
  /\ correction' = [correction EXCEPT ![i] = "planned"]
  /\ verified' = [verified EXCEPT ![i] = TRUE]

Adopt(i) ==
  /\ correction' = [correction EXCEPT ![i] = "planned"]
  /\ verified' = verified

WithAbsences(answer, absences) ==
  [status |-> answer.status, validity |-> answer.validity, note |-> answer.note,
   absences |-> answer.absences \cup absences]

RepairItem(i) ==
  /\ stage = "repairs" /\ i = at
  /\ \/ Pass
     \/ /\ MayRepair(i) /\ Adopt(i)
        /\ \E a \in {{}, {"other"}} :
             lookup' = [lookup EXCEPT ![Item(i).key] = WithAbsences(@, a)]
        /\ Advance
        /\ UNCHANGED <<doc, relation, parent, resolution, mistake, triage, findings, opinions,
                       checks, outcome>>

-----------------------------------------------------------------------------
(* assess_statute; a date may contradict what the evidence says. *)
Contradictions(i) ==
  IF "dated" \in Item(i).traits /\ LookupOf(i).status \notin {"law_not_found", "source_error"}
  THEN BOOLEAN ELSE {FALSE}

Assessed(i, contradicted) ==
  LET a == LookupOf(i)
      missing == a.status \in {"article_missing", "relevant_articles_found"}
  IN IF a.validity = "repealed" THEN {High("source_repealed")}
     ELSE IF a.validity = "amended" \/ contradicted THEN {High("source_amended")}
     ELSE IF missing /\ Item(i).form = "article" THEN {Medium("article_not_found")}
     ELSE IF a.status = "law_not_found" /\ a.note = "searched" THEN {High("source_not_found")}
     ELSE {}

FormatFindings(i) ==
  IF "malformed" \in Item(i).traits THEN {High("format_error")} ELSE {}

(* _verified_repair_finding *)
RepairFinding(i) ==
  Fix([law |-> "law_name_error", article |-> "article_number_error",
       version |-> "source_amended", level |-> "citation_hierarchy_error",
       none |-> "citation_hierarchy_error"][mistake[i]])

(* The place within the article: it is there, it is not, it was there in a *)
(* historical version, or the text has no structure to tell.               *)
Places(i) ==
  IF Item(i).form # "article" \/ "deep" \notin Item(i).traits
     \/ LookupOf(i).status \in {"article_missing", "relevant_articles_found"}
  THEN {"valid"}
  ELSE IF HasText(i) THEN {"valid", "invalid", "historical", "unavailable"}
  ELSE {"unavailable"}

PlaceFindings(place) ==
  [valid |-> {}, invalid |-> {High("citation_hierarchy_error")},
   historical |-> {High("source_amended")},
   unavailable |-> {Medium("citation_hierarchy_error")}][place]

StructureFindings(i) ==
  IF LookupOf(i).status = "article_missing" THEN {High("citation_hierarchy_error")}
  ELSE IF LookupOf(i).note = "ambiguous" THEN {Medium("citation_hierarchy_error")}
  ELSE {}

(* judge_item *)
Judged(i, contradicted, place) ==
  LET base == Assessed(i, contradicted)
      absent == LookupOf(i).absences # {} /\ LookupOf(i).status = "article_missing"
  IN IF SkipLookup(i) \/ relation[i] \in {"parent_unavailable", "insufficient"} THEN {}
     ELSE IF relation[i] = "locator_mismatch" THEN {Fix("article_number_error")}
     ELSE IF Item(i).form = "structure" THEN StructureFindings(i)
     ELSE IF verified[i]
          THEN {f \in base : f.code = "source_repealed"} \cup FormatFindings(i)
               \cup {RepairFinding(i)}
     ELSE IF absent /\ ~HasTemporal(base) THEN {High("article_number_error")}
     ELSE base \cup FormatFindings(i) \cup PlaceFindings(place)

(* Chapters and paragraphs of foreign laws are not judged. *)
JudgeItem(i) ==
  /\ stage = "judgments" /\ i = at
  /\ \E contradicted \in Contradictions(i), place \in Places(i) :
       findings' = [findings EXCEPT ![i] =
         {f \in Judged(i, contradicted, place) :
            "foreign" \in Item(i).traits => f.code # "citation_hierarchy_error"}]
  /\ Advance
  /\ UNCHANGED <<doc, lookup, relation, parent, correction, verified, resolution, mistake,
                 triage, opinions, checks, outcome>>

-----------------------------------------------------------------------------
(* _resolve_repealed_successors: the model names one successor, which an   *)
(* exact lookup must find in force.  It replaces the correction; only a    *)
(* confirmed one is verified and resolves the finding.                     *)
MaySucceed(i) ==
  /\ doc.model /\ HasTemporal(findings[i]) /\ "foreign" \notin Item(i).traits
  /\ Item(i).form = "article"

TemporalFinding(i) ==
  CHOOSE f \in findings[i] :
    /\ f.code \in Temporal
    /\ High("source_repealed") \in findings[i] => f.code = "source_repealed"

Resolved(f) == [code |-> f.code, risk |-> f.risk, fix |-> TRUE]

Succeed(i, answer) ==
  /\ correction' = [correction EXCEPT ![i] = "successor"]
  /\ verified' = [verified EXCEPT ![i] = (answer = "confirmed")]
  /\ findings' =
       IF answer # "confirmed" THEN findings
       ELSE [findings EXCEPT ![i] =
               (@ \ {TemporalFinding(i)}) \cup {Resolved(TemporalFinding(i))}]

SucceedItem(i) ==
  /\ stage = "successors" /\ i = at
  /\ \/ Pass
     \/ /\ MaySucceed(i)
        /\ \E answer \in {"confirmed", "pending", "rejected"} : Succeed(i, answer)
        /\ Advance
        /\ UNCHANGED <<doc, lookup, relation, parent, resolution, mistake, triage, opinions,
                       checks, outcome>>

(* finalize_nested_dependencies: the judgment of an item nested in a       *)
(* failed one is withdrawn.                                                *)
(* Mutant: only findings of high risk count. *)
ParentFailedBadly(i) ==
  relation[i] = "confirmed" /\ \E f \in findings[parent[i]] : f.risk = "HIGH"

ParentFailed(i) == relation[i] = "confirmed" /\ findings[parent[i]] # {}

FinalizeItem(i) ==
  /\ stage = "dependencies" /\ i = at
  /\ IF ~ParentFailed(i)
     THEN Pass
     ELSE /\ relation' = [relation EXCEPT ![i] = "parent_failed"]
          /\ findings' = [findings EXCEPT ![i] = {}]
          /\ Advance
          /\ UNCHANGED <<doc, lookup, parent, correction, verified, resolution, mistake, triage,
                         opinions, checks, outcome>>

-----------------------------------------------------------------------------
(* _run_application_checks: the citations of a claim whose text is         *)
(* reliable are compared with it in one job.                               *)
Unrelated == {"parent_failed", "parent_unavailable", "locator_mismatch", "insufficient"}

Correction(found) ==
  \E f \in found : f.fix /\ f.code \in {"article_number_error", "citation_hierarchy_error",
                                        "law_name_error", "source_amended"}

Candidate(i) ==
  /\ HasText(i) \/ (verified[i] /\ ~SkipLookup(i))
  /\ Item(i).form = "whole" => "queried" \in Item(i).traits
  /\ LookupOf(i).note # "failed" /\ "unplanned" \notin Item(i).traits
  /\ findings[i] # {} => Correction(findings[i])
  /\ relation[i] \notin Unrelated

Group(i) == {j \in Siblings(i) : Candidate(j)}
FirstOfGroup(i) == Candidate(i) /\ \A j \in Group(i) : i <= j

(* A review is a mismatch of rule and facts or a distorted meaning; it     *)
(* concerns the one citation it names, or else the first of the job.       *)
Reviews(group) == [kind : {"rule", "meaning"}, about : group]

(* _drop_superseded_fidelity_reviews, by the findings of the first item. *)
Kept(i, said) ==
  IF Correction(findings[i]) THEN {r \in said : r.kind # "meaning"} ELSE said

(* Mutant: the reviews of other citations are not routed. *)
RoutedToFirst(i, said) ==
  [checks EXCEPT ![i] = [status |-> "completed",
                         reviews |-> {r.kind : r \in {s \in said : s.about = i}}]]

Routed(i, said) ==
  [j \in Items |->
     IF j = i \/ \E r \in said : r.about = j
     THEN [status |-> "completed", reviews |-> {r.kind : r \in {s \in said : s.about = j}}]
     ELSE checks[j]]

CompareItem(i) ==
  /\ stage = "applications" /\ i = at
  /\ IF ~(doc.model /\ FirstOfGroup(i))
     THEN Pass
     ELSE /\ \/ /\ checks' = [checks EXCEPT ![i] = [status |-> "failed", reviews |-> {}]]
                /\ opinions' = opinions
             \/ \E said \in SUBSET Reviews(Group(i)) :
                  /\ opinions' = [opinions EXCEPT ![i] = said]
                  /\ checks' = Routed(i, Kept(i, said))
          /\ Advance
          /\ UNCHANGED <<doc, lookup, relation, parent, correction, verified, resolution,
                         mistake, triage, findings, outcome>>

(* _merge_fidelity_reviews *)
MergeItem(i) ==
  /\ stage = "fidelity" /\ i = at
  /\ IF triage[i] # "none"
     THEN Pass
     ELSE /\ checks' = [checks EXCEPT ![i] =
                [status |-> IF @.status = "none" THEN "completed" ELSE @.status,
                 reviews |-> @.reviews \cup {"meaning"}]]
          /\ Advance
          /\ UNCHANGED <<doc, lookup, relation, parent, correction, verified, resolution,
                         mistake, triage, findings, opinions, outcome>>

-----------------------------------------------------------------------------
(* Mutant: a law that was not found is no failure. *)
SystemFailedByError(i) ==
  \/ "unplanned" \in Item(i).traits
  \/ LookupOf(i).status = "source_error" \/ LookupOf(i).note = "failed"

SystemFailed(i) ==
  \/ "unplanned" \in Item(i).traits
  \/ LookupOf(i).status \in {"law_not_found", "source_error"} \/ LookupOf(i).note = "failed"

(* _application_outcome *)
ApplicationOutcome(i) ==
  IF checks[i].status = "failed" THEN "bug"
  ELSE IF checks[i].reviews # {} THEN "review" ELSE "pass"

(* _build_statute_results and _statute_outcome *)
Outcome(i) ==
  IF SkipLookup(i) THEN "bug"
  ELSE IF LookupOf(i).note = "pending" THEN "review"
  ELSE IF resolution[i] = "unresolved" /\ ~\E f \in findings[i] : f.risk = "HIGH" THEN "review"
  ELSE IF findings[i] # {} THEN "issue"
  ELSE IF SystemFailed(i) THEN "bug"
  ELSE IF relation[i] \in {"parent_failed", "parent_unavailable", "insufficient"} THEN "bug"
  ELSE IF relation[i] = "confirmed" THEN "pass"
  ELSE ApplicationOutcome(i)

BuildResult(i) ==
  /\ stage = "outcomes" /\ i = at
  /\ outcome' = [outcome EXCEPT ![i] = Outcome(i)]
  /\ Advance
  /\ UNCHANGED <<doc, lookup, relation, parent, correction, verified, resolution, mistake,
                 triage, findings, opinions, checks>>

Done == stage = "done" /\ UNCHANGED vars

Step(i) ==
  \/ RunLookup(i) \/ RelateItem(i) \/ LocateItem(i) \/ RepairItem(i) \/ JudgeItem(i)
  \/ SucceedItem(i) \/ FinalizeItem(i) \/ CompareItem(i) \/ MergeItem(i) \/ BuildResult(i)

Next == (\E i \in Items : Step(i)) \/ Done

Spec == Init /\ [][Next]_vars

-----------------------------------------------------------------------------
Relations == {"none", "confirmed", "locator_mismatch"} \cup Unrelated

TypeOK ==
  /\ doc \in Documents
  /\ stage \in Stages /\ at \in Items
  /\ lookup \in [Keys -> Lookups]
  /\ relation \in [Items -> Relations]
  /\ parent \in [Items -> Nat] /\ \A i \in Items : parent[i] < i
  /\ \A i \in Items : relation[i] # "none" => parent[i] \in Siblings(i)
  /\ correction \in [Items -> {"none", "located", "planned", "successor"}]
  /\ verified \in [Items -> BOOLEAN]
  /\ resolution \in [Items -> {"none", "unresolved", "resolved"}]
  /\ mistake \in [Items -> {"none", "law", "article", "version", "level"}]
  /\ triage \in [Items -> {"open", "closed", "none"}]
  /\ findings \in [Items -> SUBSET Findings]
  /\ opinions \in [Items -> SUBSET Reviews(Items)]
  /\ checks \in [Items -> [status : {"none", "completed", "failed"},
                           reviews : SUBSET {"rule", "meaning"}]]
  /\ outcome \in [Items -> {"none", "pass", "issue", "review", "bug"}]

(* That an article exists does not verify a correction (scheduler.py:1087):*)
(* whatever repairs are planned and retried, a verified correction was     *)
(* located by the claim's own words or is a confirmed successor.           *)
VerifiedIsLocated ==
  \A i \in Items : verified[i] =>
    \/ correction[i] = "located" /\ resolution[i] = "resolved"
    \/ correction[i] = "successor" /\ stage \in Late

(* The correction that is shown is the one its finding names: between the  *)
(* location and the result neither a repair nor a shared lookup replaces   *)
(* it.  (A finding about the law's validity hands over to its successor.)  *)
CorrectionIsItsFindings ==
  \A i \in Items :
    /\ relation[i] # "locator_mismatch"
    /\ ~HasTemporal(findings[i])
    /\ \E f \in findings[i] : f.fix
    => correction[i] = "located" /\ verified[i]

(* A citation passes only on an article that was found in a law in force,  *)
(* with its place settled and nothing found against it, and after a        *)
(* comparison that neither failed nor left a review open.  The last does   *)
(* not hold of a nested citation that the text of its parent confirms: it  *)
(* passes before its comparison is looked at (scheduler.py:2714), whatever *)
(* that said, and only if nothing was found against the parent.            *)
Compared(i) == checks[i].status # "failed" /\ checks[i].reviews = {}
ConfirmedByParent(i) ==
  relation[i] = "confirmed" /\ parent[i] \in Siblings(i) /\ findings[parent[i]] = {}

PassRestsOnText ==
  \A i \in Items : outcome[i] = "pass" /\ Item(i).form = "article" =>
    /\ LookupOf(i).status = "article_found" /\ LookupOf(i).validity = "none"
    /\ findings[i] = {} /\ ~verified[i]
    /\ resolution[i] # "unresolved"
    /\ ConfirmedByParent(i) \/ Compared(i)

(* A citation nested in a citation that stands on its own passes only if   *)
(* nothing was found against that one.                                     *)
NestedFollowsParent ==
  \A i \in Items :
    outcome[i] = "pass" /\ relation[i] # "none" /\ relation[parent[i]] = "none" =>
      findings[parent[i]] = {}

(* Every mismatch of rule and facts the model reports is shown with the    *)
(* citation it is about, however the reviews of a claim are split up.      *)
ReviewsReachTheirCitation ==
  \A i \in Items : \A r \in opinions[i] :
    r.kind = "rule" => r.kind \in checks[r.about].reviews
=============================================================================
