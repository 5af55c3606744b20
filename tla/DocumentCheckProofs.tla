-------------------------- MODULE DocumentCheckProofs --------------------------
(***************************************************************************)
(* Proofs about DocumentCheck, for any documents: a document may have any  *)
(* number of citations, claims and keys, and be nested to any depth.       *)
(***************************************************************************)
EXTENDS DocumentCheck, TLAPS

(* The items of a document are numbered from one. *)
LEMMA Numbered ==
  ASSUME doc \in Documents
  PROVE  /\ Len(doc.items) \in Nat \ {0}
         /\ Items = 1 .. Len(doc.items)
         /\ \A i \in Items : Item(i) \in ItemType
<1>1. /\ doc.items \in Seq(ItemType) /\ doc.items # << >>
  BY DocumentAssumption
<1> QED
  BY <1>1 DEF Items, Item

(* What a citation stands in the scope of comes before it, in its claim. *)
LEMMA Backwards ==
  ASSUME doc \in Documents, NEW i \in Items, NEW n \in DOMAIN Item(i).within
  PROVE  /\ Item(i).within[n] \in Nat /\ Item(i).within[n] < i
         /\ Item(i).within[n] \in Siblings(i)
<1>1. /\ Item(i).within[n] \in 1 .. i - 1
      /\ doc.items[Item(i).within[n]].claim = Item(i).claim
  BY DocumentAssumption DEF Items, Item
<1>2. i \in 1 .. Len(doc.items) /\ Len(doc.items) \in Nat
  BY Numbered
<1>3. Item(i).within[n] \in Items
  BY <1>1, <1>2, Numbered
<1> QED
  BY <1>1, <1>2, <1>3 DEF Siblings, Item

LEMMA StagesFollow ==
  ASSUME NEW s \in Stages, s # "done"
  PROVE  Follower[s] \in Stages
BY DEF Stages, Follower

LEMMA Advancing ==
  ASSUME TypeOK, Advance, stage # "done"
  PROVE  at' \in Items /\ stage' \in Stages
<1>1. Len(doc.items) \in Nat \ {0} /\ Items = 1 .. Len(doc.items)
  BY Numbered DEF TypeOK
<1>2. stage \in Stages /\ at \in Items
  BY DEF TypeOK
<1>3. Follower[stage] \in Stages
  BY <1>2, StagesFollow
<1> QED
  BY <1>1, <1>2, <1>3 DEF Advance

-----------------------------------------------------------------------------
(* What the steps write has its type. *)

LEMMA AnswersAreLookups ==
  ASSUME NEW item \in ItemType
  PROVE  AnswersTo(item) \subseteq Lookups
<1>1. ArticleAnswers \subseteq Lookups
  BY DEF ArticleAnswers, Answers, Lookups, Statuses, Validities, Notes
<1>2. Unanswered \subseteq Lookups
  BY DEF Unanswered, Answers, Lookups, Statuses, Validities, Notes
<1>3. WholeAnswers(item) \subseteq Lookups
  BY DEF WholeAnswers, Answers, Lookups, Statuses, Validities, Notes
<1>4. StructureAnswers \subseteq Lookups
  BY DEF StructureAnswers, Answers, Lookups, Statuses, Validities, Notes
<1>5. item.form \in Forms
  BY DEF ItemType
<1> QED
  BY <1>1, <1>2, <1>3, <1>4, <1>5 DEF AnswersTo, Forms

AnyPlace == {"valid", "invalid", "historical", "unavailable"}

LEMMA JudgedAreFindings ==
  ASSUME TypeOK, NEW i \in Items, NEW contradicted, NEW place \in AnyPlace
  PROVE  Judged(i, contradicted, place) \subseteq Findings
<1>1. \A code \in Codes : /\ High(code) \in Findings /\ Medium(code) \in Findings
                            /\ Fix(code) \in Findings
  BY DEF High, Medium, Fix, Findings
<1>2. Assessed(i, contradicted) \subseteq Findings
  BY <1>1 DEF Assessed, Codes
<1>3. FormatFindings(i) \subseteq Findings /\ StructureFindings(i) \subseteq Findings
  BY <1>1 DEF FormatFindings, StructureFindings, Codes
<1>4. RepairFinding(i) \in Findings
  BY <1>1 DEF RepairFinding, Codes, TypeOK
<1>5. PlaceFindings(place) \subseteq Findings
  BY <1>1 DEF AnyPlace, PlaceFindings, Codes
<1> QED
  BY <1>1, <1>2, <1>3, <1>4, <1>5 DEF Judged, Codes

(* A finding that names its correction is about a verified one. *)
LEMMA FixIsVerified ==
  ASSUME NEW i, NEW contradicted, NEW place \in AnyPlace,
         NEW f \in Judged(i, contradicted, place), f.fix, relation[i] # "locator_mismatch"
  PROVE  verified[i]
<1>1. \A g \in Assessed(i, contradicted) : ~g.fix
  BY DEF Assessed, High, Medium
<1>2. \A g \in FormatFindings(i) \cup StructureFindings(i) : ~g.fix
  BY DEF FormatFindings, StructureFindings, High, Medium
<1>3. \A g \in PlaceFindings(place) : ~g.fix
  BY DEF AnyPlace, PlaceFindings, High, Medium
<1>4. ~High("article_number_error").fix
  BY DEF High
<1> QED
  BY <1>1, <1>2, <1>3, <1>4 DEF Judged

LEMMA PlacesAreFour ==
  ASSUME NEW i
  PROVE  Places(i) \subseteq AnyPlace
BY DEF Places, AnyPlace

(* The finding a successor resolves. *)
LEMMA TemporalIsFound ==
  ASSUME NEW i, HasTemporal(findings[i])
  PROVE  TemporalFinding(i) \in findings[i] /\ TemporalFinding(i).code \in Temporal
<1>1. \E f \in findings[i] :
        /\ f.code \in Temporal
        /\ High("source_repealed") \in findings[i] => f.code = "source_repealed"
  BY DEF HasTemporal, High, Temporal
<1> QED
  BY <1>1 DEF TemporalFinding

-----------------------------------------------------------------------------
(* The types, action by action. *)

LEMMA PassType ==
  ASSUME TypeOK, Pass, stage # "done"
  PROVE  TypeOK'
<1>1. at' \in Items /\ stage' \in Stages
  BY Advancing DEF Pass
<1> QED
  BY <1>1 DEF TypeOK, Pass, itemVars, Items, Item, Siblings

LEMMA LookupType ==
  ASSUME TypeOK, NEW i \in Items, RunLookup(i)
  PROVE  TypeOK'
<1>1. CASE SkipLookup(i) \/ LookupOf(i) # NoLookup
  BY <1>1, PassType DEF RunLookup
<1>2. CASE ~(SkipLookup(i) \/ LookupOf(i) # NoLookup)
  <2>1. PICK a \in AnswersTo(Item(i)) : lookup' = [lookup EXCEPT ![Item(i).key] = a]
    BY <1>2 DEF RunLookup
  <2>2. Item(i) \in ItemType
    BY Numbered DEF TypeOK
  <2>3. a \in Lookups
    BY <2>1, <2>2, AnswersAreLookups
  <2>4. lookup' \in [Keys -> Lookups]
    BY <2>1, <2>3 DEF TypeOK
  <2>5. at' \in Items /\ stage' \in Stages
    BY <1>2, Advancing DEF RunLookup
  <2> QED
    BY <1>2, <2>4, <2>5 DEF TypeOK, RunLookup, itemVars, Items, Item, Siblings
<1> QED
  BY <1>1, <1>2

LEMMA NestedType ==
  ASSUME TypeOK, NEW i \in Items, NEW says, ResolveNested(i, says)
  PROVE  /\ relation' \in [Items -> Relations]
         /\ parent' \in [Items -> Nat]
         /\ \A j \in Items : parent'[j] < j
         /\ \A j \in Items : relation'[j] # "none" => parent'[j] \in Siblings(j)
<1>1. \A n \in DOMAIN Item(i).within :
        /\ Item(i).within[n] \in Nat /\ Item(i).within[n] < i
        /\ Item(i).within[n] \in Siblings(i)
  BY Backwards DEF TypeOK
<1>2. ASSUME NEW r \in Relations, NEW n \in DOMAIN Item(i).within,
             Relate(i, r, Item(i).within[n])
      PROVE  /\ relation' \in [Items -> Relations]
             /\ parent' \in [Items -> Nat]
             /\ \A j \in Items : parent'[j] < j
             /\ \A j \in Items : relation'[j] # "none" => parent'[j] \in Siblings(j)
  BY <1>1, <1>2 DEF Relate, TypeOK
<1>3. CASE UNCHANGED <<relation, parent>>
  BY <1>3 DEF TypeOK
<1>4. {"confirmed", "locator_mismatch", "insufficient", "parent_unavailable"} \subseteq Relations
  BY DEF Relations, Unrelated
<1>5. \/ \E n \in DOMAIN Item(i).within :
           \E r \in {"confirmed", "locator_mismatch", "insufficient", "parent_unavailable"} :
             Relate(i, r, Item(i).within[n])
      \/ UNCHANGED <<relation, parent>>
  BY DEF ResolveNested
<1> QED
  BY <1>2, <1>3, <1>4, <1>5

LEMMA RelateType ==
  ASSUME TypeOK, NEW i \in Items, RelateItem(i)
  PROVE  TypeOK'
<1>1. /\ relation' \in [Items -> Relations]
      /\ parent' \in [Items -> Nat]
      /\ \A j \in Items : parent'[j] < j
      /\ \A j \in Items : relation'[j] # "none" => parent'[j] \in Siblings(j)
  BY NestedType DEF RelateItem
<1>2. at' \in Items /\ stage' \in Stages
  BY Advancing DEF RelateItem
<1> QED
  BY <1>1, <1>2 DEF TypeOK, RelateItem, Items, Item, Siblings

LEMMA LocateType ==
  ASSUME TypeOK, NEW i \in Items, LocateItem(i)
  PROVE  TypeOK'
<1>1. CASE ~MayLocate(i)
  BY <1>1, PassType DEF LocateItem
<1>2. CASE MayLocate(i)
  <2>1. triage' \in [Items -> {"open", "closed", "none"}]
    BY <1>2 DEF LocateItem, Supported, Unresolved, LevelMissing, Located, TriageMay, TypeOK
  <2>2. Mistakes(i) \subseteq {"law", "article", "version", "level"}
    BY DEF Mistakes
  <2>3. resolution' \in [Items -> {"none", "unresolved", "resolved"}]
    BY <1>2 DEF LocateItem, Supported, Unresolved, LevelMissing, Located, TypeOK
  <2>4. correction' \in [Items -> {"none", "located", "planned", "successor"}]
    BY <1>2 DEF LocateItem, Supported, Unresolved, LevelMissing, Located, TypeOK
  <2>5. verified' \in [Items -> BOOLEAN]
    BY <1>2 DEF LocateItem, Supported, Unresolved, LevelMissing, Located, TypeOK
  <2>6. mistake' \in [Items -> {"none", "law", "article", "version", "level"}]
    BY <1>2, <2>2 DEF LocateItem, Supported, Unresolved, LevelMissing, Located, TypeOK
  <2>7. at' \in Items /\ stage' \in Stages
    BY <1>2, Advancing DEF LocateItem
  <2> QED
    BY <1>2, <2>1, <2>3, <2>4, <2>5, <2>6, <2>7 DEF TypeOK, LocateItem, Items, Item, Siblings
<1> QED
  BY <1>1, <1>2

LEMMA RepairType ==
  ASSUME TypeOK, NEW i \in Items, RepairItem(i)
  PROVE  TypeOK'
<1>1. CASE Pass
  BY <1>1, PassType DEF RepairItem
<1>2. CASE ~Pass
  <2>1. Item(i).key \in Keys
    BY Numbered DEF TypeOK, ItemType
  <2>2. PICK a \in {{}, {"other"}} :
          lookup' = [lookup EXCEPT ![Item(i).key] = WithAbsences(@, a)]
    BY <1>2 DEF RepairItem
  <2>3. \A answer \in Lookups : WithAbsences(answer, a) \in Lookups
    BY DEF WithAbsences, Lookups
  <2>4. lookup' \in [Keys -> Lookups]
    BY <2>1, <2>2, <2>3 DEF TypeOK
  <2>5. correction' \in [Items -> {"none", "located", "planned", "successor"}]
    BY <1>2 DEF RepairItem, Adopt, TypeOK
  <2>6. at' \in Items /\ stage' \in Stages
    BY <1>2, Advancing DEF RepairItem
  <2> QED
    BY <1>2, <2>4, <2>5, <2>6 DEF TypeOK, RepairItem, Adopt, Items, Item, Siblings
<1> QED
  BY <1>1, <1>2

LEMMA JudgeType ==
  ASSUME TypeOK, NEW i \in Items, JudgeItem(i)
  PROVE  TypeOK'
<1>1. findings' \in [Items -> SUBSET Findings]
  BY JudgedAreFindings, PlacesAreFour DEF JudgeItem, TypeOK
<1>2. at' \in Items /\ stage' \in Stages
  BY Advancing DEF JudgeItem
<1> QED
  BY <1>1, <1>2 DEF TypeOK, JudgeItem, Items, Item, Siblings

LEMMA SucceedType ==
  ASSUME TypeOK, NEW i \in Items, SucceedItem(i)
  PROVE  TypeOK'
<1>1. CASE Pass
  BY <1>1, PassType DEF SucceedItem
<1>2. CASE ~Pass
  <2>1. PICK answer \in {"confirmed", "pending", "rejected"} : Succeed(i, answer)
    BY <1>2 DEF SucceedItem
  <2>2. HasTemporal(findings[i])
    BY <1>2 DEF SucceedItem, MaySucceed
  <2>3. TemporalFinding(i) \in findings[i]
    BY <2>2, TemporalIsFound
  <2>4. TemporalFinding(i) \in Findings
    BY <2>3 DEF TypeOK
  <2>5. Resolved(TemporalFinding(i)) \in Findings
    BY <2>4 DEF Findings, Resolved
  <2>6. findings' \in [Items -> SUBSET Findings]
    BY <2>1, <2>5 DEF Succeed, TypeOK
  <2>7. /\ correction' \in [Items -> {"none", "located", "planned", "successor"}]
        /\ verified' \in [Items -> BOOLEAN]
    BY <2>1 DEF Succeed, TypeOK
  <2>8. at' \in Items /\ stage' \in Stages
    BY <1>2, Advancing DEF SucceedItem
  <2> QED
    BY <1>2, <2>6, <2>7, <2>8 DEF TypeOK, SucceedItem, Items, Item, Siblings
<1> QED
  BY <1>1, <1>2

LEMMA FinalizeType ==
  ASSUME TypeOK, NEW i \in Items, FinalizeItem(i)
  PROVE  TypeOK'
<1>1. CASE ~ParentFailed(i)
  BY <1>1, PassType DEF FinalizeItem
<1>2. CASE ParentFailed(i)
  <2>1. "parent_failed" \in Relations
    BY DEF Relations, Unrelated
  <2>2. relation' \in [Items -> Relations]
    BY <1>2, <2>1 DEF FinalizeItem, TypeOK
  <2>3. findings' \in [Items -> SUBSET Findings]
    BY <1>2 DEF FinalizeItem, TypeOK
  <2>4. \A j \in Items : relation'[j] # "none" => relation[j] # "none"
    BY <1>2 DEF FinalizeItem, ParentFailed, TypeOK
  <2>5. at' \in Items /\ stage' \in Stages
    BY <1>2, Advancing DEF FinalizeItem
  <2> QED
    BY <1>2, <2>2, <2>3, <2>4, <2>5 DEF TypeOK, FinalizeItem, Items, Item, Siblings
<1> QED
  BY <1>1, <1>2

LEMMA CompareType ==
  ASSUME TypeOK, NEW i \in Items, CompareItem(i)
  PROVE  TypeOK'
<1>1. CASE ~(doc.model /\ FirstOfGroup(i))
  BY <1>1, PassType DEF CompareItem
<1>2. CASE doc.model /\ FirstOfGroup(i)
  <2> DEFINE Check == [status : {"none", "completed", "failed"},
                       reviews : SUBSET {"rule", "meaning"}]
  <2>1. Group(i) \subseteq Items
    BY DEF Group, Siblings
  <2>2. ASSUME NEW said \in SUBSET Reviews(Group(i))
        PROVE  Kept(i, said) \in SUBSET Reviews(Items)
    BY <2>1, <2>2 DEF Kept, Reviews
  <2>3. ASSUME NEW said \in SUBSET Reviews(Items)
        PROVE  Routed(i, said) \in [Items -> Check]
    <3>1. \A S \in SUBSET said : {r.kind : r \in S} \subseteq {"rule", "meaning"}
      BY <2>3 DEF Reviews
    <3>2. \A j \in Items : [status |-> "completed",
                            reviews |-> {r.kind : r \in {s \in said : s.about = j}}] \in Check
      BY <3>1
    <3>3. checks \in [Items -> Check]
      BY DEF TypeOK
    <3> QED
      BY <3>2, <3>3 DEF Routed
  <2>4. ASSUME NEW said \in SUBSET Reviews(Group(i))
        PROVE  said \in SUBSET Reviews(Items)
    BY <2>1 DEF Reviews
  <2>5. opinions' \in [Items -> SUBSET Reviews(Items)]
    BY <1>2, <2>4 DEF CompareItem, TypeOK
  <2>6. [status |-> "failed", reviews |-> {}] \in Check
    OBVIOUS
  <2>7. checks' \in [Items -> Check]
    <3>1. CASE checks' = [checks EXCEPT ![i] = [status |-> "failed", reviews |-> {}]]
      BY <2>6, <3>1 DEF TypeOK
    <3>2. CASE \E said \in SUBSET Reviews(Group(i)) : checks' = Routed(i, Kept(i, said))
      BY <2>2, <2>3, <3>2
    <3> QED
      BY <1>2, <3>1, <3>2 DEF CompareItem
  <2>8. at' \in Items /\ stage' \in Stages
    BY <1>2, Advancing DEF CompareItem
  <2> QED
    BY <1>2, <2>5, <2>7, <2>8 DEF TypeOK, CompareItem, Items, Item, Siblings
<1> QED
  BY <1>1, <1>2

LEMMA MergeType ==
  ASSUME TypeOK, NEW i \in Items, MergeItem(i)
  PROVE  TypeOK'
<1>1. CASE triage[i] # "none"
  BY <1>1, PassType DEF MergeItem
<1>2. CASE triage[i] = "none"
  <2>1. \A c \in [status : {"none", "completed", "failed"}, reviews : SUBSET {"rule", "meaning"}] :
          [status |-> IF c.status = "none" THEN "completed" ELSE c.status,
           reviews |-> c.reviews \cup {"meaning"}]
            \in [status : {"none", "completed", "failed"}, reviews : SUBSET {"rule", "meaning"}]
    OBVIOUS
  <2>2. checks' \in [Items -> [status : {"none", "completed", "failed"},
                               reviews : SUBSET {"rule", "meaning"}]]
    BY <1>2, <2>1 DEF MergeItem, TypeOK
  <2>3. at' \in Items /\ stage' \in Stages
    BY <1>2, Advancing DEF MergeItem
  <2> QED
    BY <1>2, <2>2, <2>3 DEF TypeOK, MergeItem, Items, Item, Siblings
<1> QED
  BY <1>1, <1>2

LEMMA BuildType ==
  ASSUME TypeOK, NEW i \in Items, BuildResult(i)
  PROVE  TypeOK'
<1>1. Outcome(i) \in {"none", "pass", "issue", "review", "bug"}
  BY DEF Outcome, ApplicationOutcome
<1>2. outcome' \in [Items -> {"none", "pass", "issue", "review", "bug"}]
  BY <1>1 DEF BuildResult, TypeOK
<1>3. at' \in Items /\ stage' \in Stages
  BY Advancing DEF BuildResult
<1> QED
  BY <1>2, <1>3 DEF TypeOK, BuildResult, Items, Item, Siblings

LEMMA InitType == Init => TypeOK
<1> SUFFICES ASSUME Init
             PROVE  TypeOK
  OBVIOUS
<1>1. Len(doc.items) \in Nat \ {0} /\ Items = 1 .. Len(doc.items)
  BY Numbered DEF Init
<1>2. at \in Items /\ stage \in Stages
  BY <1>1 DEF Init, Stages, Follower
<1>3. lookup \in [Keys -> Lookups]
  BY DEF Init, NoLookup, Lookups, Statuses, Validities, Notes
<1>4. checks \in [Items -> [status : {"none", "completed", "failed"},
                            reviews : SUBSET {"rule", "meaning"}]]
  BY DEF Init, NoCheck
<1>5. /\ relation \in [Items -> Relations] /\ parent \in [Items -> Nat]
      /\ \A i \in Items : parent[i] < i
      /\ \A i \in Items : relation[i] # "none" => parent[i] \in Siblings(i)
  BY <1>1 DEF Init, Relations
<1> QED
  BY <1>2, <1>3, <1>4, <1>5 DEF Init, TypeOK

LEMMA NextType ==
  ASSUME TypeOK, [Next]_vars
  PROVE  TypeOK'
<1>1. CASE UNCHANGED vars
  BY <1>1 DEF TypeOK, vars, itemVars, Items, Item, Siblings
<1>2. ASSUME NEW i \in Items, Step(i)
      PROVE  TypeOK'
  BY <1>2, LookupType, RelateType, LocateType, RepairType, JudgeType, SucceedType, FinalizeType,
     CompareType, MergeType, BuildType DEF Step
<1> QED
  BY <1>1, <1>2 DEF Next, Done

(* The state of a check has its type whatever the document: the cursor     *)
(* never leaves the items, and a parent is an earlier citation of its      *)
(* claim.                                                                  *)
THEOREM TypeCorrect == Spec => []TypeOK
<1>1. Init => TypeOK
  BY InitType
<1>2. TypeOK /\ [Next]_vars => TypeOK'
  BY NextType
<1> QED
  BY <1>1, <1>2, PTL DEF Spec

-----------------------------------------------------------------------------
(* Nothing is verified before it is located, and nothing is found before   *)
(* it is judged: an item that its stage has not come to is untouched.      *)
Unlocated ==
  \A i \in Items : stage \in {"lookups", "relations"} \/ (stage = "locations" /\ at <= i)
    => ~verified[i]

Unjudged ==
  \A i \in Items : stage \in Early \/ (stage = "judgments" /\ at <= i) => findings[i] = {}

Parts == Unlocated /\ Unjudged /\ VerifiedIsLocated /\ CorrectionIsItsFindings

IInv == TypeOK /\ Parts

LEMMA Ordered ==
  ASSUME TypeOK, Advance, stage # "done"
  PROVE  /\ stage' \in {"lookups", "relations"} => stage \in {"lookups", "relations"}
         /\ stage' = "locations" =>
              stage = "relations" \/ (stage = "locations" /\ at' = at + 1)
         /\ stage' \in Early => stage \in Early
         /\ stage' = "judgments" =>
              stage = "relocations" \/ (stage = "judgments" /\ at' = at + 1)
         /\ stage \in Late => stage' \in Late
<1>1. stage \in Stages
  BY DEF TypeOK
<1>2. (stage' = stage /\ at' = at + 1) \/ (at' = 1 /\ stage' = Follower[stage])
  BY DEF Advance
<1>3. CASE stage' = stage /\ at' = at + 1
  BY <1>3 DEF Early, Late
<1>4. CASE at' = 1 /\ stage' = Follower[stage]
  BY <1>1, <1>4 DEF Stages, Follower, Early, Late
<1> QED
  BY <1>2, <1>3, <1>4

(* A step that changes neither findings nor corrections. *)
LEMMA FramedParts ==
  ASSUME IInv, Advance, stage # "done",
         UNCHANGED <<doc, relation, correction, verified, resolution, findings>>
  PROVE  Parts'
<1>1. at \in Items /\ Items = 1 .. Len(doc.items) /\ Len(doc.items) \in Nat
  BY Numbered DEF IInv, TypeOK
<1>2. Items' = Items
  BY DEF Items
<1>3. Unlocated'
  BY <1>1, <1>2, Ordered DEF IInv, Parts, Unlocated
<1>4. Unjudged'
  BY <1>1, <1>2, Ordered DEF IInv, Parts, Unjudged, Early
<1>5. VerifiedIsLocated'
  BY <1>2, Ordered DEF IInv, Parts, VerifiedIsLocated
<1>6. CorrectionIsItsFindings'
  BY <1>2 DEF IInv, Parts, CorrectionIsItsFindings, HasTemporal
<1> QED
  BY <1>3, <1>4, <1>5, <1>6 DEF Parts

(* Before the judgments there is nothing found to be explained. *)
LEMMA EarlyParts ==
  ASSUME IInv, Advance, stage \in Early, UNCHANGED <<doc, findings>>
  PROVE  Unjudged' /\ CorrectionIsItsFindings'
<1>1. at \in Items /\ Items = 1 .. Len(doc.items) /\ Len(doc.items) \in Nat /\ stage # "done"
  BY Numbered DEF IInv, TypeOK, Early
<1>2. Items' = Items
  BY DEF Items
<1>3. \A i \in Items : findings'[i] = {}
  BY DEF IInv, Parts, Unjudged
<1> QED
  BY <1>2, <1>3 DEF Unjudged, CorrectionIsItsFindings

LEMMA LocateParts ==
  ASSUME IInv, NEW i \in Items, LocateItem(i)
  PROVE  Parts'
<1>0. stage # "done" /\ stage \in Early /\ at = i
  BY DEF LocateItem, Early
<1>1. CASE ~MayLocate(i)
  BY <1>0, <1>1, FramedParts DEF LocateItem, Pass, itemVars
<1>2. CASE MayLocate(i)
  <2>1. at \in Items /\ Items = 1 .. Len(doc.items) /\ Len(doc.items) \in Nat
    BY Numbered DEF IInv, TypeOK
  <2>2. Advance /\ Items' = Items
    BY <1>2 DEF LocateItem, Items
  <2>3. Unjudged' /\ CorrectionIsItsFindings'
    BY <1>0, <1>2, EarlyParts DEF LocateItem
  <2>4. \A j \in Items : j # i => verified'[j] = verified[j]
    BY <1>2 DEF LocateItem, Supported, Unresolved, LevelMissing, Located, IInv, TypeOK
  <2>5. Unlocated'
    BY <1>0, <2>1, <2>2, <2>4, Ordered DEF IInv, Parts, Unlocated, LocateItem
  <2>6. ~verified[i]
    BY <1>0, <1>2, <2>1 DEF LocateItem, MayLocate, IInv, Parts, Unlocated, VerifiedIsLocated
  <2>7. VerifiedIsLocated'
    <3>1. stage' \in Late \/ stage \notin Late
      BY <2>2, <1>0 DEF Early, Late
    <3>2. CASE Supported(i)
      BY <2>2, <3>1, <3>2, <1>0 DEF Supported, IInv, Parts, VerifiedIsLocated
    <3>3. CASE Unresolved(i)
      BY <2>2, <2>6, <3>1, <3>3 DEF Unresolved, IInv, TypeOK, Parts, VerifiedIsLocated
    <3>4. CASE LevelMissing(i)
      BY <2>2, <3>1, <3>4 DEF LevelMissing, IInv, TypeOK, Parts, VerifiedIsLocated
    <3>5. CASE Located(i)
      BY <2>2, <3>1, <3>5 DEF Located, IInv, TypeOK, Parts, VerifiedIsLocated
    <3> QED
      BY <1>2, <3>2, <3>3, <3>4, <3>5 DEF LocateItem
  <2> QED
    BY <2>3, <2>5, <2>7 DEF Parts
<1> QED
  BY <1>1, <1>2

LEMMA RelateParts ==
  ASSUME IInv, NEW i \in Items, RelateItem(i)
  PROVE  Parts'
<1>1. stage # "done" /\ stage = "relations" /\ stage \in Early /\ Advance
  BY DEF RelateItem, Early
<1>2. Items' = Items
  BY DEF RelateItem, Items
<1>3. Unjudged' /\ CorrectionIsItsFindings'
  BY <1>1, EarlyParts DEF RelateItem
<1>4. \A j \in Items : ~verified'[j]
  BY <1>1 DEF RelateItem, IInv, Parts, Unlocated
<1> QED
  BY <1>2, <1>3, <1>4 DEF Parts, Unlocated, VerifiedIsLocated

LEMMA RepairParts ==
  ASSUME IInv, NEW i \in Items, RepairItem(i)
  PROVE  Parts'
<1>0. stage # "done" /\ stage = "repairs" /\ stage \in Early
  BY DEF RepairItem, Early
<1>1. CASE Pass
  BY <1>0, <1>1, FramedParts DEF Pass, itemVars
<1>2. CASE ~Pass
  <2>1. Advance /\ Items' = Items /\ verified' = verified /\ resolution' = resolution
    BY <1>2 DEF RepairItem, Adopt, Items
  <2>2. Unjudged' /\ CorrectionIsItsFindings'
    BY <1>0, <1>2, EarlyParts DEF RepairItem
  <2>3. stage' \notin {"lookups", "relations", "locations"}
    BY <1>0, <2>1, Ordered DEF IInv
  <2>4. ~verified[i] /\ \A j \in Items : j # i => correction'[j] = correction[j]
    BY <1>2 DEF RepairItem, MayRepair, Adopt, IInv, TypeOK
  <2>5. VerifiedIsLocated'
    BY <1>0, <2>1, <2>4 DEF IInv, Parts, VerifiedIsLocated, Late
  <2> QED
    BY <2>2, <2>3, <2>5 DEF Parts, Unlocated
<1> QED
  BY <1>1, <1>2

LEMMA JudgeParts ==
  ASSUME IInv, NEW i \in Items, JudgeItem(i)
  PROVE  Parts'
<1>0. /\ stage = "judgments" /\ stage # "done" /\ at = i /\ Advance /\ Items' = Items
      /\ UNCHANGED <<relation, correction, verified, resolution>>
  BY DEF JudgeItem, Items
<1>1. at \in Items /\ Items = 1 .. Len(doc.items) /\ Len(doc.items) \in Nat
  BY Numbered DEF IInv, TypeOK
<1>2. /\ stage' \notin {"lookups", "relations", "locations"} \cup Early
      /\ stage' = "judgments" => at' = at + 1
  BY <1>0, Ordered DEF IInv, Early
<1>3. /\ \A j \in Items : j # i => findings'[j] = findings[j]
      /\ \E contradicted \in Contradictions(i), place \in Places(i) :
           findings'[i] \subseteq Judged(i, contradicted, place)
  BY DEF JudgeItem, IInv, TypeOK
<1>4. Unlocated'
  BY <1>2 DEF Unlocated
<1>5. Unjudged'
  BY <1>0, <1>1, <1>2, <1>3 DEF IInv, Parts, Unjudged
<1>6. VerifiedIsLocated'
  BY <1>0 DEF IInv, Parts, VerifiedIsLocated, Late
<1>7. CorrectionIsItsFindings'
  <2> SUFFICES ASSUME NEW j \in Items,
                      relation[j] # "locator_mismatch", ~HasTemporal(findings'[j]),
                      NEW f \in findings'[j], f.fix
               PROVE  correction[j] = "located" /\ verified[j]
    BY <1>0 DEF CorrectionIsItsFindings, HasTemporal
  <2>1. CASE j # i
    <3>1. findings'[j] = findings[j]
      BY <1>3, <2>1
    <3> QED
      BY <3>1 DEF IInv, Parts, CorrectionIsItsFindings
  <2>2. CASE j = i
    <3>1. verified[i]
      BY <1>3, <2>2, FixIsVerified, PlacesAreFour
    <3>2. correction[i] = "located"
      BY <1>0, <3>1 DEF IInv, Parts, VerifiedIsLocated, Late
    <3> QED
      BY <2>2, <3>1, <3>2
  <2> QED
    BY <2>1, <2>2
<1> QED
  BY <1>4, <1>5, <1>6, <1>7 DEF Parts

LEMMA SucceedParts ==
  ASSUME IInv, NEW i \in Items, SucceedItem(i)
  PROVE  Parts'
<1>0. stage = "successors" /\ stage # "done" /\ stage \in Late
  BY DEF SucceedItem, Late
<1>1. CASE Pass
  BY <1>0, <1>1, FramedParts DEF Pass, itemVars
<1>2. CASE ~Pass
  <2>1. Advance /\ Items' = Items /\ UNCHANGED <<relation, resolution>>
    BY <1>2 DEF SucceedItem, Items
  <2>2. stage' \in Late /\ stage' \notin Early /\ stage' # "judgments"
    BY <1>0, <2>1, Ordered DEF IInv, Late, Early
  <2>3. PICK answer \in {"confirmed", "pending", "rejected"} : Succeed(i, answer)
    BY <1>2 DEF SucceedItem
  <2>4. HasTemporal(findings[i])
    BY <1>2 DEF SucceedItem, MaySucceed
  <2>5. /\ correction'[i] = "successor"
        /\ \A j \in Items : j # i => /\ correction'[j] = correction[j]
                                    /\ verified'[j] = verified[j]
                                    /\ findings'[j] = findings[j]
    BY <2>3 DEF Succeed, IInv, TypeOK
  <2>6. HasTemporal(findings'[i])
    <3>1. Resolved(TemporalFinding(i)).code \in Temporal
      BY <2>4, TemporalIsFound DEF Resolved
    <3>2. findings'[i] = findings[i] \/ Resolved(TemporalFinding(i)) \in findings'[i]
      BY <2>3 DEF Succeed, IInv, TypeOK
    <3> QED
      BY <2>4, <3>1, <3>2 DEF HasTemporal
  <2>7. Unlocated' /\ Unjudged'
    BY <2>2 DEF Unlocated, Unjudged, Early, Late
  <2>8. VerifiedIsLocated'
    BY <1>0, <2>1, <2>2, <2>5 DEF IInv, Parts, VerifiedIsLocated
  <2>9. CorrectionIsItsFindings'
    BY <2>1, <2>5, <2>6 DEF IInv, Parts, CorrectionIsItsFindings, HasTemporal
  <2> QED
    BY <2>7, <2>8, <2>9 DEF Parts
<1> QED
  BY <1>1, <1>2

LEMMA FinalizeParts ==
  ASSUME IInv, NEW i \in Items, FinalizeItem(i)
  PROVE  Parts'
<1>0. stage = "dependencies" /\ stage # "done" /\ stage \in Late
  BY DEF FinalizeItem, Late
<1>1. CASE ~ParentFailed(i)
  BY <1>0, <1>1, FramedParts DEF FinalizeItem, Pass, itemVars
<1>2. CASE ParentFailed(i)
  <2>1. /\ Advance /\ Items' = Items /\ UNCHANGED <<correction, verified, resolution>>
        /\ findings'[i] = {}
        /\ \A j \in Items : j # i => findings'[j] = findings[j] /\ relation'[j] = relation[j]
    BY <1>2 DEF FinalizeItem, Items, IInv, TypeOK
  <2>2. stage' \in Late /\ stage' \notin Early /\ stage' # "judgments"
    BY <1>0, <2>1, Ordered DEF IInv, Late, Early
  <2>3. Unlocated' /\ Unjudged'
    BY <2>2 DEF Unlocated, Unjudged, Early, Late
  <2>4. VerifiedIsLocated'
    BY <1>0, <2>1, <2>2 DEF IInv, Parts, VerifiedIsLocated
  <2>5. CorrectionIsItsFindings'
    BY <2>1 DEF IInv, Parts, CorrectionIsItsFindings, HasTemporal
  <2> QED
    BY <2>3, <2>4, <2>5 DEF Parts
<1> QED
  BY <1>1, <1>2

(* The steps that neither judge nor correct. *)
LEMMA OtherParts ==
  ASSUME IInv, NEW i \in Items,
         RunLookup(i) \/ CompareItem(i) \/ MergeItem(i) \/ BuildResult(i)
  PROVE  Parts'
<1>1. /\ Advance /\ stage # "done"
      /\ UNCHANGED <<doc, relation, correction, verified, resolution, findings>>
  BY DEF RunLookup, CompareItem, MergeItem, BuildResult, Pass, itemVars
<1> QED
  BY <1>1, FramedParts

LEMMA Inductive ==
  ASSUME IInv, [Next]_vars
  PROVE  IInv'
<1>1. TypeOK'
  BY NextType DEF IInv
<1>2. ASSUME UNCHANGED vars
      PROVE  Parts'
  BY <1>2 DEF IInv, Parts, Unlocated, Unjudged, VerifiedIsLocated, CorrectionIsItsFindings,
     HasTemporal, vars, itemVars, Items
<1>3. ASSUME NEW i \in Items, Step(i)
      PROVE  Parts'
  BY <1>3, RelateParts, LocateParts, RepairParts, JudgeParts, SucceedParts, FinalizeParts,
     OtherParts DEF Step
<1>4. Parts'
  BY <1>2, <1>3 DEF Next, Done, IInv
<1> QED
  BY <1>1, <1>4 DEF IInv

LEMMA Initial == Init => IInv
BY InitType DEF Init, IInv, Parts, Unlocated, Unjudged, VerifiedIsLocated,
   CorrectionIsItsFindings, HasTemporal

(* Whatever document is checked and whatever its sources and the model     *)
(* answer: a verified correction was located by the claim's own words or   *)
(* is a confirmed successor.                                               *)
THEOREM RepairsAreNotVerified == Spec => []VerifiedIsLocated
<1>1. IInv => VerifiedIsLocated
  BY DEF IInv, Parts
<1> QED
  BY Initial, Inductive, <1>1, PTL DEF Spec

(* And the correction that is shown is the one its finding names.          *)
THEOREM CorrectionsAgree == Spec => []CorrectionIsItsFindings
<1>1. IInv => CorrectionIsItsFindings
  BY DEF IInv, Parts
<1> QED
  BY Initial, Inductive, <1>1, PTL DEF Spec

-----------------------------------------------------------------------------
(* What a citation that passes rests on, and where the reviews of the      *)
(* model end up.                                                           *)

(* How far the stages have come with an item.                              *)
LookedUp(i) == stage # "lookups" \/ i < at
WasJudged(i) == stage \in Late \/ (stage = "judgments" /\ i < at)
WasFinalized(i) ==
  \/ stage \in {"applications", "fidelity", "outcomes", "done"}
  \/ stage = "dependencies" /\ i < at
WasCompared(i) ==
  stage \in {"fidelity", "outcomes", "done"} \/ (stage = "applications" /\ i < at)
Telling == stage \in {"outcomes", "done"}

(* What is answered about articles.                                        *)
ArticleStatuses ==
  {"article_found", "article_missing", "relevant_articles_found", "law_not_found", "source_error"}

LookupInv ==
  /\ \A k \in Keys : lookup[k].status = "none" => lookup[k] = NoLookup
  /\ \A i \in Items : Item(i).form = "article" =>
       LookupOf(i).status \in {"none"} \cup ArticleStatuses
  /\ \A i \in Items : LookedUp(i) /\ ~SkipLookup(i) => LookupOf(i).status # "none"

(* What the located place corrects, as long as it matters.                 *)
MistakeInv ==
  stage \in Early \cup {"judgments"} =>
    \A i \in Items : verified[i] =>
      \/ mistake[i] \in {"law", "article", "version"}
      \/ mistake[i] = "level" /\ "foreign" \notin Item(i).traits

(* Nothing found about an item that was judged means that its text is good *)
(* or that it was not judged by its own text.                              *)
Clean(i) ==
  ~SkipLookup(i) /\ findings[i] = {} =>
    \/ relation[i] \in {"parent_unavailable", "insufficient", "parent_failed"}
    \/ /\ relation[i] # "locator_mismatch"
       /\ Item(i).form = "article" =>
            /\ ~verified[i] /\ LookupOf(i).validity = "none"
            /\ LookupOf(i).status \notin {"article_missing", "relevant_articles_found"}

JudgeInv == \A i \in Items : WasJudged(i) => Clean(i)

NestedInv ==
  \A i \in Items : WasFinalized(i) /\ relation[i] = "confirmed" => findings[parent[i]] = {}

(* What is shown is what the last stage makes of the item.                 *)
OutcomeInv == \A i \in Items : outcome[i] = "none" \/ (Telling /\ outcome[i] = Outcome(i))

ReviewInv ==
  /\ \A i \in Items : opinions[i] # {} => WasCompared(i)
  /\ stage = "applications" =>
       \A i \in Items : opinions[i] # {} =>
         FirstOfGroup(i) /\ \A r \in opinions[i] : r.about \in Group(i)
  /\ ReviewsReachTheirCitation

ResultInv ==
  LookupInv /\ MistakeInv /\ JudgeInv /\ NestedInv /\ OutcomeInv /\ ReviewInv

LEMMA ResultInit == Init => ResultInv
  <1> SUFFICES ASSUME Init PROVE ResultInv
    OBVIOUS
  <1>1. TypeOK /\ Items = 1 .. Len(doc.items) /\ Len(doc.items) \in Nat
    BY InitType, Numbered DEF TypeOK
  <1>2. \A i \in Items : Item(i).key \in Keys
    BY <1>1, Numbered DEF TypeOK, ItemType
  <1>3. LookupInv
    BY <1>1, <1>2 DEF Init, LookupInv, LookedUp, LookupOf, NoLookup
  <1>4. MistakeInv /\ JudgeInv /\ NestedInv
    BY DEF Init, MistakeInv, JudgeInv, NestedInv, WasJudged, WasFinalized, Late
  <1>5. OutcomeInv /\ ReviewInv
    BY DEF Init, OutcomeInv, ReviewInv, ReviewsReachTheirCitation
  <1> QED  BY <1>3, <1>4, <1>5 DEF ResultInv

-----------------------------------------------------------------------------
(* A step handles the item its stage has come to; what it leaves alone.    *)
LEMMA Frames ==
  ASSUME TypeOK, NEW i \in Items, Step(i)
  PROVE  /\ Advance /\ at = i /\ stage # "done" /\ doc' = doc
         /\ stage \notin {"lookups", "repairs"} => lookup' = lookup
         /\ stage \notin {"relations", "dependencies"} => UNCHANGED <<relation, parent>>
         /\ stage \notin {"locations", "relocations", "successors"} => verified' = verified
         /\ stage \notin {"locations", "relocations"} => UNCHANGED <<mistake, resolution>>
         /\ stage \notin {"judgments", "successors", "dependencies"} => findings' = findings
         /\ stage # "applications" => opinions' = opinions
         /\ stage \notin {"applications", "fidelity"} => checks' = checks
         /\ stage # "outcomes" => outcome' = outcome
BY DEF Step, RunLookup, RelateItem, LocateItem, RepairItem, JudgeItem, SucceedItem, FinalizeItem,
   CompareItem, MergeItem, BuildResult, Pass, itemVars, Adopt

(* Which step it is.                                                       *)
LEMMA StepOfStage ==
  ASSUME NEW i \in Items, Step(i)
  PROVE  /\ stage = "lookups" => RunLookup(i)
         /\ stage = "relations" => RelateItem(i)
         /\ stage \in {"locations", "relocations"} => LocateItem(i)
         /\ stage = "repairs" => RepairItem(i)
         /\ stage = "judgments" => JudgeItem(i)
         /\ stage = "successors" => SucceedItem(i)
         /\ stage = "dependencies" => FinalizeItem(i)
         /\ stage = "applications" => CompareItem(i)
         /\ stage = "fidelity" => MergeItem(i)
         /\ stage = "outcomes" => BuildResult(i)
BY DEF Step, RunLookup, RelateItem, LocateItem, RepairItem, JudgeItem, SucceedItem, FinalizeItem,
   CompareItem, MergeItem, BuildResult

(* What a stage has handled afterwards it had handled before, or handles   *)
(* now.                                                                    *)
LEMMA Handling ==
  ASSUME TypeOK, Advance, doc' = doc, stage # "done", NEW j \in Items
  PROVE  /\ LookedUp(j)' => LookedUp(j) \/ (stage = "lookups" /\ j = at)
         /\ WasJudged(j)' => WasJudged(j) \/ (stage = "judgments" /\ j = at)
         /\ WasFinalized(j)' => WasFinalized(j) \/ (stage = "dependencies" /\ j = at)
         /\ WasCompared(j)' <=> WasCompared(j) \/ (stage = "applications" /\ j = at)
         /\ Telling => Telling'
         /\ stage' \in Early \cup {"judgments"} => stage \in Early \cup {"judgments"}
         /\ stage' = "applications" => stage \in {"dependencies", "applications"}
  <1>1. stage \in Stages /\ at \in Items /\ Items = 1 .. Len(doc.items) /\ Len(doc.items) \in Nat
    BY Numbered DEF TypeOK
  <1>2. \/ stage' = stage /\ at' = at + 1
        \/ stage' = Follower[stage] /\ at = Len(doc.items)
    BY <1>1 DEF Advance
  <1>3. CASE stage' = stage /\ at' = at + 1
    BY <1>1, <1>3 DEF LookedUp, WasJudged, WasFinalized, WasCompared, Telling
  <1>4. CASE stage' = Follower[stage] /\ at = Len(doc.items)
    <2>1. j <= at /\ (j < at \/ j = at) /\ at' = 1 /\ ~(j < at')
      BY <1>1, <1>4 DEF Advance, Stages, Follower
    <2> QED
      BY <1>1, <1>4, <2>1 DEF LookedUp, WasJudged, WasFinalized, WasCompared, Telling, Stages, Follower, Early, Late
  <1> QED  BY <1>2, <1>3, <1>4

-----------------------------------------------------------------------------
(* The parts of the invariant, each with the stages that can disturb it.   *)

LEMMA LookupStep ==
  ASSUME IInv, LookupInv, NEW i \in Items, Step(i)
  PROVE  LookupInv'
  <1>1. /\ TypeOK /\ doc \in Documents /\ doc' = doc /\ Items' = Items /\ at = i /\ Advance
        /\ stage # "done"
    BY Frames DEF IInv, TypeOK, Items
  <1>2. \A j \in Items : LookedUp(j)' => LookedUp(j) \/ (stage = "lookups" /\ j = i)
    BY <1>1, Handling
  <1>3. \A j \in Items : Item(j) \in ItemType /\ Item(j).key \in Keys /\ Item(j).form \in Forms
    BY <1>1, Numbered DEF ItemType
  <1>4. \A j, k \in Items : Item(j).form = "article" /\ Item(k).key = Item(j).key =>
                             Item(k).form \in {"article", "unknown"}
    BY <1>1, KeyAssumption DEF Items, Item
  <1>5. CASE lookup' = lookup /\ stage # "lookups"
    BY <1>1, <1>2, <1>5 DEF LookupInv, LookupOf, Item, SkipLookup
  <1>6. CASE stage = "lookups"
    <2>1. RunLookup(i)
      BY <1>6, StepOfStage
    <2>2. CASE SkipLookup(i) \/ LookupOf(i) # NoLookup
      <3>1. lookup' = lookup
        BY <2>1, <2>2 DEF RunLookup, Pass
      <3>2. ~SkipLookup(i) => LookupOf(i).status # "none"
        BY <1>3, <2>2 DEF LookupInv, LookupOf
      <3> QED  BY <1>1, <1>2, <3>1, <3>2 DEF LookupInv, LookupOf, Item, SkipLookup
    <2>3. CASE ~SkipLookup(i) /\ LookupOf(i) = NoLookup
      <3>1. PICK a \in AnswersTo(Item(i)) : lookup' = [lookup EXCEPT ![Item(i).key] = a]
        BY <2>1, <2>3 DEF RunLookup
      <3>2. a.status # "none" /\ (Item(i).form = "article" => a.status \in ArticleStatuses)
        <4>1. CASE Item(i).form = "article"
          <5>1. a \in ArticleAnswers \cup Unanswered
            BY <3>1, <4>1 DEF AnswersTo
          <5> QED  BY <5>1 DEF ArticleAnswers, Unanswered, Answers, ArticleStatuses
        <4>2. CASE Item(i).form = "whole"
          <5>1. a \in WholeAnswers(Item(i)) \cup Unanswered
            BY <3>1, <4>2 DEF AnswersTo
          <5> QED  BY <4>2, <5>1 DEF WholeAnswers, Unanswered, Answers
        <4>3. CASE Item(i).form = "structure"
          <5>1. a \in StructureAnswers
            BY <3>1, <4>3 DEF AnswersTo
          <5> QED  BY <4>3, <5>1 DEF StructureAnswers, Answers
        <4> QED  BY <1>3, <2>3, <4>1, <4>2, <4>3 DEF Forms, SkipLookup
      <3>3. \A k \in Keys : lookup'[k] = IF k = Item(i).key THEN a ELSE lookup[k]
        BY <1>1, <3>1 DEF TypeOK
      <3>4. \A j \in Items : Item(j).form = "article" /\ Item(j).key = Item(i).key =>
                              Item(i).form = "article"
        BY <1>4, <2>3 DEF SkipLookup
      <3>5. \A j \in Items : LookedUp(j)' /\ ~SkipLookup(j) => lookup'[Item(j).key].status # "none"
        BY <1>2, <1>3, <3>2, <3>3 DEF LookupInv, LookupOf
      <3> QED
        BY <1>1, <1>3, <3>2, <3>3, <3>4, <3>5 DEF LookupInv, LookupOf, Item, SkipLookup
    <2> QED  BY <2>2, <2>3
  <1>7. CASE stage = "repairs" /\ lookup' # lookup
    <2>1. PICK a \in {{}, {"other"}} :
            lookup' = [lookup EXCEPT ![Item(i).key] = WithAbsences(@, a)]
      BY <1>7, StepOfStage DEF RepairItem, Pass
    <2>2. LookupOf(i).status # "none"
      BY <1>7, StepOfStage DEF RepairItem, Pass, MayRepair
    <2>3. \A k \in Keys : lookup'[k] = IF k = Item(i).key THEN WithAbsences(lookup[k], a) ELSE lookup[k]
      BY <1>1, <2>1 DEF TypeOK
    <2>4. ASSUME NEW k \in Keys
          PROVE  lookup'[k].status = lookup[k].status
      <3>1. WithAbsences(lookup[k], a).status = lookup[k].status
        BY DEF WithAbsences
      <3>2. lookup'[k] = lookup[k] \/ lookup'[k] = WithAbsences(lookup[k], a)
        BY <2>3
      <3> QED  BY <3>1, <3>2
    <2>5. \A k \in Keys : lookup'[k].status = "none" => lookup'[k] = NoLookup
      BY <2>2, <2>3, <2>4 DEF LookupInv, LookupOf
    <2> QED
      BY <1>1, <1>2, <1>3, <1>7, <2>4, <2>5 DEF LookupInv, LookupOf, Item, SkipLookup
  <1> QED  BY <1>5, <1>6, <1>7, Frames DEF IInv

LEMMA MistakeStep ==
  ASSUME IInv, MistakeInv, NEW i \in Items, Step(i)
  PROVE  MistakeInv'
  <1>1. TypeOK /\ doc' = doc /\ Items' = Items /\ at = i /\ Advance /\ stage # "done"
    BY Frames DEF IInv, Items
  <1> SUFFICES ASSUME stage' \in Early \cup {"judgments"}, NEW j \in Items, verified'[j]
               PROVE  \/ mistake'[j] \in {"law", "article", "version"}
                      \/ mistake'[j] = "level" /\ "foreign" \notin Item(j).traits
    BY <1>1 DEF MistakeInv, Item
  <1>2. stage \in Early \cup {"judgments"}
    BY <1>1, Handling
  <1>3. CASE verified'[j] = verified[j] /\ mistake'[j] = mistake[j]
    BY <1>2, <1>3 DEF MistakeInv
  <1>4. CASE stage \in {"locations", "relocations"}
    <2>1. LocateItem(i)
      BY <1>4, StepOfStage
    <2>2. CASE Located(i) /\ j = i
      <3>1. PICK m \in Mistakes(i) : mistake' = [mistake EXCEPT ![i] = m]
        BY <2>2 DEF Located
      <3>2. m \in {"law", "article", "version"} \/ (m = "level" /\ MayMistakeLevel(i))
        BY <3>1 DEF Mistakes
      <3> QED  BY <1>1, <2>2, <3>1, <3>2 DEF TypeOK, MayMistakeLevel
    <2>3. CASE ~(Located(i) /\ j = i)
      <3>1. verified'[j] => verified[j]
        BY <1>1, <2>1, <2>3 DEF LocateItem, Pass, itemVars, Supported, Unresolved, LevelMissing, Located, TypeOK
      <3>2. mistake'[j] = mistake[j]
        BY <1>1, <2>1, <2>3 DEF LocateItem, Pass, itemVars, Supported, Unresolved, LevelMissing, Located, TypeOK
      <3> QED  BY <1>2, <3>1, <3>2 DEF MistakeInv
    <2> QED  BY <2>2, <2>3
  <1>5. CASE stage \notin {"locations", "relocations"}
    <2>1. stage # "successors"
      BY <1>2 DEF Early
    <2>2. verified' = verified /\ mistake' = mistake
      BY <1>1, <1>5, <2>1, Frames
    <2> QED  BY <1>3, <2>2
  <1> QED  BY <1>4, <1>5

(* A judgment that finds nothing is a clean one.                           *)
LEMMA JudgedClean ==
  ASSUME IInv, MistakeInv, NEW i \in Items, stage = "judgments",
         NEW contradicted \in BOOLEAN, NEW place \in AnyPlace, ~SkipLookup(i),
         \A f \in Judged(i, contradicted, place) :
           "foreign" \in Item(i).traits /\ f.code = "citation_hierarchy_error"
  PROVE  \/ relation[i] \in {"parent_unavailable", "insufficient", "parent_failed"}
         \/ /\ relation[i] # "locator_mismatch"
            /\ Item(i).form = "article" =>
                 /\ ~verified[i] /\ LookupOf(i).validity = "none"
                 /\ LookupOf(i).status \notin {"article_missing", "relevant_articles_found"}
  <1> SUFFICES ASSUME relation[i] \notin {"parent_unavailable", "insufficient"}
               PROVE  /\ relation[i] # "locator_mismatch"
                      /\ Item(i).form = "article" =>
                           /\ ~verified[i] /\ LookupOf(i).validity = "none"
                           /\ LookupOf(i).status \notin {"article_missing", "relevant_articles_found"}
    OBVIOUS
  <1> DEFINE J == Judged(i, contradicted, place)
  <1>1. relation[i] # "locator_mismatch"
    <2> SUFFICES ASSUME relation[i] = "locator_mismatch" PROVE FALSE
      OBVIOUS
    <2>1. Fix("article_number_error") \in J
      BY DEF Judged
    <2> QED  BY <2>1 DEF Fix
  <1> SUFFICES ASSUME Item(i).form = "article"
               PROVE  /\ ~verified[i] /\ LookupOf(i).validity = "none"
                      /\ LookupOf(i).status \notin {"article_missing", "relevant_articles_found"}
    BY <1>1
  <1>2. ~verified[i]
    <2> SUFFICES ASSUME verified[i] PROVE FALSE
      OBVIOUS
    <2>1. RepairFinding(i) \in J
      BY <1>1 DEF Judged
    <2>2. \/ mistake[i] \in {"law", "article", "version"}
          \/ mistake[i] = "level" /\ "foreign" \notin Item(i).traits
      BY DEF MistakeInv
    <2> QED  BY <2>1, <2>2 DEF RepairFinding, Fix
  <1> DEFINE absent == LookupOf(i).absences # {} /\ LookupOf(i).status = "article_missing"
             base == Assessed(i, contradicted)
  <1>3. ~(absent /\ ~HasTemporal(base))
    <2> SUFFICES ASSUME absent, ~HasTemporal(base) PROVE FALSE
      OBVIOUS
    <2>1. High("article_number_error") \in J
      BY <1>1, <1>2 DEF Judged
    <2> QED  BY <2>1 DEF High
  <1>4. base \subseteq J
    BY <1>1, <1>2, <1>3 DEF Judged
  <1>5. \A f \in base : f.code # "citation_hierarchy_error"
    BY DEF Assessed, High, Medium
  <1>6. base = {}
    BY <1>4, <1>5
  <1>7. LookupOf(i).validity \in Validities
    BY Numbered DEF IInv, TypeOK, Lookups, LookupOf, ItemType
  <1> QED  BY <1>2, <1>6, <1>7 DEF Assessed, Validities

LEMMA JudgeStep ==
  ASSUME IInv, MistakeInv, JudgeInv, NEW i \in Items, Step(i)
  PROVE  JudgeInv'
  <1>1. TypeOK /\ doc' = doc /\ Items' = Items /\ at = i /\ Advance /\ stage # "done"
    BY Frames DEF IInv, Items
  <1> SUFFICES ASSUME NEW j \in Items, WasJudged(j)'
               PROVE  Clean(j)'
    BY <1>1 DEF JudgeInv
  <1>2. WasJudged(j) \/ (stage = "judgments" /\ j = i)
    BY <1>1, Handling
  <1>3. stage \in Late \cup {"judgments"} /\ lookup' = lookup
    BY <1>2, Frames DEF WasJudged, IInv, Late
  <1>4. CASE stage = "judgments" /\ j = i
    <2>1. PICK contradicted \in Contradictions(i), place \in Places(i) :
            findings' = [findings EXCEPT ![i] =
              {f \in Judged(i, contradicted, place) :
                 "foreign" \in Item(i).traits => f.code # "citation_hierarchy_error"}]
      BY <1>4, StepOfStage DEF JudgeItem
    <2>2. contradicted \in BOOLEAN /\ place \in AnyPlace
      BY PlacesAreFour DEF Contradictions
    <2>3. findings'[i] = {f \in Judged(i, contradicted, place) :
                           "foreign" \in Item(i).traits => f.code # "citation_hierarchy_error"}
      BY <1>1, <2>1 DEF TypeOK
    <2>4. relation' = relation /\ verified' = verified
      BY <1>1, <1>4, Frames
    <2>5. findings'[i] = {} =>
            \A f \in Judged(i, contradicted, place) :
              "foreign" \in Item(i).traits /\ f.code = "citation_hierarchy_error"
      BY <2>3
    <2> QED
      BY <1>1, <1>3, <1>4, <2>2, <2>4, <2>5, JudgedClean DEF Clean, SkipLookup, Item, LookupOf
  <1>5. CASE WasJudged(j)
    <2>1. Clean(j)
      BY <1>5 DEF JudgeInv
    <2>2. CASE stage = "judgments"
      <3>1. j # i /\ UNCHANGED <<relation, verified>>
        BY <1>1, <1>5, <2>2, Frames, Numbered DEF WasJudged, Late, TypeOK
      <3>2. findings'[j] = findings[j]
        BY <1>1, <2>2, <3>1, StepOfStage DEF JudgeItem, TypeOK
      <3> QED  BY <1>1, <1>3, <2>1, <3>1, <3>2 DEF Clean, SkipLookup, Item, LookupOf
    <2>3. CASE stage = "successors"
      <3>1. relation' = relation /\ SucceedItem(i)
        BY <1>1, <2>3, Frames, StepOfStage
      <3>2. CASE verified'[j] = verified[j] /\ findings'[j] = findings[j]
        BY <1>1, <1>3, <2>1, <3>1, <3>2 DEF Clean, SkipLookup, Item, LookupOf
      <3>3. CASE ~(verified'[j] = verified[j] /\ findings'[j] = findings[j])
        <4>1. PICK answer \in {"confirmed", "pending", "rejected"} : MaySucceed(i) /\ Succeed(i, answer)
          BY <3>1, <3>3 DEF SucceedItem, Pass, itemVars
        <4>2. j = i
          BY <1>1, <3>3, <4>1 DEF Succeed, TypeOK
        <4>3. findings'[i] # {}
          BY <1>1, <4>1 DEF Succeed, TypeOK, MaySucceed, HasTemporal
        <4> QED  BY <4>2, <4>3 DEF Clean
      <3> QED  BY <3>2, <3>3
    <2>4. CASE stage = "dependencies"
      <3>1. verified' = verified /\ FinalizeItem(i)
        BY <1>1, <2>4, Frames, StepOfStage
      <3>2. CASE relation'[j] = relation[j] /\ findings'[j] = findings[j]
        BY <1>1, <1>3, <2>1, <3>1, <3>2 DEF Clean, SkipLookup, Item, LookupOf
      <3>3. CASE ~(relation'[j] = relation[j] /\ findings'[j] = findings[j])
        <4>1. relation'[j] = "parent_failed"
          BY <1>1, <3>1, <3>3 DEF FinalizeItem, Pass, itemVars, TypeOK
        <4> QED  BY <4>1 DEF Clean
      <3> QED  BY <3>2, <3>3
    <2>5. CASE stage \notin {"judgments", "successors", "dependencies"}
      <3>1. UNCHANGED <<relation, verified, findings>>
        BY <1>1, <1>3, <2>5, Frames DEF Late
      <3> QED  BY <1>1, <1>3, <2>1, <3>1 DEF Clean, SkipLookup, Item, LookupOf
    <2> QED  BY <2>2, <2>3, <2>4, <2>5
  <1> QED  BY <1>2, <1>4, <1>5

LEMMA NestedStep ==
  ASSUME IInv, NestedInv, NEW i \in Items, Step(i)
  PROVE  NestedInv'
  <1>1. TypeOK /\ doc' = doc /\ Items' = Items /\ at = i /\ Advance /\ stage # "done"
    BY Frames DEF IInv, Items
  <1> SUFFICES ASSUME NEW j \in Items, WasFinalized(j)', relation'[j] = "confirmed"
               PROVE  findings'[parent'[j]] = {}
    BY <1>1 DEF NestedInv
  <1>2. WasFinalized(j) \/ (stage = "dependencies" /\ j = i)
    BY <1>1, Handling
  <1>3. CASE stage = "dependencies"
    <2>1. FinalizeItem(i) /\ parent' = parent
      BY <1>3, StepOfStage DEF FinalizeItem, Pass, itemVars
    <2>2. \A k \in Items : findings[k] = {} => findings'[k] = {}
      BY <1>1, <2>1 DEF FinalizeItem, Pass, itemVars, TypeOK
    <2>3. relation[j] = "confirmed"
      BY <1>1, <2>1 DEF FinalizeItem, Pass, itemVars, TypeOK
    <2>a. parent[j] \in Items
      BY <1>1, <2>3 DEF TypeOK, Siblings
    <2>4. CASE j = i
      <3>1. ~ParentFailed(i)
        BY <1>1, <2>1, <2>4 DEF FinalizeItem, TypeOK
      <3> QED  BY <2>1, <2>2, <2>3, <2>4, <2>a, <3>1 DEF ParentFailed
    <2>5. CASE j # i
      BY <1>2, <2>1, <2>2, <2>3, <2>5, <2>a DEF NestedInv
    <2> QED  BY <2>4, <2>5
  <1>4. CASE stage # "dependencies"
    <2>1. WasFinalized(j) /\ UNCHANGED <<relation, parent, findings>>
      BY <1>1, <1>2, <1>4, Frames DEF WasFinalized
    <2> QED  BY <2>1 DEF NestedInv
  <1> QED  BY <1>3, <1>4

LEMMA OutcomeStep ==
  ASSUME IInv, OutcomeInv, NEW i \in Items, Step(i)
  PROVE  OutcomeInv'
  <1>1. TypeOK /\ doc' = doc /\ Items' = Items /\ at = i /\ Advance /\ stage # "done"
    BY Frames DEF IInv, Items
  <1>2. CASE stage = "outcomes"
    <2>1. UNCHANGED <<lookup, relation, resolution, findings, checks>>
      BY <1>1, <1>2, Frames
    <2>2. \A j \in Items : Outcome(j)' = Outcome(j)
      BY <1>1, <2>1 DEF Outcome, SkipLookup, LookupOf, Item, SystemFailed, ApplicationOutcome
    <2>3. \A j \in Items : outcome'[j] = IF j = i THEN Outcome(i) ELSE outcome[j]
      BY <1>1, <1>2, StepOfStage DEF BuildResult, TypeOK
    <2>4. Telling'
      BY <1>1, <1>2, Handling DEF Telling
    <2> QED  BY <1>1, <2>2, <2>3, <2>4 DEF OutcomeInv
  <1>3. CASE stage # "outcomes"
    <2>1. outcome' = outcome /\ ~Telling
      BY <1>1, <1>3, Frames DEF Telling
    <2> QED  BY <1>1, <2>1 DEF OutcomeInv
  <1> QED  BY <1>2, <1>3

-----------------------------------------------------------------------------
(* The jobs of two items that are each the first of theirs are the same    *)
(* job or have no citation in common.                                      *)
LEMMA JobsApart ==
  ASSUME TypeOK, NEW i \in Items, NEW j \in Items, FirstOfGroup(i), FirstOfGroup(j),
         NEW k \in Group(i), k \in Group(j)
  PROVE  i = j
  <1>1. Item(k).claim = Item(i).claim /\ Item(k).claim = Item(j).claim
    BY DEF Group, Siblings
  <1>2. i \in Group(j) /\ j \in Group(i)
    BY <1>1 DEF FirstOfGroup, Group, Siblings
  <1>3. i <= j /\ j <= i
    BY <1>2 DEF FirstOfGroup
  <1> QED  BY <1>3, Numbered DEF TypeOK

(* What one job writes: its own first item, and the citations that its     *)
(* reviews are about.                                                      *)
LEMMA ReviewStep ==
  ASSUME IInv, ReviewInv, NEW i \in Items, Step(i)
  PROVE  ReviewInv'
  <1>1. TypeOK /\ doc' = doc /\ Items' = Items /\ at = i /\ Advance /\ stage # "done"
    BY Frames DEF IInv, Items
  <1>2. \A j \in Items : WasCompared(j) => WasCompared(j)'
    BY <1>1, Handling
  <1>3. CASE opinions' = opinions /\ stage # "applications"
    <2>1. \A j \in Items : opinions[j] # {} => WasCompared(j)'
      BY <1>2 DEF ReviewInv
    <2>2. stage' = "applications" => \A j \in Items : opinions[j] = {}
      BY <1>1, <1>3, Handling DEF ReviewInv, WasCompared
    <2>3. \A j \in Items : checks[j].reviews \subseteq checks'[j].reviews
      <3>1. CASE stage = "fidelity"
        BY <1>1, <3>1, StepOfStage DEF MergeItem, Pass, itemVars, TypeOK
      <3>2. CASE stage # "fidelity"
        BY <1>1, <1>3, <3>2, Frames
      <3> QED  BY <3>1, <3>2
    <2>4. \A j \in Items : \A r \in opinions[j] : r.about \in Items
      BY <1>1 DEF TypeOK, Reviews
    <2>5. ReviewsReachTheirCitation'
      BY <1>1, <1>3, <2>3, <2>4 DEF ReviewInv, ReviewsReachTheirCitation
    <2> QED  BY <1>1, <1>3, <2>1, <2>2, <2>5 DEF ReviewInv
  <1>4. CASE stage = "applications"
    <2>1. CompareItem(i) /\ UNCHANGED <<lookup, relation, verified, findings>>
      BY <1>1, <1>4, StepOfStage, Frames
    <2>2. /\ \A j \in Items : FirstOfGroup(j)' <=> FirstOfGroup(j)
          /\ \A j \in Items : Group(j)' = Group(j)
      BY <1>1, <2>1 DEF FirstOfGroup, Group, Siblings, Candidate, HasText, SkipLookup, LookupOf, Item
    <2>3. \A j \in Items : opinions[j] # {} =>
            j # i /\ FirstOfGroup(j) /\ \A r \in opinions[j] : r.about \in Group(j)
      BY <1>1, <1>4, Numbered DEF ReviewInv, WasCompared, TypeOK
    <2>4. CASE ~(doc.model /\ FirstOfGroup(i))
      <3>1. UNCHANGED <<opinions, checks>>
        BY <2>1, <2>4 DEF CompareItem, Pass, itemVars
      <3>2. ReviewsReachTheirCitation'
        BY <1>1, <3>1 DEF ReviewInv, ReviewsReachTheirCitation
      <3> QED  BY <1>1, <1>2, <2>2, <2>3, <3>1, <3>2 DEF ReviewInv
    <2>5. CASE doc.model /\ FirstOfGroup(i)
      <3>1. i \in Group(i)
        BY <2>5 DEF FirstOfGroup, Group, Siblings
      <3>2. ASSUME NEW j \in Items, NEW r \in opinions[j]
            PROVE  r.about \in Items /\ r.about # i /\ r.about \notin Group(i)
        <4>1. r.about \in Group(j) /\ FirstOfGroup(j) /\ j # i
          BY <2>3, <3>2
        <4>2. r.about \notin Group(i)
          BY <1>1, <2>5, <4>1, JobsApart
        <4> QED  BY <3>1, <4>1, <4>2 DEF Group, Siblings
      <3>3. CASE checks' = [checks EXCEPT ![i] = [status |-> "failed", reviews |-> {}]] /\ opinions' = opinions
        <4>1. ReviewsReachTheirCitation'
          BY <1>1, <3>2, <3>3 DEF ReviewInv, ReviewsReachTheirCitation, TypeOK
        <4> QED  BY <1>1, <1>2, <2>2, <2>3, <3>3, <4>1 DEF ReviewInv
      <3>4. ASSUME NEW said \in SUBSET Reviews(Group(i)),
                   opinions' = [opinions EXCEPT ![i] = said], checks' = Routed(i, Kept(i, said))
            PROVE  ReviewInv'
        <4>1. \A j \in Items : opinions'[j] = IF j = i THEN said ELSE opinions[j]
          BY <1>1, <3>4 DEF TypeOK
        <4>2. \A r \in said : r.about \in Group(i) /\ r.about \in Items
          BY DEF Reviews, Group, Siblings
        <4>3. Kept(i, said) \subseteq said /\ \A r \in said : r.kind = "rule" => r \in Kept(i, said)
          BY DEF Kept
        <4>4. ASSUME NEW r \in said, r.kind = "rule"
              PROVE  r.kind \in checks'[r.about].reviews
          <5>1. checks'[r.about].reviews = {q.kind : q \in {s \in Kept(i, said) : s.about = r.about}}
            BY <3>4, <4>2, <4>3, <4>4 DEF Routed
          <5> QED  BY <4>3, <4>4, <5>1
        <4>5. \A j \in Items : j \notin Group(i) => checks'[j] = checks[j]
          BY <3>1, <3>4, <4>2, <4>3 DEF Routed
        <4>6. ReviewsReachTheirCitation'
          <5> SUFFICES ASSUME NEW j \in Items, NEW r \in opinions'[j], r.kind = "rule"
                       PROVE  r.kind \in checks'[r.about].reviews
            BY <1>1 DEF ReviewsReachTheirCitation
          <5>1. CASE j = i
            BY <4>1, <4>4, <5>1
          <5>2. CASE j # i
            <6>1. r \in opinions[j]
              BY <4>1, <5>2
            <6>2. r.kind \in checks[r.about].reviews
              BY <6>1 DEF ReviewInv, ReviewsReachTheirCitation
            <6>3. checks'[r.about] = checks[r.about]
              BY <3>2, <4>5, <6>1
            <6> QED  BY <6>2, <6>3
          <5> QED  BY <5>1, <5>2
        <4>7. \A j \in Items : opinions'[j] # {} =>
                FirstOfGroup(j) /\ \A r \in opinions'[j] : r.about \in Group(j)
          BY <2>3, <2>5, <4>1, <4>2
        <4>8. WasCompared(i)'
          BY <1>1, <1>4, Handling
        <4>9. \A j \in Items : opinions'[j] # {} => WasCompared(j)'
          BY <1>2, <4>1, <4>8 DEF ReviewInv
        <4> QED  BY <1>1, <2>2, <4>6, <4>7, <4>9 DEF ReviewInv
      <3> QED  BY <2>1, <2>5, <3>3, <3>4 DEF CompareItem
    <2> QED  BY <2>4, <2>5
  <1> QED  BY <1>3, <1>4, <1>1, Frames

-----------------------------------------------------------------------------
LEMMA ResultStep == IInv /\ ResultInv /\ [Next]_vars => ResultInv'
  <1> SUFFICES ASSUME IInv, ResultInv, [Next]_vars PROVE ResultInv'
    OBVIOUS
  <1>1. ASSUME NEW i \in Items, Step(i)
        PROVE  ResultInv'
    BY <1>1, LookupStep, MistakeStep, JudgeStep, NestedStep, OutcomeStep, ReviewStep DEF ResultInv
  <1>2. CASE UNCHANGED vars
    <2> USE <1>2 DEF vars, itemVars
    <2>1. Items' = Items /\ \A i \in Items : Item(i)' = Item(i)
      BY DEF Items, Item
    <2>2. LookupInv'
      BY <2>1 DEF ResultInv, LookupInv, LookedUp, LookupOf, SkipLookup, Item
    <2>3. MistakeInv' /\ JudgeInv' /\ NestedInv'
      BY <2>1 DEF ResultInv, MistakeInv, JudgeInv, NestedInv, WasJudged, WasFinalized, Clean,
         SkipLookup, LookupOf, Item
    <2>4. OutcomeInv'
      BY <2>1 DEF ResultInv, OutcomeInv, Telling, Outcome, SkipLookup, LookupOf, Item, SystemFailed,
         ApplicationOutcome
    <2>5. ReviewInv'
      BY <2>1 DEF ResultInv, ReviewInv, WasCompared, ReviewsReachTheirCitation, FirstOfGroup, Group,
         Siblings, Candidate, HasText, SkipLookup, LookupOf, Item
    <2> QED  BY <2>2, <2>3, <2>4, <2>5 DEF ResultInv
  <1> QED  BY <1>1, <1>2 DEF Next, Done

(* A result that passes has findings of its own neither by nor against it. *)
LEMMA PassIsClean ==
  ASSUME IInv, ResultInv, NEW i \in Items, outcome[i] = "pass"
  PROVE  /\ ~SkipLookup(i) /\ findings[i] = {} /\ ~SystemFailed(i)
         /\ resolution[i] # "unresolved"
         /\ relation[i] \notin {"parent_failed", "parent_unavailable", "insufficient", "locator_mismatch"}
         /\ relation[i] = "confirmed" \/ Compared(i)
         /\ Clean(i) /\ WasFinalized(i) /\ LookedUp(i)
  <1>1. Telling /\ Outcome(i) = "pass"
    BY DEF ResultInv, OutcomeInv
  <1>2. WasJudged(i) /\ WasFinalized(i) /\ LookedUp(i)
    BY <1>1 DEF Telling, WasJudged, WasFinalized, LookedUp, Late
  <1>3. Clean(i)
    BY <1>2 DEF ResultInv, JudgeInv
  <1>4. /\ ~SkipLookup(i) /\ findings[i] = {} /\ ~SystemFailed(i)
        /\ resolution[i] # "unresolved"
        /\ relation[i] \notin {"parent_failed", "parent_unavailable", "insufficient"}
        /\ relation[i] = "confirmed" \/ Compared(i)
    BY <1>1 DEF Outcome, ApplicationOutcome, Compared
  <1> QED  BY <1>2, <1>3, <1>4 DEF Clean

LEMMA ResultsHold == Spec => [](IInv /\ ResultInv)
BY Initial, Inductive, ResultInit, ResultStep, PTL DEF Spec

(* Whatever the document and whatever is answered, a citation of an        *)
(* article passes only on the text of a law in force with nothing found    *)
(* against it, and after a comparison without failure and review, or as    *)
(* confirmed by a parent nothing was found against.                        *)
THEOREM PassIsFounded == Spec => []PassRestsOnText
  <1>1. IInv /\ ResultInv => PassRestsOnText
    <2> SUFFICES ASSUME IInv, ResultInv, NEW i \in Items, outcome[i] = "pass", Item(i).form = "article"
                 PROVE  /\ LookupOf(i).status = "article_found" /\ LookupOf(i).validity = "none"
                        /\ findings[i] = {} /\ ~verified[i] /\ resolution[i] # "unresolved"
                        /\ ConfirmedByParent(i) \/ Compared(i)
      BY DEF PassRestsOnText
    <2>1. LookupOf(i).status \in ArticleStatuses
      BY PassIsClean DEF ResultInv, LookupInv
    <2>2. relation[i] = "confirmed" => ConfirmedByParent(i)
      BY PassIsClean DEF ConfirmedByParent, ResultInv, NestedInv, IInv, TypeOK
    <2> QED  BY <2>1, <2>2, PassIsClean DEF Clean, SystemFailed, ArticleStatuses
  <1> QED  BY ResultsHold, <1>1, PTL

(* However deep citations are nested, one that passes stands in a citation *)
(* against which nothing was found.                                        *)
THEOREM NestedIsFounded == Spec => []NestedFollowsParent
  <1>1. IInv /\ ResultInv => NestedFollowsParent
    <2> SUFFICES ASSUME IInv, ResultInv, NEW i \in Items, outcome[i] = "pass", relation[i] # "none"
                 PROVE  findings[parent[i]] = {}
      BY DEF NestedFollowsParent
    <2>1. relation[i] = "confirmed"
      BY PassIsClean DEF IInv, TypeOK, Relations, Unrelated
    <2> QED  BY <2>1, PassIsClean DEF ResultInv, NestedInv
  <1> QED  BY ResultsHold, <1>1, PTL

(* No job of the model, whether it answers or fails, takes away what       *)
(* another one said about a citation.                                      *)
THEOREM ReviewsArrive == Spec => []ReviewsReachTheirCitation
BY ResultsHold, PTL DEF ResultInv, ReviewInv
=============================================================================
