------------------------------ MODULE ClaimRun ------------------------------
(***************************************************************************)
(* VerificationScheduler._verify_claim: the loop that takes one claim from *)
(* its first search hypothesis to an output or a stop.                     *)
(*                                                                         *)
(* A round asks every planned source about every identity (law title) of   *)
(* the current hypothesis whose target was not asked before.  A source     *)
(* call that fails technically is repeated within the technical budget;    *)
(* completed evidence is judged, and a conclusive judgement ends the run.  *)
(* After a round without one the hypothesis is rebuilt, from the repair    *)
(* planner (at most once) or from a candidate title some source offered,   *)
(* within the hypothesis budget; otherwise the run stops.                  *)
(*                                                                         *)
(* A title stands for its shape key, cn_title_shape_key(normalize_title),  *)
(* the only thing the scheduler compares.  The candidate titles of a round *)
(* are a set: which one of the fresh ones comes first is left open.        *)
(***************************************************************************)
EXTENDS Integers, FiniteSets

CONSTANTS
  Titles,        \* law titles, by shape key
  Articles,      \* article numbers
  NoArticle,     \* no article number
  MaxSources,    \* length of the longest source plan
  MaxTech,       \* max_technical_retries
  MaxHyp,        \* max_hypothesis_retries
  FirstIdentities, \* the prioritised titles a first hypothesis may carry
  Offers,        \* the candidate titles one source call may report
  Listings       \* the titles the repair planner may know besides those

ASSUME BudgetAssumption ==
  /\ MaxSources \in Nat
  /\ MaxTech \in Nat
  /\ MaxHyp \in Nat

(* identity_candidates: some titles, each with its priority. *)
Identities(f) == DOMAIN f \subseteq Titles /\ f \in [DOMAIN f -> Nat]

ASSUME TitleAssumption ==
  /\ \A f \in FirstIdentities : Identities(f)
  /\ Offers \subseteq SUBSET Titles
  /\ Listings \subseteq SUBSET Titles

VARIABLES
  claim,          \* what the claim fixes for the whole run
  state,          \* run.state
  pc,             \* where _verify_claim is
  hyp,            \* the current hypothesis
  attempted,      \* attempted_targets
  cand,           \* candidate_titles of the round
  todo,           \* identities of the round not yet looked at
  src,            \* position in the source plan
  tries,          \* failed calls of the operation being retried
  repairPlanned,  \* repair_planned
  hypRetries,     \* run.hypothesis_retry_count
  hypLen,         \* Len(run.hypothesis_history)
  techRetries,    \* run.technical_retry_count
  evidenceLen,    \* Len(run.evidence_history), also of source_attempts
  verifiedLen,    \* Len(run.verification_history)
  reason          \* run.terminal_reason

control  == <<state, pc, reason>>
loop     == <<todo, src, tries>>
history  == <<techRetries, evidenceLen, verifiedLen>>
rebuilds == <<hyp, hypRetries, hypLen, repairPlanned>>
vars == <<claim, control, loop, history, rebuilds, attempted, cand>>

Lifecycle == INSTANCE RunLifecycle

PC == {"round", "identity", "source", "evidence", "verifying", "judging",
       "output", "repair", "rebuild", "returned", "raised"}

Locators == Articles \cup {NoArticle}

(* What the scheduler reads of a SearchHypothesis: the identities,         *)
(* query_plan.article_no, whether query_plan has a query_text, whether its *)
(* route is statute_exact, and its target_name.                            *)
Hypothesis(h) ==
  /\ h = [ids |-> h.ids, art |-> h.art, text |-> h.text, exact |-> h.exact,
          target |-> h.target]
  /\ Identities(h.ids)
  /\ h.art \in Locators /\ h.text \in BOOLEAN /\ h.exact \in BOOLEAN
  /\ h.target \in Titles

(* The parts of the claim the loop depends on: whether it has the legal    *)
(* mention of the hypothesis, the mention's article_raw, the number of     *)
(* planned sources of its jurisdiction, and the titles the repair planner  *)
(* may name in any round (raw title and fuzzy matches of local titles).    *)
Claim ==
  [mention : BOOLEAN, art : Locators, sources : 0 .. MaxSources, listed : Listings]

(* target_key *)
Target(t) == <<t, hyp.art, hyp.text>>
(* Mutant: the target is not remembered. *)
Forget(t) == attempted' = attempted

Remember(t) == attempted' = attempted \cup {Target(t)}
AttemptedTitles == {k[1] : k \in attempted}

(* rebuild_hypothesis: the title goes first, the others keep their order   *)
(* behind it, and the query text is dropped.                               *)
Rebuilt(t, a) ==
  [ids    |-> [u \in DOMAIN hyp.ids \cup {t} |-> IF u = t THEN 1 ELSE hyp.ids[u] + 1],
   art    |-> a,
   text   |-> FALSE,
   exact  |-> a # NoArticle,
   target |-> t]

(* VerificationRun.transition: no-op on the same state, ValueError on a    *)
(* transition that is not allowed.                                         *)
MayMove(t) == t = state \/ t \in Lifecycle!Allowed[state]

MoveTo(t, next) ==
  IF MayMove(t) THEN state' = t /\ pc' = next
                ELSE state' = state /\ pc' = "raised"

-----------------------------------------------------------------------------
(* What build_initial_hypothesis gives: an article number makes the route  *)
(* statute_exact; without a mention or an identity the route is skip, with *)
(* no source to ask.                                                       *)
FirstHypothesis ==
  /\ hyp.exact = (hyp.art # NoArticle)
  /\ hyp.exact => hyp.art = claim.art /\ ~hyp.text
  /\ hyp.exact \/ hyp.text => claim.mention /\ DOMAIN hyp.ids # {}
  /\ DOMAIN hyp.ids = {} => claim.sources = 0
  /\ DOMAIN hyp.ids # {} => hyp.target \in DOMAIN hyp.ids

Init ==
  /\ claim \in Claim
  /\ hyp \in [ids : FirstIdentities, art : Locators, text : BOOLEAN,
              exact : BOOLEAN, target : Titles]
  /\ FirstHypothesis
  /\ state = "new" /\ pc = "round" /\ reason = "none"
  /\ attempted = {} /\ cand = {}
  /\ todo = {} /\ src = 1 /\ tries = 0
  /\ repairPlanned = FALSE
  /\ hypRetries = 0 /\ hypLen = 1
  /\ techRetries = 0 /\ evidenceLen = 0 /\ verifiedLen = 0

(* The head of the while loop. *)
StartRound ==
  /\ pc = "round"
  /\ MoveTo("hypothesis_ready", "identity")
  /\ cand' = {} /\ todo' = DOMAIN hyp.ids
  /\ UNCHANGED <<claim, reason, src, tries, history, rebuilds, attempted>>

(* sorted(identity_candidates, key=priority) *)
Foremost(t) == t \in todo /\ \A u \in todo : hyp.ids[t] <= hyp.ids[u]

(* An identity whose target was asked in an earlier round is skipped. *)
SkipIdentity ==
  /\ pc = "identity"
  /\ \E t \in todo : Foremost(t) /\ Target(t) \in attempted /\ todo' = todo \ {t}
  /\ UNCHANGED <<claim, control, src, tries, history, rebuilds, attempted, cand>>

TakeIdentity ==
  /\ pc = "identity"
  /\ \E t \in todo :
       /\ Foremost(t) /\ Target(t) \notin attempted
       /\ Remember(t)
       /\ todo' = todo \ {t}
  /\ src' = 1
  /\ pc' = "source"
  /\ UNCHANGED <<claim, state, reason, tries, history, rebuilds, cand>>

IdentitiesDone ==
  /\ pc = "identity" /\ todo = {}
  /\ pc' = "repair"
  /\ UNCHANGED <<claim, state, reason, loop, history, rebuilds, attempted, cand>>

SourcesDone ==
  /\ pc = "source" /\ src > claim.sources
  /\ pc' = "identity"
  /\ UNCHANGED <<claim, state, reason, loop, history, rebuilds, attempted, cand>>

(* Mutant: the first call counts as a retry. *)
AllCalls(calls) == calls

RetriesAmong(calls) == calls - 1

(* run_with_technical_retries: a call that ends in SOURCE_ERROR is made    *)
(* again while no more than max_retries calls were made.                   *)
RetrySource ==
  /\ pc = "source" /\ src <= claim.sources
  /\ tries < MaxTech
  /\ MoveTo("retrieving", "source")
  /\ tries' = tries + 1
  /\ UNCHANGED <<claim, reason, todo, src, history, rebuilds, attempted, cand>>

(* The last call to a source: its technical status, and the candidate      *)
(* titles in its metadata.  SOURCE_ERROR ends the calls only when the      *)
(* budget is spent.  Every call is appended to the histories.              *)
LeaveSource(status, offered) ==
  /\ pc = "source" /\ src <= claim.sources
  /\ status = "source_error" => tries >= MaxTech
  /\ status = "skipped" => tries = 0 /\ offered = {}
  /\ MoveTo("retrieving", IF status = "completed" THEN "evidence" ELSE "source")
  /\ src' = IF status = "completed" THEN src ELSE src + 1
  /\ techRetries' = techRetries + RetriesAmong(tries + 1)
  /\ evidenceLen' = evidenceLen + tries + 1
  /\ cand' = cand \cup offered
  /\ tries' = 0
  /\ UNCHANGED <<claim, reason, todo, verifiedLen, rebuilds, attempted>>

(* _verify_retrieved: three transitions around verify_evidence. *)
HaveEvidence ==
  /\ pc = "evidence"
  /\ MoveTo("evidence_ready", "verifying")
  /\ UNCHANGED <<claim, reason, loop, history, rebuilds, attempted, cand>>

BeginVerify ==
  /\ pc = "verifying"
  /\ MoveTo("verifying", "judging")
  /\ UNCHANGED <<claim, reason, loop, history, rebuilds, attempted, cand>>

(* Anything but INSUFFICIENT_EVIDENCE is conclusive. *)
Judge(conclusive) ==
  /\ pc = "judging"
  /\ MoveTo("verified", IF conclusive THEN "output" ELSE "source")
  /\ src' = IF conclusive THEN src ELSE src + 1
  /\ verifiedLen' = verifiedLen + 1
  /\ UNCHANGED <<claim, reason, todo, tries, techRetries, evidenceLen, rebuilds,
                 attempted, cand>>

Output ==
  /\ pc = "output"
  /\ MoveTo("output", "returned")
  /\ reason' = "verification_complete"
  /\ UNCHANGED <<claim, loop, history, rebuilds, attempted, cand>>

-----------------------------------------------------------------------------
(* The round ended without a conclusive judgement. *)

FreshTitles == cand \ AttemptedTitles

BudgetLeft == hypRetries < MaxHyp
MayPlanRepair == ~repairPlanned /\ claim.mention /\ hyp.exact /\ BudgetLeft

(* Both rebuilds count against the hypothesis budget and start a round. *)
Rebuild(t, a) ==
  /\ hyp' = Rebuilt(t, a)
  /\ hypRetries' = hypRetries + 1
  /\ hypLen' = hypLen + 1
  /\ pc' = "round"

(* _plan_repair returned a plan: a listed title, and not the target that   *)
(* was just searched.                                                      *)
RepairTarget(t, a) ==
  /\ t \in claim.listed \cup cand
  /\ ~(t = hyp.target /\ a = claim.art)

AcceptRepair ==
  /\ pc = "repair" /\ MayPlanRepair
  /\ \E t \in Titles, a \in Articles : RepairTarget(t, a) /\ Rebuild(t, a)
  /\ repairPlanned' = TRUE
  /\ UNCHANGED <<claim, state, reason, loop, history, attempted, cand>>

(* Mutant: the next round begins although nothing was rebuilt. *)
ContinueUnrepaired ==
  /\ pc = "repair"
  /\ repairPlanned' = (repairPlanned \/ MayPlanRepair)
  /\ pc' = "round"
  /\ UNCHANGED <<claim, state, reason, loop, history, hyp, hypRetries, hypLen,
                 attempted, cand>>

(* No planner, a planner that failed, or a plan that was rejected. *)
NoRepair ==
  /\ pc = "repair"
  /\ repairPlanned' = (repairPlanned \/ MayPlanRepair)
  /\ pc' = "rebuild"
  /\ UNCHANGED <<claim, state, reason, loop, history, hyp, hypRetries, hypLen,
                 attempted, cand>>

RebuildFromCandidate ==
  /\ pc = "rebuild" /\ BudgetLeft
  /\ \E t \in FreshTitles : Rebuild(t, hyp.art)
  /\ UNCHANGED <<claim, state, reason, loop, history, repairPlanned, attempted, cand>>

(* Mutant: the reason is read off the budget. *)
StopReasonByBudget ==
  IF BudgetLeft THEN "all_sources_exhausted" ELSE "hypothesis_limit_reached"

StopReason ==
  IF FreshTitles = {} THEN "all_sources_exhausted" ELSE "hypothesis_limit_reached"

Stop ==
  /\ pc = "rebuild"
  /\ FreshTitles = {} \/ ~BudgetLeft
  /\ MoveTo("stopped", "returned")
  /\ reason' = StopReason
  /\ UNCHANGED <<claim, loop, history, rebuilds, attempted, cand>>

Returned ==
  /\ pc = "returned"
  /\ UNCHANGED vars

Step ==
  \/ StartRound \/ SkipIdentity \/ TakeIdentity \/ IdentitiesDone \/ SourcesDone
  \/ RetrySource
  \/ \E status \in {"completed", "skipped", "source_error"}, offered \in Offers :
       LeaveSource(status, offered)
  \/ HaveEvidence \/ BeginVerify
  \/ \E conclusive \in BOOLEAN : Judge(conclusive)
  \/ Output
  \/ AcceptRepair \/ NoRepair \/ RebuildFromCandidate \/ Stop

Next == Step \/ Returned

Spec == Init /\ [][Next]_vars

(* The loop is one synchronous call: it takes its next step. *)
FairSpec == Spec /\ WF_vars(Step)

-----------------------------------------------------------------------------
TypeOK ==
  /\ claim \in Claim
  /\ state \in Lifecycle!RunState
  /\ pc \in PC
  /\ Hypothesis(hyp)
  /\ attempted \subseteq Titles \X Locators \X BOOLEAN
  /\ cand \subseteq Titles
  /\ todo \subseteq DOMAIN hyp.ids /\ src \in 1 .. MaxSources + 1
  /\ tries \in 0 .. MaxTech
  /\ repairPlanned \in BOOLEAN
  /\ hypRetries \in 0 .. MaxHyp
  /\ hypLen \in Nat
  /\ techRetries \in Nat /\ evidenceLen \in Nat /\ verifiedLen \in Nat
  /\ reason \in {"none", "verification_complete", "all_sources_exhausted",
                "hypothesis_limit_reached"}

(* The scheduler never asks VerificationRun.transition for a move the      *)
(* table does not allow, whatever order of failures, skips and rebuilds    *)
(* led there: the ValueError of runs.py is never raised out of             *)
(* verify_claim.                                                           *)
NeverRaises == pc # "raised"

(* A run asks each source at most once per target, counting its technical  *)
(* retries once: whatever titles the sources keep offering and the planner *)
(* keeps proposing, the traffic of a claim is bounded by the distinct      *)
(* targets it attempted.                                                   *)
TrafficBounded ==
  /\ evidenceLen - techRetries <= claim.sources * Cardinality(attempted)
  /\ techRetries <= MaxTech * (evidenceLen - techRetries)

(* The histories of a run tell one story: a hypothesis per rebuild, and no *)
(* more judgements than completed retrievals, one of which the last        *)
(* judgement of an output run is.                                          *)
HistoriesAgree ==
  /\ hypLen = hypRetries + 1
  /\ verifiedLen <= evidenceLen - techRetries
  /\ reason = "verification_complete" => verifiedLen > 0

(* What the terminal reason tells a reader of the run: an exhausted run    *)
(* attempted every identity of its last hypothesis and every title its     *)
(* last round was offered; a limited run spent the whole rebuild budget    *)
(* and had a title left.                                                   *)
ReasonIsTrue ==
  /\ reason = "all_sources_exhausted" =>
       /\ \A t \in DOMAIN hyp.ids : Target(t) \in attempted
       /\ cand \subseteq AttemptedTitles
  /\ reason = "hypothesis_limit_reached" =>
       hypRetries = MaxHyp /\ ~(cand \subseteq AttemptedTitles)
  /\ pc = "returned" <=> state \in Lifecycle!Terminal

(* Every claim ends: budgets and attempted targets make the loop finite.   *)
Terminates == <>(pc = "returned")
=============================================================================
