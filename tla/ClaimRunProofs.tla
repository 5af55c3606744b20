--------------------------- MODULE ClaimRunProofs ---------------------------
(***************************************************************************)
(* Proofs about the claim scheduler, for every set of titles and articles, *)
(* every source plan and every budget: its invariants, and that it         *)
(* implements the lifecycle of domain/runs.py.                             *)
(***************************************************************************)
EXTENDS ClaimRun, FiniteSetTheorems, TLAPS

(* The state the run is in at each place of the loop. *)
StateAtPc ==
  /\ pc # "raised"
  /\ pc = "round" => state \in {"new", "hypothesis_ready", "retrieving", "verified"}
  /\ pc \in {"identity", "source", "repair", "rebuild"} =>
       state \in {"hypothesis_ready", "retrieving", "verified"}
  /\ pc = "evidence" => state = "retrieving"
  /\ pc = "verifying" => state = "evidence_ready"
  /\ pc = "judging" => state = "verifying"
  /\ pc = "output" => state = "verified"
  /\ pc = "returned" <=> state \in {"output", "stopped"}

(* Evidence was retrieved and is not judged yet. *)
Pending == pc \in {"evidence", "verifying", "judging"}

(* Each source of the plan is asked after the one before it. *)
Position ==
  /\ Pending => src <= claim.sources
  /\ src <= claim.sources + 1
  /\ pc # "source" \/ src > claim.sources => tries = 0

(* source_attempts that are not technical retries. *)
Asked == evidenceLen - techRetries

Histories ==
  /\ hypLen = hypRetries + 1
  /\ verifiedLen <= Asked
  /\ Pending => verifiedLen < Asked
  /\ pc = "output" \/ reason = "verification_complete" => verifiedLen > 0

(* The calls of the target in hand are not yet a full round of sources. *)
Quota == claim.sources * Cardinality(attempted)
Traffic ==
  /\ IsFiniteSet(attempted)
  /\ Asked <= Quota
  /\ pc = "source" => Asked + claim.sources <= Quota + src - 1
  /\ Pending => Asked + claim.sources <= Quota + src
  /\ techRetries <= MaxTech * Asked

(* Identities that left todo were attempted. *)
Covered ==
  /\ pc \in {"identity", "source", "evidence", "verifying", "judging", "repair", "rebuild"} =>
       \A t \in DOMAIN hyp.ids \ todo : Target(t) \in attempted
  /\ pc \in {"repair", "rebuild"} => todo = {}
  /\ pc = "returned" <=> reason # "none"

IInv == TypeOK /\ StateAtPc /\ Position /\ Histories /\ Traffic /\ Covered /\ ReasonIsTrue

-----------------------------------------------------------------------------
(* The transitions domain/runs.py allows, written out. *)
LEMMA TransitionTable ==
  /\ Lifecycle!Allowed["new"] = {"hypothesis_ready"}
  /\ Lifecycle!Allowed["hypothesis_ready"] = {"retrieving", "stopped"}
  /\ Lifecycle!Allowed["retrieving"] = {"evidence_ready", "hypothesis_ready", "stopped"}
  /\ Lifecycle!Allowed["evidence_ready"] = {"verifying"}
  /\ Lifecycle!Allowed["verifying"] = {"verified"}
  /\ Lifecycle!Allowed["verified"] = {"retrieving", "hypothesis_ready", "output", "stopped"}
  /\ Lifecycle!Terminal = {"output", "stopped"}
BY DEF Lifecycle!Allowed, Lifecycle!RunState, Lifecycle!Terminal

(* One row more of a product of naturals. *)
LEMMA TimesNext ==
  ASSUME NEW a \in Nat, NEW n \in Nat
  PROVE  a * n \in Nat /\ a * (n + 1) = a * n + a
OBVIOUS

(* One more target leaves room for one more round of sources. *)
LEMMA QuotaGrows ==
  ASSUME NEW k, k \notin attempted, IsFiniteSet(attempted), claim.sources \in Nat
  PROVE  /\ IsFiniteSet(attempted \cup {k})
         /\ claim.sources * Cardinality(attempted \cup {k}) = Quota + claim.sources
         /\ Quota \in Nat
<1>1. /\ IsFiniteSet(attempted \cup {k})
      /\ Cardinality(attempted \cup {k}) = Cardinality(attempted) + 1
      /\ Cardinality(attempted) \in Nat
  BY FS_AddElement, FS_CardinalityType
<1> QED BY <1>1, TimesNext DEF Quota

(* The initial state satisfies the inductive invariant. *)
LEMMA InitOK == Init => IInv
<1> SUFFICES ASSUME Init PROVE IInv
  OBVIOUS
<1>1. TypeOK
  <2>1. Hypothesis(hyp)
    <3>1. Identities(hyp.ids)
      BY TitleAssumption DEF Init
    <3> QED BY <3>1 DEF Init, Hypothesis
  <2>2. /\ tries \in 0 .. MaxTech /\ hypRetries \in 0 .. MaxHyp
        /\ src \in 1 .. MaxSources + 1
    BY BudgetAssumption DEF Init
  <2> QED BY <2>1, <2>2 DEF Init, TypeOK, Lifecycle!RunState, PC
<1>2. StateAtPc /\ Position /\ Histories /\ Covered
  BY <1>1 DEF Init, StateAtPc, Position, Pending, Histories, Asked, Covered, TypeOK, Claim
<1>3. Traffic
  <2>1. attempted = {} /\ IsFiniteSet(attempted) /\ Cardinality(attempted) = 0
    BY FS_EmptySet DEF Init
  <2>2. Quota = 0
    BY <1>1, <2>1 DEF Quota, TypeOK, Claim
  <2>3. Asked = 0 /\ MaxTech * Asked = 0
    BY BudgetAssumption DEF Init, Asked
  <2> QED BY <1>1, <2>1, <2>2, <2>3 DEF Init, Traffic, Pending
<1>4. ReasonIsTrue
  BY TransitionTable DEF Init, ReasonIsTrue
<1> QED BY <1>1, <1>2, <1>3, <1>4 DEF IInv

(* Where the loop is, the transition it asks for is one it may make. *)
LEMMA Moves ==
  ASSUME TypeOK, StateAtPc, NEW next
  PROVE  /\ pc = "round" /\ MoveTo("hypothesis_ready", next) =>
              state' = "hypothesis_ready" /\ pc' = next
         /\ pc = "source" /\ MoveTo("retrieving", next) =>
              state' = "retrieving" /\ pc' = next
         /\ pc = "evidence" /\ MoveTo("evidence_ready", next) =>
              state' = "evidence_ready" /\ pc' = next
         /\ pc = "verifying" /\ MoveTo("verifying", next) =>
              state' = "verifying" /\ pc' = next
         /\ pc = "judging" /\ MoveTo("verified", next) =>
              state' = "verified" /\ pc' = next
         /\ pc = "output" /\ MoveTo("output", next) =>
              state' = "output" /\ pc' = next
         /\ pc = "rebuild" /\ MoveTo("stopped", next) =>
              state' = "stopped" /\ pc' = next
  BY TransitionTable DEF MoveTo, MayMove, StateAtPc, TypeOK, Lifecycle!Allowed, Lifecycle!RunState

(* Steps preserve the types. *)
LEMMA TypeStep == IInv /\ [Next]_vars => TypeOK'
<1> SUFFICES ASSUME IInv, [Next]_vars PROVE TypeOK'
  OBVIOUS
<1> USE DEF IInv
<1>m. \A next \in PC, t \in Lifecycle!RunState :
        MoveTo(t, next) => pc' \in PC /\ state' \in Lifecycle!RunState
  BY DEF MoveTo, TypeOK, PC
<1>c. claim' = claim /\ claim.sources \in 0 .. MaxSources
  BY DEF TypeOK, Claim, Next, Step, StartRound, SkipIdentity, TakeIdentity, IdentitiesDone,
         SourcesDone, RetrySource, LeaveSource, HaveEvidence, BeginVerify, Judge, Output,
         AcceptRepair, NoRepair, RebuildFromCandidate, Stop, Returned, vars
<1>r. ASSUME NEW t \in Titles, NEW a \in Locators, Rebuild(t, a), BudgetLeft, todo = {}
      PROVE  /\ Hypothesis(hyp') /\ hypRetries' \in 0 .. MaxHyp
             /\ hypLen' \in Nat /\ pc' \in PC
  <2>1. Hypothesis(Rebuilt(t, a))
    <3>1. Identities(hyp.ids) /\ (a # NoArticle) \in BOOLEAN
      BY DEF TypeOK, Hypothesis
    <3>2. Identities([u \in DOMAIN hyp.ids \cup {t} |-> IF u = t THEN 1 ELSE hyp.ids[u] + 1])
      BY <3>1 DEF Identities
    <3> QED BY <3>1, <3>2 DEF Hypothesis, Rebuilt
  <2> QED BY <2>1, <1>r, BudgetAssumption DEF Rebuild, TypeOK, BudgetLeft, PC
<1>1. CASE StartRound
  BY <1>1, <1>m, Moves DEF StartRound, TypeOK, PC, history, rebuilds, Lifecycle!RunState
<1>2. CASE SkipIdentity
  BY <1>2 DEF SkipIdentity, TypeOK, control, history, rebuilds
<1>3. CASE TakeIdentity
  <2>1. attempted' \subseteq Titles \X Locators \X BOOLEAN
    BY <1>3 DEF TakeIdentity, Remember, Target, TypeOK, Hypothesis, Identities
  <2> QED BY <1>3, <2>1, BudgetAssumption DEF TakeIdentity, TypeOK, history, rebuilds, PC
<1>4. CASE IdentitiesDone
  BY <1>4 DEF IdentitiesDone, TypeOK, loop, history, rebuilds, PC
<1>5. CASE SourcesDone
  BY <1>5 DEF SourcesDone, TypeOK, loop, history, rebuilds, PC
<1>6. CASE RetrySource
  BY <1>6, <1>m, BudgetAssumption
     DEF RetrySource, TypeOK, history, rebuilds, PC, Lifecycle!RunState
<1>7. ASSUME NEW status \in {"completed", "skipped", "source_error"}, NEW offered \in Offers,
             LeaveSource(status, offered)
      PROVE  TypeOK'
  <2>1. cand' \subseteq Titles
    BY <1>7, TitleAssumption DEF LeaveSource, TypeOK
  <2>2. src' \in 1 .. MaxSources + 1 /\ tries' \in 0 .. MaxTech
    BY <1>7, <1>c, BudgetAssumption DEF LeaveSource, TypeOK
  <2>3. techRetries' \in Nat /\ evidenceLen' \in Nat
    BY <1>7, BudgetAssumption DEF LeaveSource, TypeOK, RetriesAmong
  <2>4. pc' \in PC /\ state' \in Lifecycle!RunState
    BY <1>7, <1>m DEF LeaveSource, PC, Lifecycle!RunState
  <2> QED BY <1>7, <2>1, <2>2, <2>3, <2>4 DEF LeaveSource, TypeOK, rebuilds
<1>8. CASE HaveEvidence
  BY <1>8, <1>m DEF HaveEvidence, TypeOK, loop, history, rebuilds, PC, Lifecycle!RunState
<1>9. CASE BeginVerify
  BY <1>9, <1>m DEF BeginVerify, TypeOK, loop, history, rebuilds, PC, Lifecycle!RunState
<1>10. ASSUME NEW conclusive \in BOOLEAN, Judge(conclusive)
       PROVE  TypeOK'
  <2>1. src' \in 1 .. MaxSources + 1
    BY <1>10, <1>c, BudgetAssumption DEF Judge, TypeOK, Position, Pending
  <2>2. pc' \in PC /\ state' \in Lifecycle!RunState
    BY <1>10, <1>m DEF Judge, PC, Lifecycle!RunState
  <2> QED BY <1>10, <2>1, <2>2 DEF Judge, TypeOK, rebuilds
<1>11. CASE Output
  BY <1>11, <1>m DEF Output, TypeOK, loop, history, rebuilds, PC, Lifecycle!RunState
<1>12. CASE AcceptRepair
  BY <1>12, <1>r DEF AcceptRepair, MayPlanRepair, TypeOK, loop, history, Covered, Locators
<1>13. CASE NoRepair
  BY <1>13 DEF NoRepair, MayPlanRepair, BudgetLeft, TypeOK, loop, history, PC, Claim, Hypothesis
<1>14. CASE RebuildFromCandidate
  BY <1>14, <1>r DEF RebuildFromCandidate, FreshTitles, TypeOK, loop, history, Covered, Hypothesis
<1>15. CASE Stop
  BY <1>15, <1>m DEF Stop, StopReason, TypeOK, loop, history, rebuilds, PC, Lifecycle!RunState
<1>16. CASE UNCHANGED vars
  BY <1>16 DEF vars, control, loop, history, rebuilds, TypeOK
<1> QED BY <1>1, <1>2, <1>3, <1>4, <1>5, <1>6, <1>7, <1>8, <1>9, <1>10, <1>11, <1>12,
           <1>13, <1>14, <1>15, <1>16 DEF Next, Step, Returned

(* Steps keep the run's state in line with the place in the loop. *)
LEMMA StateStep == IInv /\ [Next]_vars => StateAtPc'
<1> SUFFICES ASSUME IInv, [Next]_vars PROVE StateAtPc'
  OBVIOUS
<1> USE DEF IInv
<1>1. CASE StartRound
  BY <1>1, Moves DEF StartRound, StateAtPc
<1>2. CASE SkipIdentity \/ TakeIdentity \/ IdentitiesDone \/ SourcesDone \/ UNCHANGED vars
  BY <1>2 DEF SkipIdentity, TakeIdentity, IdentitiesDone, SourcesDone, StateAtPc, control, vars
<1>3. CASE RetrySource
  BY <1>3, Moves DEF RetrySource, StateAtPc
<1>4. ASSUME NEW status \in {"completed", "skipped", "source_error"}, NEW offered \in Offers,
             LeaveSource(status, offered)
      PROVE  StateAtPc'
  BY <1>4, Moves DEF LeaveSource, StateAtPc
<1>5. CASE HaveEvidence
  BY <1>5, Moves DEF HaveEvidence, StateAtPc
<1>6. CASE BeginVerify
  BY <1>6, Moves DEF BeginVerify, StateAtPc
<1>7. ASSUME NEW conclusive \in BOOLEAN, Judge(conclusive)
      PROVE  StateAtPc'
  BY <1>7, Moves DEF Judge, StateAtPc
<1>8. CASE Output
  BY <1>8, Moves DEF Output, StateAtPc
<1>9. CASE AcceptRepair \/ NoRepair \/ RebuildFromCandidate
  BY <1>9 DEF AcceptRepair, NoRepair, RebuildFromCandidate, Rebuild, StateAtPc
<1>10. CASE Stop
  BY <1>10, Moves DEF Stop, StateAtPc
<1> QED BY <1>1, <1>2, <1>3, <1>4, <1>5, <1>6, <1>7, <1>8, <1>9, <1>10 DEF Next, Step, Returned

(* Steps keep the position in identities and sources consistent. *)
LEMMA PositionStep == IInv /\ [Next]_vars => Position'
<1> SUFFICES ASSUME IInv, [Next]_vars PROVE Position'
  OBVIOUS
<1> USE DEF IInv, Position, Pending
<1>c. claim.sources \in Nat /\ src \in Nat
  BY BudgetAssumption DEF TypeOK, Claim
<1>1. CASE StartRound
  BY <1>1, Moves DEF StartRound
<1>2. CASE SkipIdentity \/ IdentitiesDone \/ SourcesDone \/ UNCHANGED vars
  BY <1>2 DEF SkipIdentity, IdentitiesDone, SourcesDone, control, loop, vars, StateAtPc, TypeOK
<1>3. CASE TakeIdentity
  BY <1>3, <1>c DEF TakeIdentity
<1>4. CASE RetrySource
  BY <1>4, <1>c, Moves DEF RetrySource
<1>5. ASSUME NEW status \in {"completed", "skipped", "source_error"}, NEW offered \in Offers,
             LeaveSource(status, offered)
      PROVE  Position'
  BY <1>5, <1>c, Moves DEF LeaveSource
<1>6. CASE HaveEvidence \/ BeginVerify
  BY <1>6, Moves DEF HaveEvidence, BeginVerify, loop
<1>7. ASSUME NEW conclusive \in BOOLEAN, Judge(conclusive)
      PROVE  Position'
  BY <1>7, <1>c, Moves DEF Judge
<1>8. CASE Output \/ Stop
  BY <1>8, Moves DEF Output, Stop, loop
<1>9. CASE AcceptRepair \/ NoRepair \/ RebuildFromCandidate
  BY <1>9 DEF AcceptRepair, NoRepair, RebuildFromCandidate, Rebuild, loop
<1> QED BY <1>1, <1>2, <1>3, <1>4, <1>5, <1>6, <1>7, <1>8, <1>9 DEF Next, Step, Returned

(* Steps keep the reported histories consistent. *)
LEMMA HistoriesStep == IInv /\ [Next]_vars => Histories'
<1> SUFFICES ASSUME IInv, [Next]_vars PROVE Histories'
  OBVIOUS
<1> USE DEF IInv, Histories, Pending, Asked
<1>c. /\ verifiedLen \in Nat /\ evidenceLen \in Nat /\ techRetries \in Nat
      /\ tries \in Nat /\ hypRetries \in Nat
  BY BudgetAssumption DEF TypeOK
<1>1. CASE StartRound
  BY <1>1, Moves DEF StartRound, history, rebuilds
<1>2. CASE SkipIdentity \/ TakeIdentity \/ IdentitiesDone \/ SourcesDone \/ UNCHANGED vars
  BY <1>2 DEF SkipIdentity, TakeIdentity, IdentitiesDone, SourcesDone, control, history,
              rebuilds, vars
<1>3. CASE RetrySource
  BY <1>3, Moves DEF RetrySource, history, rebuilds
<1>4. ASSUME NEW status \in {"completed", "skipped", "source_error"}, NEW offered \in Offers,
             LeaveSource(status, offered)
      PROVE  Histories'
  BY <1>4, <1>c, Moves DEF LeaveSource, RetriesAmong, rebuilds
<1>5. CASE HaveEvidence \/ BeginVerify
  BY <1>5, Moves DEF HaveEvidence, BeginVerify, history, rebuilds
<1>6. ASSUME NEW conclusive \in BOOLEAN, Judge(conclusive)
      PROVE  Histories'
  BY <1>6, <1>c, Moves DEF Judge, rebuilds
<1>7. CASE Output
  BY <1>7, Moves DEF Output, history, rebuilds
<1>8. CASE AcceptRepair \/ NoRepair \/ RebuildFromCandidate
  BY <1>8, <1>c DEF AcceptRepair, NoRepair, RebuildFromCandidate, Rebuild, history
<1>9. CASE Stop
  BY <1>9, Moves DEF Stop, StopReason, history, rebuilds
<1> QED BY <1>1, <1>2, <1>3, <1>4, <1>5, <1>6, <1>7, <1>8, <1>9 DEF Next, Step, Returned

(* Steps keep the calls within the quota of the attempted targets. *)
LEMMA TrafficStep == IInv /\ [Next]_vars => Traffic'
<1> SUFFICES ASSUME IInv, [Next]_vars PROVE Traffic'
  OBVIOUS
<1> USE DEF IInv, Traffic, Pending
<1>c. /\ evidenceLen \in Nat /\ techRetries \in Nat /\ src \in Nat
      /\ tries \in Nat /\ tries <= MaxTech /\ MaxTech \in Nat /\ claim.sources \in Nat
      /\ Asked \in Int /\ Asked >= 0
  <2>1. verifiedLen <= Asked
    BY DEF Histories
  <2> QED BY <2>1, BudgetAssumption DEF TypeOK, Claim, Asked
<1>q. Quota \in Nat
  BY <1>c, FS_CardinalityType DEF Quota
<1>same. ASSUME UNCHANGED <<claim, attempted, techRetries, evidenceLen>>
         PROVE  Quota' = Quota /\ Asked' = Asked /\ UNCHANGED <<MaxTech * Asked, techRetries>>
  BY <1>same DEF Quota, Asked
<1>1. CASE StartRound \/ NoRepair \/ Output \/ Stop \/ HaveEvidence \/ BeginVerify \/ UNCHANGED vars
  BY <1>1, <1>same, Moves
     DEF StartRound, NoRepair, Output, Stop, HaveEvidence, BeginVerify, history, loop, control, vars
<1>2. CASE SkipIdentity \/ IdentitiesDone \/ SourcesDone
  BY <1>2, <1>same DEF SkipIdentity, IdentitiesDone, SourcesDone, history, loop, control
<1>3. CASE TakeIdentity
  <2>1. PICK t \in todo : Target(t) \notin attempted /\ attempted' = attempted \cup {Target(t)}
    BY <1>3 DEF TakeIdentity, Remember
  <2>2. IsFiniteSet(attempted') /\ Quota' = Quota + claim.sources
    BY <1>3, <1>c, <2>1, QuotaGrows DEF TakeIdentity, Quota
  <2>3. Asked' = Asked /\ techRetries' = techRetries
    BY <1>3 DEF TakeIdentity, history, Asked
  <2> QED BY <1>3, <1>c, <1>q, <2>2, <2>3 DEF TakeIdentity
<1>4. CASE RetrySource
  BY <1>4, <1>same, Moves DEF RetrySource, history
<1>5. ASSUME NEW status \in {"completed", "skipped", "source_error"}, NEW offered \in Offers,
             LeaveSource(status, offered)
      PROVE  Traffic'
  <2>1. Asked' = Asked + 1 /\ techRetries' = techRetries + tries /\ Quota' = Quota
    BY <1>5, <1>c DEF LeaveSource, RetriesAmong, Asked, Quota
  <2>2. MaxTech * Asked' = MaxTech * Asked + MaxTech
    BY <2>1, <1>c, TimesNext
  <2>3. MaxTech * Asked \in Nat
    BY <1>c, TimesNext
  <2>4. techRetries' <= MaxTech * Asked'
    BY <1>c, <2>1, <2>2, <2>3
  <2>5. pc' = (IF status = "completed" THEN "evidence" ELSE "source")
    BY <1>5, Moves DEF LeaveSource
  <2> QED BY <1>5, <1>c, <1>q, <2>1, <2>4, <2>5 DEF LeaveSource
<1>6. ASSUME NEW conclusive \in BOOLEAN, Judge(conclusive)
      PROVE  Traffic'
  <2>1. pc' = (IF conclusive THEN "output" ELSE "source")
    BY <1>6, Moves DEF Judge
  <2> QED BY <1>6, <1>c, <1>q, <1>same, <2>1 DEF Judge
<1>7. CASE AcceptRepair \/ RebuildFromCandidate
  BY <1>7, <1>same DEF AcceptRepair, RebuildFromCandidate, Rebuild, history
<1> QED BY <1>1, <1>2, <1>3, <1>4, <1>5, <1>6, <1>7 DEF Next, Step, Returned

(* Steps keep the record of refused identities and the reason true. *)
LEMMA CoveredStep == IInv /\ [Next]_vars => Covered' /\ ReasonIsTrue'
<1> SUFFICES ASSUME IInv, [Next]_vars PROVE Covered' /\ ReasonIsTrue'
  OBVIOUS
<1> USE DEF IInv, Covered
<1>s. StateAtPc'
  BY StateStep
<1>e. (pc = "returned")' <=> (state \in Lifecycle!Terminal)'
  BY <1>s, TransitionTable DEF StateAtPc
<1>n. ASSUME pc # "returned", pc' # "returned", reason' = reason
      PROVE  ReasonIsTrue'
  BY <1>n, <1>e DEF ReasonIsTrue
<1>1. CASE StartRound
  BY <1>1, <1>n, Moves DEF StartRound, rebuilds, Target
<1>2. CASE SkipIdentity
  <2>1. pc = "identity" /\ pc' = pc /\ reason' = reason /\ hyp' = hyp /\ attempted' = attempted
    BY <1>2 DEF SkipIdentity, control, rebuilds
  <2>2. PICK t \in todo : Target(t) \in attempted /\ todo' = todo \ {t}
    BY <1>2 DEF SkipIdentity
  <2> QED BY <2>1, <2>2, <1>n DEF Target
<1>3. CASE TakeIdentity
  <2>1. pc = "identity" /\ pc' = "source" /\ reason' = reason /\ hyp' = hyp
    BY <1>3 DEF TakeIdentity, rebuilds
  <2>2. PICK t \in todo : attempted' = attempted \cup {Target(t)} /\ todo' = todo \ {t}
    BY <1>3 DEF TakeIdentity, Remember
  <2> QED BY <2>1, <2>2, <1>n DEF Target
<1>4. CASE IdentitiesDone \/ SourcesDone
  BY <1>4, <1>n DEF IdentitiesDone, SourcesDone, loop, rebuilds, Target
<1>5. CASE RetrySource
  BY <1>5, <1>n, Moves DEF RetrySource, rebuilds, Target
<1>6. ASSUME NEW status \in {"completed", "skipped", "source_error"}, NEW offered \in Offers,
             LeaveSource(status, offered)
      PROVE  Covered' /\ ReasonIsTrue'
  BY <1>6, <1>n, Moves DEF LeaveSource, rebuilds, Target
<1>7. CASE HaveEvidence \/ BeginVerify
  BY <1>7, <1>n, Moves DEF HaveEvidence, BeginVerify, loop, rebuilds, Target
<1>8. ASSUME NEW conclusive \in BOOLEAN, Judge(conclusive)
      PROVE  Covered' /\ ReasonIsTrue'
  BY <1>8, <1>n, Moves DEF Judge, rebuilds, Target
<1>9. CASE Output
  BY <1>9, <1>e, Moves DEF Output, ReasonIsTrue
<1>10. CASE AcceptRepair \/ RebuildFromCandidate
  BY <1>10, <1>n DEF AcceptRepair, RebuildFromCandidate, Rebuild
<1>11. CASE NoRepair
  BY <1>11, <1>n DEF NoRepair, loop, Target
<1>12. CASE Stop
  <2>1. pc = "rebuild" /\ pc' = "returned" /\ reason' = StopReason
    BY <1>12, Moves DEF Stop
  <2>2. UNCHANGED <<hyp, attempted, cand, todo, hypRetries>> /\ todo = {}
    BY <1>12 DEF Stop, loop, rebuilds
  <2>3. \A t \in DOMAIN hyp.ids : Target(t) \in attempted
    BY <2>1, <2>2
  <2>4. FreshTitles # {} => hypRetries = MaxHyp
    BY <1>12, BudgetAssumption DEF Stop, BudgetLeft, TypeOK
  <2>5. AttemptedTitles' = AttemptedTitles /\ \A t : Target(t)' = Target(t)
    BY <2>2 DEF AttemptedTitles, Target
  <2> QED BY <2>1, <2>2, <2>3, <2>4, <2>5, <1>e DEF ReasonIsTrue, StopReason, FreshTitles
<1>13. CASE UNCHANGED vars
  BY <1>13 DEF vars, control, loop, history, rebuilds, ReasonIsTrue, Target, AttemptedTitles
<1> QED BY <1>1, <1>2, <1>3, <1>4, <1>5, <1>6, <1>7, <1>8, <1>9, <1>10, <1>11, <1>12, <1>13
        DEF Next, Step, Returned

-----------------------------------------------------------------------------
(* Every reachable state of the claim loop satisfies the inductive         *)
(* invariant.                                                              *)
THEOREM InductiveInvariant == Spec => []IInv
<1>1. IInv /\ [Next]_vars => IInv'
  BY TypeStep, StateStep, PositionStep, HistoriesStep, TrafficStep, CoveredStep DEF IInv
<1> QED BY InitOK, <1>1, PTL DEF Spec

(* Type correctness of the scheduler's loop state. *)
THEOREM TypeCorrect == Spec => []TypeOK
<1>1. IInv => TypeOK
  BY DEF IInv
<1> QED BY <1>1, InductiveInvariant, PTL

(* VerificationRun.transition never raises ValueError in verify_claim. *)
THEOREM TransitionsAreLegal == Spec => []NeverRaises
<1>1. IInv => NeverRaises
  BY DEF IInv, StateAtPc, NeverRaises
<1> QED BY <1>1, InductiveInvariant, PTL

(* Whatever the sources offer and the planner proposes, the calls of a     *)
(* claim are bounded by the targets it attempted and the retry budget.     *)
THEOREM TrafficIsBounded == Spec => []TrafficBounded
<1>1. IInv => TrafficBounded
  BY DEF IInv, Traffic, TrafficBounded, Asked, Quota
<1> QED BY <1>1, InductiveInvariant, PTL

(* The histories a run reports agree with each other. *)
THEOREM HistoriesAreConsistent == Spec => []HistoriesAgree
<1>1. IInv => HistoriesAgree
  BY DEF IInv, Histories, HistoriesAgree, Asked
<1> QED BY <1>1, InductiveInvariant, PTL

(* The terminal reason of a run is true of what the run did. *)
THEOREM ReasonsAreTrue == Spec => []ReasonIsTrue
<1>1. IInv => ReasonIsTrue
  BY DEF IInv
<1> QED BY <1>1, InductiveInvariant, PTL

-----------------------------------------------------------------------------
(* How far a round is, and how far the calls about one identity are.       *)
Phase ==
  [round |-> 0, identity |-> 1, source |-> 1, evidence |-> 1, verifying |-> 1, judging |-> 1,
   output |-> 2, repair |-> 2, rebuild |-> 3, returned |-> 4, raised |-> 4]
Place == [source |-> 0, evidence |-> 1, verifying |-> 2, judging |-> 3, identity |-> 4]

(* A step of a run rebuilds the hypothesis within its budget, or goes on   *)
(* in the round: to a later phase, with fewer identities left, to the next *)
(* source, further with this source, or to a try of it that is allowed.    *)
LeadsOn ==
  \/ hypRetries' = hypRetries + 1 /\ hypRetries' <= MaxHyp
  \/ hypRetries' = hypRetries /\ Phase[pc'] > Phase[pc]
  \/ /\ hypRetries' = hypRetries /\ Phase[pc'] = Phase[pc]
     /\ \/ todo' \subseteq todo /\ todo' # todo
        \/ todo' = todo /\ src' = src + 1 /\ src' <= claim.sources + 1
        \/ UNCHANGED <<todo, src>> /\ Place[pc'] > Place[pc]
        \/ UNCHANGED <<todo, src, pc>> /\ tries' = tries + 1 /\ tries' <= MaxTech

(* A claim takes no more steps than rebuilds, identities, sources and      *)
(* tries allow, whatever the sources offer and the planner proposes: the   *)
(* measure that the end of a run rests on, for any budgets.                *)
THEOREM RunsAreBounded == Spec => [][LeadsOn]_vars
<1>1. IInv /\ [Next]_vars => [LeadsOn]_vars
  <2> SUFFICES ASSUME IInv, Step PROVE LeadsOn
    BY DEF Next, Returned
  <2> USE DEF IInv, rebuilds, loop, control, LeadsOn, Phase, Place
  <2>t. /\ hypRetries \in Nat /\ src \in Nat /\ tries \in Nat /\ claim.sources \in Nat
        /\ MaxHyp \in Nat /\ MaxTech \in Nat
    BY BudgetAssumption DEF TypeOK, Claim
  <2>1. CASE StartRound
    BY <2>1, Moves DEF StartRound
  <2>2. CASE SkipIdentity
    BY <2>2 DEF SkipIdentity, Foremost
  <2>3. CASE TakeIdentity
    BY <2>3 DEF TakeIdentity, Foremost
  <2>4. CASE IdentitiesDone \/ SourcesDone
    BY <2>4 DEF IdentitiesDone, SourcesDone
  <2>5. CASE RetrySource
    <3>1. pc = "source" /\ pc' = "source"
      BY <2>5, Moves DEF RetrySource
    <3> QED BY <2>5, <2>t, <3>1 DEF RetrySource
  <2>6. ASSUME NEW status \in {"completed", "skipped", "source_error"}, NEW offered \in Offers,
               LeaveSource(status, offered)
        PROVE  LeadsOn
    <3>1. pc = "source" /\ pc' = IF status = "completed" THEN "evidence" ELSE "source"
      BY <2>6, Moves DEF LeaveSource
    <3> QED BY <2>6, <2>t, <3>1 DEF LeaveSource
  <2>7. CASE HaveEvidence \/ BeginVerify
    BY <2>7, Moves DEF HaveEvidence, BeginVerify
  <2>8. ASSUME NEW conclusive \in BOOLEAN, Judge(conclusive)
        PROVE  LeadsOn
    <3>1. pc = "judging" /\ pc' = IF conclusive THEN "output" ELSE "source"
      BY <2>8, Moves DEF Judge
    <3>2. src <= claim.sources
      BY <3>1 DEF Position, Pending
    <3> QED BY <2>8, <2>t, <3>1, <3>2 DEF Judge
  <2>9. CASE Output \/ Stop
    BY <2>9, Moves DEF Output, Stop
  <2>10. CASE AcceptRepair \/ RebuildFromCandidate
    <3>1. hypRetries' = hypRetries + 1 /\ hypRetries < MaxHyp
      BY <2>10 DEF AcceptRepair, RebuildFromCandidate, Rebuild, MayPlanRepair, BudgetLeft
    <3> QED BY <2>t, <3>1
  <2>11. CASE NoRepair
    BY <2>11 DEF NoRepair
  <2> QED BY <2>1, <2>2, <2>3, <2>4, <2>5, <2>6, <2>7, <2>8, <2>9, <2>10, <2>11 DEF Step
<1> QED BY <1>1, InductiveInvariant, PTL DEF Spec

=============================================================================
