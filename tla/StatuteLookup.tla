---------------------------- MODULE StatuteLookup ----------------------------
(***************************************************************************)
(* lookup_with_chain: one statute is looked up in the local library and    *)
(* then in Pkulaw, whose routes are those of PkulawStatutes.               *)
(*                                                                         *)
(* A request takes the first source that has the text and a link that      *)
(* works.  Text of the local library without such a link is held back      *)
(* while Pkulaw is asked for a link to the same version.  A request with a *)
(* query text instead asks both for related articles and lets the model    *)
(* choose among what they recalled.                                        *)
(*                                                                         *)
(* Pkulaw's own answers have no legacy link: every parser of them drops it.*)
(***************************************************************************)
EXTENDS PkulawStatutes

CONSTANTS
  Versions,     \* version keys a text may have
  MaxTries      \* tries of one source: one, and the technical retries

ASSUME VersionAssumption == "none" \notin Versions
ASSUME TriesAssumption == MaxTries \in Nat \ {0}

VARIABLES
  at,           \* the source that is asked: "local", "pkulaw", "model", "returned"
  local,        \* the result of the local library
  remote,       \* the last result of Pkulaw
  tries,        \* tries of Pkulaw
  result,       \* the result that is returned
  failure       \* related_failure, or related_pending, or "none"

chainVars == <<at, local, remote, tries, result, failure>>
lookupVars == <<routeVars, chainVars>>

Found == {"article_found", "relevant_articles_found"}
Partial == {"article_missing", "text_unavailable"}

(* A result: its status, and the link, the version and the law of its      *)
(* text.                                                                   *)
Results ==
  [from : {"local", "pkulaw", "both"}, status : Statuses, link : {"none", "legacy", "usable"},
   version : Versions \cup {"none"}, title : {"requested", "other"}]

NoResult == [from |-> "local", status |-> "none", link |-> "none", version |-> "none",
             title |-> "requested"]

HasEvidence(r) == r.status \in Found \cup Partial

LookupTypeOK ==
  /\ RoutesTypeOK
  /\ at \in {"local", "pkulaw", "model", "returned"}
  /\ local \in Results /\ remote \in Results /\ result \in Results
  /\ tries \in 0 .. MaxTries
  /\ failure \in {"none", "related_pending", "model_unavailable", "all_rejected"}

LookupInit ==
  /\ RoutesInit
  /\ at = "local" /\ tries = 0 /\ failure = "none"
  /\ local = NoResult /\ remote = NoResult /\ result = NoResult

-----------------------------------------------------------------------------
(* LocalSQLiteSource.lookup: without a database or a row there is no       *)
(* evidence; a question of existence never returns articles.               *)
LocalStatuses ==
  {"not_configured", "law_not_found"} \cup
  {s \in Found \cup Partial :
     \/ ask = "article" /\ s \in {"article_found", "article_missing"}
     \/ ask \in {"related", "context"} /\ s \in {"relevant_articles_found", "text_unavailable"}
     \/ ask = "existence" /\ s = "text_unavailable"}

Unfounded(source, statuses) ==
  [from : {source}, status : statuses \ (Found \cup Partial), link : {"none"},
   version : {"none"}, title : {"requested"}]

LocalResults ==
  Unfounded("local", LocalStatuses) \cup
  [from : {"local"}, status : LocalStatuses \cap (Found \cup Partial),
   link : {"none", "legacy", "usable"}, version : Versions \cup {"none"},
   title : {"requested"}]

(* Only a link that works ends the chain. *)
Complete(r) == r.status \in Found /\ r.link = "usable"

Return(r) == at' = "returned" /\ result' = r

AskLocal(r) ==
  /\ at = "local" /\ r \in LocalResults
  /\ local' = r
  /\ IF Complete(r) /\ ask # "related"
     THEN Return(r) /\ UNCHANGED <<routeVars, tries>>
     ELSE /\ at' = "pkulaw" /\ tries' = 1 /\ Begin
          /\ UNCHANGED result
  /\ UNCHANGED <<remote, failure>>

AskPkulaw ==
  /\ at = "pkulaw" /\ RouteStep
  /\ UNCHANGED chainVars

(* Mutant: one retry too many. *)
RetryableOnceMore == status = "source_error" /\ tries <= MaxTries

(* run_with_technical_retries *)
Retryable == status = "source_error" /\ tries < MaxTries

RetryPkulaw ==
  /\ at = "pkulaw" /\ route = "done" /\ Retryable
  /\ tries' = tries + 1 /\ Begin
  /\ UNCHANGED <<at, local, remote, result, failure>>

(* What Pkulaw's lookup may have returned with its status. *)
RemoteResults ==
  Unfounded("pkulaw", {status}) \cup
  [from : {"pkulaw"}, status : {status} \cap (Found \cup Partial),
   link : {"none", "usable"}, version : Versions \cup {"none"},
   title : {"requested", "other"}]

(* Mutant: the version is not compared. *)
LendsAnyVersion(r) == HasEvidence(r) /\ r.link = "usable" /\ r.title = "requested"

(* _fill_verified_link *)
MayLend(r) ==
  /\ HasEvidence(r) /\ r.link = "usable"
  /\ local.version # "none" /\ local.version = r.version /\ r.title = "requested"

Linked(r) == [local EXCEPT !.link = IF MayLend(r) THEN "usable" ELSE "none"]

(* Mutant: the last source decides. *)
LastDecides(r) == IF local.status \in Found THEN Linked(r) ELSE r

(* The result of the chain: local text, with Pkulaw's link if it may have  *)
(* it, else Pkulaw's text, else the last partial result, else the last.    *)
Best(r) ==
  IF local.status \in Found THEN Linked(r)
  ELSE IF local.status \in Partial /\ ~HasEvidence(r) THEN local
  ELSE r

TakePkulaw(r) ==
  /\ at = "pkulaw" /\ route = "done" /\ ~Retryable /\ r \in RemoteResults
  /\ remote' = r
  /\ IF ask = "related" THEN at' = "model" /\ result' = result
                        ELSE Return(Best(r))
  /\ UNCHANGED <<routeVars, local, tries, failure>>

-----------------------------------------------------------------------------
(* _lookup_related_with_chain *)

(* The first result with evidence; its law is the law of the result. *)
Base == IF HasEvidence(local) THEN local ELSE remote

(* The articles that were recalled from the law that was asked for. *)
Recalled(r) == r.status \in Found /\ r.title = "requested"
AnyRecalled == Recalled(local) \/ Recalled(remote)

(* _related_empty_result *)
Empty(r) == [r EXCEPT !.status = "text_unavailable"]

NothingRecalled ==
  /\ at = "model" /\ ~AnyRecalled
  /\ Return(IF HasEvidence(Base) THEN Empty(Base) ELSE remote)
  /\ UNCHANGED <<routeVars, local, remote, tries, failure>>

(* Without a model the base is returned as it is. *)
NoModel ==
  /\ at = "model" /\ AnyRecalled
  /\ Return(Base) /\ failure' = "related_pending"
  /\ UNCHANGED <<routeVars, local, remote, tries>>

ModelFails ==
  /\ at = "model" /\ AnyRecalled
  /\ Return(Empty(Base)) /\ failure' = "model_unavailable"
  /\ UNCHANGED <<routeVars, local, remote, tries>>

ModelRejects ==
  /\ at = "model" /\ AnyRecalled
  /\ Return(Empty(Base)) /\ failure' = "all_rejected"
  /\ UNCHANGED <<routeVars, local, remote, tries>>

(* The articles that the model keeps are returned with the link, the       *)
(* version and the state of the base.                                      *)
ModelKeeps ==
  /\ at = "model" /\ AnyRecalled
  /\ Return([Base EXCEPT !.from = "both", !.status = "relevant_articles_found",
                         !.title = "requested"])
  /\ UNCHANGED <<routeVars, local, remote, tries, failure>>

LookupNext ==
  \/ \E r \in LocalResults : AskLocal(r)
  \/ AskPkulaw
  \/ RetryPkulaw
  \/ \E r \in RemoteResults : TakePkulaw(r)
  \/ NothingRecalled \/ NoModel \/ ModelFails \/ ModelRejects \/ ModelKeeps

LookupSpec == LookupInit /\ [][LookupNext]_lookupVars /\ WF_lookupVars(LookupNext)

-----------------------------------------------------------------------------
(* "Not found" is only returned when neither the local library nor Pkulaw  *)
(* has the law under the titles it was asked for: no outage, no mismatch   *)
(* and no order of failures of the routes is reported as a law that does   *)
(* not exist, which the report would call an error of the document.        *)
NotFoundIsTrue ==
  result.status = "law_not_found" =>
    /\ world.known = {}
    /\ ~HasEvidence(local)

(* The double signal that an article does not exist is true: a failed or   *)
(* mismatched law_item call of any title shape takes it away.              *)
DoubleSignalIsTrue == signal = "double_signal" => ~world.article

(* How much a result says. *)
Worth(r) == IF r.status \in Found THEN 2 ELSE IF r.status \in Partial THEN 1 ELSE 0

(* Unless the model chooses, no source's better result is lost, and        *)
(* the text of the local library is never replaced: an outage of Pkulaw,   *)
(* or a law it does not know, does not weaken what is known already.       *)
BestAnswerWins ==
  (at = "returned" /\ ask # "related") =>
    /\ Worth(result) >= Worth(local)
    /\ Worth(result) >= Worth(remote)
    /\ local.status \in Found => result.from = "local"

(* The link of a text that was found works, and it shows that version: it  *)
(* is the source's own, or Pkulaw's page of the same version of the law.   *)
LinkBelongsToText ==
  (at = "returned" /\ ask # "related" /\ result.status \in Found) =>
    \/ result.link = "none"
    \/ /\ result.link = "usable"
       /\ \E r \in {local, remote} :
            /\ r.link = "usable" /\ r.version = result.version
            /\ r.from = result.from \/ (r.version # "none" /\ r.title = "requested")

(* The order in which the chain and the routes of one try are gone through. *)
ChainOrder == [local |-> 0, pkulaw |-> 1, model |-> 2, returned |-> 3]
RouteOrder ==
  [idle |-> 0, law_item |-> 1, law_search |-> 2, law_recognition |-> 3, canonical_item |-> 4,
   canonical_search |-> 5, law_semantic_exact |-> 6, law_keyword |-> 7,
   title_recognition |-> 1, title_keyword |-> 2, corpus |-> 3, law_semantic |-> 4, done |-> 8]

(* Every call of a lookup is a new one: each step takes the chain further, *)
(* or begins one of the tries that are allowed, or goes to a later route   *)
(* of the same try, or to the next title of the same route.  So no order   *)
(* of failures asks Pkulaw more often than tries, routes and titles allow. *)
LookupLeadsOn ==
  [][\/ ChainOrder[at'] > ChainOrder[at]
     \/ at' = at /\ tries' = tries + 1 /\ tries' <= MaxTries
     \/ UNCHANGED <<at, tries>> /\ RouteOrder[route'] > RouteOrder[route]
     \/ UNCHANGED <<at, tries, route>> /\ shape' = shape + 1 /\ shape' <= Shapes]_lookupVars

(* Every lookup returns, whatever the calls answer. *)
LookupReturns == <>(at = "returned")
=============================================================================
