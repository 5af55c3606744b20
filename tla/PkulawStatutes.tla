--------------------------- MODULE PkulawStatutes ---------------------------
(***************************************************************************)
(* PkulawFallbackSource.lookup: one statute is looked up in Pkulaw by a    *)
(* cascade of routes.  Any call may fail; a failed call is noted and the   *)
(* next route is tried, except for the keyword route that ends the lookup. *)
(*                                                                         *)
(* What Pkulaw holds is fixed in `world`, and its answers are truthful:    *)
(* the exact routes return an article that exists under a title they know  *)
(* and the keyword route lists a law it knows.  Semantic search and law    *)
(* recognition may miss anything.  The timeliness that is fetched after a  *)
(* hit changes no status and is part of the hit.  The client has all the   *)
(* optional calls (law_item, recognition), as PkulawMcpClient does.        *)
(***************************************************************************)
EXTENDS Integers, FiniteSets

CONSTANTS
  Shapes,       \* number of title shapes a request has: the query_titles
  Worlds        \* what Pkulaw may hold

ASSUME ShapeAssumption == Shapes \in Nat \ {0}

(* A world: the shapes under which Pkulaw knows the law, whether it knows  *)
(* it under a canonical title that is none of them, and whether the law    *)
(* has the article.                                                        *)
ASSUME WorldAssumption ==
  \A w \in Worlds :
    /\ w.known \subseteq 1 .. Shapes
    /\ w.canonical \in BOOLEAN /\ w.article \in BOOLEAN

VARIABLES
  world,        \* what Pkulaw holds
  ask,          \* the request: by "article", by a query text ("related"), by
                \* its "context" alone, or for the "existence" of the law
  route,        \* the route that is tried, or "idle", or "done"
  shape,        \* the title shape it is tried with
  exactAbsent,  \* exact_absent
  itemAbsent,   \* law_item_absent
  recognized,   \* what was recognised: "none", "same" or "canonical"
  related,      \* related: articles of the law that semantic search found
  status,       \* trace.status
  signal        \* article_absence_confirmation, if article_absent_confirmed

flags == <<exactAbsent, itemAbsent, recognized, related>>
routeVars == <<world, ask, route, shape, flags, status, signal>>

ExactRoutes == {"law_item", "law_search"}
CanonicalRoutes == {"canonical_item", "canonical_search"}
NumberedRoutes == ExactRoutes \cup CanonicalRoutes \cup
                  {"law_recognition", "law_semantic_exact", "law_keyword"}
TitleRoutes == {"title_recognition", "title_keyword", "corpus", "law_semantic"}
Routes == NumberedRoutes \cup TitleRoutes \cup {"idle", "done"}

Asks == {"article", "related", "context", "existence"}

Statuses == {"none", "article_found", "relevant_articles_found", "article_missing",
             "text_unavailable", "law_not_found", "source_error", "not_configured"}

RoutesTypeOK ==
  /\ world \in Worlds /\ ask \in Asks
  /\ route \in Routes /\ shape \in 1 .. Shapes
  /\ exactAbsent \in BOOLEAN /\ itemAbsent \in BOOLEAN
  /\ recognized \in {"none", "same", "canonical"}
  /\ related \in BOOLEAN
  /\ status \in Statuses /\ signal \in {"none", "single_signal", "double_signal"}

(* lookup: by the article number, or by the title alone. *)
FirstRoute == IF ask = "article" THEN "law_item" ELSE "title_recognition"

RoutesInit ==
  /\ world \in Worlds
  /\ ask \in Asks
  /\ route = "idle" /\ shape = 1 /\ exactAbsent = TRUE /\ itemAbsent = TRUE
  /\ recognized = "none" /\ related = FALSE
  /\ status = "none" /\ signal = "none"

(* Every lookup starts anew. *)
Begin ==
  /\ route' = FirstRoute /\ shape' = 1 /\ exactAbsent' = TRUE /\ itemAbsent' = TRUE
  /\ recognized' = "none" /\ related' = FALSE
  /\ status' = "none" /\ signal' = "none"
  /\ UNCHANGED <<world, ask>>

(* The lookup ends with a status. *)
End(s) == route' = "done" /\ status' = s

(* Mutant: the title shapes start over. *)
ShapesAgain(r) == route' = route /\ shape' = 1 + (shape % Shapes)

(* The next title shape of the route, or else the next route. *)
NextShapeOr(r) ==
  IF shape < Shapes THEN route' = route /\ shape' = shape + 1
                    ELSE route' = r /\ shape' = 1

-----------------------------------------------------------------------------
(* The answers of an exact route under a title Pkulaw knows or not. *)
ExactAnswers(known) ==
  {"error"} \cup (IF known /\ world.article THEN {"hit"} ELSE {"not_found", "mismatched"})

(* matches_requested_law_title *)
Accepted(answer) == answer = "hit"

(* Mutant: a failed call does not contradict. *)
ContradictsIfAnswered(answer) == answer \in {"hit", "mismatched"}

(* get_law_item_content for each title shape: anything but "not found"     *)
(* contradicts its absence, and an answer, of whatever law, also that the  *)
(* exact routes were silent.                                               *)
Contradicts(answer) == answer # "not_found"

LawItem(answer) ==
  /\ route = "law_item" /\ answer \in ExactAnswers(shape \in world.known)
  /\ itemAbsent' = (itemAbsent /\ ~Contradicts(answer))
  /\ exactAbsent' = (exactAbsent /\ answer \notin {"hit", "mismatched"})
  /\ IF Accepted(answer)
     THEN End("article_found") /\ shape' = shape
     ELSE NextShapeOr("law_search") /\ status' = status
  /\ UNCHANGED <<world, ask, recognized, related, signal>>

(* get_article for each title shape; a failed call leaves exact_absent. *)
LawSearch(answer) ==
  /\ route = "law_search" /\ answer \in ExactAnswers(shape \in world.known)
  /\ exactAbsent' = (exactAbsent /\ answer \notin {"hit", "mismatched"})
  /\ IF Accepted(answer)
     THEN End("article_found") /\ shape' = shape
     ELSE NextShapeOr(IF exactAbsent' THEN "law_recognition" ELSE "law_semantic_exact")
          /\ status' = status
  /\ UNCHANGED <<world, ask, itemAbsent, recognized, related, signal>>

(* What recognize_laws may say of the title. *)
Recognitions ==
  {"none"} \cup (IF world.known # {} THEN {"same"} ELSE {})
           \cup (IF world.canonical THEN {"canonical"} ELSE {})

(* recognize_laws: only a canonical title that is not among the query      *)
(* titles is worth another try; a failed call is as if nothing were known. *)
Recognize(r) ==
  /\ route = "law_recognition" /\ r \in Recognitions
  /\ recognized' = r
  /\ route' = IF r = "canonical" THEN "canonical_item" ELSE "law_semantic_exact"
  /\ UNCHANGED <<world, ask, shape, exactAbsent, itemAbsent, related, status, signal>>

CanonicalRetry(answer) ==
  /\ route \in CanonicalRoutes /\ answer \in ExactAnswers(TRUE)
  /\ IF Accepted(answer)
     THEN End("article_found")
     ELSE route' = (IF route = "canonical_item" THEN "canonical_search"
                                                ELSE "law_semantic_exact")
          /\ status' = status
  /\ UNCHANGED <<world, ask, shape, flags, signal>>

(* search_law_articles_for_article: the article, others of the law, or     *)
(* nothing, which a failed call also counts as.  Others are only returned  *)
(* when some exact route had answered.                                     *)
SemanticExact(found) ==
  /\ route = "law_semantic_exact"
  /\ found = "article" => world.article
  /\ found # "nothing" => world.known # {} \/ world.canonical
  /\ related' = (found = "others")
  /\ \/ found = "article" /\ End("article_found")
     \/ found = "others" /\ ~exactAbsent /\ End("relevant_articles_found")
     \/ /\ found = "nothing" \/ (found = "others" /\ exactAbsent)
        /\ route' = "law_keyword" /\ status' = status
  /\ UNCHANGED <<world, ask, shape, exactAbsent, itemAbsent, recognized, signal>>

(* get_law_list: whether it lists the law under the shape. *)
Listings(known) == {"error"} \cup (IF known THEN {"listed"} ELSE {"unlisted"})

(* Mutant: a failed keyword search goes on with the next title. *)
KeywordGoesOn(e) == NextShapeOr("done") /\ status' = (IF shape < Shapes THEN status
                                                      ELSE "law_not_found")

(* _error: a failed keyword search ends the lookup. *)
KeywordFails(e) == End(e) /\ shape' = shape

(* The law exists without the article: its absence counts as confirmed     *)
(* when no exact route answered, twice if the law_item route said so.      *)
MissingArticle ==
  /\ End("article_missing") /\ shape' = shape
  /\ signal' = IF ~exactAbsent THEN "none"
               ELSE IF itemAbsent THEN "double_signal" ELSE "single_signal"

Keyword(answer) ==
  /\ route = "law_keyword" /\ answer \in Listings(shape \in world.known)
  /\ \/ /\ answer = "error" /\ signal' = signal
        /\ \E e \in {"source_error", "not_configured"} : KeywordFails(e)
     \/ answer = "listed" /\ MissingArticle
     \/ /\ answer = "unlisted" /\ signal' = signal
        /\ IF shape < Shapes THEN NextShapeOr("done") /\ status' = status
                             ELSE End("law_not_found") /\ shape' = shape
  /\ UNCHANGED <<world, ask, flags>>

-----------------------------------------------------------------------------
(* _lookup_without_article *)

(* Recognition goes through the shapes until one is recognised. *)
RecognizeTitle(r) ==
  /\ route = "title_recognition" /\ r \in Recognitions
  /\ recognized' = r
  /\ IF r = "none" THEN NextShapeOr("title_keyword")
                   ELSE route' = "title_keyword" /\ shape' = 1
  /\ UNCHANGED <<world, ask, exactAbsent, itemAbsent, related, status, signal>>

(* Keyword search uses the shapes of the canonical title, if there is one. *)
TitleKnown == IF recognized = "canonical" THEN world.canonical ELSE shape \in world.known

(* A listed law ends a question of existence; otherwise its recognised     *)
(* text is searched before the semantic search is.                         *)
TitleKeyword(answer) ==
  /\ route = "title_keyword" /\ answer \in Listings(TitleKnown)
  /\ related' = (related \/ answer = "listed")
  /\ \/ /\ answer = "error"
        /\ \E e \in {"source_error", "not_configured"} : KeywordFails(e)
     \/ /\ answer = "listed" /\ shape' = shape
        /\ IF ask = "existence" THEN End("text_unavailable")
           ELSE /\ route' = (IF recognized = "none" THEN "law_semantic" ELSE "corpus")
                /\ status' = status
     \/ answer = "unlisted" /\ NextShapeOr("law_semantic") /\ status' = status
  /\ UNCHANGED <<world, ask, exactAbsent, itemAbsent, recognized, signal>>

(* The recognised full text, if it is structured and has related parts. *)
Corpus(hit) ==
  /\ route = "corpus"
  /\ IF hit THEN End("relevant_articles_found") ELSE route' = "law_semantic" /\ status' = status
  /\ UNCHANGED <<world, ask, shape, flags, signal>>

(* The last route; `related` says here that the keyword route listed the   *)
(* law.                                                                    *)
Semantic(answer) ==
  /\ route = "law_semantic"
  /\ answer = "articles" => world.known # {} \/ world.canonical
  /\ \/ answer = "articles" /\ End("relevant_articles_found")
     \/ answer # "articles" /\ related /\ End("text_unavailable")
     \/ /\ answer = "error" /\ ~related
        /\ \E e \in {"source_error", "not_configured"} : End(e)
     \/ answer = "nothing" /\ ~related /\ End("law_not_found")
  /\ shape' = shape
  /\ UNCHANGED <<world, ask, flags, signal>>

RouteStep ==
  \/ \E answer \in {"hit", "mismatched", "not_found", "error"} :
       LawItem(answer) \/ LawSearch(answer) \/ CanonicalRetry(answer)
  \/ \E r \in {"none", "same", "canonical"} : Recognize(r) \/ RecognizeTitle(r)
  \/ \E found \in {"article", "others", "nothing"} : SemanticExact(found)
  \/ \E answer \in {"listed", "unlisted", "error"} : Keyword(answer) \/ TitleKeyword(answer)
  \/ \E hit \in BOOLEAN : Corpus(hit)
  \/ \E answer \in {"articles", "nothing", "error"} : Semantic(answer)
=============================================================================
