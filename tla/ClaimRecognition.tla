-------------------------- MODULE ClaimRecognition -------------------------
(***************************************************************************)
(* recognition/rules.py, arbitration.py, validators.py and service.py:     *)
(* anchor by anchor the citations of a parsed document become candidates,  *)
(* an article without a statute takes the statute of what it follows, and  *)
(* the candidates are ruled on, located and validated.  A document whose   *)
(* claims are not valid is refused as a whole.                             *)
(***************************************************************************)
EXTENDS DocumentParsing, Citations

VARIABLES
  named,        \* for each anchor the statutes it names
  records,      \* for each block what its anchors cite: [anchor, sources]
  candidates,
  deferred,     \* anchors in cells that name a statute without an article
  consumed,     \* anchors of cells whose statute another cell has taken
  claims        \* the set of [type, anchors, text, sources, citations]

claimVars == <<named, records, candidates, deferred, consumed, claims>>
readingVars == <<stage, at, parseVars, claimVars>>

Anchor(i) == anchors[i]
Home(i) == blocks[anchors[i].block]
Text(i) == anchors[i].text
Sources(i) == named[i]
IsCell(i) == Home(i).kind = "cell"

(* An anchor with those behind it in its block, as far as they go with it. *)
Together(i, going) ==
  LET last == Max({j \in i .. Len(anchors) :
                     \A n \in i + 1 .. j : Anchor(n).block = Anchor(i).block /\ n \in going})
  IN  [n \in 1 .. last - i + 1 |-> i + n - 1]

-----------------------------------------------------------------------------
(* What an anchor that names statutes makes.                               *)

Candidate(type, ids, sources) == [type |-> type, anchors |-> ids, sources |-> sources]

(* A quotation, and the citation right behind it.                          *)
IsQuotation(text) ==
  LET marks == SelectSeq(text, LAMBDA w : w # "sp")
  IN  Len(text) > 2 /\ text[1] \in {"open", "dq"} /\ Last(marks) \in {"close", "dq"}
CitesQuotation(text) ==
  \E k \in DOMAIN text : text[k] \in Titles /\ \A j \in 1 .. k - 1 : text[j] = "sp"

StructurallyAdjacent(i, j) ==
  IF Anchor(i).block = Anchor(j).block THEN j = i + 1
  ELSE \E r \in ToSet(Home(j).relations) : r.kind = "previous" /\ r.target = Anchor(i).block

QuotedBefore(i) ==
  i > 1 /\ IsQuotation(Text(i - 1)) /\ CitesQuotation(Text(i)) /\ StructurallyAdjacent(i - 1, i)

(* _legal_claim_anchor_ids: what explains a citation goes with it.         *)
Explaining ==
  {j \in DOMAIN anchors : Sources(j) = <<>> /\ ~CitesCase(Text(j)) /\ ~HasArticleReference(Text(j))}

Shifted(sources, n) == [k \in DOMAIN sources |-> [sources[k] EXCEPT !.span = @ + n]]

LegalCandidate(i) ==
  IF QuotedBefore(i)
  THEN Candidate("law", <<i - 1, i>>, Shifted(Sources(i), Len(Text(i - 1))))
  ELSE Candidate("law", Together(i, Explaining), Sources(i))

NamesOnly(i) == \A k \in DOMAIN Sources(i) : Sources(i)[k].articles = <<>>

-----------------------------------------------------------------------------
(* An article without a statute.                                           *)

Priority == [left |-> 0, list_lead |-> 1, previous |-> 2, above |-> 3, note |-> 99]

(* The order in which the relations of a block are followed.               *)
Ahead(k, m, n) ==
  LET before(r, q) == Priority[r.kind] < Priority[q.kind]
      rs == blocks[k].relations
  IN  before(rs[m], rs[n]) \/ (~before(rs[n], rs[m]) /\ m < n)

Nothing == [anchor |-> 0, block |-> 0, source |-> <<>>]
FirstOf(k, n) == [anchor |-> records[k][n].anchor, block |-> k, source |-> <<records[k][n].sources[1]>>]
AllTitles(k) == UNION {TitlesOf(r.sources) : r \in ToSet(records[k])}

(* Mutant: the first statute of an ambiguous block will do.                *)
FirstOffer(k) == FirstOf(k, 1)

(* What a block related to this one offers; of more than one title none.   *)
Offer(k) == IF Cardinality(AllTitles(k)) = 1 THEN FirstOf(k, 1) ELSE Nothing

(* _resolve_block_source along the relations: the first block with a       *)
(* statute decides.  One that cites an article without having found its    *)
(* statute is looked through, once; any other ends the search, unless it   *)
(* is the cell above.  follow[left][k] is what the search in block k comes *)
(* to when the blocks that were not visited are left.                      *)
Through(follow, left, target) ==
  IF HasArticleReference(blocks[target].text) /\ target \in left
  THEN follow[left \ {target}][target] ELSE Nothing

Decides(follow, left, way) ==
  \/ records[way.target] # <<>>
  \/ Through(follow, left, way.target) # Nothing
  \/ way.kind # "above"

AnswerOf(follow, left, way) ==
  IF records[way.target] # <<>> THEN Offer(way.target) ELSE Through(follow, left, way.target)

Search(follow, left, k) ==
  LET rs == blocks[k].relations
      deciding == {n \in DOMAIN rs : Decides(follow, left, rs[n])}
      first == {n \in deciding : \A m \in deciding : ~Ahead(k, m, n)}
  IN  IF first = {} THEN Nothing ELSE AnswerOf(follow, left, rs[CHOOSE n \in first : TRUE])

Follow[left \in SUBSET DOMAIN blocks] ==
  [k \in DOMAIN blocks |-> Search(Follow, left, k)]

Along(k) == Follow[DOMAIN blocks \ {k}][k]

(* In its own block it takes the statute of the sentence right before it.  *)
(* The last record of the block decides; sentences that come later have    *)
(* theirs already.                                                         *)
Resolve(i) ==
  LET k == Anchor(i).block
      last == records[k][Len(records[k])]
  IN  IF records[k] = <<>> THEN Along(k)
      ELSE IF last.anchor # i - 1 THEN Nothing
      ELSE IF Cardinality(TitlesOf(last.sources)) = 1
      THEN [anchor |-> last.anchor, block |-> k, source |-> <<last.sources[1]>>]
      ELSE Along(k)

(* _merge_partial_with_inherited_article                                   *)
Completed(text, source) ==
  LET paras == PartialParagraphs(text)
  IN  IF paras = <<>> \/ Len(source.articles) # 1 THEN <<>>
      ELSE <<Ref(source.articles[1].art, paras, "")>>

Inherited(i, from) ==
  LET refs == ArticlesIn(Text(i))
      complete == IF refs # <<>> \/ from = Nothing THEN refs ELSE Completed(Text(i), from.source[1])
  IN  IF from = Nothing \/ complete = <<>> THEN <<>>
      ELSE <<[title |-> from.source[1].title, form |-> "inherited", span |-> 0, articles |-> complete,
              origin |-> IF from.source[1].form = "inherited" THEN from.source[1].origin
                         ELSE from.anchor]>>

(* A statute taken from a cell makes a claim of both cells.                *)
FromCell(from) == blocks[from.block].kind = "cell"
InheritedCandidate(i, from, sources) ==
  Candidate("law", (IF FromCell(from) THEN <<from.anchor>> ELSE <<>>) \o <<i>>, sources)

-----------------------------------------------------------------------------
(* What an anchor that cites a case makes: with what follows where that    *)
(* tells what was held.                                                    *)
GoingOn ==
  {j \in DOMAIN anchors : Sources(j) = <<>> /\ ~CitesCase(Text(j)) /\ Text(j)[1] = "court"}
CaseAnchors(i) ==
  LET all == Together(i, GoingOn)
      near == SubSeq(all, 1, Min({Len(all), 6}))
  IN  IF \E j \in ToSet(Tail(near)) : Contains(Text(j), "held") THEN near ELSE <<i>>
CaseCandidate(i) ==
  LET ids == CaseAnchors(i)
  IN  IF Len(ids) > 1 \/ HoldsSomething(Text(i)) THEN Candidate("holding", ids, <<>>)
      ELSE Candidate("case", <<i>>, <<>>)

-----------------------------------------------------------------------------
(* extract_rule_candidates                                                 *)

Record(k, i, sources) == [records EXCEPT ![k] = Append(@, [anchor |-> i, sources |-> sources])]

(* What every anchor names is known before the first one is looked at.     *)
Collect ==
  /\ stage = "collect" /\ at <= Len(anchors)
  /\ \E sources \in {IF "law" \in doc.want THEN LegalSources(Text(at)) ELSE <<>>} :
       /\ named' = Append(named, sources)
       /\ records' = IF sources = <<>> THEN records ELSE Record(Anchor(at).block, at, sources)
  /\ at' = at + 1
  /\ UNCHANGED <<parseVars, stage, candidates, deferred, consumed, claims>>

EndCollect ==
  /\ stage = "collect" /\ at > Len(anchors)
  /\ stage' = "recognise" /\ at' = 1
  /\ UNCHANGED <<parseVars, claimVars>>

LooksBack(i) == Sources(i) = <<>> /\ HasArticleReference(Text(i))
Waits(i) == Sources(i) # <<>> /\ IsCell(i) /\ NamesOnly(i)

LawCandidates(i, from, inherited) ==
  IF inherited # <<>> THEN <<InheritedCandidate(i, from, inherited)>>
  ELSE IF Sources(i) # <<>> /\ ~Waits(i) THEN <<LegalCandidate(i)>> ELSE <<>>
CaseCandidates(i) ==
  IF "case" \in doc.want /\ CitesCase(Text(i)) THEN <<CaseCandidate(i)>> ELSE <<>>

(* One anchor: its statutes, or the one it inherits, and its cases.        *)
Recognise ==
  /\ stage = "recognise" /\ at <= Len(anchors)
  /\ \E from \in {IF LooksBack(at) THEN Resolve(at) ELSE Nothing} :
     \E inherited \in {Inherited(at, from)} :
       /\ candidates' = candidates \o LawCandidates(at, from, inherited) \o CaseCandidates(at)
       /\ IF inherited = <<>> THEN UNCHANGED <<records, consumed>>
          ELSE /\ records' = Record(Anchor(at).block, at, inherited)
               /\ consumed' = IF FromCell(from) THEN consumed \cup {from.anchor} ELSE consumed
  /\ deferred' = IF Waits(at) THEN Append(deferred, at) ELSE deferred
  /\ at' = at + 1
  /\ UNCHANGED <<parseVars, stage, named, claims>>

(* The statutes that waited in their cells come last, those that no cell   *)
(* has taken.                                                              *)
Undefer ==
  /\ stage = "recognise" /\ at > Len(anchors) /\ deferred # <<>>
  /\ candidates' = IF Head(deferred) \in consumed THEN candidates
                   ELSE Append(candidates, LegalCandidate(Head(deferred)))
  /\ deferred' = Tail(deferred)
  /\ UNCHANGED <<parseVars, stage, at, named, records, consumed, claims>>

EndRecognition ==
  /\ stage = "recognise" /\ at > Len(anchors) /\ deferred = <<>>
  /\ stage' = "arbitrate"
  /\ UNCHANGED <<parseVars, at, claimVars>>

-----------------------------------------------------------------------------
(* arbitrate_claim_candidates                                              *)

Continuous(ids) == \E m \in ToSet(ids) : ToSet(ids) = m .. m + Len(ids) - 1
RelatedTablePair(ids) ==
  /\ Len(ids) = 2 /\ IsCell(ids[1]) /\ IsCell(ids[2])
  /\ \E r \in ToSet(Home(ids[2]).relations) : r.kind = "left" /\ r.target = Anchor(ids[1]).block

HardChecked(c) ==
  /\ c.anchors # <<>> /\ ToSet(c.anchors) \subseteq DOMAIN anchors
  /\ Continuous(c.anchors) \/ RelatedTablePair(c.anchors)

Checked == {n \in DOMAIN candidates : HardChecked(candidates[n])}

(* Candidates of one type and place become one: the one with most sources, *)
(* the first of several.                                                   *)
SamePlace(c, d) == c.type = d.type /\ c.anchors = d.anchors
Better(m, n) ==
  \/ Len(candidates[m].sources) > Len(candidates[n].sources)
  \/ Len(candidates[m].sources) = Len(candidates[n].sources) /\ m < n
Kept ==
  {n \in Checked :
     \A m \in Checked : SamePlace(candidates[m], candidates[n]) => ~Better(m, n)}

(* Mutant: it is enough that they share an anchor.                         *)
Shares(c, d) ==
  /\ c.type = d.type /\ ToSet(c.anchors) \cap ToSet(d.anchors) # {}
  /\ ToSet(c.anchors) # ToSet(d.anchors)

(* One candidate of a type lies within another of that type.               *)
Within(c, d) ==
  c.type = d.type /\ ToSet(c.anchors) \subseteq ToSet(d.anchors) /\ ToSet(c.anchors) # ToSet(d.anchors)
Ruled == {n \in Kept : ~\E m \in Kept : Within(candidates[n], candidates[m])}

(* The text of a claim is that of its anchors, in their order.             *)
TextOf(ids) ==
  LET sorted == InOrder(ToSet(ids)) IN FlattenSeq([k \in DOMAIN sorted |-> Text(sorted[k])])

ClaimOf(c) ==
  [type |-> c.type, anchors |-> c.anchors, text |-> TextOf(c.anchors), sources |-> c.sources,
   citations |-> IF c.type = "law" THEN Occurrences(TextOf(c.anchors), c.sources) ELSE {}]

(* The claims; their order and numbers, which only the output shows, are   *)
(* left out.                                                               *)
Arbitrate ==
  /\ stage = "arbitrate"
  /\ claims' = {ClaimOf(candidates[n]) : n \in Ruled}
  /\ stage' = "checkClaims"
  /\ UNCHANGED <<parseVars, at, named, records, candidates, deferred, consumed>>

-----------------------------------------------------------------------------
(* validate_claim_document                                                 *)

ClaimSound(c) ==
  /\ c.text # <<>> /\ c.text = TextOf(c.anchors)
  /\ HardChecked(c)
  /\ \A k \in DOMAIN c.sources :
       c.sources[k].form = "inherited" => c.sources[k].origin \in DOMAIN anchors
  /\ CitationsIntact(c.sources, c.citations)

CheckClaims ==
  /\ stage = "checkClaims"
  /\ stage' = IF \A c \in claims : ClaimSound(c) THEN "done" ELSE "refused"
  /\ UNCHANGED <<parseVars, at, claimVars>>

(* The records are empty when the recognition begins.                      *)
Parse ==
  /\ ParseStep
  /\ records' = IF stage' = "collect" THEN [k \in DOMAIN blocks |-> <<>>] ELSE records
  /\ UNCHANGED <<named, candidates, deferred, consumed, claims>>

ReadingInit ==
  /\ ParseInit
  /\ named = <<>> /\ records = <<>> /\ candidates = <<>> /\ deferred = <<>>
  /\ consumed = {} /\ claims = {}

ReadingNext ==
  \/ Parse \/ Collect \/ EndCollect \/ Recognise \/ Undefer \/ EndRecognition
  \/ Arbitrate \/ CheckClaims

ReadingSpec == ReadingInit /\ [][ReadingNext]_readingVars

-----------------------------------------------------------------------------
(* Properties.                                                             *)

(* An article cited at two places of a claim, where the second is of a     *)
(* statute that comes from elsewhere or is named before the first as well, *)
(* so that the first can be taken for the second.                          *)
Governs(text, m, j) == j > m /\ j <= m + Len(Governed(text, m))
NamedBefore(text, title, i) == \E m \in Mentions(text) : m < i /\ TitleAt(text, m) = title
TakenAlone(text, i) ==
  i > 1 /\ text[i - 1] \in Titles /\ StandsAlone(SubSeq(text, i, Len(text)))
CitedAt(text, i) == NumbersAt(text, i) \cup (IF TakenAlone(text, i) THEN {AsArticle[text[i]]} ELSE {})
Contested(c) ==
  \E i, j \in DOMAIN c.text :
    /\ i < j /\ CitedAt(c.text, i) \cap CitedAt(c.text, j) # {}
    /\ \/ \E k \in DOMAIN c.sources : c.sources[k].form = "inherited"
       \/ \E m \in Mentions(c.text) :
            Governs(c.text, m, j) /\ NamedBefore(c.text, TitleAt(c.text, m), i)

(* A name without marks before the same statute in marks.                  *)
BareFirst(text) ==
  \E i, j \in DOMAIN text :
    i < j /\ IsBare(text, i) /\ IsTitle(text, j) /\ TitleAt(text, i) = TitleAt(text, j)

(* A range of figures between an article and a paragraph of it: the        *)
(* articles are read past it, but located at it.                           *)
FiguresBetween(text) ==
  \E i, j, k \in DOMAIN text :
    /\ i < j /\ j < k /\ text[i] \in Numbers /\ text[k] \in Paragraphs
    /\ text[j] \in DOMAIN Groups \ (Ranges \cup Enumerations)
    /\ \A n \in i + 1 .. k : text[n] \notin Numbers \cup Titles

(* A paragraph taken for an article, and its word earlier behind the name  *)
(* of the statute.                                                         *)
WordBefore(text) ==
  \E i, j \in DOMAIN text :
    /\ i < j /\ text[i] = text[j] /\ TakenAlone(text, j)
    /\ NamedBefore(text, text[j - 1], i)

(* A paragraph with an inherited article, whose number stands in an        *)
(* enumeration and nowhere else.                                           *)
OnlyEnumerated(c) ==
  /\ \E k \in DOMAIN c.sources : c.sources[k].form = "inherited"
  /\ ToSet(c.text) \cap Enumerations # {} /\ ToSet(c.text) \cap Numbers = {}

(* What the integrity check of the citations is for is not to happen: a    *)
(* claim that is not intact refuses the whole document (service.py).       *)
NeverRefused == stage # "refused"

(* Only the citations of a claim do it, and only where they are written in *)
(* one of five ways; neither the split, the relations, the chunks and      *)
(* their overlaps, nor the ruling on candidates ever makes what the        *)
(* validators refuse.                                                      *)
RefusedForACause ==
  stage = "refused" =>
    \E c \in claims :
      /\ ~CitationsIntact(c.sources, c.citations)
      /\ \/ Contested(c) \/ BareFirst(c.text)
         \/ FiguresBetween(c.text) \/ WordBefore(c.text) \/ OnlyEnumerated(c)

(* A statute that an article inherits is named by the anchor it is said to *)
(* come from, however many blocks it was handed through; and where that is *)
(* another block, it is the only statute the block names.                  *)
InheritanceIsNamed ==
  \A c \in claims : \A k \in DOMAIN c.sources :
    LET s == c.sources[k]
        own == Anchor(Last(c.anchors)).block
        home == Anchor(s.origin).block
    IN  s.form = "inherited" =>
          /\ s.title \in TitlesOf(Sources(s.origin))
          /\ home # own => UNION {TitlesOf(Sources(i)) : i \in Of(home)} = {s.title}

(* A statute an anchor names is among the sources of a claim with that     *)
(* anchor.  Two are not: one in a cell, taken by another cell whose claim  *)
(* was dropped, and one in a quotation with a citation behind it.          *)
NamedLawIsClaimed ==
  stage = "done" =>
    \A i \in DOMAIN anchors : \A title \in TitlesOf(Sources(i)) :
      \/ \E c \in claims : i \in ToSet(c.anchors) /\ title \in TitlesOf(c.sources)
      \/ i \in consumed
      \/ i < Len(anchors) /\ IsQuotation(Text(i)) /\ Sources(i + 1) # <<>>
=============================================================================
