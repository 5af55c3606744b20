----------------------------- MODULE Citations -----------------------------
(***************************************************************************)
(* recognition/statutes.py, cases.py and spans.py: what a text cites and   *)
(* where.  The words that matter:                                          *)
(*                                                                         *)
(*   Titles    a statute in book-title marks; the title is the word        *)
(*   BareNames a statute named without marks: the word and its title       *)
(*   Articles  an article number         Paragraphs  a paragraph number    *)
(*   Groups    several articles in one expression: a "range" between two   *)
(*             articles, a "compact" range between two figures, or an      *)
(*             "enum" of numbers before one word; arts are its articles,   *)
(*             ascending                                                   *)
(*   "same", "prior"  the article cited last, and the one before it        *)
(*   "by"      a word of legal basis     "provides"  what a rule does      *)
(*   "case"    a case                    "held"      what a court held     *)
(*   "court"   how a sentence about a case goes on                         *)
(*                                                                         *)
(* A source is [title, form, span, articles, origin]: span is where it is  *)
(* named (0: nowhere), origin the anchor an inherited one comes from.  An  *)
(* article is [art, paras, raw]: raw is the paragraph it stands for, if it *)
(* was cited as a paragraph alone.                                         *)
(***************************************************************************)
EXTENDS Ordering

CONSTANTS
  Titles, BareNames, Articles, Paragraphs,
  Groups,       \* word |-> [kind, arts]
  Preceding,    \* article |-> the one before it, or "none"
  AsArticle     \* paragraph |-> the article of its number

Relative == {"same", "prior"}
Ranges == {w \in DOMAIN Groups : Groups[w].kind = "range"}
Enumerations == {w \in DOMAIN Groups : Groups[w].kind = "enum"}
Known == Titles \cup {BareNames[w] : w \in DOMAIN BareNames}

(* A word is one thing.                                                    *)
ASSUME CitationAssumption ==
  /\ Titles \cap Articles = {} /\ Titles \cap Paragraphs = {} /\ Articles \cap Paragraphs = {}
  /\ DOMAIN BareNames \cap (Titles \cup Articles \cup Paragraphs) = {}
  /\ (DOMAIN Groups \cup Relative \cup {"comma"}) \cap (Known \cup DOMAIN BareNames \cup Articles \cup Paragraphs) = {}
  /\ DOMAIN Groups \cap Relative = {} /\ "none" \notin Articles /\ "" \notin Paragraphs
  /\ \A w \in DOMAIN Groups : /\ Groups[w].kind \in {"range", "compact", "enum"}
                              /\ Groups[w].arts \in Seq(Articles) /\ Len(Groups[w].arts) > 1
  /\ Preceding \in [Articles -> Articles \cup {"none"}] /\ AsArticle \in [Paragraphs -> Articles]
  /\ IsFiniteSet(Known)

(* The articles a word names, and those that ARTICLE_PATTERN finds: not    *)
(* the figures of a compact range, nor the numbers of an enumeration.      *)
Arts(word) ==
  IF word \in Articles THEN <<word>> ELSE IF word \in DOMAIN Groups THEN Groups[word].arts ELSE <<>>
Numbers == Articles \cup Ranges

HasArticleReference(text) == ToSet(text) \cap (Numbers \cup Paragraphs) # {}

(* _extract_articles_from_text: each article with the paragraphs up to the *)
(* next one, in a range the last article of it.  An article in a range has *)
(* the paragraphs of the last place where a pattern finds it, those of the *)
(* first of a range being none.  The same article with the same paragraphs *)
(* counts once.                                                            *)
NumberPositions(text) == {i \in DOMAIN text : text[i] \in Numbers}
NextNumber(text, i) == Min({j \in NumberPositions(text) : j > i} \cup {Len(text) + 1})
ParagraphsBehind(text, i) == Only(SubSeq(text, i + 1, NextNumber(text, i) - 1), Paragraphs)
Original(text, art) ==
  LET found == {i \in NumberPositions(text) : art \in {Head(Arts(text[i])), Last(Arts(text[i]))}}
  IN  IF found = {} \/ art # Last(Arts(text[Max(found)])) THEN <<>>
      ELSE ParagraphsBehind(text, Max(found))

Ref(art, paras, raw) == [art |-> art, paras |-> paras, raw |-> raw]
RefsAt(text, i) ==
  LET arts == Arts(text[i])
  IN  IF text[i] \in Articles THEN <<Ref(text[i], ParagraphsBehind(text, i), "")>>
      ELSE IF text[i] \in Enumerations THEN <<>>
      ELSE [n \in DOMAIN arts |-> Ref(arts[n], Original(text, arts[n]), "")]
ArticlesIn(text) ==
  LET all == FlattenSeq([i \in DOMAIN text |-> RefsAt(text, i)])
      new == {n \in DOMAIN all : \A m \in DOMAIN all : m < n => all[m] # all[n]}
  IN  [n \in 1 .. Cardinality(new) |-> all[InOrder(new)[n]]]

(* The articles of one mention added to those of another: paragraphs join  *)
(* those of the first with the same number.                                *)
MergeRef(refs, ref) ==
  LET same == {k \in DOMAIN refs : refs[k].art = ref.art}
  IN  IF same = {} THEN Append(refs, ref)
      ELSE [refs EXCEPT ![Min(same)].paras =
              @ \o Only(ref.paras, ToSet(ref.paras) \ ToSet(@))]
MergeArticles(target, incoming) == FoldLeft(MergeRef, target, incoming)

(* Mentions: a title wherever it stands, a bare name before an article.    *)
IsTitle(text, i) == text[i] \in Titles
IsBare(text, i) == text[i] \in DOMAIN BareNames /\ i < Len(text) /\ text[i + 1] \in Numbers
TitleAt(text, i) == IF text[i] \in Titles THEN text[i] ELSE BareNames[text[i]]

(* What a mention governs: a title all up to the next mention, a bare name *)
(* the chain of articles behind it, each with one paragraph at most.  An   *)
(* article next to another one is joined to it by an "and" or an "or".     *)
Chained(text, j) ==
  \/ text[j] \in Numbers
  \/ text[j] \in Paragraphs /\ text[j - 1] \in Numbers
  \/ text[j] = "comma" /\ j < Len(text) /\ text[j + 1] \in Numbers
Governed(text, i) ==
  LET later == {j \in i + 1 .. Len(text) :
                  IF IsTitle(text, i) THEN IsTitle(text, j) \/ IsBare(text, j)
                  ELSE ~Chained(text, j)}
  IN  SubSeq(text, i + 1, Min(later \cup {Len(text) + 1}) - 1)

(* What a mention cites.  A paragraph right behind a title, where nothing  *)
(* else is cited, is taken for the article of its number.                  *)
StandsAlone(g) == Len(g) > 1 /\ g[1] \in Paragraphs /\ g[2] \in {"provides", "comma", "colon"}
CitedBy(text, i) ==
  LET g == Governed(text, i)
  IN  IF IsTitle(text, i) /\ ArticlesIn(g) = <<>> /\ StandsAlone(g)
      THEN <<Ref(AsArticle[g[1]], <<>>, g[1])>> ELSE ArticlesIn(g)

(* extract_legal_sources: each statute once, those in marks first, then by *)
(* where they are named first; later mentions add their articles.          *)
Mentions(text) == {i \in DOMAIN text : IsTitle(text, i) \/ IsBare(text, i)}
Place(text, i) == IF IsTitle(text, i) THEN i ELSE Len(text) + i
MentionsOf(text, title) ==
  LET S == {i \in Mentions(text) : TitleAt(text, i) = title}
  IN  Ranked(S, [i \in S |-> Place(text, i)])

SourceOf(text, title) ==
  LET mentions == MentionsOf(text, title)
      refs == [n \in DOMAIN mentions |-> CitedBy(text, mentions[n])]
  IN  [title |-> title, form |-> IF IsTitle(text, mentions[1]) THEN "explicit" ELSE "bare",
       span |-> mentions[1], articles |-> FoldLeft(MergeArticles, refs[1], Tail(refs)), origin |-> 0]

Statutes(text) == {t \in Known : \E i \in Mentions(text) : TitleAt(text, i) = t}

LegalSources(text) ==
  LET order == Ranked(Statutes(text), [t \in Statutes(text) |-> Place(text, MentionsOf(text, t)[1])])
  IN  [k \in 1 .. Cardinality(Statutes(text)) |-> SourceOf(text, order[k])]

TitlesOf(sources) == {sources[k].title : k \in DOMAIN sources}

(* extract_partial_refs: paragraphs without an article, where the text     *)
(* says that they are a legal basis, or right behind the last one that it  *)
(* provides something.                                                     *)
Window == 8
Provides(text) ==
  \E i \in DOMAIN text :
    /\ text[i] \in Paragraphs /\ \A j \in i + 1 .. Len(text) : text[j] \notin Paragraphs
    /\ \E j \in i + 1 .. i + Window : j <= Len(text) /\ text[j] = "provides"
PartialParagraphs(text) ==
  IF ToSet(text) \cap Numbers # {} \/ ~(Contains(text, "by") \/ Provides(text)) THEN <<>>
  ELSE Only(text, Paragraphs)

CitesCase(text) == Contains(text, "case")

(* has_holding_trigger: something is held behind the last case.            *)
HoldsSomething(text) ==
  \E i \in DOMAIN text :
    /\ text[i] = "held" /\ i < Len(text)
    /\ \E j \in 1 .. i - 1 : text[j] = "case" /\ \A k \in j + 1 .. i - 1 : text[k] \notin {"case", "held"}
    /\ \A k \in i + 1 .. Len(text) : text[k] # "case"

-----------------------------------------------------------------------------
(* spans.py: where in the text of a claim its articles are cited.          *)

(* The statute, among those of the claim, named last before a position in  *)
(* the same sentence.                                                      *)
Owner(text, sources, i) ==
  LET named == {j \in 1 .. i - 1 :
                  /\ text[j] \in Titles \cup DOMAIN BareNames
                  /\ TitleAt(text, j) \in TitlesOf(sources)
                  /\ \A k \in j .. i - 1 : text[k] # "stop"}
  IN  IF named = {} THEN "nobody" ELSE TitleAt(text, Max(named))

(* The mentions [at, art, owner] of articles: a number, each of a group at *)
(* the one place of the group, a relative word for a number before it, and *)
(* the paragraph that a source took for an article, the first behind its   *)
(* name.                                                                   *)
LastNumber(text, i) ==
  LET before == {j \in 1 .. i - 1 : Arts(text[j]) # <<>>}
  IN  IF before = {} THEN "none" ELSE Last(Arts(text[Max(before)]))
NumbersAt(text, i) ==
  LET last == LastNumber(text, i)
  IN  IF text[i] \notin Relative THEN ToSet(Arts(text[i]))
      ELSE IF text[i] = "same" \/ last = "none" THEN {last} \ {"none"}
      ELSE {Preceding[last]} \ {"none"}

RawPlaces(text, source, ref) == {i \in DOMAIN text : i > source.span /\ text[i] = ref.raw}
Raws(text, source) ==
  {[at |-> Min(RawPlaces(text, source, ref)), art |-> ref.art, owner |-> source.title] :
     ref \in {r \in ToSet(source.articles) : r.raw # "" /\ RawPlaces(text, source, r) # {}}}
Mentioned(text, sources) ==
  UNION {{[at |-> i, art |-> art, owner |-> Owner(text, sources, i)] : art \in NumbersAt(text, i)} :
           i \in DOMAIN text}
    \cup UNION {Raws(text, s) : s \in ToSet(sources)}

(* Every article of every source, in the order they are looked for.        *)
Wanted(sources) ==
  FlattenSeq([k \in DOMAIN sources |->
               [n \in DOMAIN sources[k].articles |-> [source |-> k, ref |-> sources[k].articles[n]]]])

(* The mention that is taken for an article, if there is one: behind the   *)
(* name of its statute; the only one there is; or one its statute owns.    *)
MentionFor(text, sources, w, used) ==
  LET all == {m \in Mentioned(text, sources) : m.art = w.ref.art}
      source == sources[w.source]
      claiming == {k \in DOMAIN sources :
                     \E n \in DOMAIN sources[k].articles : sources[k].articles[n].art = w.ref.art}
      fit == IF source.span # 0 THEN {m \in all \ used : m.at > source.span}
             ELSE IF Cardinality(all) = 1 /\ Cardinality(claiming) = 1 THEN all \ used
             ELSE {m \in all \ used : m.owner = source.title}
  IN  {m \in fit : \A o \in fit : m.at <= o.at}

Take(text, sources, found, w) ==
  LET fit == MentionFor(text, sources, w, {f.mention : f \in ToSet(found)})
  IN  IF fit = {} THEN found
      ELSE Append(found, [source |-> w.source, mention |-> CHOOSE m \in fit : TRUE])
Located(text, sources) ==
  FoldLeft(LAMBDA found, w : Take(text, sources, found, w), <<>>, Wanted(sources))

(* locate_claim_article_spans: the citations [title, art, para, at]; para  *)
(* is "" where only the article is cited.  An article that is found has    *)
(* the paragraphs up to the next one found, at the same place the next one *)
(* taken; one that is not, as when only a paragraph is cited, has its      *)
(* paragraphs wherever they are.                                           *)
Citation(source, art, i, para) == [title |-> source.title, art |-> art, para |-> para, at |-> i]
CiteParagraphs(text, source, art, paras, positions) ==
  {Citation(source, art, i, text[i]) : i \in {j \in positions : text[j] \in paras}}

ParagraphsOf(source, art) ==
  UNION {ToSet(r.paras) : r \in {q \in ToSet(source.articles) : q.art = art}}
Behind(text, found, n) ==
  LET at(m) == found[m].mention.at
      next == {m \in DOMAIN found : at(m) > at(n) \/ (at(m) = at(n) /\ m > n)}
  IN  at(n) + 1 .. Min({at(m) : m \in next} \cup {Len(text) + 1}) - 1
CiteFound(text, source, found, n) ==
  LET m == found[n].mention
      cited == CiteParagraphs(text, source, m.art, ParagraphsOf(source, m.art), Behind(text, found, n))
  IN  IF cited = {} THEN {Citation(source, m.art, m.at, "")} ELSE cited

Lost(sources, found) ==
  {w \in ToSet(Wanted(sources)) :
     \A f \in ToSet(found) : <<f.source, f.mention.art>> # <<w.source, w.ref.art>>}

FoundCitations(text, sources, found) ==
  UNION {CiteFound(text, sources[found[n].source], found, n) : n \in DOMAIN found}
LostCitations(text, sources, found) ==
  UNION {CiteParagraphs(text, sources[w.source], w.ref.art, ToSet(w.ref.paras), DOMAIN text) :
           w \in Lost(sources, found)}

Occurrences(text, sources) ==
  LET found == Located(text, sources)
  IN  FoundCitations(text, sources, found) \cup LostCitations(text, sources, found)

(* domain/citation_integrity.py: each article recognised is cited, each    *)
(* citation is of an article recognised, and so for their paragraphs.      *)
IsRecognised(source, c) ==
  LET same == {n \in DOMAIN source.articles : source.articles[n].art = c.art}
  IN  /\ source.title = c.title /\ same # {}
      /\ c.para # "" => Contains(source.articles[Min(same)].paras, c.para)
IsCited(source, ref, citations) ==
  LET of == {c \in citations : c.title = source.title /\ c.art = ref.art}
  IN  of # {} /\ ToSet(ref.paras) \subseteq {c.para : c \in of}

CitationsIntact(sources, citations) ==
  /\ \A c \in citations : \E k \in DOMAIN sources : IsRecognised(sources[k], c)
  /\ \A k \in DOMAIN sources : \A ref \in ToSet(sources[k].articles) :
       IsCited(sources[k], ref, citations)
=============================================================================
