----------------------------- MODULE MCReading -----------------------------
(***************************************************************************)
(* The reading of a document, for model checking: bodies of up to three    *)
(* elements out of a list of paragraphs, tables of four cells, notes.      *)
(***************************************************************************)
EXTENDS ClaimRecognition, TLC

MCTitles == {"A", "B"}
MCBareNames == "a" :> "A"
MCArticles == {"1", "2", "3"}
MCParagraphs == {"p", "q"}
MCGroups == [r |-> [kind |-> "range", arts |-> <<"1", "2", "3">>],
             f |-> [kind |-> "compact", arts |-> <<"1", "2">>],
             e |-> [kind |-> "enum", arts |-> <<"1", "2">>]]
MCPreceding == [x \in MCArticles |-> CASE x = "1" -> "none" [] x = "2" -> "1" [] OTHER -> "2"]
MCAsArticle == [p |-> "1", q |-> "2"]
MCWeight(word) == IF word = "long" THEN 4 ELSE 1

Par(text) == [el |-> "p", style |-> 0, text |-> text, refs |-> <<>>]
Styled(level, text) == [Par(text) EXCEPT !.style = level]
Citing(notes, text) == [Par(text) EXCEPT !.refs = notes]

(* Sentences and what they stand for.                                      *)
Cited == <<"A", "1", "stop">>
Named == <<"A", "stop">>
Other2 == <<"B", "2", "p", "stop">>
Bare == <<"by", "2", "stop">>
Partial == <<"by", "p", "stop">>
Plain == <<"say", "stop">>
Quote == <<"open", "say", "stop", "close">>
QuoteOfLaw == <<"open", "A", "1", "stop", "close">>

Simple == {Par(t) : t \in {Cited, Named, Other2, Bare, Partial, Plain, Quote, QuoteOfLaw, <<>>}}

Lists ==
  {Par(t) : t \in {<<"say", "colon">>, <<"A", "colon">>, <<"A", "B", "colon">>,
                   <<"item">> \o Bare, <<"sub">> \o Cited, <<"sub">> \o Partial, <<"item", "say">>}}

Headings ==
  {Styled(1, <<"A">>), Styled(2, <<"say">>), Par(<<"zhang", "say">>), Par(<<"jie", "say">>),
   Par(<<"n2", "A">>), Par(<<"intro">>)}

Long ==
  {Par(t) : t \in {
     Cited \o Plain \o Bare, Cited \o Bare \o Plain, Cited \o Bare \o Other2,
     Cited \o Other2 \o Bare, Named \o Partial, Cited \o Quote \o Other2,
     Quote \o <<"B", "1", "stop">> \o Plain, <<"open", "say", "stop", "sp", "close">> \o Cited,
     <<"dq", "say", "stop", "dq", "lpar", "say", "stop", "rpar">> \o Plain,
     <<"A", "1", "B", "1", "stop">> \o Bare, <<"a", "1", "p", "B", "stop">>,
     <<"A", "1", "p", "1", "q", "stop">>, <<"A", "B", "1", "p", "A", "1", "q", "stop">>,
     <<"a", "1", "A", "2", "stop">>, <<"by", "1", "1", "stop">>,
     <<"case", "stop", "court", "say", "stop", "court", "held", "stop">>,
     <<"case", "held", "A", "1", "stop", "case", "stop">>,
     <<"zhang", "long", "long", "stop">> \o Cited,
     <<"long", "stop", "A", "1", "long", "stop", "say", "long", "stop">> \o Bare}}

(* Several articles at one place, words for an article, paragraphs alone.  *)
Gathered ==
  {Par(t) : t \in {
     <<"A", "r", "p", "2", "q", "stop">>, <<"A", "r", "2", "stop">>, <<"A", "3", "f", "p", "stop">>,
     <<"A", "f", "p", "B", "r", "stop">>, <<"a", "r", "p", "comma", "2", "q", "stop">>,
     <<"A", "e", "p", "1", "p", "stop">>, <<"A", "2", "p", "prior", "q", "stop">>,
     <<"A", "1", "same", "p", "stop">>, <<"by", "1", "same", "p", "stop">>, <<"by", "r", "q", "stop">>,
     <<"by", "p", "e", "stop">>, <<"f", "p", "provides", "stop">>, <<"q", "provides", "e", "stop">>,
     <<"A", "p", "provides", "stop">>, <<"A", "q", "comma", "B", "2", "p", "stop">>,
     <<"A", "3", "p", "B", "A", "p", "comma", "stop">>, <<"A", "B", "1", "q", "A", "p", "comma", "stop">>,
     <<"A", "p", "comma", "A", "1", "q", "stop">>}}

Elements == Simple \cup Lists \cup Headings \cup Long \cup Gathered \cup {[el |-> "x"]}

(* Tables: four cells, and cells that span a row or a column.              *)
CellTexts == {Cited, Named, Bare, <<"q", "say">>, Plain, <<>>, Cited \o Bare}
Cell(r1, r2, c1, c2, text) ==
  [r1 |-> r1, r2 |-> r2, c1 |-> c1, c2 |-> c2, text |-> text, refs |-> <<>>]
Tables ==
  {[el |-> "t", cells |-> <<Cell(1, 1, 1, 1, w), Cell(1, 1, 2, 2, x),
                            Cell(2, 2, 1, 1, y), Cell(2, 2, 2, 2, z)>>] :
     w, x, y, z \in CellTexts}
  \cup {[el |-> "t", cells |-> <<Cell(1, 2, 1, 1, w), Cell(1, 1, 2, 2, x), Cell(2, 2, 2, 2, y)>>] :
         w, x, y \in CellTexts \cup {<<"A", "B">>, <<"2", "A", "stop">>}}
  \cup {[el |-> "t", cells |-> <<Cell(1, 1, 1, 1, w), Cell(1, 1, 2, 2, x), Cell(1, 1, 3, 3, y)>>] :
         w, x, y \in CellTexts}

(* A row whose second cell cites a note.                                   *)
Foot == [type |-> "foot", id |-> 1]
Noted(text) ==
  [el |-> "t", cells |-> <<Cell(1, 1, 1, 1, text), [Cell(1, 1, 2, 2, Bare) EXCEPT !.refs = <<Foot>>]>>]

Note(type, id, index, text) == [type |-> type, id |-> id, index |-> index, text |-> text]
NoteLists ==
  {<<Note("foot", 1, 0, t), Note("foot", 2, k, u), Note("end", 1, 0, Bare)>> :
     t, u \in {Cited, Bare, Plain}, k \in {0, 1}}

Doc(body, notes, want) == [body |-> body, notes |-> notes, want |-> want]
Both == {"law", "case"}
MCDocuments ==
  {Doc(<<e>>, <<>>, w) : e \in Elements, w \in {{"law"}, {"case"}}}
  \cup {Doc(<<e, f>>, <<>>, Both) : e, f \in Elements}
  \cup {Doc(<<e, f, g>>, <<>>, Both) : e, f, g \in Simple \cup Lists}
  \cup {Doc(<<Par(<<"A", "colon">>), t, Par(<<"item">> \o Bare)>>, <<>>, Both) : t \in Tables}
  \cup {Doc(<<Noted(t)>>, n, Both) : t \in {Named, Plain}, n \in NoteLists}
  \cup {Doc(<<Par(Plain), Citing(c, Bare), Citing(<<[type |-> "end", id |-> 1]>>, Partial)>>, n, Both) :
         c \in {<<Foot>>, <<[Foot EXCEPT !.id = 2], Foot>>}, n \in NoteLists}

=============================================================================
