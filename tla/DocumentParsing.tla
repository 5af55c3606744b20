-------------------------- MODULE DocumentParsing --------------------------
(***************************************************************************)
(* parsing/: a DOCX body, read one element after the other, becomes blocks *)
(* and their sentences (anchors); then the blocks are related to one       *)
(* another (relations.py), packed into chunks (chunks.py), and the whole   *)
(* is validated (validators.py).                                           *)
(*                                                                         *)
(* A document is [body, notes, want].  An element of the body is           *)
(*   [el |-> "p", style, text, refs]  a paragraph: its heading style (0 is *)
(*                                    none), its words, the notes it cites *)
(*   [el |-> "t", cells]              a table: its physical cells          *)
(*                                    [r1, r2, c1, c2, text, refs]         *)
(*   [el |-> "x"]                     anything else                        *)
(* and a note paragraph is [type, id, index, text].  A block is known by   *)
(* its position among the blocks, an anchor by its position among the      *)
(* anchors.  Text is a sequence of words; a word stands for one character. *)
(***************************************************************************)
EXTENDS Sentences

CONSTANTS
  Documents,    \* the documents read
  Weight(_),    \* estimate_tokens of a word
  MaxChunk,     \* TARGET_TOKEN_MAX
  MaxHeading    \* MAX_PSEUDO_HEADING_LENGTH

ASSUME ParsingAssumption == MaxChunk \in Nat \ {0} /\ MaxHeading \in Nat

Texts == Seq(STRING)
NoteId == [type : {"foot", "end"}, id : Nat]
CellOfTable ==
  {c \in [r1 : Nat, r2 : Nat, c1 : Nat, c2 : Nat, text : Texts, refs : Seq(NoteId)] : c.r1 <= c.r2}

(* The cells come row by row, and within a row from left to right.         *)
InRow(b, c) == b.r1 < c.r1 \/ (b.r1 = c.r1 /\ b.c1 <= c.c2)
RowByRow(cells) == \A m, n \in DOMAIN cells : m < n => InRow(cells[m], cells[n])

Element ==
  [el : {"p"}, style : Nat, text : Texts, refs : Seq(NoteId)]
    \cup [el : {"t"}, cells : {s \in Seq(CellOfTable) : RowByRow(s)}] \cup [el : {"x"}]
NoteParagraph == [type : {"foot", "end"}, id : Nat, index : Nat, text : Texts]
Document ==
  [body : Seq(Element), notes : Seq(NoteParagraph), want : SUBSET {"law", "case"}]

ASSUME DocumentAssumption == Documents \subseteq Document

VARIABLES
  doc,          \* the document
  stage,        \* what is done next
  at,           \* the next element, note paragraph or anchor
  cursor,       \* the counters of the scan, the headings and the list group
  blocks,
  anchors,
  chunks

parseVars == <<doc, cursor, blocks, anchors, chunks>>

Beginning == [para |-> 0, order |-> 0, table |-> 0, cell |-> 0, groups |-> 0,
              headings |-> <<>>, group |-> 0, previous |-> 0]

-----------------------------------------------------------------------------
(* headings.py                                                             *)

Chapters == <<"bian", "zhang", "jie">>
Numbered == [n1 |-> 1, n2 |-> 2, item |-> 1]
Punctuation == {"stop", "colon", "comma"}

BodyTexts(d) ==
  {d.body[k].text : k \in {j \in DOMAIN d.body : d.body[j].el = "p"}}
    \cup UNION {{c.text : c \in ToSet(d.body[k].cells)} :
                 k \in {j \in DOMAIN d.body : d.body[j].el = "t"}}

(* scan_chapter_types: every text that begins like a chapter counts, the   *)
(* long ones and those of cells too.                                       *)
ChapterTypes(d) == {t[1] : t \in BodyTexts(d) \ {<<>>}} \cap ToSet(Chapters)

(* normalize_heading_levels                                                *)
ChapterLevel(d, word) ==
  Cardinality({k \in DOMAIN Chapters :
                 /\ Chapters[k] \in ChapterTypes(d)
                 /\ \E j \in DOMAIN Chapters : Chapters[j] = word /\ k <= j})

(* detect_heading: the level of a heading, 0 if the paragraph is none.     *)
HeadingLevel(d, e) ==
  IF e.style # 0 THEN e.style
  ELSE IF Len(e.text) > MaxHeading THEN 0
  ELSE IF e.text = <<"intro">> THEN 1
  ELSE IF e.text[1] \in ToSet(Chapters) THEN ChapterLevel(d, e.text[1])
  ELSE IF e.text[1] \in DOMAIN Numbered /\ Len(e.text) > 1 /\ Last(e.text) \notin Punctuation
  THEN Numbered[e.text[1]]
  ELSE 0

(* The stack after a heading: those of its level and deeper go.            *)
Below(headings, level) == SelectSeq(headings, LAMBDA h : h.level < level)
Path == [k \in DOMAIN cursor.headings |-> cursor.headings[k].text]

-----------------------------------------------------------------------------
(* docx.py                                                                 *)

IsListItem(text) == text[1] \in {"item", "sub"}

NoNote == [type |-> "body", id |-> 0]
NoCell == [r1 |-> 0, r2 |-> 0, c1 |-> 0, c2 |-> 0]

Block(kind, text, path, order, para) ==
  [kind |-> kind, text |-> text, path |-> path, order |-> order, para |-> para,
   group |-> 0, refs |-> <<>>, table |-> 0, cell |-> NoCell, note |-> NoNote,
   sentences |-> <<>>, relations |-> <<>>]

(* _split_block_to_anchors: a block and its sentences at the end of what   *)
(* has been read.                                                          *)
Add(read, block) ==
  LET parts == Split(block.text)
      n == Len(read.anchors)
  IN  [blocks |-> Append(read.blocks,
                    [block EXCEPT !.sentences = [k \in DOMAIN parts |-> n + k]]),
       anchors |-> read.anchors \o
                   [k \in DOMAIN parts |->
                      [text |-> parts[k].text, start |-> parts[k].start,
                       block |-> Len(read.blocks) + 1]]]

Read == [blocks |-> blocks, anchors |-> anchors]
Keep(read) == blocks' = read.blocks /\ anchors' = read.anchors

(* The list group of an item: the one that is open, the one of a leading   *)
(* sentence, which joins it, or a new one.                                 *)
Leads == cursor.previous # 0 /\ Last(blocks[cursor.previous].text) = "colon"
LeadGroup == IF Leads THEN blocks[cursor.previous].group ELSE 0
ItemGroup ==
  IF cursor.group # 0 THEN cursor.group
  ELSE IF LeadGroup # 0 THEN LeadGroup
  ELSE cursor.groups + 1
WithLead ==
  IF cursor.group = 0 /\ Leads
  THEN [blocks EXCEPT ![cursor.previous].group = ItemGroup] ELSE blocks

Here == doc.body[at]
Reading(el) == stage = "body" /\ at <= Len(doc.body) /\ Here.el = el
Next1 == at' = at + 1 /\ UNCHANGED <<doc, stage, chunks>>

(* An empty paragraph is counted and leaves no block.                      *)
EmptyParagraph ==
  /\ Reading("p") /\ Here.text = <<>>
  /\ cursor' = [cursor EXCEPT !.para = @ + 1, !.order = @ + 1]
  /\ Next1 /\ UNCHANGED <<blocks, anchors>>

Heading ==
  /\ Reading("p") /\ Here.text # <<>> /\ HeadingLevel(doc, Here) # 0
  /\ LET level == HeadingLevel(doc, Here)
         stack == Append(Below(cursor.headings, level),
                         [level |-> level, text |-> Here.text])
         block == [Block("heading", Here.text, [k \in DOMAIN stack |-> stack[k].text],
                         cursor.order, cursor.para)
                     EXCEPT !.refs = Here.refs]
     IN  /\ Keep(Add(Read, block))
         /\ cursor' = [cursor EXCEPT !.para = @ + 1, !.order = @ + 1, !.headings = stack,
                                     !.group = 0, !.previous = Len(blocks) + 1]
  /\ Next1

ListItem ==
  /\ Reading("p") /\ Here.text # <<>> /\ HeadingLevel(doc, Here) = 0
  /\ IsListItem(Here.text)
  /\ LET block == [Block("list", Here.text, Path, cursor.order, cursor.para)
                     EXCEPT !.refs = Here.refs, !.group = ItemGroup]
     IN  Keep(Add([Read EXCEPT !.blocks = WithLead], block))
  /\ cursor' = [cursor EXCEPT !.para = @ + 1, !.order = @ + 1, !.group = ItemGroup,
                              !.groups = IF ItemGroup > @ THEN ItemGroup ELSE @,
                              !.previous = Len(blocks) + 1]
  /\ Next1

Paragraph ==
  /\ Reading("p") /\ Here.text # <<>> /\ HeadingLevel(doc, Here) = 0
  /\ ~IsListItem(Here.text)
  /\ Keep(Add(Read, [Block("paragraph", Here.text, Path, cursor.order, cursor.para)
                       EXCEPT !.refs = Here.refs]))
  /\ cursor' = [cursor EXCEPT !.para = @ + 1, !.order = @ + 1, !.group = 0,
                              !.previous = Len(blocks) + 1]
  /\ Next1

(* The cells with text, each once and one after the other; they share the *)
(* place of their table.                                                   *)
TableCell ==
  /\ Reading("t") /\ cursor.cell < Len(Here.cells)
  /\ LET c == Here.cells[cursor.cell + 1]
     IN  IF c.text = <<>> THEN UNCHANGED <<blocks, anchors>>
         ELSE Keep(Add(Read, [Block("cell", c.text, Path, cursor.order, -1)
                                EXCEPT !.refs = c.refs, !.table = cursor.table + 1,
                                       !.cell = [r1 |-> c.r1, r2 |-> c.r2, c1 |-> c.c1, c2 |-> c.c2]]))
  /\ cursor' = [cursor EXCEPT !.cell = @ + 1]
  /\ UNCHANGED <<doc, stage, at, chunks>>

(* A table ends the list group and is not the previous paragraph.          *)
EndTable ==
  /\ Reading("t") /\ cursor.cell = Len(Here.cells)
  /\ cursor' = [cursor EXCEPT !.order = @ + 1, !.table = @ + 1, !.cell = 0, !.group = 0]
  /\ Next1 /\ UNCHANGED <<blocks, anchors>>

Other ==
  /\ Reading("x")
  /\ cursor' = [cursor EXCEPT !.order = @ + 1]
  /\ Next1 /\ UNCHANGED <<blocks, anchors>>

(* The notes come behind the body, each in a section for its type.         *)
NoteAt == at - Len(doc.body)

ReadNote ==
  /\ stage = "body" /\ NoteAt >= 1 /\ NoteAt <= Len(doc.notes)
  /\ LET n == doc.notes[NoteAt]
     IN  Keep(Add(Read, [Block("note", n.text, <<n.type>>, cursor.order, n.index)
                           EXCEPT !.note = [type |-> n.type, id |-> n.id]]))
  /\ cursor' = [cursor EXCEPT !.order = @ + 1]
  /\ Next1

EndBody ==
  /\ stage = "body" /\ NoteAt > Len(doc.notes)
  /\ stage' = "relate"
  /\ UNCHANGED <<doc, at, cursor, blocks, anchors, chunks>>

-----------------------------------------------------------------------------
(* relations.py: the relations of a block, in the order they are found.    *)

Adjacent(b, c) ==
  /\ b.kind # "cell" /\ c.kind # "cell"
  /\ b.note.type = c.note.type
  /\ b.path = c.path
  /\ b.order + 1 = c.order
  /\ b.para + 1 = c.para

(* The block that leads a list group: the last one so far that is no item. *)
Lead(k) ==
  LET leads == {j \in 1 .. k - 1 : /\ blocks[j].group = blocks[k].group
                                   /\ blocks[j].kind # "list"}
  IN  IF blocks[k].group = 0 \/ blocks[k].kind # "list" \/ leads = {} THEN {} ELSE {Max(leads)}

Cells(k) == {j \in DOMAIN blocks \ {k} : /\ blocks[j].kind = "cell"
                                         /\ blocks[j].table = blocks[k].table}

(* The first of the cells whose edge is nearest.                           *)
Nearest(S, edge) ==
  {j \in S : \A i \in S : edge[i] < edge[j] \/ (edge[i] = edge[j] /\ j <= i)}

(* _nearest_left_cell and _nearest_above_cell: the cells that cover the    *)
(* rows, or the columns, of this one.                                      *)
LeftCell(k) ==
  LET b == blocks[k].cell
      S == {j \in Cells(k) : LET c == blocks[j].cell
                             IN  c.r1 <= b.r1 /\ c.r2 >= b.r2 /\ c.c2 < b.c1}
  IN  IF blocks[k].kind # "cell" THEN {} ELSE Nearest(S, [j \in S |-> blocks[j].cell.c2])
AboveCell(k) ==
  LET b == blocks[k].cell
      S == {j \in Cells(k) : LET c == blocks[j].cell
                             IN  c.c1 <= b.c1 /\ c.c2 >= b.c2 /\ c.r2 < b.r1}
  IN  IF blocks[k].kind # "cell" THEN {} ELSE Nearest(S, [j \in S |-> blocks[j].cell.r2])

(* The first paragraph of a note.                                          *)
NoteBlock(note) ==
  LET S == {j \in DOMAIN blocks : blocks[j].note = note} IN IF S = {} THEN {} ELSE {Min(S)}

(* The notes a block cites that are there, by their first citation.        *)
CitedNotes(k) ==
  LET refs == blocks[k].refs
      first == {n \in DOMAIN refs : /\ NoteBlock(refs[n]) # {}
                                    /\ \A m \in DOMAIN refs : m < n => refs[m] # refs[n]}
  IN  [i \in 1 .. Cardinality(first) |->
         [kind |-> "note", target |-> Min(NoteBlock(refs[InOrder(first)[i]]))]]

RelationsOf(k) ==
  LET to(kind, S) == [i \in 1 .. Cardinality(S) |->
                        [kind |-> kind, target |-> InOrder(S)[i]]]
  IN  to("list_lead", Lead(k))
        \o to("previous", {j \in {k - 1} \ {0} : Adjacent(blocks[j], blocks[k])})
        \o to("left", LeftCell(k))
        \o to("above", AboveCell(k))
        \o CitedNotes(k)

Relate ==
  /\ stage = "relate"
  /\ blocks' = [k \in DOMAIN blocks |-> [blocks[k] EXCEPT !.relations = RelationsOf(k)]]
  /\ stage' = "chunk"
  /\ UNCHANGED <<doc, at, cursor, anchors, chunks>>

-----------------------------------------------------------------------------
(* chunks.py                                                               *)

Estimate(text) == FoldLeft(LAMBDA n, word : n + Weight(word), 0, text)

(* A chunk of some anchors; overlap are those that the chunk before has    *)
(* too.                                                                    *)
Chunk(members, ids, overlap) == [blocks |-> members, anchors |-> ids, overlap |-> overlap]
Whole(members) ==
  Chunk(members, FlattenSeq([k \in DOMAIN members |-> blocks[members[k]].sentences]), {})
Flush(open) == IF open = <<>> THEN <<>> ELSE <<Whole(open)>>

(* Mutant: the repeated sentence is not declared.                          *)
Undeclared(last) == {}

(* What a chunk that continues one that is full begins with.               *)
Overlap(last) == {last}

(* _split_long_block: sentence by sentence; a chunk that continues another *)
(* repeats its last sentence.                                              *)
AddSentence(k, s, i) ==
  LET weight == Estimate(anchors[i].text)
  IN  IF s.weight + weight <= MaxChunk
      THEN [s EXCEPT !.open = Append(@, i), !.weight = @ + weight]
      ELSE IF s.open = <<>>
      THEN [s EXCEPT !.open = <<i>>, !.weight = weight]
      ELSE [full |-> Append(s.full, Chunk(<<k>>, s.open, s.overlap)),
            open |-> <<Last(s.open), i>>,
            weight |-> Estimate(anchors[Last(s.open)].text) + weight,
            overlap |-> Overlap(Last(s.open))]
LongChunks(k) ==
  LET end == FoldLeft(LAMBDA s, i : AddSentence(k, s, i),
                      [full |-> <<>>, open |-> <<>>, weight |-> 0, overlap |-> {}],
                      blocks[k].sentences)
  IN  Append(end.full, Chunk(<<k>>, end.open, end.overlap))

(* build_chunks: blocks of one section, as many as fit.                    *)
Fresh(full) == [full |-> full, open |-> <<>>, weight |-> 0]
Section(s, k) ==
  IF k > 1 /\ blocks[k].path # blocks[k - 1].path THEN Fresh(s.full \o Flush(s.open)) ELSE s
Fit(s, k) ==
  LET weight == Estimate(blocks[k].text)
  IN  IF weight > MaxChunk THEN Fresh(s.full \o Flush(s.open) \o LongChunks(k))
      ELSE IF s.weight + weight <= MaxChunk
      THEN [s EXCEPT !.open = Append(@, k), !.weight = @ + weight]
      ELSE [full |-> s.full \o Flush(s.open), open |-> <<k>>, weight |-> weight]
Chunks ==
  LET end == FoldLeft(LAMBDA s, k : Fit(Section(s, k), k), Fresh(<<>>), [k \in DOMAIN blocks |-> k])
  IN  end.full \o Flush(end.open)

BuildChunks ==
  /\ stage = "chunk"
  /\ chunks' = Chunks
  /\ stage' = "checkDoc"
  /\ UNCHANGED <<doc, at, cursor, blocks, anchors>>

-----------------------------------------------------------------------------
(* validators.py                                                           *)

Of(k) == {i \in DOMAIN anchors : anchors[i].block = k}
ByStart(S) == Ranked(S, [i \in S |-> anchors[i].start])

LosslessSplit ==
  \A k \in DOMAIN blocks :
    LET own == ByStart(Of(k))
    IN  /\ FlattenSeq([n \in DOMAIN own |-> anchors[own[n]].text]) = blocks[k].text
        /\ \A i \in Of(k) : SubSeq(blocks[k].text, anchors[i].start + 1,
                                   anchors[i].start + Len(anchors[i].text)) = anchors[i].text

AnchorOrder ==
  \A i \in 2 .. Len(anchors) :
    \/ anchors[i - 1].block < anchors[i].block
    \/ /\ anchors[i - 1].block = anchors[i].block
       /\ anchors[i - 1].start <= anchors[i].start

AnchorOwnership ==
  \A k \in DOMAIN blocks :
    blocks[k].sentences = ByStart(Of(k))

(* Every anchor is in a chunk, and in several only where one says so.      *)
ChunkCoverage ==
  \A i \in DOMAIN anchors :
    LET in == {c \in DOMAIN chunks : i \in ToSet(chunks[c].anchors)}
    IN  in # {} /\ (Cardinality(in) > 1 => \E c \in DOMAIN chunks : i \in chunks[c].overlap)

ChunkContinuity ==
  \A c \in DOMAIN chunks : \A n \in 2 .. Len(chunks[c].blocks) :
    chunks[c].blocks[n] = chunks[c].blocks[n - 1] + 1

RelationTargets ==
  \A k \in DOMAIN blocks : \A r \in ToSet(blocks[k].relations) : r.target \in DOMAIN blocks

DocumentSound ==
  LosslessSplit /\ AnchorOrder /\ AnchorOwnership /\ ChunkCoverage /\ ChunkContinuity
    /\ RelationTargets

(* validate_shared_document: a document that is not sound is refused.      *)
CheckDocument ==
  /\ stage = "checkDoc"
  /\ stage' = IF DocumentSound THEN "collect" ELSE "refused"
  /\ at' = 1
  /\ UNCHANGED parseVars

ParseInit ==
  /\ doc \in Documents
  /\ stage = "body" /\ at = 1 /\ cursor = Beginning
  /\ blocks = <<>> /\ anchors = <<>> /\ chunks = <<>>

ParseStep ==
  \/ EmptyParagraph \/ Heading \/ ListItem \/ Paragraph \/ TableCell \/ EndTable \/ Other
  \/ ReadNote \/ EndBody
  \/ Relate \/ BuildChunks \/ CheckDocument
=============================================================================
