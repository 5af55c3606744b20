----------------------------- MODULE WordProofs -----------------------------
(***************************************************************************)
(* Proofs about the two ends of the system that face Word: the task pane   *)
(* of the add-in (TaskPane), for any documents, cards, limits and          *)
(* requests, and the reading of a document (ClaimRecognition), for any     *)
(* documents, statutes and words: what is inherited and what is claimed,   *)
(* what parsing yields, and why a document is refused.                     *)
(***************************************************************************)
EXTENDS ClaimRecognition, TaskPane, CitationProofs

-----------------------------------------------------------------------------
(* The task pane: what the list of recent checks reaches, and the buttons  *)
(* of the cards.                                                           *)

CheckRecord ==
  [step : {"none", "reading", "waiting", "seeding"}, mode : Modes,
   request : Requests \cup {None}, result : Docs \cup {None}]

(* What the script keeps of a check, of the cards and of the revisions.    *)
PaneOK ==
  /\ check \in CheckRecord
  /\ check.step \in {"waiting", "seeding"} => check.result \in Docs
  /\ list \in [doc : Docs \cup {None}, accepted : SUBSET Cards, disabled : SUBSET Cards]
  /\ screen = "results" => list.doc \in Docs
  /\ writings \subseteq Writings
  /\ snapshots \subseteq Docs

(* No strengthening is needed but the shapes of the records: a button that *)
(* is disabled cannot start a second writing, so that the end of one       *)
(* writing never takes away the only one of another button.                *)
IInv == PaneOK /\ HistoryReachesSnapshots /\ NoButtonStuck

(* The invariant holds at the start.                                       *)
LEMMA InitInv == Init => IInv
<1> SUFFICES ASSUME Init PROVE IInv
  OBVIOUS
<1>1. PaneOK
  BY DEF Init, PaneInit, Idle, PaneOK, CheckRecord, Modes
<1>2. HistoryReachesSnapshots /\ NoButtonStuck
  BY DEF Init, PaneInit, HistoryReachesSnapshots, NoButtonStuck
<1> QED
  BY <1>1, <1>2 DEF IInv

-----------------------------------------------------------------------------
(* Steps that leave the cards, the revisions and the storage alone.        *)
LEMMA CheckOnly ==
  ASSUME IInv, UNCHANGED <<list, writings, stored>>,
         screen' = "results" => screen = "results",
         check' \in CheckRecord,
         check'.step \in {"waiting", "seeding"} => check'.result \in Docs
  PROVE  IInv'
BY DEF IInv, PaneOK, HistoryReachesSnapshots, NoButtonStuck, stored, Listed

(* The cards are rendered anew: no button is disabled.                     *)
LEMMA RenderInv ==
  ASSUME IInv, NEW d \in Docs, Render(d), UNCHANGED <<stored>>,
         check' = check \/ check' = Idle
  PROVE  IInv'
<1>1. check' \in CheckRecord /\ (check'.step \in {"waiting", "seeding"} => check'.result \in Docs)
  BY DEF IInv, PaneOK, CheckRecord, Idle, Modes
<1>2. /\ list' \in [doc : Docs \cup {None}, accepted : SUBSET Cards, disabled : SUBSET Cards]
      /\ list'.doc = d
  BY DEF Render
<1>3. writings' \subseteq Writings
  BY DEF Render, IInv, PaneOK, Writings
<1>4. NoButtonStuck'
  BY DEF Render, NoButtonStuck
<1>5. snapshots' \subseteq Docs /\ HistoryReachesSnapshots'
  BY DEF IInv, PaneOK, HistoryReachesSnapshots, stored, Listed
<1> QED
  BY <1>1, <1>2, <1>3, <1>4, <1>5 DEF IInv, PaneOK

(* A result is taken: what is stored is cut to what is listed.             *)
LEMMA TakeResultInv ==
  ASSUME IInv, check.step = "waiting", TakeResult
  PROVE  IInv'
<1>1. check' \in CheckRecord /\ check'.result \in Docs
  BY DEF IInv, PaneOK, TakeResult, CheckRecord
<1>2. UNCHANGED <<list, writings, screen>>
  BY DEF TakeResult
<1>3. snapshots' \subseteq Docs /\ HistoryReachesSnapshots'
  <2>1. CASE check.mode = "full"
    <3>1. PICK full \in BOOLEAN : snapshots' = Snapshots(check.result, full)
      BY <2>1 DEF TakeResult
    <3>2. history' = Recorded(check.result)
      BY <2>1 DEF TakeResult
    <3>3. snapshots' \subseteq Listed(history')
      BY <3>1, <3>2 DEF Snapshots
    <3>4. snapshots' \subseteq Docs
      BY <3>1 DEF Snapshots, IInv, PaneOK
    <3> QED
      BY <3>3, <3>4 DEF HistoryReachesSnapshots, Listed
  <2>2. CASE check.mode # "full"
    BY <2>2 DEF TakeResult, IInv, PaneOK, HistoryReachesSnapshots, Listed
  <2> QED
    BY <2>1, <2>2
<1> QED
  BY <1>1, <1>2, <1>3 DEF IInv, PaneOK, NoButtonStuck

(* A check fails: the cards stay.                                          *)
LEMMA FailInv ==
  ASSUME IInv, Fail
  PROVE  IInv'
<1>1. check' = Idle /\ screen' = "home" /\ UNCHANGED <<list, writings, stored>>
  BY DEF Fail
<1>2. Idle \in CheckRecord /\ Idle.step = "none"
  BY DEF Idle, CheckRecord, Modes
<1> QED
  BY <1>1, <1>2, CheckOnly

-----------------------------------------------------------------------------
(* The buttons.                                                            *)
LEMMA PressInv ==
  ASSUME IInv, NEW c \in Cards, PressFix(c)
  PROVE  IInv'
<1> DEFINE new == [doc |-> list.doc, card |-> c, undo |-> c \in list.accepted,
                   current |-> TRUE, saved |-> FALSE]
<1>1. /\ list' = [list EXCEPT !.disabled = @ \cup {c}]
      /\ writings' = writings \cup {new}
      /\ UNCHANGED <<check, screen, stored>>
  BY DEF PressFix
<1>2. list \in [doc : Docs \cup {None}, accepted : SUBSET Cards, disabled : SUBSET Cards]
  BY DEF IInv, PaneOK
<1>3. list.doc \in Docs
  BY DEF PressFix, IInv, PaneOK
<1>4. /\ list' \in [doc : Docs \cup {None}, accepted : SUBSET Cards, disabled : SUBSET Cards]
      /\ list'.doc = list.doc /\ list'.disabled = list.disabled \cup {c}
  BY <1>1, <1>2
<1>5. new \in Writings
  BY <1>3 DEF Writings
<1>6. NoButtonStuck'
  <2> SUFFICES ASSUME NEW b \in list'.disabled
               PROVE  \E v \in writings' : v.current /\ v.doc = list'.doc /\ v.card = b
    BY DEF NoButtonStuck
  <2>1. CASE b = c
    <3>1. new.current /\ new.doc = list'.doc /\ new.card = b
      BY <1>4, <2>1
    <3> QED
      BY <1>1, <3>1
  <2>2. CASE b # c
    BY <1>1, <1>4, <2>2 DEF IInv, NoButtonStuck
  <2> QED
    BY <2>1, <2>2
<1>7. writings' \subseteq Writings
  BY <1>1, <1>5 DEF IInv, PaneOK
<1> QED
  BY <1>1, <1>3, <1>4, <1>6, <1>7 DEF IInv, PaneOK, HistoryReachesSnapshots, stored, Listed

(* A revision has been written, and the button goes on to its decision.    *)
LEMMA WrittenInv ==
  ASSUME IInv, NEW w \in writings, FixWritten(w)
  PROVE  IInv'
<1>1. /\ writings' = (writings \ {w}) \cup {[w EXCEPT !.saved = TRUE]}
      /\ UNCHANGED <<check, screen, list, history, snapshots>>
  BY DEF FixWritten
<1>2. w \in Writings
  BY DEF IInv, PaneOK
<1>3. [w EXCEPT !.saved = TRUE] \in Writings
  BY <1>2 DEF Writings
<1>4. NoButtonStuck'
  <2> SUFFICES ASSUME NEW c \in list.disabled
               PROVE  \E v \in writings' : v.current /\ v.doc = list.doc /\ v.card = c
    BY <1>1 DEF NoButtonStuck
  <2>1. PICK v \in writings : v.current /\ v.doc = list.doc /\ v.card = c
    BY DEF IInv, NoButtonStuck
  <2>2. CASE v # w
    BY <1>1, <2>1, <2>2
  <2>3. CASE v = w
    <3> DEFINE s == [w EXCEPT !.saved = TRUE]
    <3>1. s.current /\ s.doc = list.doc /\ s.card = c
      BY <1>2, <2>1, <2>3 DEF Writings
    <3> QED
      BY <1>1, <3>1
  <2> QED
    BY <2>2, <2>3
<1> QED
  BY <1>1, <1>3, <1>4 DEF IInv, PaneOK, HistoryReachesSnapshots, Listed

(* A writing ends and gives its button back.                               *)
LEMMA EndOfWriting ==
  ASSUME IInv, NEW w \in writings, writings' = writings \ {w},
         list' \in [doc : Docs \cup {None}, accepted : SUBSET Cards, disabled : SUBSET Cards],
         list'.doc = list.doc, list'.disabled \subseteq list.disabled,
         w.current => w.card \notin list'.disabled,
         UNCHANGED <<check, screen, history, snapshots>>
  PROVE  IInv'
<1>1. NoButtonStuck'
  <2> SUFFICES ASSUME NEW c \in list'.disabled
               PROVE  \E v \in writings' : v.current /\ v.doc = list'.doc /\ v.card = c
    BY DEF NoButtonStuck
  <2>1. PICK v \in writings : v.current /\ v.doc = list.doc /\ v.card = c
    BY DEF IInv, NoButtonStuck
  <2>2. v # w
    BY <2>1
  <2> QED
    BY <2>1, <2>2
<1> QED
  BY <1>1 DEF IInv, PaneOK, HistoryReachesSnapshots, Listed

(* The decision is shown: the button was started by that writing alone.    *)
LEMMA ShowInv ==
  ASSUME IInv, NEW w \in writings, ShowDecision(w)
  PROVE  IInv'
<1>1. /\ writings' = writings \ {w}
      /\ list' = [list EXCEPT !.accepted = IF w.undo THEN @ \ {w.card} ELSE @ \cup {w.card},
                              !.disabled = @ \ {w.card}]
      /\ UNCHANGED <<check, screen, history, snapshots>>
  BY DEF ShowDecision, stored
<1>2. list \in [doc : Docs \cup {None}, accepted : SUBSET Cards, disabled : SUBSET Cards]
      /\ w.card \in Cards
  BY DEF IInv, PaneOK, Writings
<1>3. /\ list' \in [doc : Docs \cup {None}, accepted : SUBSET Cards, disabled : SUBSET Cards]
      /\ list'.doc = list.doc /\ list'.disabled = list.disabled \ {w.card}
  BY <1>1, <1>2
<1> QED
  BY <1>1, <1>3, EndOfWriting

(* A revision fails: its button can be pressed again.                      *)
LEMMA FailedWritingInv ==
  ASSUME IInv, NEW w \in writings, FixFails(w)
  PROVE  IInv'
<1>1. /\ writings' = writings \ {w}
      /\ list' = [list EXCEPT !.disabled = StillDisabled(w)]
      /\ UNCHANGED <<check, screen, history, snapshots>>
  BY DEF FixFails, stored
<1>2. list \in [doc : Docs \cup {None}, accepted : SUBSET Cards, disabled : SUBSET Cards]
  BY DEF IInv, PaneOK
<1>3. StillDisabled(w) \subseteq list.disabled /\ (w.current => w.card \notin StillDisabled(w))
  BY DEF StillDisabled
<1>4. /\ list' \in [doc : Docs \cup {None}, accepted : SUBSET Cards, disabled : SUBSET Cards]
      /\ list'.doc = list.doc /\ list'.disabled = StillDisabled(w)
  BY <1>1, <1>2, <1>3
<1> QED
  BY <1>1, <1>3, <1>4, EndOfWriting

-----------------------------------------------------------------------------
(* The script goes on with what it awaited.                                *)
LEMMA ContinueInv ==
  ASSUME IInv, Continue
  PROVE  IInv'
<1>1. CASE ReadFails
  BY <1>1, FailInv DEF ReadFails
<1>2. CASE NothingSelected
  <2>1. Idle \in CheckRecord /\ Idle.step = "none"
    BY DEF Idle, CheckRecord, Modes
  <2> QED
    BY <1>2, <2>1, CheckOnly DEF NothingSelected
<1>3. CASE Submit
  <2>1. PICK r \in Requests, d \in Docs :
          check' = [check EXCEPT !.step = "waiting", !.request = r, !.result = d]
    BY <1>3 DEF Submit
  <2>2. check' \in CheckRecord /\ check'.result \in Docs
    BY <2>1 DEF IInv, PaneOK, CheckRecord
  <2>3. UNCHANGED <<screen, list, writings, stored>>
    BY <1>3 DEF Submit
  <2> QED
    BY <2>2, <2>3, CheckOnly
<1>4. CASE SubmitSelection
  <2>1. PICK d \in Docs : check' = [check EXCEPT !.step = "waiting", !.result = d]
    BY <1>4 DEF SubmitSelection
  <2>2. check' \in CheckRecord /\ check'.result \in Docs
    BY <2>1 DEF IInv, PaneOK, CheckRecord
  <2>3. screen' = "progress" /\ UNCHANGED <<list, writings, stored>>
    BY <1>4 DEF SubmitSelection
  <2> QED
    BY <2>2, <2>3, CheckOnly
<1>5. CASE Answered \/ SelectionAnswered
  BY <1>5, TakeResultInv, FailInv DEF Answered, SelectionAnswered
<1>6. CASE FinishCheck
  <2>1. check.result \in Docs
    BY <1>6 DEF FinishCheck, IInv, PaneOK
  <2> QED
    BY <1>6, <2>1, RenderInv DEF FinishCheck
<1> QED
  BY <1>1, <1>2, <1>3, <1>4, <1>5, <1>6 DEF Continue

(* What the user does.                                                     *)
LEMMA UserInv ==
  ASSUME IInv, User
  PROVE  IInv'
<1>1. ASSUME NEW mode \in Modes, Start(mode) PROVE IInv'
  <2>1. check' \in CheckRecord /\ check'.step = "reading"
    BY <1>1 DEF Start, Idle, CheckRecord
  <2> QED
    BY <1>1, <2>1, CheckOnly DEF Start
<1>2. ASSUME NEW s \in Screens, Show(s) PROVE IInv'
  BY <1>2, CheckOnly DEF Show, IInv, PaneOK
<1>3. ASSUME NEW d \in Docs, OpenHistory(d) PROVE IInv'
  BY <1>3, RenderInv DEF OpenHistory
<1>4. ASSUME NEW c \in Cards, PressFix(c) PROVE IInv'
  BY <1>4, PressInv
<1>5. CASE Reload
  <2>1. check' = Idle /\ screen' = "home" /\ writings' = {} /\ UNCHANGED stored
        /\ list' = [doc |-> None, accepted |-> {}, disabled |-> {}]
    BY <1>5 DEF Reload
  <2>2. Idle \in CheckRecord /\ Idle.step = "none"
    BY DEF Idle, CheckRecord, Modes
  <2> QED
    BY <2>1, <2>2 DEF IInv, PaneOK, HistoryReachesSnapshots, NoButtonStuck, stored, Listed
<1> QED
  BY <1>1, <1>2, <1>3, <1>4, <1>5 DEF User

(* Every step keeps the invariant.                                         *)
LEMMA StepInv == IInv /\ [Next]_vars => IInv'
<1> SUFFICES ASSUME IInv, [Next]_vars PROVE IInv'
  OBVIOUS
<1>1. ASSUME NEW r \in Requests, Server(r) PROVE IInv'
  BY <1>1, CheckOnly DEF Server, paneVars, IInv, PaneOK
<1>2. CASE Continue
  BY <1>2, ContinueInv
<1>3. CASE User
  BY <1>3, UserInv
<1>4. CASE LoseConnection
  BY <1>4, FailInv DEF LoseConnection
<1>5. ASSUME NEW w \in writings, FixWritten(w) \/ FixFails(w) \/ ShowDecision(w) PROVE IInv'
  BY <1>5, WrittenInv, FailedWritingInv, ShowInv
<1>6. CASE UNCHANGED vars
  BY <1>6, CheckOnly DEF vars, paneVars, IInv, PaneOK
<1> QED
  BY <1>1, <1>2, <1>3, <1>4, <1>5, <1>6 DEF Next

(* The invariant holds in every state.                                     *)
LEMMA Invariance == Spec => []IInv
BY InitInv, StepInv, PTL DEF Spec

(* Every snapshot in storage is of a document in the list of recent        *)
(* checks (history.js), however checks, failures of the storage and        *)
(* reloads follow each other.                                              *)
THEOREM HistoryReaches == Spec => []HistoryReachesSnapshots
<1>1. IInv => HistoryReachesSnapshots
  BY DEF IInv
<1> QED
  BY <1>1, Invariance, PTL

(* A button that is disabled waits for a revision that it started itself   *)
(* (ui.js), whichever cards are rendered and whichever writings end.       *)
THEOREM ButtonsComeBack == Spec => []NoButtonStuck
<1>1. IInv => NoButtonStuck
  BY DEF IInv
<1> QED
  BY <1>1, Invariance, PTL

-----------------------------------------------------------------------------
(* The reading of a document.  What has been parsed hangs together: every  *)
(* anchor has a block.                                                     *)
Parsed(bs, as) ==
  /\ IsSeq(bs) /\ IsSeq(as)
  /\ \A i \in DOMAIN as : as[i].block \in DOMAIN bs

Layout == Parsed(blocks, anchors)

(* The splitter makes a sequence of sentences.                             *)
LEMMA SplitIs ==
  ASSUME NEW t \in Texts
  PROVE  IsSeq(Split(t))
<1>1. CASE t = <<>>
  BY <1>1, EmptyIs DEF Split
<1>2. CASE t # <<>>
  <2>1. Len(t) \in Nat
    BY LenProperties DEF Texts
  <2>2. IsFiniteSet(1 .. Len(t)) /\ Ends(t) \subseteq 1 .. Len(t)
    BY <2>1, FS_Interval DEF Ends
  <2>3. Cardinality(Ends(t)) \in Nat
    BY <2>2, FS_Subset, FS_CardinalityType
  <2>4. Split(t) = [k \in 1 .. Cardinality(Ends(t)) |-> Split(t)[k]]
    BY <1>2 DEF Split
  <2> QED
    BY <2>3, <2>4, FunctionIsSeq
<1> QED
  BY <1>1, <1>2

(* A block added with its sentences keeps it so.                           *)
LEMMA AddKeeps ==
  ASSUME NEW read, Parsed(read.blocks, read.anchors), NEW block, block.text \in Texts
  PROVE  Parsed(Add(read, block).blocks, Add(read, block).anchors)
<1> DEFINE parts == Split(block.text)
           n == Len(read.anchors)
           b == [block EXCEPT !.sentences = [k \in DOMAIN parts |-> n + k]]
           more == [k \in DOMAIN parts |->
                      [text |-> parts[k].text, start |-> parts[k].start, block |-> Len(read.blocks) + 1]]
           bs == Append(read.blocks, b)
           as == read.anchors \o more
<1>0. IsSeq(read.blocks) /\ IsSeq(read.anchors)
  BY DEF Parsed
<1>1. Add(read, block).blocks = bs /\ Add(read, block).anchors = as
  BY DEF Add
<1>2. IsSeq(parts)
  BY SplitIs
<1> HIDE DEF parts
<1>3. IsSeq(more) /\ Len(more) = Len(parts)
  BY <1>2, FunctionIsSeq DEF IsSeq
<1>4. \A k \in DOMAIN more : more[k].block = Len(read.blocks) + 1
  OBVIOUS
<1> HIDE DEF more, b
<1>5. IsSeq(bs) /\ Len(bs) = Len(read.blocks) + 1
  BY <1>0, AppendIs
<1>6. /\ IsSeq(as) /\ Len(as) = n + Len(more)
      /\ \A k \in 1 .. n : as[k] = read.anchors[k]
      /\ \A k \in 1 .. Len(more) : as[n + k] = more[k]
  <2> DEFINE a == read.anchors
  <2>1. IsSeq(a)
    BY <1>0
  <2> HIDE DEF a
  <2>2. IsSeq(a \o more) /\ Len(a \o more) = Len(a) + Len(more)
    BY <2>1, <1>3, ConcatIs
  <2>3. \A k \in 1 .. Len(a) : (a \o more)[k] = a[k]
    BY <2>1, <1>3, ConcatIs, Zenon
  <2>4. ASSUME NEW k \in 1 .. Len(more) PROVE (a \o more)[Len(a) + k] = more[k]
    BY <2>1, <1>3, ConcatIs
  <2> QED
    BY <2>2, <2>3, <2>4 DEF a
<1> HIDE DEF bs, as
<1>7. /\ n \in Nat /\ Len(more) \in Nat /\ Len(read.blocks) \in Nat
      /\ DOMAIN more = 1 .. Len(more) /\ DOMAIN as = 1 .. n + Len(more)
      /\ DOMAIN bs = 1 .. Len(read.blocks) + 1 /\ DOMAIN read.blocks = 1 .. Len(read.blocks)
      /\ DOMAIN read.anchors = 1 .. n
  <2>2. n \in Nat /\ DOMAIN read.anchors = 1 .. n
    BY <1>0, SeqDomain
  <2>3. Len(read.blocks) \in Nat /\ DOMAIN read.blocks = 1 .. Len(read.blocks)
    BY <1>0, SeqDomain
  <2>4. DOMAIN bs = 1 .. Len(bs)
    BY <1>5, SeqDomain
  <2>5. DOMAIN as = 1 .. Len(as)
    BY <1>6, SeqDomain
  <2>6. Len(more) \in Nat /\ DOMAIN more = 1 .. Len(more)
    BY <1>3, SeqDomain
  <2> HIDE DEF n
  <2> QED
    BY <2>2, <2>3, <2>4, <2>5, <2>6, <1>5, <1>6
<1> HIDE DEF n
<1>8. ASSUME NEW i \in DOMAIN as PROVE as[i].block \in DOMAIN bs
  <2>1. CASE i \in 1 .. n
    <3>1. i \in DOMAIN read.anchors /\ as[i] = read.anchors[i]
      BY <2>1, <1>6, <1>7
    <3>2. read.anchors[i].block \in DOMAIN read.blocks
      BY <3>1 DEF Parsed
    <3>3. DOMAIN read.blocks \subseteq DOMAIN bs
      BY <1>7
    <3> QED
      BY <3>1, <3>2, <3>3
  <2>2. CASE i \notin 1 .. n
    <3>1. i - n \in 1 .. Len(more) /\ n + (i - n) = i
      BY <2>2, <1>7
    <3>2. as[i] = more[i - n]
      BY <3>1, <1>6
    <3> QED
      BY <3>1, <3>2, <1>4, <1>7
  <2> QED
    BY <2>1, <2>2
<1> QED
  BY <1>1, <1>5, <1>6, <1>8 DEF Parsed

(* While it is scanned the document is one, and the cursor has its fields. *)
CursorFields == {"para", "order", "table", "cell", "groups", "headings", "group", "previous"}
CursorOK == cursor = [x \in CursorFields |-> cursor[x]] /\ cursor.cell \in Nat
Scan == doc \in Document /\ at \in Nat \ {0} /\ CursorOK

(* A block that is added has the text of its anchors.                      *)
LEMMA KeepsLayout ==
  ASSUME NEW read, Parsed(read.blocks, read.anchors), NEW block, block.text \in Texts,
         Keep(Add(read, block))
  PROVE  Layout'
<1> DEFINE new == Add(read, block)
<1>1. Parsed(new.blocks, new.anchors)
  BY AddKeeps
<1>2. blocks' = new.blocks /\ anchors' = new.anchors
  BY DEF Keep
<1> HIDE DEF new
<1> QED
  BY <1>1, <1>2 DEF Layout

(* What is read so far hangs together.                                     *)
LEMMA ReadIs ==
  ASSUME Layout PROVE Parsed(Read.blocks, Read.anchors)
BY DEF Layout, Read

(* The text of a paragraph of the body, and the notes it cites.            *)
LEMMA ParagraphText ==
  ASSUME Scan, Reading("p") PROVE Here.text \in Texts /\ IsSeq(Here.refs)
<1>1. doc.body \in Seq(Element) /\ at \in 1 .. Len(doc.body)
  BY LenProperties DEF Scan, Document, Reading
<1>2. Here \in Element /\ Here.el = "p"
  BY <1>1, ElementOfSeq DEF Here, Reading
<1>3. Here.text \in Texts /\ Here.refs \in Seq(NoteId)
  BY <1>2 DEF Element
<1> QED
  BY <1>3, SeqIs

(* The text of a cell, and the notes it cites.                             *)
LEMMA CellText ==
  ASSUME Scan, Reading("t"), cursor.cell < Len(Here.cells)
  PROVE  /\ Here.cells[cursor.cell + 1].text \in Texts
         /\ IsSeq(Here.cells[cursor.cell + 1].refs)
<1>1. doc.body \in Seq(Element) /\ at \in 1 .. Len(doc.body)
  BY LenProperties DEF Scan, Document, Reading
<1>2. Here \in Element /\ Here.el = "t"
  BY <1>1, ElementOfSeq DEF Here, Reading
<1>3. Here.cells \in Seq(CellOfTable)
  BY <1>2 DEF Element
<1> DEFINE cells == Here.cells
<1>4. cells \in Seq(CellOfTable) /\ cursor.cell \in Nat /\ cursor.cell < Len(cells)
  BY <1>3 DEF Scan, CursorOK
<1> HIDE DEF cells
<1>5. cursor.cell + 1 \in 1 .. Len(cells)
  BY <1>4, LenProperties
<1>6. cells[cursor.cell + 1] \in CellOfTable
  BY <1>4, <1>5, ElementOfSeq
<1> DEFINE c == cells[cursor.cell + 1]
<1>7. c.text \in Texts /\ c.refs \in Seq(NoteId)
  BY <1>6 DEF CellOfTable
<1> QED
  BY <1>7, SeqIs DEF cells

(* The text of a note.                                                     *)
LEMMA NoteText ==
  ASSUME Scan, NoteAt >= 1, NoteAt <= Len(doc.notes)
  PROVE  doc.notes[NoteAt].text \in Texts
<1>1. doc.notes \in Seq(NoteParagraph) /\ doc.body \in Seq(Element)
  BY DEF Scan, Document
<1>2. Len(doc.notes) \in Nat /\ Len(doc.body) \in Nat /\ at \in Int
  BY <1>1, LenProperties DEF Scan
<1>3. NoteAt \in 1 .. Len(doc.notes)
  <2>1. NoteAt \in Int
    BY <1>2 DEF NoteAt
  <2> QED
    BY <1>2, <2>1
<1>4. doc.notes[NoteAt] \in NoteParagraph
  BY <1>1, <1>3, ElementOfSeq
<1> QED
  BY <1>4 DEF NoteParagraph

(* The scan goes on with the next element.                                 *)
LEMMA NextScan ==
  ASSUME Scan, Next1, CursorOK' PROVE Scan'
BY DEF Scan, Next1

(* Every step of the parsing keeps the layout and the cursor.              *)
LEMMA ParseScans ==
  ASSUME Layout, Scan, ParseStep
  PROVE  Layout' /\ Scan'
<1>1. CASE EmptyParagraph
  BY <1>1, NextScan DEF EmptyParagraph, CursorOK, CursorFields, Scan, Layout
<1>2. CASE Heading
  <2>1. PICK block : block.text = Here.text /\ Keep(Add(Read, block))
    BY <1>2 DEF Heading, Block
  <2>2. Here.text \in Texts
    BY <1>2, ParagraphText DEF Heading
  <2>3. Layout'
    BY <2>1, <2>2, KeepsLayout, ReadIs
  <2>4. CursorOK'
    BY <1>2 DEF Heading, Scan, CursorOK, CursorFields
  <2> QED
    BY <1>2, <2>3, <2>4, NextScan DEF Heading
<1>3. CASE ListItem
  <2>1. PICK block : /\ block.text = Here.text
                     /\ Keep(Add([Read EXCEPT !.blocks = WithLead], block))
    BY <1>3 DEF ListItem, Block
  <2>2. Here.text \in Texts
    BY <1>3, ParagraphText DEF ListItem
  <2>3. Parsed(WithLead, anchors)
    <3>1. WithLead = [k \in DOMAIN blocks |-> WithLead[k]] /\ DOMAIN WithLead = DOMAIN blocks
      <4>1. blocks = [k \in DOMAIN blocks |-> blocks[k]]
        BY SeqDomain DEF Layout, Parsed
      <4> QED
        BY <4>1 DEF WithLead
    <3>2. IsSeq(WithLead)
      BY <3>1, FunctionIsSeq, SeqDomain DEF Layout, Parsed
    <3> QED
      BY <3>1, <3>2 DEF Layout, Parsed
  <2> DEFINE read == [Read EXCEPT !.blocks = WithLead]
  <2>4. read.blocks = WithLead /\ read.anchors = anchors
    BY DEF Read
  <2> HIDE DEF read
  <2>5. Layout'
    BY <2>1, <2>2, <2>3, <2>4, KeepsLayout DEF read
  <2>6. CursorOK'
    BY <1>3 DEF ListItem, Scan, CursorOK, CursorFields
  <2> QED
    BY <1>3, <2>5, <2>6, NextScan DEF ListItem
<1>4. CASE Paragraph
  <2>1. PICK block : block.text = Here.text /\ Keep(Add(Read, block))
    BY <1>4 DEF Paragraph, Block
  <2>2. Layout'
    BY <1>4, <2>1, ParagraphText, KeepsLayout, ReadIs DEF Paragraph
  <2>3. CursorOK'
    BY <1>4 DEF Paragraph, Scan, CursorOK, CursorFields
  <2> QED
    BY <1>4, <2>2, <2>3, NextScan DEF Paragraph
<1>5. CASE TableCell
  <2>1. Layout'
    <3>1. CASE Here.cells[cursor.cell + 1].text = <<>>
      BY <1>5, <3>1 DEF TableCell, Layout
    <3>2. CASE Here.cells[cursor.cell + 1].text # <<>>
      <4>1. PICK block : /\ block.text = Here.cells[cursor.cell + 1].text
                         /\ Keep(Add(Read, block))
        BY <1>5, <3>2 DEF TableCell, Block
      <4> QED
        BY <1>5, <4>1, CellText, KeepsLayout, ReadIs DEF TableCell
    <3> QED
      BY <3>1, <3>2
  <2>2. CursorOK'
    <3>1. cursor' = [cursor EXCEPT !.cell = @ + 1]
      BY <1>5 DEF TableCell
    <3> QED
      BY <3>1 DEF Scan, CursorOK, CursorFields
  <2> QED
    BY <1>5, <2>1, <2>2 DEF TableCell, Scan
<1>6. CASE EndTable
  BY <1>6, NextScan DEF EndTable, CursorOK, CursorFields, Scan, Layout
<1>7. CASE Other
  BY <1>7, NextScan DEF Other, CursorOK, CursorFields, Scan, Layout
<1>8. CASE ReadNote
  <2>1. PICK block : block.text = doc.notes[NoteAt].text /\ Keep(Add(Read, block))
    BY <1>8 DEF ReadNote, Block
  <2>2. Layout'
    BY <1>8, <2>1, NoteText, KeepsLayout, ReadIs DEF ReadNote
  <2>3. CursorOK'
    BY <1>8 DEF ReadNote, Scan, CursorOK, CursorFields
  <2> QED
    BY <1>8, <2>2, <2>3, NextScan DEF ReadNote
<1>9. CASE EndBody
  BY <1>9 DEF EndBody, Scan, CursorOK, Layout
<1>10. CASE Relate
  <2>1. anchors' = anchors /\ DOMAIN blocks' = DOMAIN blocks /\ IsSeq(blocks')
    <3>1. IsSeq(blocks)
      BY DEF Layout, Parsed
    <3>2. blocks' = [k \in 1 .. Len(blocks) |-> blocks'[k]] /\ DOMAIN blocks' = DOMAIN blocks
      BY <1>10, <3>1, SeqDomain DEF Relate
    <3> QED
      BY <1>10, <3>1, <3>2, SeqDomain, FunctionIsSeq DEF Relate
  <2>2. Layout'
    BY <2>1 DEF Layout, Parsed
  <2> QED
    BY <1>10, <2>2 DEF Relate, Scan, CursorOK
<1>11. CASE BuildChunks
  BY <1>11 DEF BuildChunks, Scan, CursorOK, Layout
<1>12. CASE CheckDocument
  BY <1>12 DEF CheckDocument, parseVars, Scan, CursorOK, Layout
<1> QED
  BY <1>1, <1>2, <1>3, <1>4, <1>5, <1>6, <1>7, <1>8, <1>9, <1>10, <1>11, <1>12 DEF ParseStep

-----------------------------------------------------------------------------
(* The search through the relations.  A step of it looks only at what the  *)
(* search comes to with one block less.                                    *)
LEMMA SearchSame ==
  ASSUME NEW f, NEW g, NEW left, NEW k,
         \A t \in left : f[left \ {t}][t] = g[left \ {t}][t]
  PROVE  Search(f, left, k) = Search(g, left, k)
<1>1. \A t : Through(f, left, t) = Through(g, left, t)
  BY DEF Through
<1>2. \A way : /\ Decides(f, left, way) <=> Decides(g, left, way)
              /\ AnswerOf(f, left, way) = AnswerOf(g, left, way)
  BY <1>1 DEF Decides, AnswerOf
<1> QED
  BY <1>2 DEF Search

Smaller(m) == {v \in SUBSET DOMAIN blocks : Cardinality(v) < m}
SearchUpTo(g, m) == g = [v \in Smaller(m) |-> [k \in DOMAIN blocks |-> Search(g, v, k)]]

(* A set with one block less.                                              *)
LEMMA OneLess ==
  ASSUME IsFiniteSet(DOMAIN blocks), NEW m \in Nat, NEW left \in Smaller(m + 1), NEW t \in left
  PROVE  left \ {t} \in Smaller(m)
<1>1. IsFiniteSet(left) /\ left \in SUBSET DOMAIN blocks
  BY FS_Subset DEF Smaller
<1>2. Cardinality(left \ {t}) = Cardinality(left) - 1 /\ Cardinality(left) \in Nat
  BY <1>1, FS_RemoveElement, FS_CardinalityType
<1> QED
  BY <1>1, <1>2 DEF Smaller

(* The search has a solution for sets of any size.                         *)
LEMMA SearchExists ==
  ASSUME IsFiniteSet(DOMAIN blocks)
  PROVE  \A m \in Nat : \E g : SearchUpTo(g, m)
<1> DEFINE T == {m \in Nat : \E g : SearchUpTo(g, m)}
<1>1. 0 \in T
  <2>1. Smaller(0) = {}
    BY FS_Subset, FS_CardinalityType DEF Smaller
  <2> DEFINE g == [v \in {} |-> {}]
  <2>2. SearchUpTo(g, 0)
    BY <2>1 DEF SearchUpTo
  <2> QED
    BY <2>2
<1>2. ASSUME NEW m \in Nat, m \in T PROVE m + 1 \in T
  <2>1. PICK g : SearchUpTo(g, m)
    BY <1>2
  <2> DEFINE h == [v \in Smaller(m + 1) |-> [k \in DOMAIN blocks |-> Search(g, v, k)]]
  <2>2. \A u \in Smaller(m) : u \in Smaller(m + 1)
    BY FS_Subset, FS_CardinalityType DEF Smaller
  <2>3. \A u \in Smaller(m) : g[u] = h[u]
    <3>1. \A u \in Smaller(m) : h[u] = [k \in DOMAIN blocks |-> Search(g, u, k)]
      BY <2>2
    <3> HIDE DEF h
    <3> QED
      BY <2>1, <3>1 DEF SearchUpTo
  <2>4. ASSUME NEW v \in Smaller(m + 1), NEW k \in DOMAIN blocks
        PROVE  Search(h, v, k) = Search(g, v, k)
    <3>1. \A t \in v : h[v \ {t}][t] = g[v \ {t}][t]
      BY <2>3, OneLess
    <3> HIDE DEF h
    <3> QED
      BY <3>1, SearchSame
  <2>5. SearchUpTo(h, m + 1)
    <3> DEFINE e == [v \in Smaller(m + 1) |-> [k \in DOMAIN blocks |-> Search(h, v, k)]]
    <3>1. h = e
      BY <2>4
    <3> QED
      BY <3>1 DEF SearchUpTo
  <2> HIDE DEF h
  <2> QED
    BY <2>5
<1> HIDE DEF T
<1>3. Nat \subseteq T
  BY <1>1, <1>2, Rises
<1> QED
  BY <1>3 DEF T

(* The search is the solution of the recursion it is written as.           *)
LEMMA FollowEquation ==
  ASSUME IsFiniteSet(DOMAIN blocks)
  PROVE  Follow = [left \in SUBSET DOMAIN blocks |-> [k \in DOMAIN blocks |-> Search(Follow, left, k)]]
<1> DEFINE n == Cardinality(DOMAIN blocks) + 1
<1>1. n \in Nat
  BY FS_CardinalityType
<1>2. Smaller(n) = SUBSET DOMAIN blocks
  BY FS_Subset, FS_CardinalityType DEF Smaller
<1> HIDE DEF n
<1>3. PICK g : SearchUpTo(g, n)
  BY <1>1, SearchExists
<1>4. g = [left \in SUBSET DOMAIN blocks |-> [k \in DOMAIN blocks |-> Search(g, left, k)]]
  BY <1>2, <1>3 DEF SearchUpTo
<1> QED
  BY <1>4, Zenon DEF Follow

(* It comes to nothing or to what a block with a statute offers.           *)
Offers == {Offer(b) : b \in {c \in DOMAIN blocks : records[c] # <<>>}}
Answers == {Nothing} \cup Offers

(* One step of the search comes to nothing or to an offer.                 *)
LEMMA SearchFinds ==
  ASSUME RelationTargets, NEW f, NEW left \in SUBSET DOMAIN blocks, NEW k \in DOMAIN blocks,
         \A t \in left : f[left \ {t}][t] \in Answers
  PROVE  Search(f, left, k) \in Answers
<1> DEFINE rs == blocks[k].relations
           deciding == {n \in DOMAIN rs : Decides(f, left, rs[n])}
           first == {n \in deciding : \A m \in deciding : ~Ahead(k, m, n)}
<1>1. Nothing \in Answers
  BY DEF Answers
<1>2. CASE first = {}
  BY <1>1, <1>2 DEF Search
<1>3. CASE first # {}
  <2> DEFINE n == CHOOSE n \in first : TRUE
  <2>1. n \in DOMAIN rs
    BY <1>3
  <2>2. Search(f, left, k) = AnswerOf(f, left, rs[n])
    BY <1>3 DEF Search
  <2>3. rs[n].target \in DOMAIN blocks
    BY <2>1 DEF RelationTargets, ToSet
  <2> HIDE DEF n, rs
  <2>4. Through(f, left, rs[n].target) \in Answers
    BY <1>1 DEF Through
  <2>5. records[rs[n].target] # <<>> => Offer(rs[n].target) \in Answers
    BY <2>3 DEF Answers, Offers
  <2> QED
    BY <2>2, <2>4, <2>5 DEF AnswerOf
<1> QED
  BY <1>2, <1>3

(* So does the whole search, through however many blocks.                  *)
LEMMA FollowFinds ==
  ASSUME IsFiniteSet(DOMAIN blocks), RelationTargets,
         NEW left \in SUBSET DOMAIN blocks, NEW k \in DOMAIN blocks
  PROVE  Follow[left][k] \in Answers
<1> DEFINE T == {m \in Nat : \A v \in Smaller(m) : \A j \in DOMAIN blocks : Follow[v][j] \in Answers}
<1>1. 0 \in T
  <2>1. Smaller(0) = {}
    BY FS_Subset, FS_CardinalityType DEF Smaller
  <2> QED
    BY <2>1
<1>2. ASSUME NEW m \in Nat, m \in T PROVE m + 1 \in T
  <2>1. ASSUME NEW v \in Smaller(m + 1), NEW j \in DOMAIN blocks PROVE Follow[v][j] \in Answers
    <3>1. v \in SUBSET DOMAIN blocks
      BY DEF Smaller
    <3>2. \A t \in v : Follow[v \ {t}][t] \in Answers
      BY <1>2, <3>1, OneLess
    <3>3. Search(Follow, v, j) \in Answers
      BY <3>1, <3>2, SearchFinds
    <3>4. Follow[v][j] = Search(Follow, v, j)
      BY <3>1, FollowEquation
    <3> QED
      BY <3>3, <3>4
  <2> QED
    BY <2>1
<1> HIDE DEF T
<1>3. Cardinality(DOMAIN blocks) + 1 \in T
  BY <1>1, <1>2, Rises, FS_CardinalityType
<1>4. left \in Smaller(Cardinality(DOMAIN blocks) + 1)
  BY FS_Subset, FS_CardinalityType DEF Smaller
<1> QED
  BY <1>3, <1>4 DEF T

(* So does the search from a block.                                        *)
LEMMA AlongFinds ==
  ASSUME IsFiniteSet(DOMAIN blocks), RelationTargets, NEW k \in DOMAIN blocks
  PROVE  Along(k) \in Answers
BY FollowFinds DEF Along

-----------------------------------------------------------------------------
(* The sentences a block of statutes rests on.                             *)
TitlesIn(k) == UNION {TitlesOf(Sources(i)) : i \in Of(k)}

(* What is said to come from an anchor is named there, and where that is   *)
(* another block than k, it is all that block names.                       *)
Rests(title, origin, k) ==
  /\ origin \in DOMAIN anchors /\ title \in TitlesOf(Sources(origin))
  /\ Anchor(origin).block # k => TitlesIn(Anchor(origin).block) = {title}

Lent(sources, k) ==
  /\ sources = <<sources[1]>> /\ sources[1].form = "inherited"
  /\ Rests(sources[1].title, sources[1].origin, k)

(* A record holds what its anchor names, or what that has inherited.       *)
RecordOK(r, k) ==
  /\ r.anchor \in DOMAIN anchors /\ Anchor(r.anchor).block = k
  /\ (r.sources # <<>> /\ r.sources = Sources(r.anchor)) \/ Lent(r.sources, k)

Statute(s) == {"title", "form"} \subseteq DOMAIN s /\ s.form # "inherited"
NamedOK ==
  /\ IsSeq(named)
  /\ \A i \in DOMAIN named : IsSeq(named[i]) /\ \A k \in DOMAIN named[i] : Statute(named[i][k])

RecordsOK ==
  /\ records = [k \in DOMAIN blocks |-> records[k]]
  /\ \A k \in DOMAIN blocks :
       IsSeq(records[k]) /\ \A r \in ToSet(records[k]) : RecordOK(r, k)

RecordsFull ==
  \A i \in DOMAIN named : named[i] # <<>> =>
    [anchor |-> i, sources |-> named[i]] \in ToSet(records[Anchor(i).block])

(* What the recognition of the anchors works on.                           *)
Ready == Layout /\ RelationTargets /\ NamedOK /\ RecordsOK /\ RecordsFull /\ DOMAIN named = DOMAIN anchors

(* An answer of the search can be taken over into block k.                 *)
Gives(from, k) ==
  Rests(from.source[1].title,
        IF from.source[1].form = "inherited" THEN from.source[1].origin ELSE from.anchor, k)

(* A record has sources.                                                   *)
LEMMA RecordSources ==
  ASSUME NamedOK, DOMAIN named = DOMAIN anchors, NEW r, NEW k, RecordOK(r, k)
  PROVE  IsSeq(r.sources) /\ 1 \in DOMAIN r.sources
<1>1. CASE r.sources # <<>> /\ r.sources = Sources(r.anchor)
  <2>1. IsSeq(r.sources)
    BY <1>1 DEF NamedOK, RecordOK, Sources
  <2> QED
    BY <1>1, <2>1, NonEmptyIs
<1>2. CASE Lent(r.sources, k)
  <2>1. r.sources = <<r.sources[1]>>
    BY <1>2 DEF Lent
  <2> DEFINE x == r.sources[1]
  <2>2. IsSeq(<<x>>) /\ 1 \in DOMAIN <<x>>
    BY SingleIs
  <2> QED
    BY <2>1, <2>2
<1> QED
  BY <1>1, <1>2 DEF RecordOK

(* What a record offers may be lent to its own block, and to others where  *)
(* that block has no other title.                                          *)
LEMMA RecordGives ==
  ASSUME NamedOK, DOMAIN named = DOMAIN anchors,
         NEW b, NEW r, RecordOK(r, b),
         NEW from, from.anchor = r.anchor, from.source[1] = r.sources[1]
  PROVE  /\ Gives(from, b)
         /\ \A k : TitlesIn(b) \subseteq {from.source[1].title} => Gives(from, k)
<1> DEFINE s == r.sources[1]
           o == IF s.form = "inherited" THEN s.origin ELSE r.anchor
<1>1. Rests(s.title, o, b)
  <2>1. CASE r.sources # <<>> /\ r.sources = Sources(r.anchor)
    <3>1. r.anchor \in DOMAIN named /\ 1 \in DOMAIN named[r.anchor] /\ s = named[r.anchor][1]
      BY <2>1, RecordSources DEF RecordOK, Sources
    <3>2. o = r.anchor
      BY <3>1 DEF NamedOK, Statute
    <3> QED
      BY <3>1, <3>2, ZenonT(30) DEF Rests, RecordOK, Sources, TitlesOf
  <2>2. CASE Lent(r.sources, b)
    BY <2>2 DEF Lent
  <2> QED
    <3>1. (r.sources # <<>> /\ r.sources = Sources(r.anchor)) \/ Lent(r.sources, b)
      BY ZenonT(30) DEF RecordOK
    <3> QED
      BY <2>1, <2>2, <3>1
<1> HIDE DEF s
<1>2. ASSUME NEW k, TitlesIn(b) \subseteq {s.title} PROVE Rests(s.title, o, k)
  <2>1. CASE Anchor(o).block = b
    <3>1. TitlesOf(Sources(o)) \subseteq TitlesIn(b)
      BY <1>1, <2>1 DEF Rests, TitlesIn, Of, Anchor
    <3>2. TitlesIn(b) = {s.title}
      BY <1>1, <1>2, <3>1 DEF Rests
    <3> QED
      BY <1>1, <2>1, <3>2 DEF Rests
  <2>2. CASE Anchor(o).block # b
    BY <1>1, <2>2 DEF Rests
  <2> QED
    BY <2>1, <2>2
<1> QED
  BY <1>1, <1>2 DEF Gives, s

(* The titles a block names are among those of its records.                *)
LEMMA TitlesRecorded ==
  ASSUME Ready, NEW b \in DOMAIN blocks
  PROVE  TitlesIn(b) \subseteq AllTitles(b) /\ IsFiniteSet(AllTitles(b))
<1>1. ASSUME NEW i \in Of(b), NEW title \in TitlesOf(Sources(i)) PROVE title \in AllTitles(b)
  <2>1. i \in DOMAIN named /\ named[i] # <<>> /\ Anchor(i).block = b
    BY <1>1, NoTitles DEF Ready, Of, Anchor, Sources
  <2> DEFINE r == [anchor |-> i, sources |-> named[i]]
  <2>2. r \in ToSet(records[b])
    BY <2>1 DEF Ready, RecordsFull
  <2>3. TitlesOf(r.sources) \subseteq AllTitles(b)
    BY <2>2 DEF AllTitles
  <2> QED
    BY <1>1, <2>3 DEF Sources
<1>2. IsFiniteSet(AllTitles(b))
  <2> DEFINE R == ToSet(records[b])
             f == [r \in R |-> TitlesOf(r.sources)]
  <2>1. IsSeq(records[b]) /\ \A r \in R : RecordOK(r, b)
    BY DEF Ready, RecordsOK
  <2>2. IsFiniteSet(R)
    BY <2>1, SeqFinite
  <2>3. \A r \in R : IsFiniteSet(TitlesOf(r.sources))
    BY <2>1, RecordSources, TitlesFinite DEF Ready
  <2> HIDE DEF R
  <2>4. IsFiniteSet({f[r] : r \in R})
    BY <2>2, ImageFinite
  <2>5. IsFiniteSet(UNION {f[r] : r \in R})
    BY <2>3, <2>4, FS_UNION
  <2>6. {f[r] : r \in R} = {TitlesOf(r.sources) : r \in R}
    OBVIOUS
  <2> QED
    BY <2>5, <2>6 DEF AllTitles, R
<1> QED
  BY <1>1, <1>2 DEF TitlesIn

(* The first and the last record of a block.                               *)
LEMMA FirstRecord ==
  ASSUME Ready, NEW b \in DOMAIN blocks, records[b] # <<>>
  PROVE  /\ IsSeq(records[b])
         /\ records[b][1] \in ToSet(records[b]) /\ RecordOK(records[b][1], b)
         /\ records[b][Len(records[b])] \in ToSet(records[b])
         /\ RecordOK(records[b][Len(records[b])], b)
<1>1. IsSeq(records[b]) /\ \A r \in ToSet(records[b]) : RecordOK(r, b)
  BY DEF Ready, RecordsOK
<1>2. 1 \in DOMAIN records[b] /\ Len(records[b]) \in DOMAIN records[b]
  BY <1>1, NonEmptyIs
<1> QED
  BY <1>1, <1>2 DEF ToSet

(* What a block offers may be lent to any other.                           *)
LEMMA OfferGives ==
  ASSUME Ready, NEW b \in DOMAIN blocks, records[b] # <<>>, Offer(b) # Nothing, NEW k
  PROVE  Gives(Offer(b), k)
<1> DEFINE r == records[b][1]
<1>1. r \in ToSet(records[b]) /\ RecordOK(r, b)
  BY FirstRecord
<1>2. Offer(b) = FirstOf(b, 1) /\ Cardinality(AllTitles(b)) = 1
  BY DEF Offer
<1>3. PICK title : AllTitles(b) = {title}
  BY <1>2, TitlesRecorded, FS_Singleton
<1>4. r.sources[1].title \in AllTitles(b)
  <2>1. 1 \in DOMAIN r.sources
    BY <1>1, RecordSources DEF Ready
  <2> QED
    BY <1>1, <2>1 DEF AllTitles, TitlesOf
<1>5. TitlesIn(b) \subseteq {r.sources[1].title}
  BY <1>3, <1>4, TitlesRecorded
<1> HIDE DEF r
<1>6. Offer(b).anchor = r.anchor /\ Offer(b).source[1] = r.sources[1]
  BY <1>2 DEF FirstOf, r
<1> QED
  BY <1>1, <1>5, <1>6, RecordGives DEF Ready

(* A document has finitely many blocks.                                    *)
LEMMA BlocksFinite ==
  ASSUME Layout PROVE IsFiniteSet(DOMAIN blocks)
BY SeqFinite DEF Layout, Parsed

(* What the search finds may be lent.                                      *)
LEMMA AlongGives ==
  ASSUME Ready, NEW b \in DOMAIN blocks, Along(b) # Nothing, NEW k
  PROVE  Gives(Along(b), k)
<1>1. Along(b) \in Answers
  BY AlongFinds, BlocksFinite DEF Ready
<1>2. PICK c \in DOMAIN blocks : records[c] # <<>> /\ Along(b) = Offer(c)
  BY <1>1 DEF Answers, Offers
<1> QED
  BY <1>2, OfferGives

(* What an anchor inherits may be lent to its block.                       *)
LEMMA ResolveGives ==
  ASSUME Ready, NEW i \in DOMAIN anchors, Resolve(i) # Nothing
  PROVE  Gives(Resolve(i), Anchor(i).block)
<1> DEFINE k == Anchor(i).block
           latest == records[k][Len(records[k])]
           own == [anchor |-> latest.anchor, block |-> k, source |-> <<latest.sources[1]>>]
<1>1. k \in DOMAIN blocks
  BY DEF Ready, Layout, Parsed, Anchor
<1>2. CASE Resolve(i) = Along(k)
  BY <1>1, <1>2, AlongGives
<1>3. CASE Resolve(i) = own /\ records[k] # <<>>
  <2>1. RecordOK(latest, k)
    BY <1>1, <1>3, FirstRecord
  <2>2. Resolve(i).anchor = latest.anchor /\ Resolve(i).source[1] = latest.sources[1]
    BY <1>3
  <2> HIDE DEF latest, own
  <2> QED
    BY <2>1, <2>2, RecordGives DEF Ready
<1>4. \/ Resolve(i) = Along(k)
      \/ Resolve(i) = own /\ records[k] # <<>>
  BY DEF Resolve
<1> QED
  BY <1>2, <1>3, <1>4

(* Sources that are inherited were lent.                                   *)
LEMMA InheritedLent ==
  ASSUME Ready, NEW i \in DOMAIN anchors, NEW from,
         from # Nothing => Gives(from, Anchor(i).block),
         Inherited(i, from) # <<>>
  PROVE  from # Nothing /\ Lent(Inherited(i, from), Anchor(i).block)
<1>1. from # Nothing
  BY DEF Inherited
<1>2. PICK s : /\ Inherited(i, from) = <<s>>
               /\ s.title = from.source[1].title /\ s.form = "inherited"
               /\ s.origin = IF from.source[1].form = "inherited" THEN from.source[1].origin
                             ELSE from.anchor
  BY DEF Inherited
<1> QED
  BY <1>1, <1>2 DEF Lent, Gives

-----------------------------------------------------------------------------
(* Collecting what the anchors name.                                       *)
LEMMA RecordAppends ==
  ASSUME NEW b \in DOMAIN blocks, NEW i, NEW sources,
         records = [k \in DOMAIN blocks |-> records[k]],
         \A k \in DOMAIN blocks : IsSeq(records[k]),
         records' = Record(b, i, sources), DOMAIN blocks' = DOMAIN blocks
  PROVE  /\ records' = [k \in DOMAIN blocks' |-> records'[k]]
         /\ \A k \in DOMAIN blocks' :
              /\ IsSeq(records'[k])
              /\ ToSet(records'[k]) = ToSet(records[k]) \cup
                    (IF k = b THEN {[anchor |-> i, sources |-> sources]} ELSE {})
<1> DEFINE r == [anchor |-> i, sources |-> sources]
<1>1. /\ records' = [k \in DOMAIN blocks |-> records'[k]]
      /\ records'[b] = Append(records[b], r)
      /\ \A k \in DOMAIN blocks : k # b => records'[k] = records[k]
  BY DEF Record
<1> HIDE DEF r
<1>2. IsSeq(Append(records[b], r)) /\ ToSet(Append(records[b], r)) = ToSet(records[b]) \cup {r}
  BY AppendIs
<1> QED
  BY <1>1, <1>2 DEF r

(* The sources of a text are statutes that are named, never inherited      *)
(* ones.                                                                   *)
LEMMA LegalSourcesIs ==
  ASSUME NEW text
  PROVE  /\ IsSeq(LegalSources(text))
         /\ \A k \in DOMAIN LegalSources(text) : Statute(LegalSources(text)[k])
<1> DEFINE L == LegalSources(text)
           n == Cardinality(Statutes(text))
<1>1. n \in Nat
  BY CitationAssumption, FS_Subset, FS_CardinalityType DEF Statutes
<1>2. L = [k \in 1 .. n |-> L[k]] /\ \A k \in 1 .. n : Statute(L[k])
  <2>1. \A title : Statute(SourceOf(text, title))
    BY DEF SourceOf, Statute
  <2>2. \E order : L = [k \in 1 .. n |-> SourceOf(text, order[k])]
    BY Zenon DEF LegalSources
  <2> HIDE DEF L, n
  <2>3. PICK order : L = [k \in 1 .. n |-> SourceOf(text, order[k])]
    BY <2>2
  <2> QED
    BY <2>1, <2>3
<1>3. IsSeq(L) /\ DOMAIN L = 1 .. n
  BY <1>1, <1>2, FunctionIsSeq
<1> QED
  BY <1>2, <1>3

Own(r, k) ==
  /\ r.anchor \in DOMAIN named /\ Anchor(r.anchor).block = k
  /\ r.sources # <<>> /\ r.sources = named[r.anchor]

Collecting ==
  /\ Layout /\ RelationTargets /\ NamedOK /\ RecordsFull
  /\ at \in Nat \ {0} /\ Len(named) = at - 1 /\ Len(named) <= Len(anchors)
  /\ records = [k \in DOMAIN blocks |-> records[k]]
  /\ \A k \in DOMAIN blocks : IsSeq(records[k]) /\ \A r \in ToSet(records[k]) : Own(r, k)

(* Collecting keeps what the records hold.                                 *)
LEMMA CollectKeeps ==
  ASSUME Collecting, Collect PROVE Collecting'
<1>1. PICK sources : /\ IsSeq(sources) /\ \A k \in DOMAIN sources : Statute(sources[k])
                     /\ named' = Append(named, sources)
                     /\ records' = IF sources = <<>> THEN records ELSE Record(Anchor(at).block, at, sources)
  <2>1. IsSeq(<<>>) /\ DOMAIN <<>> = {}
    BY EmptyIs, SeqDomain
  <2> QED
    BY <2>1, LegalSourcesIs DEF Collect
<1>2. blocks' = blocks /\ anchors' = anchors /\ at' = at + 1 /\ at <= Len(anchors)
  BY DEF Collect, parseVars
<1>3. Layout' /\ RelationTargets'
  BY <1>2 DEF Collecting, Layout, RelationTargets
<1>4. /\ IsSeq(named') /\ Len(named') = Len(named) + 1
      /\ \A k \in 1 .. Len(named) : named'[k] = named[k]
      /\ named'[Len(named) + 1] = sources
  BY <1>1, AppendIs DEF Collecting, NamedOK
<1>5. /\ Len(named) \in Nat /\ Len(named) + 1 = at /\ Len(anchors) \in Nat
      /\ DOMAIN named = 1 .. Len(named) /\ DOMAIN named' = 1 .. Len(named) + 1
      /\ DOMAIN anchors = 1 .. Len(anchors)
  <2>1. IsSeq(named) /\ IsSeq(anchors)
    BY DEF Collecting, NamedOK, Layout, Parsed
  <2>2. DOMAIN named = 1 .. Len(named) /\ Len(named) \in Nat /\ DOMAIN anchors = 1 .. Len(anchors) /\ Len(anchors) \in Nat
    BY <2>1, SeqDomain
  <2>3. DOMAIN named' = 1 .. Len(named')
    BY <1>4, SeqDomain
  <2> QED
    BY <2>2, <2>3, <1>4 DEF Collecting
<1>6. NamedOK'
  <2>1. ASSUME NEW i \in DOMAIN named'
        PROVE  IsSeq(named'[i]) /\ \A k \in DOMAIN named'[i] : Statute(named'[i][k])
    <3>1. CASE i \in DOMAIN named
      BY <3>1, <1>4, <1>5 DEF Collecting, NamedOK
    <3>2. CASE i \notin DOMAIN named
      <4>1. i = Len(named) + 1
        BY <3>2, <1>5
      <4> QED
        BY <4>1, <1>1, <1>4
    <3> QED
      BY <3>1, <3>2
  <2> QED
    BY <2>1, <1>4 DEF NamedOK
<1>7. Anchor(at).block \in DOMAIN blocks
  BY <1>2, <1>5 DEF Collecting, Layout, Parsed, Anchor
<1> DEFINE new(k) == IF k = Anchor(at).block /\ sources # <<>>
                     THEN {[anchor |-> at, sources |-> sources]} ELSE {}
<1>8. /\ records' = [k \in DOMAIN blocks |-> records'[k]]
      /\ \A k \in DOMAIN blocks : IsSeq(records'[k]) /\ ToSet(records'[k]) = ToSet(records[k]) \cup new(k)
  <2>1. CASE sources = <<>>
    BY <2>1, <1>1 DEF Collecting
  <2>2. CASE sources # <<>>
    <3>1. records' = Record(Anchor(at).block, at, sources)
      BY <2>2, <1>1
    <3>2. /\ records' = [k \in DOMAIN blocks' |-> records'[k]]
          /\ \A k \in DOMAIN blocks' :
              /\ IsSeq(records'[k])
              /\ ToSet(records'[k]) = ToSet(records[k]) \cup
                    (IF k = Anchor(at).block THEN {[anchor |-> at, sources |-> sources]} ELSE {})
      BY <3>1, <1>2, <1>7, RecordAppends DEF Collecting
    <3> QED
      BY <3>2, <2>2, <1>2
  <2> QED
    BY <2>1, <2>2
<1>9. ASSUME NEW k \in DOMAIN blocks, NEW r \in ToSet(records'[k]) PROVE Own(r, k)'
  <2>1. CASE r \in ToSet(records[k])
    <3>1. Own(r, k)
      BY <2>1 DEF Collecting
    <3>2. r.anchor \in DOMAIN named' /\ named'[r.anchor] = named[r.anchor]
      BY <3>1, <1>4, <1>5 DEF Own
    <3> QED
      BY <3>1, <3>2, <1>2 DEF Own, Anchor
  <2>2. CASE r \in new(k)
    BY <2>2, <1>2, <1>4, <1>5 DEF Own, Anchor
  <2> QED
    BY <2>1, <2>2, <1>8
<1>10. RecordsFull'
  <2>1. ASSUME NEW i \in DOMAIN named', named'[i] # <<>>
        PROVE  [anchor |-> i, sources |-> named'[i]] \in ToSet(records'[Anchor(i).block])
    <3>1. i \in DOMAIN anchors /\ Anchor(i).block \in DOMAIN blocks
      <4>1. i \in DOMAIN anchors
        BY <1>2, <1>5
      <4> QED
        BY <4>1 DEF Collecting, Layout, Parsed, Anchor
    <3>2. CASE i \in DOMAIN named
      <4>1. named'[i] = named[i]
        BY <3>2, <1>4, <1>5
      <4>2. [anchor |-> i, sources |-> named[i]] \in ToSet(records[Anchor(i).block])
        BY <2>1, <3>2, <4>1 DEF Collecting, RecordsFull
      <4> QED
        BY <3>1, <4>1, <4>2, <1>8
    <3>3. CASE i \notin DOMAIN named
      <4>1. i = at /\ named'[i] = sources
        BY <3>3, <1>4, <1>5
      <4> QED
        BY <2>1, <3>1, <4>1, <1>8
    <3> QED
      BY <3>2, <3>3
  <2> QED
    BY <2>1, <1>2 DEF RecordsFull, Anchor
<1>11. at' \in Nat \ {0} /\ Len(named') = at' - 1 /\ Len(named') <= Len(anchors')
  BY <1>2, <1>4, <1>5
<1> QED
  BY <1>2, <1>3, <1>6, <1>8, <1>9, <1>10, <1>11 DEF Collecting

-----------------------------------------------------------------------------
(* Recognising the citations.                                              *)
SameReading == UNCHANGED <<blocks, anchors, named>>

(* The candidate of an anchor depends on the document alone.               *)
LEMMA SameCandidate ==
  ASSUME SameReading, NEW i PROVE LegalCandidate(i)' = LegalCandidate(i)
<1>1. /\ \A j : Anchor(j)' = Anchor(j) /\ Sources(j)' = Sources(j) /\ Text(j)' = Text(j)
      /\ anchors' = anchors
  BY DEF SameReading, Anchor, Sources, Text
<1>2. QuotedBefore(i)' = QuotedBefore(i)
  BY DEF SameReading, QuotedBefore, Anchor, Home, Text, StructurallyAdjacent
<1>3. Together(i, Explaining)' = Together(i, Explaining)
  BY DEF SameReading, Together, Anchor, Text, Sources, Explaining
<1> QED
  BY <1>1, <1>2, <1>3 DEF SameReading, LegalCandidate, Anchor, Sources, Text, Candidate, Shifted

(* So does whether a title rests on an anchor.                             *)
LEMMA SameRests ==
  ASSUME SameReading, NEW title, NEW origin, NEW k
  PROVE  Rests(title, origin, k)' <=> Rests(title, origin, k)
<1>1. \A b : TitlesIn(b)' = TitlesIn(b)
  BY DEF SameReading, TitlesIn, Of, Sources
<1> QED
  BY <1>1 DEF SameReading, Rests, Anchor, Sources

(* So does whether sources may be lent.                                    *)
LEMMA SameLent ==
  ASSUME SameReading, NEW sources, NEW k
  PROVE  Lent(sources, k)' <=> Lent(sources, k)
BY SameRests DEF Lent

(* So does whether a record is right.                                      *)
LEMMA SameRecord ==
  ASSUME SameReading, NEW r, NEW k
  PROVE  RecordOK(r, k)' <=> RecordOK(r, k)
BY SameLent DEF RecordOK, SameReading, Anchor, Sources

(* A candidate for a claim about the law is one an anchor makes of what it *)
(* names, or one made of what an anchor without a statute has inherited.   *)
OwnLaw(c) == \E i \in DOMAIN anchors : Sources(i) # <<>> /\ c = LegalCandidate(i)
LentLaw(c) ==
  /\ c.type = "law"
  /\ \E i \in DOMAIN anchors :
       /\ Sources(i) = <<>> /\ Lent(c.sources, Anchor(i).block)
       /\ c.anchors = <<i>> \/ \E f \in consumed : c.anchors = <<f, i>>
CaseLaw(c) == c.type # "law" /\ c.sources = <<>>
CandidatesOK ==
  IsSeq(candidates) /\ \A c \in ToSet(candidates) : CaseLaw(c) \/ OwnLaw(c) \/ LentLaw(c)

DeferredOK ==
  IsSeq(deferred) /\ \A i \in ToSet(deferred) : i \in DOMAIN anchors /\ Sources(i) # <<>>

(* What has become of an anchor that names a statute.                      *)
Accounted(i) ==
  LegalCandidate(i) \in ToSet(candidates) \/ i \in ToSet(deferred) \/ i \in consumed

Recognising ==
  /\ Ready /\ CandidatesOK /\ DeferredOK
  /\ at \in Nat \ {0}
  /\ \A i \in DOMAIN anchors : Sources(i) # <<>> /\ i < at => Accounted(i)

(* A candidate stays right as more cells are taken.                        *)
LEMMA SameLaw ==
  ASSUME SameReading, consumed \subseteq consumed', NEW c
  PROVE  /\ OwnLaw(c) => OwnLaw(c)'
         /\ LentLaw(c) => LentLaw(c)'
<1>1. OwnLaw(c) => OwnLaw(c)'
  <2>1. ASSUME NEW i \in DOMAIN anchors, Sources(i) # <<>>, c = LegalCandidate(i) PROVE OwnLaw(c)'
    <3>1. i \in DOMAIN anchors' /\ Sources(i)' # <<>>
      BY <2>1 DEF SameReading, Sources
    <3>2. c = LegalCandidate(i)'
      BY <2>1, SameCandidate
    <3> QED
      BY <3>1, <3>2 DEF OwnLaw
  <2> QED
    BY <2>1 DEF OwnLaw
<1>2. LentLaw(c) => LentLaw(c)'
  BY SameLent DEF SameReading, LentLaw, Anchor, Sources
<1> QED
  BY <1>1, <1>2

(* The candidates made of an anchor: its own statutes, or what was lent to *)
(* it.                                                                     *)
LEMMA LawCandidatesOK ==
  ASSUME Ready, NEW i \in DOMAIN anchors, NEW from, NEW lent,
         lent # <<>> => Sources(i) = <<>> /\ Lent(lent, Anchor(i).block)
  PROVE  /\ IsSeq(LawCandidates(i, from, lent))
         /\ \A c \in ToSet(LawCandidates(i, from, lent)) :
              \/ OwnLaw(c)
              \/ /\ c.type = "law" /\ Sources(i) = <<>> /\ Lent(c.sources, Anchor(i).block)
                 /\ c.anchors = <<i>> \/ (c.anchors = <<from.anchor, i>> /\ FromCell(from) /\ lent # <<>>)
         /\ Sources(i) # <<>> /\ ~Waits(i) => LegalCandidate(i) \in ToSet(LawCandidates(i, from, lent))
<1>1. CASE lent # <<>>
  <2> DEFINE c == InheritedCandidate(i, from, lent)
  <2>1. LawCandidates(i, from, lent) = <<c>>
    BY <1>1 DEF LawCandidates
  <2>2. /\ c.type = "law" /\ c.sources = lent
        /\ c.anchors = IF FromCell(from) THEN <<from.anchor, i>> ELSE <<i>>
    BY OneBefore DEF InheritedCandidate, Candidate
  <2> HIDE DEF c
  <2>3. IsSeq(<<c>>) /\ ToSet(<<c>>) = {c}
    BY SingleIs
  <2> QED
    BY <1>1, <2>1, <2>2, <2>3
<1>2. CASE lent = <<>> /\ Sources(i) # <<>> /\ ~Waits(i)
  <2>1. LawCandidates(i, from, lent) = <<LegalCandidate(i)>>
    BY <1>2 DEF LawCandidates
  <2>2. IsSeq(<<LegalCandidate(i)>>) /\ ToSet(<<LegalCandidate(i)>>) = {LegalCandidate(i)}
    BY SingleIs
  <2> QED
    BY <1>2, <2>1, <2>2 DEF OwnLaw
<1>3. CASE lent = <<>> /\ ~(Sources(i) # <<>> /\ ~Waits(i))
  BY <1>3, EmptyIs DEF LawCandidates
<1> QED
  BY <1>1, <1>2, <1>3

(* The candidates made of an anchor's cases.                               *)
LEMMA CaseCandidatesOK ==
  ASSUME NEW i
  PROVE  IsSeq(CaseCandidates(i)) /\ \A c \in ToSet(CaseCandidates(i)) : CaseLaw(c)
<1>1. CaseLaw(CaseCandidate(i))
  BY DEF CaseLaw, CaseCandidate, Candidate
<1>2. IsSeq(<<CaseCandidate(i)>>) /\ ToSet(<<CaseCandidate(i)>>) = {CaseCandidate(i)}
  BY SingleIs
<1> QED
  BY <1>1, <1>2, EmptyIs DEF CaseCandidates

(* What recognition rests on, when records are added.                      *)
LEMMA SameReady ==
  ASSUME Ready, SameReading, RecordsOK', RecordsFull'
  PROVE  Ready'
BY DEF Ready, SameReading, Layout, RelationTargets, NamedOK

(* What recognition rests on, when none are.                               *)
LEMMA SameRecords ==
  ASSUME Ready, SameReading, UNCHANGED records PROVE Ready'
<1>1. RecordsOK'
  BY SameRecord DEF Ready, RecordsOK, SameReading
<1>2. RecordsFull'
  BY DEF Ready, RecordsFull, SameReading, Anchor
<1> QED
  BY <1>1, <1>2, SameReady

(* Recognising an anchor keeps the invariant of recognition.               *)
LEMMA RecogniseKeeps ==
  ASSUME Recognising, Recognise PROVE Recognising'
<1>1. PICK from, lent :
        /\ from = IF LooksBack(at) THEN Resolve(at) ELSE Nothing
        /\ lent = Inherited(at, from)
        /\ candidates' = candidates \o LawCandidates(at, from, lent) \o CaseCandidates(at)
        /\ IF lent = <<>> THEN UNCHANGED <<records, consumed>>
           ELSE /\ records' = Record(Anchor(at).block, at, lent)
                /\ consumed' = IF FromCell(from) THEN consumed \cup {from.anchor} ELSE consumed
  BY DEF Recognise
<1>2. /\ SameReading /\ at' = at + 1 /\ at <= Len(anchors)
      /\ deferred' = IF Waits(at) THEN Append(deferred, at) ELSE deferred
  BY DEF Recognise, parseVars, SameReading
<1>3. at \in DOMAIN anchors /\ Anchor(at).block \in DOMAIN blocks
  <2>1. IsSeq(anchors)
    BY DEF Recognising, Ready, Layout, Parsed
  <2>2. at \in DOMAIN anchors
    BY <1>2, <2>1, SeqDomain DEF Recognising
  <2> QED
    BY <2>2 DEF Recognising, Ready, Layout, Parsed, Anchor
<1>4. ASSUME lent # <<>>
      PROVE  Sources(at) = <<>> /\ from # Nothing /\ Lent(lent, Anchor(at).block)
  <2>1. Inherited(at, Nothing) = <<>>
    BY DEF Inherited
  <2>2. LooksBack(at) /\ from = Resolve(at) /\ from # Nothing
    BY <1>1, <1>4, <2>1
  <2>3. Gives(from, Anchor(at).block)
    BY <1>3, <2>2, ResolveGives DEF Recognising
  <2>4. Lent(lent, Anchor(at).block)
    BY <1>1, <1>3, <1>4, <2>3, InheritedLent DEF Recognising
  <2> QED
    BY <2>2, <2>4 DEF LooksBack
<1>5. Ready'
  <2>1. CASE lent = <<>>
    BY <2>1, <1>1, <1>2, SameRecords DEF Recognising
  <2>2. CASE lent # <<>>
    <3> DEFINE b == Anchor(at).block
    <3>1. /\ records' = [k \in DOMAIN blocks' |-> records'[k]]
          /\ \A k \in DOMAIN blocks' :
              /\ IsSeq(records'[k])
              /\ ToSet(records'[k]) = ToSet(records[k]) \cup
                    (IF k = b THEN {[anchor |-> at, sources |-> lent]} ELSE {})
      <4>1. records' = Record(b, at, lent) /\ DOMAIN blocks' = DOMAIN blocks /\ b \in DOMAIN blocks
        BY <1>1, <1>2, <1>3, <2>2 DEF SameReading
      <4>2. records = [k \in DOMAIN blocks |-> records[k]] /\ \A k \in DOMAIN blocks : IsSeq(records[k])
        BY DEF Recognising, Ready, RecordsOK
      <4> QED
        BY <4>1, <4>2, RecordAppends
    <3>2. RecordOK([anchor |-> at, sources |-> lent], b)
      BY <1>3, <1>4, <2>2 DEF RecordOK
    <3>3. \A k \in DOMAIN blocks' : \A r \in ToSet(records'[k]) : RecordOK(r, k)
      BY <3>1, <3>2, <1>2 DEF Recognising, Ready, RecordsOK, SameReading
    <3>4. RecordsOK'
      BY <3>1, <3>3, <1>2, SameRecord DEF RecordsOK
    <3>5. RecordsFull'
      <4>1. ASSUME NEW i \in DOMAIN named, named[i] # <<>>
            PROVE  [anchor |-> i, sources |-> named[i]] \in ToSet(records'[Anchor(i).block])
        <5>1. Anchor(i).block \in DOMAIN blocks'
          BY <1>2 DEF Recognising, Ready, Layout, Parsed, Anchor, SameReading
        <5>2. [anchor |-> i, sources |-> named[i]] \in ToSet(records[Anchor(i).block])
          BY <4>1 DEF Recognising, Ready, RecordsFull
        <5> QED
          BY <5>1, <5>2, <3>1
      <4> QED
        BY <4>1, <1>2 DEF RecordsFull, SameReading, Anchor
    <3> QED
      BY <3>4, <3>5, <1>2, SameReady DEF Recognising
  <2> QED
    BY <2>1, <2>2
<1>6. consumed \subseteq consumed' /\ (lent # <<>> /\ FromCell(from) => from.anchor \in consumed')
  BY <1>1
<1> DEFINE L == LawCandidates(at, from, lent)
           C == CaseCandidates(at)
<1>7. /\ IsSeq(L) /\ IsSeq(C) /\ \A c \in ToSet(C) : CaseLaw(c)
      /\ \A c \in ToSet(L) :
              \/ OwnLaw(c)
              \/ /\ c.type = "law" /\ Sources(at) = <<>> /\ Lent(c.sources, Anchor(at).block)
                 /\ c.anchors = <<at>> \/ (c.anchors = <<from.anchor, at>> /\ FromCell(from) /\ lent # <<>>)
      /\ Sources(at) # <<>> /\ ~Waits(at) => LegalCandidate(at) \in ToSet(L)
  BY <1>3, <1>4, LawCandidatesOK, CaseCandidatesOK DEF Recognising
<1> HIDE DEF L, C
<1>8. IsSeq(candidates') /\ ToSet(candidates') = ToSet(candidates) \cup ToSet(L) \cup ToSet(C)
  <2>1. IsSeq(candidates \o L) /\ ToSet(candidates \o L) = ToSet(candidates) \cup ToSet(L)
    BY <1>7, ConcatIs DEF Recognising, CandidatesOK
  <2>2. /\ IsSeq((candidates \o L) \o C)
        /\ ToSet((candidates \o L) \o C) = ToSet(candidates \o L) \cup ToSet(C)
    BY <1>7, <2>1, ConcatIs
  <2>3. candidates' = (candidates \o L) \o C
    BY <1>1 DEF L, C
  <2> QED
    BY <2>1, <2>2, <2>3
<1>9. CandidatesOK'
  <2>1. ASSUME NEW c \in ToSet(candidates') PROVE CaseLaw(c) \/ OwnLaw(c)' \/ LentLaw(c)'
    <3>1. CASE c \in ToSet(candidates)
      BY <3>1, <1>2, <1>6, SameLaw DEF Recognising, CandidatesOK
    <3>2. CASE c \in ToSet(C)
      BY <3>2, <1>7
    <3>3. CASE c \in ToSet(L) /\ ~OwnLaw(c)
      <4>1. /\ c.type = "law" /\ Sources(at) = <<>> /\ Lent(c.sources, Anchor(at).block)
            /\ c.anchors = <<at>> \/ (c.anchors = <<from.anchor, at>> /\ FromCell(from) /\ lent # <<>>)
        BY <3>3, <1>7
      <4>2. PICK i, b : i = at /\ b = Anchor(i).block
        OBVIOUS
      <4>3. Lent(c.sources, b)'
        BY <4>1, <4>2, <1>2, SameLent
      <4>4. i \in DOMAIN anchors' /\ Sources(i)' = <<>> /\ Anchor(i)'.block = b
        BY <4>1, <4>2, <1>2, <1>3 DEF SameReading, Sources, Anchor
      <4>5. c.anchors = <<i>> \/ \E f \in consumed' : c.anchors = <<f, i>>
        BY <4>1, <4>2, <1>6
      <4>6. Lent(c.sources, Anchor(i).block)'
        BY <4>3, <4>4
      <4> QED
        BY <4>1, <4>4, <4>5, <4>6 DEF LentLaw
    <3>4. CASE c \in ToSet(L) /\ OwnLaw(c)
      BY <3>4, <1>2, <1>6, SameLaw
    <3> QED
      BY <3>1, <3>2, <3>3, <3>4, <1>8
  <2> QED
    BY <2>1, <1>8 DEF CandidatesOK, CaseLaw
<1>10. IsSeq(deferred') /\ ToSet(deferred') = ToSet(deferred) \cup (IF Waits(at) THEN {at} ELSE {})
  BY <1>2, AppendIs DEF Recognising, DeferredOK
<1>11. DeferredOK'
  BY <1>2, <1>3, <1>10 DEF Recognising, DeferredOK, Waits, SameReading, Sources
<1>12. ASSUME NEW i \in DOMAIN anchors', Sources(i)' # <<>>, i < at' PROVE Accounted(i)'
  <2>1. i \in DOMAIN anchors /\ Sources(i) # <<>> /\ LegalCandidate(i)' = LegalCandidate(i)
    BY <1>2, <1>12, SameCandidate DEF SameReading, Sources
  <2>2. CASE i = at
    BY <2>1, <2>2, <1>7, <1>8, <1>10 DEF Accounted
  <2>3. CASE i # at
    <3>1. i < at
      <4>1. DOMAIN anchors = 1 .. Len(anchors) /\ Len(anchors) \in Nat
        BY SeqDomain DEF Recognising, Ready, Layout, Parsed
      <4> QED
        BY <4>1, <2>1, <2>3, <1>2, <1>12 DEF Recognising
    <3>2. Accounted(i)
      BY <2>1, <3>1 DEF Recognising
    <3> QED
      BY <2>1, <3>2, <1>6, <1>8, <1>10 DEF Accounted
  <2> QED
    BY <2>2, <2>3
<1>13. at' \in Nat \ {0}
  BY <1>2 DEF Recognising
<1> QED
  BY <1>5, <1>9, <1>11, <1>12, <1>13 DEF Recognising

(* So does taking up a candidate that was deferred.                        *)
LEMMA UndeferKeeps ==
  ASSUME Recognising, Undefer PROVE Recognising'
<1> DEFINE d == Head(deferred)
<1>1. /\ SameReading /\ UNCHANGED <<at, records, consumed>> /\ deferred # <<>> /\ deferred' = Tail(deferred)
      /\ candidates' = IF d \in consumed THEN candidates ELSE Append(candidates, LegalCandidate(d))
  BY DEF Undefer, parseVars, SameReading
<1>2. Ready'
  BY <1>1, SameRecords DEF Recognising
<1>3. IsSeq(deferred') /\ ToSet(deferred) = {d} \cup ToSet(deferred')
  BY <1>1, TailIs DEF Recognising, DeferredOK
<1>4. d \in DOMAIN anchors /\ Sources(d) # <<>>
  BY <1>3 DEF Recognising, DeferredOK
<1>5. DeferredOK'
  BY <1>1, <1>3 DEF Recognising, DeferredOK, SameReading, Sources
<1> HIDE DEF d
<1>6. /\ IsSeq(candidates')
      /\ ToSet(candidates') = ToSet(candidates) \cup (IF d \in consumed THEN {} ELSE {LegalCandidate(d)})
  BY <1>1, AppendIs DEF Recognising, CandidatesOK
<1>7. CandidatesOK'
  <2>1. ASSUME NEW c \in ToSet(candidates') PROVE CaseLaw(c) \/ OwnLaw(c)' \/ LentLaw(c)'
    <3>1. CaseLaw(c) \/ OwnLaw(c) \/ LentLaw(c)
      BY <1>4, <1>6 DEF Recognising, CandidatesOK, OwnLaw
    <3> QED
      BY <3>1, <1>1, SameLaw
  <2> QED
    BY <2>1, <1>6 DEF CandidatesOK, CaseLaw
<1>8. ASSUME NEW i \in DOMAIN anchors', Sources(i)' # <<>>, i < at' PROVE Accounted(i)'
  <2>1. i \in DOMAIN anchors /\ Sources(i) # <<>> /\ LegalCandidate(i)' = LegalCandidate(i)
    BY <1>1, <1>8, SameCandidate DEF SameReading, Sources
  <2>2. Accounted(i)
    BY <2>1, <1>1, <1>8 DEF Recognising
  <2> QED
    BY <2>1, <2>2, <1>1, <1>3, <1>6 DEF Accounted
<1> QED
  BY <1>1, <1>2, <1>5, <1>7, <1>8 DEF Recognising

(* The invariant of recognition when all anchors are collected.            *)
LEMMA RecognitionBegins ==
  ASSUME Collecting, at > Len(anchors), candidates = <<>>, deferred = <<>>, EndCollect
  PROVE  Recognising'
<1>1. /\ SameReading /\ UNCHANGED <<blocks, anchors, named, records, candidates, deferred, consumed>> /\ at' = 1
  BY DEF EndCollect, parseVars, claimVars, SameReading
<1>2. DOMAIN named = DOMAIN anchors
  <2>1. IsSeq(named) /\ IsSeq(anchors)
    BY DEF Collecting, NamedOK, Layout, Parsed
  <2>2. DOMAIN named = 1 .. Len(named) /\ DOMAIN anchors = 1 .. Len(anchors) /\ Len(named) \in Nat /\ Len(anchors) \in Nat
    BY <2>1, SeqDomain
  <2> QED
    BY <2>2 DEF Collecting
<1>3. RecordsOK
  BY <1>2 DEF Collecting, RecordsOK, RecordOK, Own, Sources
<1>4. Ready'
  BY <1>1, <1>2, <1>3, SameRecords DEF Collecting, Ready
<1>5. CandidatesOK' /\ DeferredOK'
  BY <1>1, EmptyIs DEF CandidatesOK, DeferredOK
<1>6. \A i \in DOMAIN anchors : ~(i < 1)
  BY SeqDomain DEF Collecting, Layout, Parsed
<1> QED
  BY <1>1, <1>4, <1>5, <1>6 DEF Recognising

-----------------------------------------------------------------------------
(* Ruling on the candidates.  What goes together with an anchor is a run   *)
(* of anchors that name nothing.                                           *)
LEMMA TogetherIs ==
  ASSUME IsSeq(anchors), NEW i \in DOMAIN anchors, NEW going
  PROVE  LET t == Together(i, going)
         IN  \E latest \in i .. Len(anchors) :
               /\ IsSeq(t) /\ Len(t) = latest - i + 1 /\ ToSet(t) = i .. latest
               /\ \A n \in 1 .. Len(t) : t[n] = i + n - 1
               /\ \A j \in i + 1 .. latest : j \in going
<1> DEFINE S == {j \in i .. Len(anchors) :
                   \A n \in i + 1 .. j : Anchor(n).block = Anchor(i).block /\ n \in going}
           latest == Max(S)
           t == [n \in 1 .. latest - i + 1 |-> i + n - 1]
<1>1. Len(anchors) \in Nat /\ i \in 1 .. Len(anchors)
  BY SeqDomain
<1>2. S \subseteq 0 .. Len(anchors) /\ i \in S
  BY <1>1
<1>3. latest \in S
  <2> HIDE DEF S
  <2> QED
    BY <1>1, <1>2, MaxIs
<1>4. latest \in i .. Len(anchors) /\ \A j \in i + 1 .. latest : j \in going
  BY <1>3
<1>5. Together(i, going) = t
  BY DEF Together
<1> HIDE DEF latest
<1>6. latest - i + 1 \in Nat /\ latest \in Int /\ i \in Int
  BY <1>1, <1>4
<1>7. IsSeq(t) /\ Len(t) = latest - i + 1 /\ DOMAIN t = 1 .. latest - i + 1
  BY <1>6, FunctionIsSeq
<1>8. ToSet(t) = i .. latest
  <2>1. ToSet(t) = {i + n - 1 : n \in 1 .. latest - i + 1}
    BY <1>7 DEF ToSet
  <2>2. ASSUME NEW x \in i .. latest PROVE \E n \in 1 .. latest - i + 1 : x = i + n - 1
    <3>1. x - i + 1 \in 1 .. latest - i + 1 /\ x = i + (x - i + 1) - 1
      BY <1>6
    <3> QED
      BY <3>1
  <2>3. \A n \in 1 .. latest - i + 1 : i + n - 1 \in i .. latest
    BY <1>1, <1>6
  <2> QED
    BY <2>1, <2>2, <2>3
<1> QED
  BY <1>4, <1>5, <1>7, <1>8

(* The candidate of an anchor that names a statute has all it names.       *)
LEMMA LegalIs ==
  ASSUME Ready, NEW i \in DOMAIN anchors
  PROVE  LET c == LegalCandidate(i)
         IN  /\ c.type = "law" /\ i \in ToSet(c.anchors) /\ HardChecked(c)
             /\ \A j \in ToSet(c.anchors) : j = i \/ Sources(j) = <<>> \/ (j = i - 1 /\ QuotedBefore(i))
             /\ IsSeq(c.sources) /\ TitlesOf(c.sources) = TitlesOf(Sources(i))
             /\ \A k \in DOMAIN c.sources : Statute(c.sources[k])
<1> DEFINE c == LegalCandidate(i)
<1>1. IsSeq(anchors) /\ Len(anchors) \in Nat /\ DOMAIN anchors = 1 .. Len(anchors)
  BY SeqDomain DEF Ready, Layout, Parsed
<1>2. IsSeq(Sources(i)) /\ \A k \in DOMAIN Sources(i) : Statute(Sources(i)[k])
  BY DEF Ready, NamedOK, Sources
<1>3. CASE QuotedBefore(i)
  <2> DEFINE ids == <<i - 1, i>>
             moved == Shifted(Sources(i), Len(Text(i - 1)))
  <2>1. c.type = "law" /\ c.anchors = ids /\ c.sources = moved
    BY <1>3 DEF LegalCandidate, Candidate
  <2>2. i > 1 /\ i - 1 \in DOMAIN anchors /\ i - 1 \in Nat
    BY <1>1, <1>3 DEF QuotedBefore
  <2>3. DOMAIN ids = 1 .. 2 /\ Len(ids) = 2 /\ ids[1] = i - 1 /\ ids[2] = i /\ ids # <<>>
    OBVIOUS
  <2>4. ToSet(ids) = {i - 1, i}
    <3> HIDE DEF ids
    <3>1. 1 .. 2 = {1, 2}
      OBVIOUS
    <3> QED
      BY <2>3, <3>1 DEF ToSet
  <2> HIDE DEF ids
  <2>5. ToSet(ids) = (i - 1) .. (i - 1) + Len(ids) - 1
    <3>1. (i - 1) + Len(ids) - 1 = i /\ i \in Int
      BY <1>1, <2>3
    <3>2. (i - 1) .. i = {i - 1, i}
      BY <3>1
    <3> QED
      BY <2>4, <3>1, <3>2
  <2>6. Continuous(ids)
    BY <2>4, <2>5 DEF Continuous
  <2>7. HardChecked(c)
    BY <2>1, <2>2, <2>3, <2>4, <2>6 DEF HardChecked
  <2>8. /\ DOMAIN moved = DOMAIN Sources(i) /\ moved = [k \in DOMAIN Sources(i) |-> moved[k]]
        /\ \A k \in DOMAIN Sources(i) : /\ moved[k].title = Sources(i)[k].title
                                       /\ moved[k].form = Sources(i)[k].form
                                       /\ DOMAIN moved[k] = DOMAIN Sources(i)[k]
    BY <1>2 DEF Shifted, Statute
  <2> HIDE DEF moved
  <2>9. IsSeq(moved)
    BY <1>2, <2>8, SeqDomain, FunctionIsSeq
  <2>10. TitlesOf(moved) = TitlesOf(Sources(i))
    BY <2>8 DEF TitlesOf
  <2>11. \A k \in DOMAIN moved : Statute(moved[k])
    BY <1>2, <2>8 DEF Statute
  <2> HIDE DEF c
  <2> QED
    BY <1>3, <2>1, <2>4, <2>7, <2>9, <2>10, <2>11 DEF c
<1>4. CASE ~QuotedBefore(i)
  <2> DEFINE ids == Together(i, Explaining)
  <2>1. c.type = "law" /\ c.anchors = ids /\ c.sources = Sources(i)
    BY <1>4 DEF LegalCandidate, Candidate
  <2>2. PICK latest \in i .. Len(anchors) :
          /\ IsSeq(ids) /\ Len(ids) = latest - i + 1 /\ ToSet(ids) = i .. latest
          /\ \A j \in i + 1 .. latest : Sources(j) = <<>>
    <3>1. PICK latest \in i .. Len(anchors) :
            /\ IsSeq(ids) /\ Len(ids) = latest - i + 1 /\ ToSet(ids) = i .. latest
            /\ \A j \in i + 1 .. latest : j \in Explaining
      BY <1>1, TogetherIs
    <3>2. \A j \in i + 1 .. latest : Sources(j) = <<>>
      BY <3>1 DEF Explaining
    <3> QED
      BY <3>1, <3>2
  <2> HIDE DEF ids
  <2>3. i \in Int /\ latest \in Int /\ i <= latest /\ latest <= Len(anchors) /\ 1 <= i
    BY <1>1
  <2>4. i \in ToSet(ids) /\ ToSet(ids) \subseteq DOMAIN anchors
    BY <1>1, <2>2, <2>3
  <2>5. Continuous(ids)
    <3>1. i + Len(ids) - 1 = latest
      BY <2>2, <2>3
    <3> QED
      BY <2>2, <2>4, <3>1 DEF Continuous
  <2>6. ids # <<>>
    BY <2>4, EmptyIs
  <2>7. HardChecked(c)
    BY <2>1, <2>4, <2>5, <2>6 DEF HardChecked
  <2>8. \A j \in ToSet(ids) : j = i \/ Sources(j) = <<>>
    BY <2>2, <2>3
  <2> HIDE DEF c
  <2> QED
    BY <1>2, <2>1, <2>4, <2>7, <2>8 DEF c
<1> QED
  BY <1>3, <1>4

(* The quotation that a citation follows.                                  *)
Excused(i) == i < Len(anchors) /\ IsQuotation(Text(i)) /\ Sources(i + 1) # <<>>

(* Only the candidate an anchor makes itself holds it together with what   *)
(* it names.                                                               *)
LEMMA OnlyItsOwn ==
  ASSUME Recognising, NEW d \in ToSet(candidates), d.type = "law",
         NEW i \in ToSet(d.anchors), Sources(i) # <<>>, i \notin consumed, ~Excused(i)
  PROVE  d = LegalCandidate(i)
<1>1. OwnLaw(d) \/ LentLaw(d)
  BY DEF Recognising, CandidatesOK, CaseLaw
<1>2. CASE OwnLaw(d)
  <2>1. PICK j \in DOMAIN anchors : Sources(j) # <<>> /\ d = LegalCandidate(j)
    BY <1>2 DEF OwnLaw
  <2>2. i = j \/ (i = j - 1 /\ QuotedBefore(j))
    BY <2>1, LegalIs DEF Recognising
  <2>3. CASE i = j - 1 /\ QuotedBefore(j)
    <3>1. DOMAIN anchors = 1 .. Len(anchors) /\ Len(anchors) \in Nat
      BY SeqDomain DEF Recognising, Ready, Layout, Parsed
    <3>2. i < Len(anchors) /\ i + 1 = j
      BY <2>1, <2>3, <3>1
    <3>3. IsQuotation(Text(i))
      BY <2>3 DEF QuotedBefore
    <3> QED
      BY <2>1, <3>2, <3>3 DEF Excused
  <2> QED
    BY <2>1, <2>2, <2>3
<1>3. CASE LentLaw(d)
  <2>1. PICK j \in DOMAIN anchors :
          Sources(j) = <<>> /\ (d.anchors = <<j>> \/ \E f \in consumed : d.anchors = <<f, j>>)
    BY <1>3 DEF LentLaw
  <2>2. CASE d.anchors = <<j>>
    BY <2>1, <2>2, SingleIs
  <2>3. ASSUME NEW f \in consumed, d.anchors = <<f, j>> PROVE FALSE
    <3>1. ToSet(<<f, j>>) = {f, j}
      BY PairIs
    <3> QED
      BY <2>1, <2>3, <3>1
  <2> QED
    BY <2>1, <2>2, <2>3
<1> QED
  BY <1>1, <1>2, <1>3

(* It is never dropped for the sake of another.                            *)
LEMMA RuledIn ==
  ASSUME Recognising, at > Len(anchors), deferred = <<>>,
         NEW i \in DOMAIN anchors, Sources(i) # <<>>, i \notin consumed, ~Excused(i)
  PROVE  \E n \in Ruled : candidates[n] = LegalCandidate(i)
<1> DEFINE c == LegalCandidate(i)
<1>1. c \in ToSet(candidates)
  <2>1. i < at
    <3>1. DOMAIN anchors = 1 .. Len(anchors) /\ Len(anchors) \in Nat
      BY SeqDomain DEF Recognising, Ready, Layout, Parsed
    <3> QED
      BY <3>1 DEF Recognising
  <2> QED
    BY <2>1, EmptyIs DEF Recognising, Accounted
<1>2. c.type = "law" /\ i \in ToSet(c.anchors) /\ HardChecked(c) /\ IsSeq(c.sources)
  BY LegalIs DEF Recognising
<1>3. \A d \in ToSet(candidates) : d.type = "law" /\ i \in ToSet(d.anchors) => d = c
  BY OnlyItsOwn
<1> HIDE DEF c
<1> DEFINE T == {n \in DOMAIN candidates : candidates[n] = c}
<1>4. T \subseteq Nat /\ T # {}
  <2>1. DOMAIN candidates \subseteq Nat
    BY SeqDomain DEF Recognising, CandidatesOK
  <2> QED
    BY <1>1, <2>1 DEF ToSet
<1>5. PICK n \in T : \A m \in T : n <= m
  <2> HIDE DEF T
  <2> QED
    BY <1>4, NatMin
<1>6. n \in Checked /\ candidates[n] = c
  BY <1>2, <1>5 DEF Checked
<1>7. \A m \in DOMAIN candidates : candidates[m] \in ToSet(candidates)
  BY DEF ToSet
<1>8. ASSUME NEW m \in Checked, SamePlace(candidates[m], candidates[n]) PROVE ~Better(m, n)
  <2>1. candidates[m] = c /\ m \in DOMAIN candidates
    BY <1>2, <1>3, <1>6, <1>7, <1>8 DEF SamePlace, Checked
  <2>2. m \in T
    BY <2>1
  <2>3. n <= m /\ n \in Nat /\ m \in Nat
    BY <1>4, <1>5, <2>2
  <2>4. Len(c.sources) \in Nat
    BY <1>2, SeqDomain
  <2> QED
    BY <1>6, <2>1, <2>3, <2>4 DEF Better
<1>9. n \in Kept
  BY <1>6, <1>8 DEF Kept
<1>10. ASSUME NEW m \in Kept, Within(candidates[n], candidates[m]) PROVE FALSE
  <2>1. candidates[m] = c
    BY <1>2, <1>3, <1>6, <1>7, <1>10 DEF Within, Kept, Checked
  <2> QED
    BY <1>6, <1>10, <2>1 DEF Within
<1>11. n \in Ruled
  BY <1>9, <1>10 DEF Ruled
<1> QED
  BY <1>6, <1>11 DEF c

(* What the claims are to show.                                            *)
ClaimsOrigin(c) ==
  \A k \in DOMAIN c.sources :
    LET s == c.sources[k]
        own == Anchor(Last(c.anchors)).block
        home == Anchor(s.origin).block
    IN  s.form = "inherited" =>
          /\ s.title \in TitlesOf(Sources(s.origin))
          /\ home # own => UNION {TitlesOf(Sources(i)) : i \in Of(home)} = {s.title}

LawClaimed ==
  \A i \in DOMAIN anchors : \A title \in TitlesOf(Sources(i)) :
    \/ \E c \in claims : i \in ToSet(c.anchors) /\ title \in TitlesOf(c.sources)
    \/ i \in consumed
    \/ Excused(i)

(* What the claims inherit comes from where the candidates say.            *)
LEMMA CandidateOrigin ==
  ASSUME Recognising, NEW d \in ToSet(candidates) PROVE ClaimsOrigin(ClaimOf(d))
<1> DEFINE c == ClaimOf(d)
<1>0. c.sources = d.sources /\ c.anchors = d.anchors
  BY DEF ClaimOf
<1> HIDE DEF c
<1>1. CASE CaseLaw(d)
  <2>1. DOMAIN c.sources = {}
    BY <1>0, <1>1, EmptyIs, SeqDomain DEF CaseLaw
  <2> QED
    BY <2>1 DEF ClaimsOrigin, c
<1>2. CASE OwnLaw(d)
  <2>1. \A k \in DOMAIN c.sources : c.sources[k].form # "inherited"
    BY <1>0, <1>2, LegalIs DEF Recognising, OwnLaw, Statute
  <2> QED
    BY <2>1 DEF ClaimsOrigin, c
<1>3. CASE LentLaw(d)
  <2>1. PICK i \in DOMAIN anchors :
          /\ Lent(c.sources, Anchor(i).block)
          /\ d.anchors = <<i>> \/ \E f \in consumed : d.anchors = <<f, i>>
    BY <1>0, <1>3 DEF LentLaw
  <2>2. Last(c.anchors) = i
    <3>1. \A f : Last(<<f, i>>) = i
      BY DEF Last
    <3>2. Last(<<i>>) = i
      BY DEF Last
    <3> QED
      BY <1>0, <2>1, <3>1, <3>2
  <2>3. DOMAIN c.sources = 1 .. 1
    BY <2>1, SingleIs DEF Lent
  <2>4. \A k \in DOMAIN c.sources : k = 1
    BY <2>3
  <2> QED
    BY <2>1, <2>2, <2>4 DEF ClaimsOrigin, c, Lent, Rests, TitlesIn
<1> QED
  BY <1>1, <1>2, <1>3 DEF Recognising, CandidatesOK

(* Which depends on the document alone.                                    *)
LEMMA SameOrigin ==
  ASSUME SameReading, NEW c PROVE ClaimsOrigin(c)' <=> ClaimsOrigin(c)
<1>1. /\ \A i : Anchor(i)' = Anchor(i) /\ Sources(i)' = Sources(i)
      /\ \A b : Of(b)' = Of(b)
  BY DEF SameReading, Anchor, Sources, Of
<1> QED
  BY <1>1 DEF ClaimsOrigin

(* Ruling gives claims that have the two properties.                       *)
LEMMA ArbitrateClaims ==
  ASSUME Recognising, at > Len(anchors), deferred = <<>>, Arbitrate
  PROVE  InheritanceIsNamed' /\ LawClaimed'
<1>1. SameReading /\ UNCHANGED consumed /\ claims' = {ClaimOf(candidates[n]) : n \in Ruled}
  BY DEF Arbitrate, parseVars, SameReading
<1>2. \A n \in Ruled : n \in DOMAIN candidates /\ candidates[n] \in ToSet(candidates)
  BY DEF Ruled, Kept, Checked, ToSet
<1>3. \A c \in claims' : ClaimsOrigin(c)
  BY <1>1, <1>2, CandidateOrigin
<1>4. InheritanceIsNamed'
  <2>1. \A c \in claims' : ClaimsOrigin(c)'
    BY <1>1, <1>3, SameOrigin
  <2> QED
    BY <2>1 DEF InheritanceIsNamed, ClaimsOrigin
<1>5. ASSUME NEW i \in DOMAIN anchors, NEW title \in TitlesOf(Sources(i)), i \notin consumed, ~Excused(i)
      PROVE  \E c \in claims' : i \in ToSet(c.anchors) /\ title \in TitlesOf(c.sources)
  <2>1. Sources(i) # <<>>
    BY <1>5, NoTitles
  <2>2. PICK n \in Ruled : candidates[n] = LegalCandidate(i)
    BY <1>5, <2>1, RuledIn
  <2> DEFINE d == candidates[n]
             c == ClaimOf(d)
  <2>3. c \in claims'
    BY <1>1
  <2>4. c.anchors = d.anchors /\ c.sources = d.sources
    BY DEF ClaimOf
  <2>5. i \in ToSet(d.anchors) /\ TitlesOf(d.sources) = TitlesOf(Sources(i))
    BY <2>2, LegalIs DEF Recognising
  <2> HIDE DEF c, d
  <2> QED
    BY <1>5, <2>3, <2>4, <2>5
<1>6. LawClaimed'
  BY <1>1, <1>5 DEF LawClaimed, Excused, SameReading, Sources, Text
<1> QED
  BY <1>4, <1>6

-----------------------------------------------------------------------------
(* The invariant, stage by stage.                                          *)
ParseStages == {"body", "relate", "chunk", "checkDoc"}
Stages == ParseStages \cup {"collect", "recognise", "arbitrate", "checkClaims", "done", "refused"}

Unread == named = <<>> /\ candidates = <<>> /\ deferred = <<>> /\ claims = {}
Recognised == Recognising /\ at > Len(anchors) /\ deferred = <<>>

ReadingInv ==
  /\ stage \in Stages
  /\ stage \in ParseStages => Layout /\ Scan /\ Unread
  /\ stage = "collect" => Collecting /\ candidates = <<>> /\ deferred = <<>> /\ claims = {}
  /\ stage = "recognise" => Recognising /\ claims = {}
  /\ stage = "arbitrate" => Recognised /\ claims = {}
  /\ stage \in {"checkClaims", "done", "refused"} => InheritanceIsNamed
  /\ stage \in {"checkClaims", "done"} => LawClaimed

(* The invariant holds at the start.                                       *)
LEMMA ReadingBegins == ReadingInit => ReadingInv
<1> SUFFICES ASSUME ReadingInit PROVE ReadingInv
  OBVIOUS
<1>1. Layout
  <2>1. blocks = <<>> /\ anchors = <<>> /\ DOMAIN <<>> = {}
    BY EmptyIs, SeqDomain DEF ReadingInit, ParseInit
  <2> QED
    BY <2>1, EmptyIs DEF Layout, Parsed
<1>2. Scan
  <2>1. doc \in Document /\ at = 1
    BY DocumentAssumption DEF ReadingInit, ParseInit
  <2>2. cursor = Beginning
    BY DEF ReadingInit, ParseInit
  <2>3. CursorOK
    BY <2>2 DEF Beginning, CursorOK, CursorFields
  <2> QED
    BY <2>1, <2>3 DEF Scan
<1>3. Unread /\ stage = "body"
  BY DEF ReadingInit, ParseInit, Unread
<1> QED
  BY <1>1, <1>2, <1>3 DEF ReadingInv, ParseStages, Stages

(* A step that leaves the candidates alone keeps the invariant of          *)
(* recognition.                                                            *)
LEMMA SameRecognising ==
  ASSUME Recognising, SameReading, UNCHANGED <<records, candidates, deferred, consumed, at>>
  PROVE  Recognising'
<1>1. Ready'
  BY SameRecords DEF Recognising
<1>2. CandidatesOK'
  BY SameLaw DEF Recognising, CandidatesOK, CaseLaw
<1>3. DeferredOK'
  BY DEF Recognising, DeferredOK, SameReading, Sources
<1>4. ASSUME NEW i \in DOMAIN anchors', Sources(i)' # <<>>, i < at' PROVE Accounted(i)'
  <2>1. LegalCandidate(i)' = LegalCandidate(i)
    BY SameCandidate
  <2>2. Accounted(i)
    BY <1>4 DEF Recognising, SameReading, Sources
  <2> QED
    BY <2>1, <2>2 DEF Accounted
<1> QED
  BY <1>1, <1>2, <1>3, <1>4 DEF Recognising

(* A step that leaves the claims alone keeps the two properties.           *)
LEMMA SameClaims ==
  ASSUME SameReading, UNCHANGED <<claims, consumed>>
  PROVE  /\ InheritanceIsNamed => InheritanceIsNamed'
         /\ LawClaimed => LawClaimed'
<1>1. InheritanceIsNamed => InheritanceIsNamed'
  <2> SUFFICES ASSUME InheritanceIsNamed PROVE InheritanceIsNamed'
    OBVIOUS
  <2>1. \A c \in claims : ClaimsOrigin(c)
    BY DEF InheritanceIsNamed, ClaimsOrigin
  <2>2. \A c \in claims' : ClaimsOrigin(c)'
    BY <2>1, SameOrigin
  <2> QED
    BY <2>2 DEF InheritanceIsNamed, ClaimsOrigin
<1>2. LawClaimed => LawClaimed'
  BY DEF LawClaimed, Excused, SameReading, Sources, Text
<1> QED
  BY <1>1, <1>2

(* The stages of the parsing.                                              *)
LEMMA ParseStage ==
  ASSUME ParseStep
  PROVE  stage \in ParseStages /\ (CheckDocument \/ stage' \in ParseStages)
BY DEF ParseStep, EmptyParagraph, Heading, ListItem, Paragraph, TableCell, EndTable, Other,
       ReadNote, EndBody, Relate, BuildChunks, CheckDocument, Reading, Next1, ParseStages

(* The invariant of collecting when the document has been parsed.          *)
LEMMA CollectionBegins ==
  ASSUME Layout, Scan, Unread, CheckDocument, Parse, stage' = "collect"
  PROVE  Collecting'
<1>1. RelationTargets /\ at' = 1 /\ UNCHANGED <<blocks, anchors, named>>
  BY DEF CheckDocument, parseVars, DocumentSound, Parse
<1>2. records' = [k \in DOMAIN blocks |-> <<>>]
  BY DEF Parse
<1>3. named' = <<>> /\ Len(<<>>) = 0 /\ DOMAIN <<>> = {} /\ IsSeq(<<>>) /\ ToSet(<<>>) = {}
  BY <1>1, EmptyIs, SeqDomain DEF Unread
<1>4. Layout' /\ RelationTargets'
  BY <1>1 DEF Layout, RelationTargets
<1>5. NamedOK' /\ RecordsFull'
  BY <1>3 DEF NamedOK, RecordsFull
<1>6. Len(anchors) \in Nat
  BY SeqDomain DEF Layout, Parsed
<1> QED
  BY <1>1, <1>2, <1>3, <1>4, <1>5, <1>6 DEF Collecting

(* Every step keeps the invariant.                                         *)
LEMMA ReadingKeeps == ReadingInv /\ [ReadingNext]_readingVars => ReadingInv'
<1> SUFFICES ASSUME ReadingInv, [ReadingNext]_readingVars PROVE ReadingInv'
  OBVIOUS
<1>1. CASE Parse
  <2>1. stage \in ParseStages /\ (CheckDocument \/ stage' \in ParseStages)
    BY <1>1, ParseStage DEF Parse
  <2>2. Layout /\ Scan /\ Unread
    BY <2>1 DEF ReadingInv
  <2>3. Layout' /\ Scan' /\ Unread'
    BY <1>1, <2>2, ParseScans DEF Parse, Unread
  <2>4. CASE stage' \in ParseStages
    BY <2>3, <2>4 DEF ReadingInv, ParseStages, Stages
  <2>5. CASE CheckDocument /\ stage' = "collect"
    BY <1>1, <2>2, <2>3, <2>5, CollectionBegins DEF ReadingInv, ParseStages, Stages, Unread
  <2>6. CASE stage' = "refused"
    BY <2>3, <2>6 DEF ReadingInv, ParseStages, Stages, Unread, InheritanceIsNamed
  <2> QED
    BY <2>1, <2>4, <2>5, <2>6 DEF CheckDocument
<1>2. CASE Collect
  <2>1. stage = "collect" /\ stage' = "collect" /\ UNCHANGED <<candidates, deferred, claims>>
    BY <1>2 DEF Collect
  <2>2. Collecting'
    BY <1>2, <2>1, CollectKeeps DEF ReadingInv
  <2> QED
    BY <2>1, <2>2 DEF ReadingInv, ParseStages, Stages
<1>3. CASE EndCollect
  <2>1. stage = "collect" /\ stage' = "recognise" /\ claims' = claims
    BY <1>3 DEF EndCollect, claimVars
  <2>2. Recognising'
    BY <1>3, <2>1, RecognitionBegins DEF ReadingInv, EndCollect
  <2> QED
    BY <2>1, <2>2 DEF ReadingInv, ParseStages, Stages
<1>4. CASE Recognise
  <2>1. stage = "recognise" /\ stage' = "recognise" /\ claims' = claims
    BY <1>4 DEF Recognise
  <2>2. Recognising'
    BY <1>4, <2>1, RecogniseKeeps DEF ReadingInv
  <2> QED
    BY <2>1, <2>2 DEF ReadingInv, ParseStages, Stages
<1>5. CASE Undefer
  <2>1. stage = "recognise" /\ stage' = "recognise" /\ claims' = claims
    BY <1>5 DEF Undefer
  <2>2. Recognising'
    BY <1>5, <2>1, UndeferKeeps DEF ReadingInv
  <2> QED
    BY <2>1, <2>2 DEF ReadingInv, ParseStages, Stages
<1>6. CASE EndRecognition
  <2>1. /\ stage = "recognise" /\ stage' = "arbitrate" /\ claims' = claims
        /\ SameReading /\ UNCHANGED <<records, candidates, deferred, consumed, at>>
        /\ at > Len(anchors) /\ deferred = <<>>
    BY <1>6 DEF EndRecognition, parseVars, claimVars, SameReading
  <2>2. Recognising'
    BY <2>1, SameRecognising DEF ReadingInv
  <2>3. Recognised'
    BY <2>1, <2>2 DEF Recognised, SameReading
  <2> QED
    BY <2>1, <2>3 DEF ReadingInv, ParseStages, Stages
<1>7. CASE Arbitrate
  <2>1. stage = "arbitrate" /\ stage' = "checkClaims"
    BY <1>7 DEF Arbitrate
  <2>2. InheritanceIsNamed' /\ LawClaimed'
    BY <1>7, <2>1, ArbitrateClaims DEF ReadingInv, Recognised
  <2> QED
    BY <2>1, <2>2 DEF ReadingInv, ParseStages, Stages
<1>8. CASE CheckClaims
  <2>1. /\ stage = "checkClaims" /\ stage' \in {"done", "refused"}
        /\ SameReading /\ UNCHANGED <<claims, consumed>>
    BY <1>8 DEF CheckClaims, parseVars, claimVars, SameReading
  <2>2. InheritanceIsNamed' /\ LawClaimed'
    BY <2>1, SameClaims DEF ReadingInv
  <2> QED
    BY <2>1, <2>2 DEF ReadingInv, ParseStages, Stages
<1>9. CASE UNCHANGED readingVars
  <2>1. /\ SameReading /\ UNCHANGED <<records, candidates, deferred, consumed, at>>
        /\ UNCHANGED <<stage, claims, doc, cursor, blocks, anchors, named>>
    BY <1>9 DEF readingVars, parseVars, claimVars, SameReading
  <2>2. stage \in ParseStages => Layout' /\ Scan' /\ Unread'
    BY <2>1 DEF ReadingInv, Layout, Scan, CursorOK, Unread
  <2>3. stage = "collect" => Collecting'
    BY <2>1 DEF ReadingInv, Collecting, Layout, RelationTargets, NamedOK, RecordsFull, Own, Anchor
  <2>4. stage = "recognise" => Recognising'
    BY <2>1, SameRecognising DEF ReadingInv
  <2>5. stage = "arbitrate" => Recognised'
    BY <2>1, SameRecognising DEF ReadingInv, Recognised
  <2>6. /\ stage \in {"checkClaims", "done", "refused"} => InheritanceIsNamed'
        /\ stage \in {"checkClaims", "done"} => LawClaimed'
    BY <2>1, SameClaims DEF ReadingInv
  <2>7. stage' = stage /\ claims' = claims /\ candidates' = candidates /\ deferred' = deferred
    BY <2>1
  <2> QED
    BY <2>2, <2>3, <2>4, <2>5, <2>6, <2>7 DEF ReadingInv
<1> QED
  BY <1>1, <1>2, <1>3, <1>4, <1>5, <1>6, <1>7, <1>8, <1>9 DEF ReadingNext

(* The invariant holds in every state.                                     *)
LEMMA ReadingIsSafe == ReadingSpec => []ReadingInv
BY ReadingBegins, ReadingKeeps, PTL DEF ReadingSpec

(* Whatever the documents, a statute that an article inherits is named by  *)
(* the anchor it is said to come from, and where that is another block, it *)
(* is all that block names (rules.py, _resolve_block_source).              *)
THEOREM InheritanceNamed == ReadingSpec => []InheritanceIsNamed
<1>1. ReadingInv => InheritanceIsNamed
  BY DEF ReadingInv, ParseStages, Stages, Unread, InheritanceIsNamed
<1> QED
  BY <1>1, ReadingIsSafe, PTL

(* Whatever the documents, what an anchor names is among the sources of a  *)
(* claim with that anchor, but for the two cases of the property           *)
(* (arbitration.py never drops it for the sake of another candidate).      *)
THEOREM NamedLawClaimed == ReadingSpec => []NamedLawIsClaimed
<1>1. ReadingInv => NamedLawIsClaimed
  BY DEF ReadingInv, LawClaimed, Excused, NamedLawIsClaimed
<1> QED
  BY <1>1, ReadingIsSafe, PTL

(* The splitter cuts a text without a loss: its sentences, one after the   *)
(* other, are the text, and each begins where it says.                     *)
LEMMA SplitParts ==
  ASSUME NEW t \in Texts, t # <<>>
  PROVE  LET parts == Split(t)
         IN  /\ IsSeq(parts) /\ Len(parts) # 0
             /\ \A k \in 1 .. Len(parts) :
                  /\ IsSeq(parts[k].text) /\ parts[k].text # <<>> /\ parts[k].start \in Nat
                  /\ SubSeq(t, parts[k].start + 1, parts[k].start + Len(parts[k].text)) = parts[k].text
             /\ \A m, n \in 1 .. Len(parts) : m < n => parts[m].start < parts[n].start
             /\ FlattenSeq([k \in 1 .. Len(parts) |-> parts[k].text]) = t
<1> DEFINE parts == Split(t)
           N == Len(t)
           E == Ends(t)
           e == InOrder(E)
           c == Cardinality(E)
           from(k) == IF k = 1 THEN 1 ELSE e[k - 1] + 1
<1>0. IsSeq(t)
  BY SeqIs DEF Texts
<1>1. N \in Nat \ {0} /\ DOMAIN t = 1 .. N
  BY <1>0, NonEmptyIs, SeqDomain
<1>2. E \subseteq 1 .. N /\ N \in E /\ IsFiniteSet(E) /\ E \subseteq Int
  <2>1. E \subseteq 1 .. N /\ N \in E
    BY <1>1 DEF Ends
  <2>2. IsFiniteSet(1 .. N)
    BY <1>1, FS_Interval
  <2> HIDE DEF E
  <2>3. IsFiniteSet(E)
    BY <2>1, <2>2, FS_Subset
  <2> QED
    BY <1>1, <2>1, <2>3
<1>3. parts = [k \in 1 .. c |-> [text |-> SubSeq(t, from(k), e[k]), start |-> from(k) - 1]]
  BY DEF Split
<1> HIDE DEF E, parts
<1>4. /\ IsSeq(e) /\ DOMAIN e = 1 .. c /\ c \in Nat /\ ToSet(e) = E
      /\ \A m, n \in 1 .. c : m < n => e[m] < e[n]
  BY <1>2, InOrderIs
<1> HIDE DEF e, c
<1>5. \A k \in 1 .. c : e[k] \in 1 .. N
  BY <1>2, <1>4 DEF ToSet
<1>6. c # 0 /\ e[c] = N
  <2>1. PICK k \in 1 .. c : e[k] = N
    BY <1>2, <1>4 DEF ToSet
  <2>2. c \in 1 .. c /\ k <= c /\ c # 0
    BY <1>4
  <2>3. k < c => e[k] < e[c]
    BY <1>4, <2>2
  <2> QED
    BY <1>1, <1>5, <2>1, <2>2, <2>3
<1>7. ASSUME NEW k \in 1 .. c PROVE from(k) \in 1 .. e[k] /\ from(k) - 1 \in Nat
  <2>1. CASE k = 1
    BY <1>5, <2>1
  <2>2. CASE k # 1
    <3>1. k - 1 \in 1 .. c /\ k - 1 < k
      BY <1>4, <2>2
    <3>2. e[k - 1] < e[k] /\ e[k - 1] \in 1 .. N /\ e[k] \in 1 .. N
      BY <1>4, <1>5, <3>1
    <3> QED
      BY <2>2, <3>2
  <2> QED
    BY <2>1, <2>2
<1>8. IsSeq(parts) /\ Len(parts) = c
  <2> DEFINE p(k) == [text |-> SubSeq(t, from(k), e[k]), start |-> from(k) - 1]
  <2>1. parts = [k \in 1 .. c |-> p(k)]
    BY <1>3
  <2> HIDE DEF p
  <2>2. parts = [k \in 1 .. c |-> parts[k]]
    BY <2>1
  <2> QED
    BY <1>4, <2>2, FunctionIsSeq
<1>9. ASSUME NEW k \in 1 .. c
      PROVE  /\ parts[k].text = SubSeq(t, from(k), e[k]) /\ parts[k].start = from(k) - 1
             /\ IsSeq(parts[k].text) /\ Len(parts[k].text) = e[k] - from(k) + 1
  <2>1. parts[k] = [text |-> SubSeq(t, from(k), e[k]), start |-> from(k) - 1]
    BY <1>3
  <2>0. PICK x, y : x = SubSeq(t, from(k), e[k]) /\ y = from(k) - 1
    OBVIOUS
  <2>2. parts[k].text = SubSeq(t, from(k), e[k]) /\ parts[k].start = from(k) - 1
    <3>1. parts[k] = [text |-> x, start |-> y]
      BY <2>0, <2>1, Zenon
    <3>2. parts[k].text = x /\ parts[k].start = y
      BY <3>1
    <3> QED
      BY <2>0, <3>2, Zenon
  <2>3. from(k) \in 1 .. N + 1 /\ e[k] \in 0 .. N /\ from(k) <= e[k] + 1
    BY <1>1, <1>5, <1>7
  <2> DEFINE a == from(k)
             b == e[k]
  <2>5. a \in 1 .. Len(t) + 1 /\ b \in 0 .. Len(t) /\ a <= b + 1
    BY <2>3
  <2> HIDE DEF a, b
  <2>6. IsSeq(SubSeq(t, a, b)) /\ Len(SubSeq(t, a, b)) = b - a + 1
    BY <1>0, <2>5, SubSeqIs
  <2>4. IsSeq(SubSeq(t, from(k), e[k])) /\ Len(SubSeq(t, from(k), e[k])) = e[k] - from(k) + 1
    BY <2>6 DEF a, b
  <2> QED
    BY <2>2, <2>4
<1>10. ASSUME NEW k \in 1 .. c
       PROVE  /\ IsSeq(parts[k].text) /\ parts[k].text # <<>> /\ parts[k].start \in Nat
              /\ SubSeq(t, parts[k].start + 1, parts[k].start + Len(parts[k].text)) = parts[k].text
  <2>1. from(k) \in Int /\ e[k] \in Int /\ from(k) <= e[k] /\ from(k) - 1 \in Nat
    BY <1>5, <1>7
  <2>2. Len(parts[k].text) # 0 /\ parts[k].start + 1 = from(k)
        /\ parts[k].start + Len(parts[k].text) = e[k]
    <3> DEFINE a == from(k)
               b == e[k]
               n == Len(parts[k].text)
               s == parts[k].start
    <3>1. a \in Int /\ b \in Int /\ a <= b /\ n = b - a + 1 /\ s = a - 1
      BY <1>9, <2>1
    <3> HIDE DEF a, b, n, s
    <3>2. n # 0 /\ s + 1 = a /\ s + n = b
      BY <3>1
    <3> QED
      BY <3>2 DEF a, b, n, s
  <2>3. parts[k].start \in Nat /\ IsSeq(parts[k].text) /\ parts[k].text # <<>>
    BY <1>9, <2>1, <2>2, EmptyIs
  <2>4. parts[k].text = SubSeq(t, from(k), e[k])
    BY <1>9
  <2> QED
    BY <2>2, <2>3, <2>4
<1>11. ASSUME NEW m \in 1 .. c, NEW n \in 1 .. c, m < n PROVE parts[m].start < parts[n].start
  <2>1. n # 1 /\ n - 1 \in 1 .. c /\ m <= n - 1
    BY <1>4, <1>11
  <2>2. e[m] <= e[n - 1]
    <3>1. m < n - 1 => e[m] < e[n - 1]
      BY <1>4, <2>1
    <3> QED
      BY <1>5, <2>1, <3>1
  <2>3. from(m) <= e[m] /\ from(m) \in Int /\ e[m] \in Int /\ e[n - 1] \in Int
    BY <1>5, <1>7, <2>1
  <2>4. from(n) = e[n - 1] + 1
    BY <2>1
  <2> HIDE DEF from
  <2> QED
    BY <1>9, <2>2, <2>3, <2>4
<1>12. FlattenSeq([k \in 1 .. c |-> parts[k].text]) = t
  <2> DEFINE ss == [k \in 1 .. c |-> parts[k].text]
  <2>1. IsSeq(ss) /\ Len(ss) = c
    <3>1. ss = [k \in 1 .. c |-> ss[k]]
      OBVIOUS
    <3> HIDE DEF ss
    <3> QED
      BY <1>4, <3>1, FunctionIsSeq
  <2>2. \A k \in 1 .. c : ss[k] = SubSeq(t, from(k), e[k]) /\ IsSeq(ss[k])
    BY <1>9
  <2> HIDE DEF ss
  <2>3. PICK f : Joined(ss, f) /\ FlattenSeq(ss) = f[c]
    BY <2>1, <2>2, FlattenIs
  <2> DEFINE T == {n \in 0 .. c : n # 0 => f[n] = SubSeq(t, 1, e[n])}
  <2>4. 0 \in T
    BY <1>4
  <2>5. ASSUME NEW n \in 0 .. c - 1, n \in T PROVE n + 1 \in T
    <3>1. n + 1 \in 1 .. c /\ (n + 1) - 1 = n /\ n + 1 \in 0 .. c
      BY <1>4
    <3>2. f[n + 1] = f[n] \o ss[n + 1]
      BY <2>1, <2>3, <3>1 DEF Joined
    <3>3. ss[n + 1] = SubSeq(t, from(n + 1), e[n + 1])
      BY <2>2, <3>1
    <3>4. CASE n = 0
      <4>1. f[0] = <<>> /\ from(n + 1) = 1
        BY <2>3, <3>4 DEF Joined
      <4>2. IsSeq(ss[n + 1])
        BY <2>2, <3>1
      <4>3. <<>> \o ss[n + 1] = ss[n + 1]
        BY <4>2, ConcatEmptySeq DEF IsSeq
      <4> QED
        BY <3>1, <3>2, <3>3, <3>4, <4>1, <4>3
    <3>5. CASE n # 0
      <4>1. n \in 1 .. c /\ n < n + 1 /\ from(n + 1) = e[n] + 1
        BY <3>1, <3>5, <1>4
      <4>2. e[n] \in 1 .. N /\ e[n + 1] \in 1 .. N /\ e[n] < e[n + 1]
        BY <1>4, <1>5, <3>1, <4>1
      <4>3. f[n] = SubSeq(t, 1, e[n])
        BY <2>5, <3>5
      <4> DEFINE a == e[n]
                 b == e[n + 1]
      <4>4. t \in Seq(STRING) /\ 1 \in 1 .. Len(t) + 1 /\ a \in 1 - 1 .. Len(t) /\ b \in a .. Len(t)
        BY <1>1, <4>2 DEF Texts
      <4> HIDE DEF a, b
      <4>5. SubSeq(t, 1, a) \o SubSeq(t, a + 1, b) = SubSeq(t, 1, b)
        BY <4>4, ConcatAdjacentSubSeq
      <4> QED
        BY <3>1, <3>2, <3>3, <4>1, <4>3, <4>5 DEF a, b
    <3> QED
      BY <3>4, <3>5
  <2> HIDE DEF T
  <2>6. \A n \in 0 .. c : n \in T
    BY <1>4, <2>4, <2>5, RisesTo
  <2>7. c \in T
    BY <1>4, <2>6
  <2>8. f[c] = SubSeq(t, 1, N)
    BY <1>6, <2>7 DEF T
  <2>9. SubSeq(t, 1, N) = t
    BY SubSeqFull DEF Texts
  <2> QED
    BY <2>3, <2>8, <2>9 DEF ss
<1> HIDE DEF from, N
<1> QED
  BY <1>6, <1>8, <1>10, <1>11, <1>12 DEF parts

(* The fields of a block.                                                  *)
BlockFields ==
  {"kind", "text", "path", "order", "para", "group", "refs", "table", "cell", "note",
   "sentences", "relations"}
IsBlock(b) == b = [x \in BlockFields |-> b[x]]

(* A block as it is parsed: the notes it cites come in an order.           *)
IsCitingBlock(b) == IsBlock(b) /\ IsSeq(b.refs)

(* What has been parsed, in detail: the sentences of a block are the       *)
(* anchors behind some anchor b, and an anchor is a sentence of its block. *)
Owned(bs, as, k, b) ==
  LET parts == Split(bs[k].text)
  IN  /\ bs[k].text \in Texts
      /\ b \in Nat /\ b + Len(parts) <= Len(as)
      /\ bs[k].sentences = [m \in 1 .. Len(parts) |-> b + m]
      /\ \A m \in 1 .. Len(parts) :
           /\ as[b + m].text = parts[m].text /\ as[b + m].start = parts[m].start
           /\ as[b + m].block = k

Paged(bs, as) ==
  /\ Parsed(bs, as)
  /\ \A k \in DOMAIN bs : IsCitingBlock(bs[k]) /\ \E b : Owned(bs, as, k, b)
  /\ \A i \in DOMAIN as : i \in ToSet(bs[as[i].block].sentences)
  /\ \A i, j \in DOMAIN as : i < j => as[i].block <= as[j].block

Pages == Paged(blocks, anchors)

(* It does not depend on what else is known of the blocks.                 *)
LEMMA SamePages ==
  ASSUME NEW bs, NEW as, Paged(bs, as), NEW cs, IsSeq(cs), DOMAIN cs = DOMAIN bs,
         \A k \in DOMAIN bs : /\ IsCitingBlock(cs[k])
                              /\ cs[k].text = bs[k].text /\ cs[k].sentences = bs[k].sentences
  PROVE  Paged(cs, as)
<1>1. Parsed(cs, as)
  BY DEF Paged, Parsed
<1>2. ASSUME NEW k \in DOMAIN cs PROVE \E b : Owned(cs, as, k, b)
  <2>1. PICK b : Owned(bs, as, k, b)
    BY DEF Paged
  <2>2. Owned(cs, as, k, b)
    BY <2>1 DEF Owned
  <2> QED
    BY <2>2
<1>3. \A i \in DOMAIN as : i \in ToSet(cs[as[i].block].sentences)
  BY DEF Paged, Parsed
<1> QED
  BY <1>1, <1>2, <1>3 DEF Paged

(* A block that is added has its anchors behind one another.               *)
LEMMA AddPages ==
  ASSUME NEW read, Paged(read.blocks, read.anchors), NEW block, block.text \in Texts,
         IsCitingBlock(block)
  PROVE  Paged(Add(read, block).blocks, Add(read, block).anchors)
<1> DEFINE parts == Split(block.text)
           n == Len(read.anchors)
           q == Len(read.blocks) + 1
           b == [block EXCEPT !.sentences = [k \in DOMAIN parts |-> n + k]]
           more == [k \in DOMAIN parts |->
                      [text |-> parts[k].text, start |-> parts[k].start, block |-> q]]
           bs == Append(read.blocks, b)
           as == read.anchors \o more
           bs0 == read.blocks
           as0 == read.anchors
<1>0. IsSeq(bs0) /\ IsSeq(as0)
  BY DEF Parsed, Paged
<1>1. Add(read, block).blocks = bs /\ Add(read, block).anchors = as
  BY DEF Add
<1>2. IsSeq(parts) /\ DOMAIN parts = 1 .. Len(parts) /\ Len(parts) \in Nat
  BY SplitIs, SeqDomain
<1>3. b.text = block.text /\ b.sentences = [k \in 1 .. Len(parts) |-> n + k] /\ IsCitingBlock(b)
  <2> DEFINE s == [k \in DOMAIN parts |-> n + k]
  <2>1. s = [k \in 1 .. Len(parts) |-> n + k]
    BY <1>2
  <2>2. \A x : /\ [block EXCEPT !.sentences = x].text = block.text
               /\ [block EXCEPT !.sentences = x].sentences = x
               /\ IsCitingBlock([block EXCEPT !.sentences = x])
    <3> HIDE DEF parts, n
    <3> QED
      BY DEF IsCitingBlock, IsBlock, BlockFields
  <2> QED
    BY <2>1, <2>2, Zenon
<1>4. IsSeq(more) /\ Len(more) = Len(parts)
  <2>1. more = [k \in 1 .. Len(parts) |-> more[k]]
    BY <1>2
  <2> HIDE DEF more
  <2> QED
    BY <1>2, <2>1, FunctionIsSeq
<1>5. \A k \in 1 .. Len(parts) :
        more[k].text = parts[k].text /\ more[k].start = parts[k].start /\ more[k].block = q
  BY <1>2
<1>6. Parsed(bs, as)
  BY <1>1, AddKeeps DEF Paged
<1> HIDE DEF more, b, parts
<1>7. /\ Len(bs) = q /\ q \in Nat \ {0} /\ DOMAIN bs = 1 .. q /\ DOMAIN bs0 = 1 .. q - 1
      /\ \A k \in 1 .. q - 1 : bs[k] = bs0[k]
      /\ bs[q] = b
  <2>1. Len(bs0) \in Nat /\ DOMAIN bs0 = 1 .. Len(bs0)
    BY <1>0, SeqDomain
  <2>2. Len(bs) = Len(bs0) + 1 /\ (\A k \in 1 .. Len(bs0) : bs[k] = bs0[k]) /\ bs[Len(bs0) + 1] = b
    BY <1>0, AppendIs
  <2>3. DOMAIN bs = 1 .. Len(bs)
    BY <1>6, SeqDomain DEF Parsed
  <2> HIDE DEF bs, bs0
  <2> QED
    BY <2>1, <2>2, <2>3 DEF bs0
<1>8. /\ n \in Nat /\ Len(as) = n + Len(parts) /\ DOMAIN as = 1 .. n + Len(parts)
      /\ DOMAIN as0 = 1 .. n
      /\ \A k \in 1 .. n : as[k] = as0[k]
      /\ \A k \in 1 .. Len(parts) : as[n + k] = more[k]
  <2> HIDE DEF as0
  <2> DEFINE cs == as0 \o more
  <2>1. n \in Nat /\ DOMAIN as0 = 1 .. n
    BY <1>0, SeqDomain DEF as0
  <2>2. IsSeq(cs) /\ Len(cs) = Len(as0) + Len(more)
    BY <1>0, <1>4, ConcatIs
  <2>3. \A k \in 1 .. Len(as0) : cs[k] = as0[k]
    BY <1>0, <1>4, ConcatIs, Zenon
  <2>4. ASSUME NEW k \in 1 .. Len(more) PROVE cs[Len(as0) + k] = more[k]
    BY <1>0, <1>4, ConcatIs
  <2>5. as = cs
    BY DEF as0
  <2>6. DOMAIN cs = 1 .. Len(cs)
    BY <2>2, SeqDomain
  <2> HIDE DEF cs, as
  <2> QED
    BY <2>1, <2>2, <2>3, <2>4, <2>5, <2>6, <1>4 DEF as0
<1> HIDE DEF bs, as, n, q, bs0, as0
<1>9. ASSUME NEW k \in DOMAIN bs PROVE IsCitingBlock(bs[k]) /\ \E d : Owned(bs, as, k, d)
  <2>1. CASE k = q
    <3>0. bs[k].text = block.text /\ bs[k].sentences = [m \in 1 .. Len(parts) |-> n + m]
      BY <2>1, <1>3, <1>7
    <3>2. \A m \in 1 .. Len(parts) :
             /\ as[n + m].text = parts[m].text /\ as[n + m].start = parts[m].start
             /\ as[n + m].block = k
      BY <2>1, <1>5, <1>8
    <3>3. n \in Nat /\ n + Len(parts) <= Len(as)
      BY <1>2, <1>8
    <3>1. Owned(bs, as, k, n)
      BY <3>0, <3>2, <3>3 DEF Owned, parts
    <3> QED
      BY <2>1, <3>1, <1>3, <1>7
  <2>2. CASE k # q
    <3>1. k \in DOMAIN bs0 /\ bs[k] = bs0[k]
      BY <1>7, <2>2
    <3>2. PICK d : Owned(bs0, as0, k, d) /\ IsCitingBlock(bs0[k])
      BY <3>1 DEF Paged, bs0, as0
    <3> DEFINE ps == Split(bs0[k].text)
    <3>3. Len(ps) \in Nat
      BY <3>2, SplitIs, SeqDomain DEF Owned
    <3>4. d \in Nat /\ d + Len(ps) <= n
      BY <3>2 DEF Owned, n, as0
    <3>5. \A m \in 1 .. Len(ps) : d + m \in 1 .. n
      BY <3>3, <3>4, <1>8
    <3>6. \A m \in 1 .. Len(ps) : as[d + m] = as0[d + m]
      BY <3>5, <1>8
    <3>7. d + Len(ps) <= Len(as)
      BY <3>3, <3>4, <1>2, <1>8
    <3>8. Owned(bs, as, k, d)
      BY <3>1, <3>2, <3>6, <3>7 DEF Owned
    <3> QED
      BY <3>1, <3>2, <3>8
  <2> QED
    BY <2>1, <2>2
<1>10. ASSUME NEW i \in DOMAIN as
       PROVE  i \in ToSet(bs[as[i].block].sentences) /\ as[i].block \in 1 .. q
              /\ (i \in 1 .. n => as[i] = as0[i] /\ as0[i].block \in 1 .. q - 1)
              /\ (i \notin 1 .. n => as[i].block = q)
  <2>1. CASE i \in 1 .. n
    <3>1. i \in DOMAIN as0 /\ as[i] = as0[i]
      BY <1>8, <2>1
    <3>2. as0[i].block \in DOMAIN bs0 /\ i \in ToSet(bs0[as0[i].block].sentences)
      BY <3>1 DEF Paged, Parsed, bs0, as0
    <3> QED
      BY <1>7, <2>1, <3>1, <3>2
  <2>2. CASE i \notin 1 .. n
    <3>1. i - n \in 1 .. Len(parts) /\ n + (i - n) = i
      BY <1>2, <1>8, <2>2
    <3>2. as[i] = more[i - n] /\ more[i - n].block = q
      BY <1>5, <1>8, <3>1
    <3>3. bs[q].sentences = [k \in 1 .. Len(parts) |-> n + k]
      BY <1>3, <1>7
    <3>4. i \in ToSet(bs[q].sentences)
      <4>1. i - n \in DOMAIN bs[q].sentences /\ bs[q].sentences[i - n] = i
        BY <3>1, <3>3
      <4> QED
        BY <4>1 DEF ToSet
    <3>5. q \in 1 .. q
      BY <1>7
    <3> QED
      BY <2>2, <3>2, <3>4, <3>5
  <2> QED
    BY <2>1, <2>2
<1>11. ASSUME NEW i \in DOMAIN as, NEW j \in DOMAIN as, i < j
       PROVE  as[i].block <= as[j].block
  <2>1. CASE j \in 1 .. n
    <3>1. i \in 1 .. n
      BY <1>8, <1>11, <2>1
    <3>2. as[i] = as0[i] /\ as[j] = as0[j] /\ i \in DOMAIN as0 /\ j \in DOMAIN as0
      BY <1>8, <2>1, <3>1
    <3>3. as0[i].block <= as0[j].block
      BY <1>11, <3>2 DEF Paged, as0
    <3> QED
      BY <3>2, <3>3
  <2>2. CASE j \notin 1 .. n
    <3>1. as[j].block = q /\ as[i].block \in 1 .. q
      BY <1>10, <2>2
    <3> DEFINE x == as[i].block
               y == as[j].block
    <3>2. q \in Nat /\ y = q /\ x \in 1 .. q
      BY <1>7, <3>1
    <3> HIDE DEF x, y
    <3>3. x <= y
      BY <3>2
    <3> QED
      BY <3>3 DEF x, y
  <2> QED
    BY <2>1, <2>2
<1>12. Paged(bs, as)
  BY <1>6, <1>9, <1>10, <1>11 DEF Paged
<1> QED
  BY <1>1, <1>12 DEF bs, as

(* A block has the text and the fields it is made with.                    *)
LEMMA BlockIs ==
  \A kind, text, path, order, para :
    LET b == Block(kind, text, path, order, para) IN b.text = text /\ IsCitingBlock(b)
<1> TAKE kind, text, path, order, para
<1> DEFINE b == Block(kind, text, path, order, para)
<1>1. b = [x \in BlockFields |-> b[x]] /\ b.text = text /\ b.refs = <<>>
  BY DEF Block, BlockFields
<1> HIDE DEF b
<1>2. b.text = text /\ IsCitingBlock(b)
  BY <1>1, EmptyIs DEF IsCitingBlock, IsBlock
<1> QED
  BY <1>2 DEF b

(* What is read stays in pages as blocks are added.                        *)
LEMMA KeepsPages ==
  ASSUME NEW read, Paged(read.blocks, read.anchors), NEW block, block.text \in Texts, IsCitingBlock(block),
         Keep(Add(read, block))
  PROVE  Pages'
<1> DEFINE new == Add(read, block)
<1>1. Paged(new.blocks, new.anchors)
  BY AddPages
<1>2. blocks' = new.blocks /\ anchors' = new.anchors
  BY DEF Keep
<1> HIDE DEF new
<1> QED
  BY <1>1, <1>2 DEF Pages

(* Every step of the parsing keeps the pages.                              *)
LEMMA ParseKeepsPages ==
  ASSUME Pages, Scan, ParseStep
  PROVE  Pages'
<1>0. Paged(Read.blocks, Read.anchors)
  BY DEF Pages, Read
<1>1. CASE EmptyParagraph \/ EndTable \/ Other \/ EndBody \/ BuildChunks \/ CheckDocument
  BY <1>1 DEF EmptyParagraph, EndTable, Other, EndBody, BuildChunks, CheckDocument, parseVars, Pages
<1>2. CASE Heading
  <2>0. PICK kind, path, order, para :
          Keep(Add(Read, [Block(kind, Here.text, path, order, para) EXCEPT !.refs = Here.refs]))
    BY <1>2 DEF Heading
  <2> DEFINE base == Block(kind, Here.text, path, order, para)
  <2>00. base.text = Here.text /\ IsCitingBlock(base)
    BY BlockIs
  <2> DEFINE block == [base EXCEPT !.refs = Here.refs]
  <2>01. Keep(Add(Read, block))
    BY <2>0
  <2> HIDE DEF base
  <2>03. IsSeq(Here.refs)
    BY <1>2, ParagraphText DEF Heading
  <2>02. block.text = Here.text /\ IsCitingBlock(block)
    BY <2>00, <2>03 DEF IsCitingBlock, IsBlock, BlockFields
  <2>1. block.text = Here.text /\ IsCitingBlock(block) /\ Keep(Add(Read, block))
    BY <2>01, <2>02
  <2> HIDE DEF block
  <2> QED
    BY <1>0, <1>2, <2>1, ParagraphText, KeepsPages DEF Heading
<1>3. CASE ListItem
  <2>0. PICK kind, path, order, para, group :
          Keep(Add([Read EXCEPT !.blocks = WithLead],
                   [Block(kind, Here.text, path, order, para) EXCEPT !.refs = Here.refs, !.group = group]))
    BY <1>3 DEF ListItem
  <2> DEFINE base == Block(kind, Here.text, path, order, para)
  <2>00. base.text = Here.text /\ IsCitingBlock(base)
    BY BlockIs
  <2> DEFINE block == [base EXCEPT !.refs = Here.refs, !.group = group]
  <2>01. Keep(Add([Read EXCEPT !.blocks = WithLead], block))
    BY <2>0
  <2> HIDE DEF base
  <2>03. IsSeq(Here.refs)
    BY <1>3, ParagraphText DEF ListItem
  <2>02. block.text = Here.text /\ IsCitingBlock(block)
    BY <2>00, <2>03 DEF IsCitingBlock, IsBlock, BlockFields
  <2>1. block.text = Here.text /\ IsCitingBlock(block) /\ Keep(Add([Read EXCEPT !.blocks = WithLead], block))
    BY <2>01, <2>02
  <2> HIDE DEF block
  <2>2. Here.text \in Texts
    BY <1>3, ParagraphText DEF ListItem
  <2>3. Paged(WithLead, anchors)
    <3>1. blocks = [k \in DOMAIN blocks |-> blocks[k]] /\ DOMAIN blocks = 1 .. Len(blocks)
          /\ Len(blocks) \in Nat
      BY SeqDomain DEF Pages, Paged, Parsed
    <3>2. CASE WithLead = blocks
      BY <3>2 DEF Pages
    <3>3. CASE WithLead # blocks
      <4> DEFINE p == cursor.previous
                 lead == [blocks[p] EXCEPT !.group = ItemGroup]
                 cs == [blocks EXCEPT ![p] = lead]
      <4>1. WithLead = cs
        BY <3>3 DEF WithLead
      <4>2. p \in DOMAIN blocks =>
              lead.text = blocks[p].text /\ lead.sentences = blocks[p].sentences /\ IsCitingBlock(lead)
        <5>1. p \in DOMAIN blocks => IsCitingBlock(blocks[p])
          BY DEF Pages, Paged
        <5> QED
          BY <5>1 DEF IsCitingBlock, IsBlock, BlockFields
      <4> HIDE DEF lead
      <4>3. cs = [k \in 1 .. Len(blocks) |-> cs[k]] /\ DOMAIN cs = DOMAIN blocks
        BY <3>1
      <4>4. \A k \in DOMAIN blocks : /\ IsCitingBlock(cs[k])
                                     /\ cs[k].text = blocks[k].text /\ cs[k].sentences = blocks[k].sentences
        <5>1. \A k \in DOMAIN blocks : cs[k] = IF k = p THEN lead ELSE blocks[k]
          BY <3>1
        <5>2. \A k \in DOMAIN blocks : IsCitingBlock(blocks[k])
          BY DEF Pages, Paged
        <5> HIDE DEF cs
        <5> QED
          BY <4>2, <5>1, <5>2
      <4> HIDE DEF cs
      <4>5. IsSeq(cs)
        BY <3>1, <4>3, FunctionIsSeq
      <4> QED
        BY <4>1, <4>3, <4>4, <4>5, SamePages DEF Pages
    <3> QED
      BY <3>2, <3>3
  <2> DEFINE read == [Read EXCEPT !.blocks = WithLead]
  <2>4. read.blocks = WithLead /\ read.anchors = anchors
    BY DEF Read
  <2> HIDE DEF read
  <2> QED
    BY <2>1, <2>2, <2>3, <2>4, KeepsPages DEF read
<1>4. CASE Paragraph
  <2>0. PICK kind, path, order, para :
          Keep(Add(Read, [Block(kind, Here.text, path, order, para) EXCEPT !.refs = Here.refs]))
    BY <1>4 DEF Paragraph
  <2> DEFINE base == Block(kind, Here.text, path, order, para)
  <2>00. base.text = Here.text /\ IsCitingBlock(base)
    BY BlockIs
  <2> DEFINE block == [base EXCEPT !.refs = Here.refs]
  <2>01. Keep(Add(Read, block))
    BY <2>0
  <2> HIDE DEF base
  <2>03. IsSeq(Here.refs)
    BY <1>4, ParagraphText DEF Paragraph
  <2>02. block.text = Here.text /\ IsCitingBlock(block)
    BY <2>00, <2>03 DEF IsCitingBlock, IsBlock, BlockFields
  <2>1. block.text = Here.text /\ IsCitingBlock(block) /\ Keep(Add(Read, block))
    BY <2>01, <2>02
  <2> HIDE DEF block
  <2> QED
    BY <1>0, <1>4, <2>1, ParagraphText, KeepsPages DEF Paragraph
<1>5. CASE TableCell
  <2>1. CASE Here.cells[cursor.cell + 1].text = <<>>
    BY <1>5, <2>1 DEF TableCell, Pages
  <2>2. CASE Here.cells[cursor.cell + 1].text # <<>>
    <3> DEFINE refs == Here.cells[cursor.cell + 1].refs
    <3>0. PICK kind, path, order, para, table, cell :
            Keep(Add(Read, [Block(kind, Here.cells[cursor.cell + 1].text, path, order, para)
                              EXCEPT !.refs = refs, !.table = table, !.cell = cell]))
      BY <1>5, <2>2 DEF TableCell
    <3>03. IsSeq(refs)
      BY <1>5, CellText DEF TableCell
    <3> DEFINE base == Block(kind, Here.cells[cursor.cell + 1].text, path, order, para)
    <3>00. base.text = Here.cells[cursor.cell + 1].text /\ IsCitingBlock(base)
      BY BlockIs
    <3> DEFINE block == [base EXCEPT !.refs = refs, !.table = table, !.cell = cell]
    <3>01. Keep(Add(Read, block))
      BY <3>0
    <3> HIDE DEF base, refs
    <3>02. block.text = Here.cells[cursor.cell + 1].text /\ IsCitingBlock(block)
      BY <3>00, <3>03 DEF IsCitingBlock, IsBlock, BlockFields
    <3>1. block.text = Here.cells[cursor.cell + 1].text /\ IsCitingBlock(block) /\ Keep(Add(Read, block))
      BY <3>01, <3>02
    <3> HIDE DEF block
    <3> QED
      BY <1>0, <1>5, <3>1, CellText, KeepsPages DEF TableCell
  <2> QED
    BY <2>1, <2>2
<1>6. CASE ReadNote
  <2>0. PICK kind, path, order, para, note :
          Keep(Add(Read, [Block(kind, doc.notes[NoteAt].text, path, order, para) EXCEPT !.note = note]))
    BY <1>6 DEF ReadNote
  <2> DEFINE base == Block(kind, doc.notes[NoteAt].text, path, order, para)
  <2>00. base.text = doc.notes[NoteAt].text /\ IsCitingBlock(base)
    BY BlockIs
  <2> DEFINE block == [base EXCEPT !.note = note]
  <2>01. Keep(Add(Read, block))
    BY <2>0
  <2> HIDE DEF base
  <2>02. block.text = doc.notes[NoteAt].text /\ IsCitingBlock(block)
    BY <2>00 DEF IsCitingBlock, IsBlock, BlockFields
  <2>1. block.text = doc.notes[NoteAt].text /\ IsCitingBlock(block) /\ Keep(Add(Read, block))
    BY <2>01, <2>02
  <2> HIDE DEF block
  <2> QED
    BY <1>0, <1>6, <2>1, NoteText, KeepsPages DEF ReadNote
<1>7. CASE Relate
  <2>1. blocks' = [k \in DOMAIN blocks |-> [blocks[k] EXCEPT !.relations = RelationsOf(k)]]
        /\ anchors' = anchors
    BY <1>7 DEF Relate
  <2>2. DOMAIN blocks = 1 .. Len(blocks) /\ Len(blocks) \in Nat
    BY SeqDomain DEF Pages, Paged, Parsed
  <2>3. blocks' = [k \in 1 .. Len(blocks) |-> blocks'[k]] /\ DOMAIN blocks' = DOMAIN blocks
    BY <2>1, <2>2
  <2>4. IsSeq(blocks')
    BY <2>2, <2>3, FunctionIsSeq
  <2>5. ASSUME NEW k \in DOMAIN blocks
        PROVE  /\ IsCitingBlock(blocks'[k])
               /\ blocks'[k].text = blocks[k].text /\ blocks'[k].sentences = blocks[k].sentences
    <3>1. PICK r : blocks'[k] = [blocks[k] EXCEPT !.relations = r]
      BY <2>1
    <3>2. IsCitingBlock(blocks[k])
      BY DEF Pages, Paged
    <3> QED
      BY <3>1, <3>2 DEF IsCitingBlock, IsBlock, BlockFields
  <2> QED
    BY <2>1, <2>3, <2>4, <2>5, SamePages DEF Pages
<1> QED
  BY <1>1, <1>2, <1>3, <1>4, <1>5, <1>6, <1>7 DEF ParseStep

(* The anchors of a block are its sentences.                               *)
LEMMA OwnAnchors ==
  ASSUME Pages, NEW k \in DOMAIN blocks
  PROVE  /\ Of(k) = ToSet(blocks[k].sentences) /\ IsSeq(blocks[k].sentences)
         /\ \E b : /\ Owned(blocks, anchors, k, b)
                   /\ Len(blocks[k].sentences) = Len(Split(blocks[k].text))
<1> DEFINE s == blocks[k].sentences
           L == Len(Split(blocks[k].text))
<1>1. PICK b : Owned(blocks, anchors, k, b)
  BY DEF Pages, Paged
<1>2. L \in Nat
  BY <1>1, SplitIs, SeqDomain DEF Owned
<1>3. s = [m \in 1 .. L |-> b + m] /\ b \in Nat /\ b + L <= Len(anchors)
      /\ \A m \in 1 .. L : anchors[b + m].block = k
  BY <1>1, SplitIs, SeqDomain DEF Owned
<1> HIDE DEF L
<1>4. IsSeq(s) /\ Len(s) = L /\ DOMAIN s = 1 .. L
  <2>1. s = [m \in 1 .. L |-> s[m]]
    BY <1>3
  <2> HIDE DEF s
  <2> QED
    BY <1>2, <2>1, FunctionIsSeq, SeqDomain
<1>5. DOMAIN anchors = 1 .. Len(anchors) /\ Len(anchors) \in Nat
  BY SeqDomain DEF Pages, Paged, Parsed
<1>6. ASSUME NEW i \in ToSet(s) PROVE i \in Of(k)
  <2>1. PICK m \in 1 .. L : i = b + m
    BY <1>3, <1>4 DEF ToSet
  <2>2. i \in DOMAIN anchors
    BY <1>2, <1>3, <1>5, <2>1
  <2> QED
    BY <1>3, <2>1, <2>2 DEF Of
<1>7. ASSUME NEW i \in Of(k) PROVE i \in ToSet(s)
  BY DEF Of, Pages, Paged
<1> QED
  BY <1>1, <1>4, <1>6, <1>7 DEF L

(* The anchors of a block by their place are its sentences.                *)
LEMMA OwnSorted ==
  ASSUME Pages, NEW k \in DOMAIN blocks
  PROVE  ByStart(Of(k)) = blocks[k].sentences
<1> DEFINE s == blocks[k].sentences
           parts == Split(blocks[k].text)
           L == Len(parts)
           key == [i \in Of(k) |-> anchors[i].start]
<1>1. Of(k) = ToSet(s) /\ IsSeq(s) /\ Len(s) = L
  BY OwnAnchors
<1>2. PICK b : Owned(blocks, anchors, k, b)
  BY OwnAnchors
<1>3. /\ \A m \in 1 .. L : s[m] = b + m /\ anchors[b + m].start = parts[m].start
      /\ blocks[k].text \in Texts
  BY <1>2 DEF Owned
<1>4. /\ \A m \in 1 .. L : parts[m].start \in Nat
      /\ \A m, n \in 1 .. L : m < n => parts[m].start < parts[n].start
  <2>1. CASE blocks[k].text = <<>>
    BY <2>1, EmptyIs DEF Split
  <2>2. CASE blocks[k].text # <<>>
    BY <1>3, <2>2, SplitParts
  <2> QED
    BY <2>1, <2>2
<1>5. \A m \in 1 .. L : key[s[m]] = parts[m].start
  BY <1>1, <1>3, SeqDomain DEF ToSet
<1> HIDE DEF key, parts, s, L
<1>6. Ranked(ToSet(s), key) = s
  BY <1>1, <1>4, <1>5, RankedOf
<1> QED
  BY <1>1, <1>6 DEF ByStart, key, s

(* What is in pages passes the validators of the split and of the anchors. *)
LEMMA PagesLossless ==
  ASSUME Pages PROVE LosslessSplit /\ AnchorOwnership /\ AnchorOrder
<1>1. AnchorOwnership
  BY OwnSorted DEF AnchorOwnership
<1>2. ASSUME NEW k \in DOMAIN blocks
      PROVE  LET own == ByStart(Of(k))
             IN  /\ FlattenSeq([n \in DOMAIN own |-> anchors[own[n]].text]) = blocks[k].text
                 /\ \A i \in Of(k) : SubSeq(blocks[k].text, anchors[i].start + 1,
                                            anchors[i].start + Len(anchors[i].text)) = anchors[i].text
  <2> DEFINE s == blocks[k].sentences
             t == blocks[k].text
             parts == Split(t)
             L == Len(parts)
  <2>1. ByStart(Of(k)) = s /\ Of(k) = ToSet(s) /\ IsSeq(s) /\ Len(s) = L
    BY OwnSorted, OwnAnchors
  <2>2. PICK b : Owned(blocks, anchors, k, b)
    BY OwnAnchors
  <2>3. /\ \A m \in 1 .. L : /\ s[m] = b + m
                             /\ anchors[s[m]].text = parts[m].text
                             /\ anchors[s[m]].start = parts[m].start
        /\ t \in Texts
    BY <2>2 DEF Owned
  <2>4. DOMAIN s = 1 .. L
    BY <2>1, SeqDomain
  <2>5. CASE t = <<>>
    <3>1. L = 0
      BY <2>5, EmptyIs DEF Split
    <3> HIDE DEF L
    <3>2. DOMAIN s = {} /\ ToSet(s) = {}
      BY <2>4, <3>1 DEF ToSet
    <3>3. [n \in {} |-> anchors[s[n]].text] = <<>>
      OBVIOUS
    <3>4. FlattenSeq(<<>>) = <<>>
      BY EmptyIs DEF FlattenSeq
    <3> QED
      BY <2>1, <2>5, <3>2, <3>3, <3>4
  <2>6. CASE t # <<>>
    <3>1. /\ \A m \in 1 .. L : SubSeq(t, parts[m].start + 1, parts[m].start + Len(parts[m].text)) = parts[m].text
          /\ FlattenSeq([m \in 1 .. L |-> parts[m].text]) = t
      BY <2>3, <2>6, SplitParts
    <3> HIDE DEF L, parts
    <3>2. [n \in DOMAIN s |-> anchors[s[n]].text] = [m \in 1 .. L |-> parts[m].text]
      BY <2>3, <2>4
    <3>3. ASSUME NEW i \in ToSet(s)
          PROVE  SubSeq(t, anchors[i].start + 1, anchors[i].start + Len(anchors[i].text)) = anchors[i].text
      <4>1. PICK m \in 1 .. L : i = s[m]
        BY <2>4 DEF ToSet
      <4> QED
        BY <2>3, <3>1, <4>1
    <3> QED
      BY <2>1, <3>1, <3>2, <3>3
  <2> QED
    BY <2>5, <2>6
<1>3. ASSUME NEW i \in 2 .. Len(anchors)
      PROVE  \/ anchors[i - 1].block < anchors[i].block
             \/ /\ anchors[i - 1].block = anchors[i].block
                /\ anchors[i - 1].start <= anchors[i].start
  <2>1. DOMAIN anchors = 1 .. Len(anchors) /\ Len(anchors) \in Nat /\ DOMAIN blocks = 1 .. Len(blocks)
    BY SeqDomain DEF Pages, Paged, Parsed
  <2>2. i - 1 \in DOMAIN anchors /\ i \in DOMAIN anchors /\ i - 1 < i
    BY <2>1
  <2> DEFINE j == i - 1
             x == anchors[j].block
             y == anchors[i].block
  <2>3. x <= y /\ x \in DOMAIN blocks /\ y \in DOMAIN blocks
    BY <2>2 DEF Pages, Paged, Parsed
  <2>4. CASE x = y
    <3>1. j \in Of(y) /\ i \in Of(y)
      BY <2>2, <2>4 DEF Of
    <3> DEFINE s == blocks[y].sentences
               parts == Split(blocks[y].text)
               L == Len(parts)
    <3>2. Of(y) = ToSet(s) /\ IsSeq(s) /\ Len(s) = L
      BY <2>3, OwnAnchors
    <3>3. PICK b : Owned(blocks, anchors, y, b)
      BY <2>3, OwnAnchors
    <3>4. /\ \A m \in 1 .. L : s[m] = b + m /\ anchors[b + m].start = parts[m].start
          /\ blocks[y].text \in Texts /\ b \in Nat
      BY <3>3 DEF Owned
    <3>5. DOMAIN s = 1 .. L
      BY <3>2, SeqDomain
    <3> HIDE DEF parts, s
    <3>6. PICK m \in 1 .. L : j = b + m
      BY <3>1, <3>2, <3>4, <3>5 DEF ToSet
    <3>7. PICK n \in 1 .. L : i = b + n
      BY <3>1, <3>2, <3>4, <3>5 DEF ToSet
    <3>8. m < n
      BY <2>2, <3>4, <3>6, <3>7
    <3>9. blocks[y].text # <<>>
      BY <3>6, EmptyIs DEF Split, parts
    <3>10. parts[m].start < parts[n].start /\ parts[m].start \in Nat /\ parts[n].start \in Nat
      BY <3>4, <3>8, <3>9, SplitParts DEF parts
    <3>11. anchors[j].start = parts[m].start /\ anchors[i].start = parts[n].start
      BY <3>4, <3>6, <3>7
    <3> QED
      BY <2>4, <3>10, <3>11
  <2>5. CASE x # y
    <3>1. x \in Int /\ y \in Int
      BY <2>1, <2>3
    <3> HIDE DEF x, y
    <3>2. x < y
      BY <2>3, <2>5, <3>1
    <3> QED
      BY <3>2 DEF x, y
  <2> QED
    BY <2>4, <2>5
<1> QED
  BY <1>1, <1>2, <1>3 DEF LosslessSplit, AnchorOrder

-----------------------------------------------------------------------------
(* What a block is related to, by kind.                                    *)
Related(k, r) ==
  \/ r.kind = "list_lead" /\ r.target \in Lead(k)
  \/ r.kind = "previous" /\ r.target = k - 1 /\ k - 1 # 0 /\ Adjacent(blocks[r.target], blocks[k])
  \/ r.kind = "left" /\ r.target \in LeftCell(k)
  \/ r.kind = "above" /\ r.target \in AboveCell(k)
  \/ r.kind = "note" /\ r.target \in UNION {NoteBlock(n) : n \in ToSet(blocks[k].refs)}

(* Blocks and anchors are numbered.                                        *)
LEMMA BlocksNumbered ==
  ASSUME Layout
  PROVE  Len(blocks) \in Nat /\ DOMAIN blocks = 1 .. Len(blocks) /\ IsFiniteSet(DOMAIN blocks)
         /\ Len(anchors) \in Nat /\ DOMAIN anchors = 1 .. Len(anchors)
BY SeqDomain, SeqFinite DEF Layout, Parsed

(* A relation leads to a block.                                            *)
LEMMA RelatedInside ==
  ASSUME Layout, NEW k \in DOMAIN blocks, NEW r, Related(k, r)
  PROVE  r.target \in DOMAIN blocks
<1>0. DOMAIN blocks = 1 .. Len(blocks) /\ Len(blocks) \in Nat
  BY BlocksNumbered
<1>1. CASE r.target \in Lead(k)
  <2> DEFINE leads == {j \in 1 .. k - 1 : /\ blocks[j].group = blocks[k].group
                                          /\ blocks[j].kind # "list"}
  <2>1. leads # {} /\ r.target = Max(leads)
    BY <1>1 DEF Lead
  <2>2. leads \in SUBSET (0 .. k) /\ k \in Nat
    BY <1>0
  <2> HIDE DEF leads
  <2>3. Max(leads) \in leads
    BY <2>1, <2>2, MaxIs
  <2> QED
    BY <1>0, <2>1, <2>3 DEF leads
<1>2. CASE r.target = k - 1 /\ k - 1 # 0
  BY <1>0, <1>2
<1>3. CASE r.target \in LeftCell(k)
  BY <1>3 DEF LeftCell, Nearest, Cells
<1>4. CASE r.target \in AboveCell(k)
  BY <1>4 DEF AboveCell, Nearest, Cells
<1>5. CASE r.target \in UNION {NoteBlock(n) : n \in ToSet(blocks[k].refs)}
  <2>1. PICK n : r.target \in NoteBlock(n)
    BY <1>5
  <2> DEFINE S == {j \in DOMAIN blocks : blocks[j].note = n}
  <2>2. S # {} /\ r.target = Min(S)
    BY <2>1 DEF NoteBlock
  <2>3. S \subseteq Nat
    BY <1>0
  <2> HIDE DEF S
  <2>4. Min(S) \in S
    BY <2>2, <2>3, NatMinIs
  <2> QED
    BY <2>2, <2>4 DEF S
<1> QED
  BY <1>1, <1>2, <1>3, <1>4, <1>5 DEF Related

(* The notes a block is related to are among those it cites.               *)
LEMMA CitedNotesAre ==
  ASSUME Layout, NEW k \in DOMAIN blocks, IsSeq(blocks[k].refs)
  PROVE  /\ IsSeq(CitedNotes(k))
         /\ \A r \in ToSet(CitedNotes(k)) :
              r.kind = "note" /\ r.target \in UNION {NoteBlock(n) : n \in ToSet(blocks[k].refs)}
<1> DEFINE refs == blocks[k].refs
           first == {n \in DOMAIN refs : /\ NoteBlock(refs[n]) # {}
                                         /\ \A m \in DOMAIN refs : m < n => refs[m] # refs[n]}
           c == Cardinality(first)
           notes == [i \in 1 .. c |-> [kind |-> "note", target |-> Min(NoteBlock(refs[InOrder(first)[i]]))]]
<1>1. CitedNotes(k) = notes
  BY DEF CitedNotes
<1>2. IsFiniteSet(first) /\ first \subseteq DOMAIN refs /\ first \subseteq Int
  <2>1. IsFiniteSet(DOMAIN refs) /\ DOMAIN refs \subseteq Int
    BY SeqFinite, SeqDomain
  <2>2. first \subseteq DOMAIN refs
    OBVIOUS
  <2> QED
    BY <2>1, <2>2, FS_Subset
<1>3. \A n \in first : NoteBlock(refs[n]) # {}
  OBVIOUS
<1> HIDE DEF first
<1>4. c \in Nat /\ DOMAIN InOrder(first) = 1 .. c /\ ToSet(InOrder(first)) = first
  BY <1>2, InOrderIs
<1>5. \A i \in 1 .. c : InOrder(first)[i] \in first
  BY <1>4 DEF ToSet
<1>6. ASSUME NEW n \in first PROVE Min(NoteBlock(refs[n])) \in NoteBlock(refs[n])
  <2> DEFINE S == {j \in DOMAIN blocks : blocks[j].note = refs[n]}
  <2>1. NoteBlock(refs[n]) = IF S = {} THEN {} ELSE {Min(S)}
    BY DEF NoteBlock
  <2>2. S \subseteq Nat
    BY BlocksNumbered
  <2> HIDE DEF S
  <2>3. S # {} /\ NoteBlock(refs[n]) = {Min(S)}
    BY <1>3, <2>1
  <2>4. Min(S) \in Nat
    BY <2>2, <2>3, NatMinIs
  <2>5. {Min(S)} # {} /\ {Min(S)} \subseteq Nat
    BY <2>4
  <2>6. Min({Min(S)}) \in {Min(S)}
    BY <2>5, NatMinIs
  <2> QED
    BY <2>3, <2>6
<1>7. \A i \in 1 .. c : notes[i].kind = "note" /\ notes[i].target = Min(NoteBlock(refs[InOrder(first)[i]]))
  OBVIOUS
<1>8. notes = [i \in 1 .. c |-> notes[i]] /\ DOMAIN notes = 1 .. c
  OBVIOUS
<1> HIDE DEF notes, c
<1>9. IsSeq(notes)
  BY <1>4, <1>8, FunctionIsSeq
<1>10. ASSUME NEW r \in ToSet(notes)
       PROVE  r.kind = "note" /\ r.target \in UNION {NoteBlock(n) : n \in ToSet(refs)}
  <2>1. PICK i \in 1 .. c : r = notes[i]
    BY <1>8 DEF ToSet
  <2>2. PICK n \in first : n = InOrder(first)[i]
    BY <1>5
  <2>3. r.kind = "note" /\ r.target \in NoteBlock(refs[n])
    BY <1>6, <1>7, <2>1, <2>2
  <2>4. refs[n] \in ToSet(refs)
    BY <1>2, <2>2 DEF ToSet
  <2> QED
    BY <2>3, <2>4
<1> QED
  BY <1>1, <1>9, <1>10

(* Every relation of a block is of one of its kinds.                       *)
LEMMA RelationsAre ==
  ASSUME Layout, NEW k \in DOMAIN blocks, IsSeq(blocks[k].refs)
  PROVE  IsSeq(RelationsOf(k)) /\ \A r \in ToSet(RelationsOf(k)) : Related(k, r)
<1> DEFINE to(kind, S) == [i \in 1 .. Cardinality(S) |-> [kind |-> kind, target |-> InOrder(S)[i]]]
           A == Lead(k)
           B == {j \in {k - 1} \ {0} : Adjacent(blocks[j], blocks[k])}
           C == LeftCell(k)
           D == AboveCell(k)
           E == UNION {NoteBlock(n) : n \in ToSet(blocks[k].refs)}
           a == to("list_lead", A)
           b == to("previous", B)
           c == to("left", C)
           d == to("above", D)
           e == CitedNotes(k)
<1>0. DOMAIN blocks = 1 .. Len(blocks) /\ Len(blocks) \in Nat /\ IsFiniteSet(DOMAIN blocks)
  BY BlocksNumbered
<1>1. /\ A \subseteq DOMAIN blocks /\ B \subseteq DOMAIN blocks /\ C \subseteq DOMAIN blocks
      /\ D \subseteq DOMAIN blocks /\ E \subseteq DOMAIN blocks
  <2>1. \A x : x \in A => Related(k, [kind |-> "list_lead", target |-> x])
    BY DEF Related
  <2>2. \A x : x \in E => Related(k, [kind |-> "note", target |-> x])
    BY DEF Related
  <2>3. \A x : [kind |-> "list_lead", target |-> x].target = x /\ [kind |-> "note", target |-> x].target = x
    OBVIOUS
  <2>4. A \subseteq DOMAIN blocks /\ E \subseteq DOMAIN blocks
    <3> HIDE DEF A, E
    <3> QED
      BY <2>1, <2>2, <2>3, RelatedInside
  <2>5. B \subseteq DOMAIN blocks
    BY <1>0
  <2>6. C \subseteq DOMAIN blocks /\ D \subseteq DOMAIN blocks
    BY DEF LeftCell, AboveCell, Nearest, Cells
  <2> QED
    BY <2>4, <2>5, <2>6
<1>2. /\ \A r : r.kind = "list_lead" /\ r.target \in A => Related(k, r)
      /\ \A r : r.kind = "previous" /\ r.target \in B => Related(k, r)
      /\ \A r : r.kind = "left" /\ r.target \in C => Related(k, r)
      /\ \A r : r.kind = "above" /\ r.target \in D => Related(k, r)
      /\ \A r : r.kind = "note" /\ r.target \in E => Related(k, r)
  BY DEF Related
<1>3. RelationsOf(k) = a \o b \o c \o d \o e
  BY DEF RelationsOf
<1> HIDE DEF A, B, C, D, E
<1>20. ASSUME NEW kind, NEW S, S \subseteq DOMAIN blocks
       PROVE  IsSeq(to(kind, S)) /\ \A r \in ToSet(to(kind, S)) : r.kind = kind /\ r.target \in S
  <2>1. IsFiniteSet(S) /\ S \subseteq Int
    BY <1>0, <1>20, FS_Subset
  <2> QED
    BY <2>1, ToIs
<1> HIDE DEF to
<1>4. IsSeq(a) /\ \A r \in ToSet(a) : r.kind = "list_lead" /\ r.target \in A
  BY <1>1, <1>20
<1>5. IsSeq(b) /\ \A r \in ToSet(b) : r.kind = "previous" /\ r.target \in B
  BY <1>1, <1>20
<1>6. IsSeq(c) /\ \A r \in ToSet(c) : r.kind = "left" /\ r.target \in C
  BY <1>1, <1>20
<1>7. IsSeq(d) /\ \A r \in ToSet(d) : r.kind = "above" /\ r.target \in D
  BY <1>1, <1>20
<1>8. IsSeq(e) /\ \A r \in ToSet(e) : r.kind = "note" /\ r.target \in E
  BY CitedNotesAre DEF E
<1> HIDE DEF a, b, c, d, e
<1>9. IsSeq(a \o b) /\ ToSet(a \o b) = ToSet(a) \cup ToSet(b)
  BY <1>4, <1>5, ConcatIs
<1> DEFINE ab == a \o b
           abc == ab \o c
           abcd == abc \o d
<1> HIDE DEF ab
<1>10. IsSeq(abc) /\ ToSet(abc) = ToSet(ab) \cup ToSet(c)
  BY <1>6, <1>9, ConcatIs DEF ab
<1> HIDE DEF abc
<1>11. IsSeq(abcd) /\ ToSet(abcd) = ToSet(abc) \cup ToSet(d)
  BY <1>7, <1>10, ConcatIs
<1> HIDE DEF abcd
<1>12. IsSeq(abcd \o e) /\ ToSet(abcd \o e) = ToSet(abcd) \cup ToSet(e)
  BY <1>8, <1>11, ConcatIs
<1>13. RelationsOf(k) = abcd \o e
  BY <1>3 DEF ab, abc, abcd
<1>14. \A r \in ToSet(ab) : Related(k, r)
  BY <1>2, <1>4, <1>5, <1>9 DEF ab
<1>15. \A r \in ToSet(abcd) : Related(k, r)
  BY <1>2, <1>6, <1>7, <1>10, <1>11, <1>14
<1>16. \A r \in ToSet(e) : Related(k, r)
  BY <1>2, <1>8
<1> QED
  BY <1>12, <1>13, <1>15, <1>16

-----------------------------------------------------------------------------
(* The cutting of a long block, before its first sentence.                 *)
LongStart == [full |-> <<>>, open |-> <<>>, weight |-> 0, overlap |-> {}]

(* The fold of _split_long_block, sentence by sentence. *)
LongIter(k, f, D) ==
  f = [v \in SUBSET D |->
         IF v = {} THEN LongStart ELSE AddSentence(k, f[v \ {Max(v)}], blocks[k].sentences[Max(v)])]

(* The fold over the sentences of a long block has a value after each.     *)
LEMMA LongExists ==
  ASSUME NEW k, NEW n \in Nat
  PROVE  \E f : LongIter(k, f, 1 .. n)
<1> DEFINE T == {m \in Nat : \E f : LongIter(k, f, 1 .. m)}
<1>1. 0 \in T
  <2> DEFINE f == [v \in SUBSET (1 .. 0) |-> LongStart]
  <2>1. SUBSET (1 .. 0) = {{}}
    OBVIOUS
  <2>2. LongIter(k, f, 1 .. 0)
    BY <2>1 DEF LongIter
  <2> HIDE DEF f
  <2> QED
    BY <2>2
<1>2. ASSUME NEW m \in Nat, m \in T PROVE m + 1 \in T
  <2>1. PICK f : LongIter(k, f, 1 .. m)
    BY <1>2
  <2> DEFINE D == 1 .. m + 1
             h == [v \in SUBSET D |->
                     IF m + 1 \in v THEN AddSentence(k, f[v \ {m + 1}], blocks[k].sentences[m + 1]) ELSE f[v]]
             next(v) == IF v = {} THEN LongStart ELSE AddSentence(k, h[v \ {Max(v)}], blocks[k].sentences[Max(v)])
  <2>2. \A v \in SUBSET (1 .. m) : v \in SUBSET D /\ m + 1 \notin v /\ h[v] = f[v]
    OBVIOUS
  <2>3. ASSUME NEW v \in SUBSET D PROVE h[v] = next(v)
    <3>1. CASE m + 1 \in v
      <4>1. v # {} /\ v \in SUBSET (0 .. m + 1)
        BY <3>1
      <4>10. m + 1 \in Nat
        OBVIOUS
      <4>2. Max(v) \in v /\ \A x \in v : x <= Max(v)
        BY <4>1, <4>10, MaxIs
      <4>11. Max(v) \in 1 .. m + 1 /\ m + 1 <= Max(v)
        <5> HIDE DEF h, next
        <5>1. \A x \in v : x \in 1 .. m + 1
          OBVIOUS
        <5> HIDE DEF D
        <5> QED
          BY <3>1, <4>2, <5>1
      <4>3. Max(v) = m + 1
        <5> DEFINE M == Max(v)
        <5> HIDE DEF M, h, next, D
        <5>1. M \in 1 .. m + 1 /\ m + 1 <= M
          BY <4>11 DEF M
        <5>2. M = m + 1
          BY <5>1
        <5> QED
          BY <5>2 DEF M
      <4>4. v \ {m + 1} \in SUBSET (1 .. m)
        OBVIOUS
      <4>5. h[v \ {m + 1}] = f[v \ {m + 1}]
        BY <2>2, <4>4
      <4>6. h[v] = AddSentence(k, f[v \ {m + 1}], blocks[k].sentences[m + 1])
        BY <3>1
      <4> HIDE DEF h
      <4> QED
        BY <4>1, <4>3, <4>5, <4>6
    <3>2. CASE m + 1 \notin v
      <4>1. v \in SUBSET (1 .. m)
        BY <3>2
      <4>2. h[v] = f[v] /\ h[v \ {Max(v)}] = f[v \ {Max(v)}]
        BY <2>2, <4>1
      <4>3. f[v] = IF v = {} THEN LongStart ELSE AddSentence(k, f[v \ {Max(v)}], blocks[k].sentences[Max(v)])
        BY <2>1, <4>1 DEF LongIter
      <4> HIDE DEF h
      <4> QED
        BY <4>2, <4>3
    <3> QED
      BY <3>1, <3>2
  <2>4. h = [v \in SUBSET D |-> h[v]]
    OBVIOUS
  <2> HIDE DEF h
  <2>5. LongIter(k, h, D)
    <3>1. h = [v \in SUBSET D |-> next(v)]
      BY <2>3, <2>4
    <3> QED
      BY <3>1 DEF LongIter
  <2> QED
    BY <2>5
<1> HIDE DEF T
<1>3. Nat \subseteq T
  BY <1>1, <1>2, Rises
<1> QED
  BY <1>3 DEF T

(* A long block is cut sentence by sentence.                               *)
LEMMA LongSteps ==
  ASSUME NEW k, IsSeq(blocks[k].sentences)
  PROVE  \E g : /\ g[0] = LongStart
                /\ \A n \in 1 .. Len(blocks[k].sentences) : g[n] = AddSentence(k, g[n - 1], blocks[k].sentences[n])
                /\ FoldLeft(LAMBDA s, i : AddSentence(k, s, i), LongStart, blocks[k].sentences) = g[Len(blocks[k].sentences)]
<1> DEFINE W == blocks[k].sentences
           L == Len(W)
           f == CHOOSE f : LongIter(k, f, DOMAIN W)
<1>1. L \in Nat /\ DOMAIN W = 1 .. L
  BY SeqDomain
<1>2. FoldLeft(LAMBDA s, i : AddSentence(k, s, i), LongStart, blocks[k].sentences) = f[DOMAIN W]
  BY DEF FoldLeft, MapThenFoldSet, LongIter
<1> HIDE DEF W
<1>3. \E e : LongIter(k, e, DOMAIN W)
  BY <1>1, LongExists
<1>4. LongIter(k, f, DOMAIN W)
  BY <1>3
<1> HIDE DEF f
<1>5. f[{}] = LongStart
  BY <1>4 DEF LongIter
<1>6. ASSUME NEW n \in 1 .. L PROVE f[1 .. n] = AddSentence(k, f[1 .. n - 1], blocks[k].sentences[n])
  <2> DEFINE v == 1 .. n
  <2>1. n \in v /\ v \in SUBSET (0 .. n) /\ v \in SUBSET DOMAIN W /\ n \in Nat
    BY <1>1
  <2>2. Max(v) \in v /\ \A x \in v : x <= Max(v)
    BY <2>1, MaxIs
  <2>3. Max(v) = n /\ v \ {n} = 1 .. n - 1 /\ v # {}
    BY <2>1, <2>2
  <2> HIDE DEF v
  <2>4. f[v] = AddSentence(k, f[v \ {Max(v)}], blocks[k].sentences[Max(v)])
    BY <1>4, <2>1, <2>3 DEF LongIter
  <2> QED
    BY <2>3, <2>4 DEF v
<1> DEFINE g == [n \in 0 .. L |-> f[1 .. n]]
<1>7. g[0] = LongStart /\ g[L] = f[DOMAIN W]
  BY <1>1, <1>5
<1>8. \A n \in 1 .. L : g[n] = AddSentence(k, g[n - 1], blocks[k].sentences[n])
  <2>1. \A n \in 1 .. L : n \in 0 .. L /\ n - 1 \in 0 .. L
    BY <1>1
  <2>2. \A n \in 0 .. L : g[n] = f[1 .. n]
    OBVIOUS
  <2> HIDE DEF g
  <2> QED
    BY <1>6, <2>1, <2>2
<1> HIDE DEF g
<1> QED
  BY <1>2, <1>7, <1>8 DEF W

BlockNumbers == [k \in DOMAIN blocks |-> k]

(* The fold of build_chunks, block by block. *)
PackIter(f, D) ==
  f = [v \in SUBSET D |->
         IF v = {} THEN Fresh(<<>>) ELSE Fit(Section(f[v \ {Max(v)}], BlockNumbers[Max(v)]), BlockNumbers[Max(v)])]

(* The fold over the blocks has a value after each.                        *)
LEMMA PackExists ==
  ASSUME NEW n \in Nat
  PROVE  \E f : PackIter(f, 1 .. n)
<1> DEFINE T == {m \in Nat : \E f : PackIter(f, 1 .. m)}
<1>1. 0 \in T
  <2> DEFINE f == [v \in SUBSET (1 .. 0) |-> Fresh(<<>>)]
  <2>1. SUBSET (1 .. 0) = {{}}
    OBVIOUS
  <2>2. PackIter(f, 1 .. 0)
    BY <2>1 DEF PackIter
  <2> HIDE DEF f
  <2> QED
    BY <2>2
<1>2. ASSUME NEW m \in Nat, m \in T PROVE m + 1 \in T
  <2>1. PICK f : PackIter(f, 1 .. m)
    BY <1>2
  <2> DEFINE D == 1 .. m + 1
             h == [v \in SUBSET D |->
                     IF m + 1 \in v THEN Fit(Section(f[v \ {m + 1}], BlockNumbers[m + 1]), BlockNumbers[m + 1]) ELSE f[v]]
             next(v) == IF v = {} THEN Fresh(<<>>) ELSE Fit(Section(h[v \ {Max(v)}], BlockNumbers[Max(v)]), BlockNumbers[Max(v)])
  <2>2. \A v \in SUBSET (1 .. m) : v \in SUBSET D /\ m + 1 \notin v /\ h[v] = f[v]
    OBVIOUS
  <2>3. ASSUME NEW v \in SUBSET D PROVE h[v] = next(v)
    <3>1. CASE m + 1 \in v
      <4>1. v # {} /\ v \in SUBSET (0 .. m + 1)
        BY <3>1
      <4>10. m + 1 \in Nat
        OBVIOUS
      <4>2. Max(v) \in v /\ \A x \in v : x <= Max(v)
        BY <4>1, <4>10, MaxIs
      <4>11. Max(v) \in 1 .. m + 1 /\ m + 1 <= Max(v)
        <5> HIDE DEF h, next
        <5>1. \A x \in v : x \in 1 .. m + 1
          OBVIOUS
        <5> HIDE DEF D
        <5> QED
          BY <3>1, <4>2, <5>1
      <4>3. Max(v) = m + 1
        <5> DEFINE M == Max(v)
        <5> HIDE DEF M, h, next, D
        <5>1. M \in 1 .. m + 1 /\ m + 1 <= M
          BY <4>11 DEF M
        <5>2. M = m + 1
          BY <5>1
        <5> QED
          BY <5>2 DEF M
      <4>4. v \ {m + 1} \in SUBSET (1 .. m)
        OBVIOUS
      <4>5. h[v \ {m + 1}] = f[v \ {m + 1}]
        BY <2>2, <4>4
      <4>6. h[v] = Fit(Section(f[v \ {m + 1}], BlockNumbers[m + 1]), BlockNumbers[m + 1])
        BY <3>1
      <4> HIDE DEF h
      <4> QED
        BY <4>1, <4>3, <4>5, <4>6
    <3>2. CASE m + 1 \notin v
      <4>1. v \in SUBSET (1 .. m)
        BY <3>2
      <4>2. h[v] = f[v] /\ h[v \ {Max(v)}] = f[v \ {Max(v)}]
        BY <2>2, <4>1
      <4>3. f[v] = IF v = {} THEN Fresh(<<>>) ELSE Fit(Section(f[v \ {Max(v)}], BlockNumbers[Max(v)]), BlockNumbers[Max(v)])
        BY <2>1, <4>1 DEF PackIter
      <4> HIDE DEF h
      <4> QED
        BY <4>2, <4>3
    <3> QED
      BY <3>1, <3>2
  <2>4. h = [v \in SUBSET D |-> h[v]]
    OBVIOUS
  <2> HIDE DEF h
  <2>5. PackIter(h, D)
    <3>1. h = [v \in SUBSET D |-> next(v)]
      BY <2>3, <2>4
    <3> QED
      BY <3>1 DEF PackIter
  <2> QED
    BY <2>5
<1> HIDE DEF T
<1>3. Nat \subseteq T
  BY <1>1, <1>2, Rises
<1> QED
  BY <1>3 DEF T

(* The chunks are built block by block.                                    *)
LEMMA PackSteps ==
  ASSUME IsSeq(BlockNumbers)
  PROVE  \E g : /\ g[0] = Fresh(<<>>)
                /\ \A n \in 1 .. Len(BlockNumbers) : g[n] = Fit(Section(g[n - 1], BlockNumbers[n]), BlockNumbers[n])
                /\ FoldLeft(LAMBDA s, k : Fit(Section(s, k), k), Fresh(<<>>), BlockNumbers) = g[Len(BlockNumbers)]
<1> DEFINE W == BlockNumbers
           L == Len(W)
           f == CHOOSE f : PackIter(f, DOMAIN W)
<1>1. L \in Nat /\ DOMAIN W = 1 .. L
  BY SeqDomain
<1>2. FoldLeft(LAMBDA s, k : Fit(Section(s, k), k), Fresh(<<>>), BlockNumbers) = f[DOMAIN W]
  BY DEF FoldLeft, MapThenFoldSet, PackIter
<1> HIDE DEF W
<1>3. \E e : PackIter(e, DOMAIN W)
  BY <1>1, PackExists
<1>4. PackIter(f, DOMAIN W)
  BY <1>3
<1> HIDE DEF f
<1>5. f[{}] = Fresh(<<>>)
  BY <1>4 DEF PackIter
<1>6. ASSUME NEW n \in 1 .. L PROVE f[1 .. n] = Fit(Section(f[1 .. n - 1], BlockNumbers[n]), BlockNumbers[n])
  <2> DEFINE v == 1 .. n
  <2>1. n \in v /\ v \in SUBSET (0 .. n) /\ v \in SUBSET DOMAIN W /\ n \in Nat
    BY <1>1
  <2>2. Max(v) \in v /\ \A x \in v : x <= Max(v)
    BY <2>1, MaxIs
  <2>3. Max(v) = n /\ v \ {n} = 1 .. n - 1 /\ v # {}
    BY <2>1, <2>2
  <2> HIDE DEF v
  <2>4. f[v] = Fit(Section(f[v \ {Max(v)}], BlockNumbers[Max(v)]), BlockNumbers[Max(v)])
    BY <1>4, <2>1, <2>3 DEF PackIter
  <2> QED
    BY <2>3, <2>4 DEF v
<1> DEFINE g == [n \in 0 .. L |-> f[1 .. n]]
<1>7. g[0] = Fresh(<<>>) /\ g[L] = f[DOMAIN W]
  BY <1>1, <1>5
<1>8. \A n \in 1 .. L : g[n] = Fit(Section(g[n - 1], BlockNumbers[n]), BlockNumbers[n])
  <2>1. \A n \in 1 .. L : n \in 0 .. L /\ n - 1 \in 0 .. L
    BY <1>1
  <2>2. \A n \in 0 .. L : g[n] = f[1 .. n]
    OBVIOUS
  <2> HIDE DEF g
  <2> QED
    BY <1>6, <2>1, <2>2
<1> HIDE DEF g
<1> QED
  BY <1>2, <1>7, <1>8 DEF W

-----------------------------------------------------------------------------
(* Chunks that have the anchors S, those of them that are in several        *)
(* declared by the later ones, and whose blocks follow one another.         *)
Follows(c) == \A n \in 2 .. Len(c.blocks) : c.blocks[n] = c.blocks[n - 1] + 1

Covers(cs, S) ==
  /\ IsSeq(cs)
  /\ S = UNION {ToSet(cs[c].anchors) : c \in DOMAIN cs}
  /\ \A c, d \in DOMAIN cs :
       c < d => ToSet(cs[c].anchors) \cap ToSet(cs[d].anchors) \subseteq cs[d].overlap
  /\ \A c \in DOMAIN cs : Follows(cs[c])

(* No chunk covers no anchor.                                              *)
LEMMA NoneCovers == Covers(<<>>, {})
<1>1. DOMAIN <<>> = {} /\ IsSeq(<<>>)
  BY EmptyIs, SeqDomain
<1> QED
  BY <1>1 DEF Covers

(* One chunk covers its anchors.                                           *)
LEMMA OneCovers ==
  ASSUME NEW c, Follows(c)
  PROVE  Covers(<<c>>, ToSet(c.anchors))
<1>1. IsSeq(<<c>>) /\ DOMAIN <<c>> = {1} /\ <<c>>[1] = c
  BY SingleIs
<1> DEFINE s == <<c>>
<1>2. IsSeq(s) /\ DOMAIN s = {1} /\ s[1] = c
  BY <1>1
<1> HIDE DEF s
<1>3. Covers(s, ToSet(c.anchors))
  <2>1. UNION {ToSet(s[d].anchors) : d \in DOMAIN s} = ToSet(c.anchors)
    BY <1>2
  <2>2. \A d, e \in DOMAIN s : ~(d < e)
    BY <1>2
  <2> QED
    BY <1>2, <2>1, <2>2 DEF Covers
<1> QED
  BY <1>3 DEF s

(* Chunks behind one another, what they share declared.                    *)
LEMMA JoinedCovers ==
  ASSUME NEW cs, NEW S, Covers(cs, S), NEW ds, NEW R, Covers(ds, R),
         \A d \in DOMAIN ds : S \cap ToSet(ds[d].anchors) \subseteq ds[d].overlap
  PROVE  Covers(cs \o ds, S \cup R)
<1> DEFINE es == cs \o ds
           m == Len(cs)
           n == Len(ds)
<1>1. IsSeq(cs) /\ IsSeq(ds)
  BY DEF Covers
<1>2. /\ m \in Nat /\ n \in Nat /\ DOMAIN cs = 1 .. m /\ DOMAIN ds = 1 .. n
      /\ IsSeq(es) /\ DOMAIN es = 1 .. m + n
      /\ \A k \in 1 .. m : es[k] = cs[k]
      /\ \A k \in 1 .. n : es[m + k] = ds[k]
  <2>1. m \in Nat /\ n \in Nat /\ DOMAIN cs = 1 .. m /\ DOMAIN ds = 1 .. n
    BY <1>1, SeqDomain
  <2>2. /\ IsSeq(es) /\ Len(es) = m + n
        /\ \A k \in 1 .. m : es[k] = cs[k]
        /\ \A k \in 1 .. n : es[m + k] = ds[k]
    BY <1>1, ConcatIs
  <2>3. DOMAIN es = 1 .. Len(es)
    BY <2>2, SeqDomain
  <2> QED
    BY <2>1, <2>2, <2>3
<1> HIDE DEF es, m, n
<1>3. ASSUME NEW e \in DOMAIN es
      PROVE  (e \in 1 .. m /\ es[e] = cs[e]) \/ (e - m \in 1 .. n /\ e > m /\ es[e] = ds[e - m])
  <2>1. CASE e <= m
    BY <1>2, <2>1
  <2>2. CASE e > m
    <3>1. e - m \in 1 .. n /\ m + (e - m) = e
      BY <1>2, <2>2
    <3>2. es[m + (e - m)] = ds[e - m]
      BY <1>2, <3>1
    <3> QED
      BY <2>2, <3>1, <3>2
  <2> QED
    BY <1>2, <2>1, <2>2
<1>4. \A k \in 1 .. m : k \in DOMAIN es /\ es[k] = cs[k]
  BY <1>2
<1>5. \A k \in 1 .. n : m + k \in DOMAIN es /\ es[m + k] = ds[k]
  BY <1>2
<1>6. S \cup R = UNION {ToSet(es[e].anchors) : e \in DOMAIN es}
  <2>1. S = UNION {ToSet(cs[c].anchors) : c \in 1 .. m} /\ R = UNION {ToSet(ds[c].anchors) : c \in 1 .. n}
    BY <1>2 DEF Covers
  <2>2. ASSUME NEW x \in S PROVE \E e \in DOMAIN es : x \in ToSet(es[e].anchors)
    <3>1. PICK c \in 1 .. m : x \in ToSet(cs[c].anchors)
      BY <2>1
    <3> QED
      BY <1>4, <3>1
  <2>3. ASSUME NEW x \in R PROVE \E e \in DOMAIN es : x \in ToSet(es[e].anchors)
    <3>1. PICK c \in 1 .. n : x \in ToSet(ds[c].anchors)
      BY <2>1
    <3> QED
      BY <1>5, <3>1
  <2>4. ASSUME NEW e \in DOMAIN es, NEW x \in ToSet(es[e].anchors) PROVE x \in S \cup R
    BY <1>3, <2>1
  <2> QED
    BY <2>2, <2>3, <2>4
<1>7. ASSUME NEW c \in DOMAIN es, NEW d \in DOMAIN es, c < d
      PROVE  ToSet(es[c].anchors) \cap ToSet(es[d].anchors) \subseteq es[d].overlap
  <2>0. c \in Nat /\ d \in Nat
    BY <1>2
  <2>1. CASE d \in 1 .. m /\ es[d] = cs[d]
    <3>1. c \in 1 .. m /\ es[c] = cs[c]
      BY <1>2, <1>4, <1>7, <2>0, <2>1
    <3> QED
      BY <1>2, <1>7, <2>1, <3>1 DEF Covers
  <2>2. CASE d - m \in 1 .. n /\ d > m /\ es[d] = ds[d - m]
    <3>1. CASE c \in 1 .. m /\ es[c] = cs[c]
      <4>1. ToSet(cs[c].anchors) \subseteq S
        BY <1>2, <3>1 DEF Covers
      <4> QED
        BY <1>2, <2>2, <3>1, <4>1
    <3>2. CASE c - m \in 1 .. n /\ es[c] = ds[c - m]
      <4>1. c - m < d - m
        BY <1>2, <1>7, <2>0
      <4>2. ToSet(ds[c - m].anchors) \cap ToSet(ds[d - m].anchors) \subseteq ds[d - m].overlap
        BY <1>2, <2>2, <3>2, <4>1 DEF Covers
      <4> QED
        BY <2>2, <3>2, <4>2
    <3> QED
      BY <1>3, <3>1, <3>2
  <2> QED
    BY <1>3, <2>1, <2>2
<1>8. \A e \in DOMAIN es : Follows(es[e])
  BY <1>2, <1>3 DEF Covers
<1> QED
  BY <1>2, <1>6, <1>7, <1>8 DEF Covers, es

(* One more chunk.                                                         *)
LEMMA MoreCovers ==
  ASSUME NEW cs, NEW S, Covers(cs, S), NEW c, Follows(c), S \cap ToSet(c.anchors) \subseteq c.overlap
  PROVE  Covers(Append(cs, c), S \cup ToSet(c.anchors))
<1>1. Covers(<<c>>, ToSet(c.anchors))
  BY OneCovers
<1>2. \A d \in DOMAIN <<c>> : S \cap ToSet(<<c>>[d].anchors) \subseteq <<c>>[d].overlap
  <2>1. DOMAIN <<c>> = {1} /\ <<c>>[1] = c
    BY SingleIs
  <2> QED
    BY <2>1
<1>3. Covers(cs \o <<c>>, S \cup ToSet(c.anchors))
  BY <1>1, <1>2, JoinedCovers
<1>4. cs \o <<c>> = Append(cs, c)
  BY DEF Covers, IsSeq
<1> QED
  BY <1>3, <1>4

(* The fields of a chunk.                                                  *)
LEMMA ChunkIs ==
  ASSUME NEW m, NEW i, NEW o
  PROVE  Chunk(m, i, o).blocks = m /\ Chunk(m, i, o).anchors = i /\ Chunk(m, i, o).overlap = o
BY DEF Chunk

(* A chunk of one block.                                                   *)
LEMMA ChunkOfOne ==
  ASSUME NEW k, NEW i, NEW o
  PROVE  Follows(Chunk(<<k>>, i, o))
<1>1. Len(<<k>>) = 1
  BY SingleIs
<1>2. Chunk(<<k>>, i, o).blocks = <<k>>
  BY ChunkIs
<1> QED
  BY <1>1, <1>2 DEF Follows

(* One sentence more of a long block.                                      *)
LongFields == {"full", "open", "weight", "overlap"}
IsLong(s) == s = [x \in LongFields |-> s[x]]
LongSame(s, t) == t.full = s.full /\ t.overlap = s.overlap
LongMore(k, s, i, t) ==
  \/ LongSame(s, t) /\ t.open = Append(s.open, i)
  \/ LongSame(s, t) /\ s.open = <<>> /\ t.open = <<i>>
  \/ /\ s.open # <<>> /\ t.full = Append(s.full, Chunk(<<k>>, s.open, s.overlap))
     /\ t.open = <<Last(s.open), i>> /\ t.overlap = {Last(s.open)}

(* One more sentence: it goes into the open chunk or begins a new one.     *)
LEMMA AddSentenceIs ==
  ASSUME NEW k, NEW s, IsLong(s), NEW i
  PROVE  IsLong(AddSentence(k, s, i)) /\ LongMore(k, s, i, AddSentence(k, s, i))
<1> DEFINE t == AddSentence(k, s, i)
           w == Estimate(anchors[i].text)
           a == Append(s.full, Chunk(<<k>>, s.open, s.overlap))
           l == Last(s.open)
           ow == Append(s.open, i)
           sw == s.weight + w
<1>1. CASE s.weight + w <= MaxChunk
  <2>1. t = [s EXCEPT !.open = Append(@, i), !.weight = @ + w]
    BY <1>1 DEF AddSentence
  <2>2. t = [s EXCEPT !.open = ow, !.weight = sw]
    BY <2>1
  <2> HIDE DEF t, ow, sw
  <2>3. IsLong(t) /\ t.full = s.full /\ t.overlap = s.overlap /\ t.open = ow
    BY <2>2 DEF LongFields, IsLong
  <2>4. LongMore(k, s, i, t)
    BY <2>3 DEF LongMore, LongSame, ow
  <2> QED
    BY <2>3, <2>4 DEF t
<1>2. CASE ~(s.weight + w <= MaxChunk) /\ s.open = <<>>
  <2> DEFINE o == <<i>>
  <2>1. t = [s EXCEPT !.open = o, !.weight = w]
    BY <1>2 DEF AddSentence
  <2> HIDE DEF t, o, w
  <2>2. IsLong(t) /\ t.full = s.full /\ t.overlap = s.overlap /\ t.open = o
    BY <2>1 DEF LongFields, IsLong
  <2>3. LongMore(k, s, i, t)
    BY <1>2, <2>2 DEF LongMore, LongSame, o
  <2> QED
    BY <2>2, <2>3 DEF t
<1>3. CASE ~(s.weight + w <= MaxChunk) /\ s.open # <<>>
  <2> DEFINE o == <<l, i>>
             v == Estimate(anchors[l].text) + w
  <2>1. t = [full |-> a, open |-> o, weight |-> v, overlap |-> {l}]
    BY <1>3 DEF AddSentence, Overlap
  <2> HIDE DEF t, a, l, v, o
  <2>2. t.full = a /\ t.open = o /\ t.overlap = {l} /\ IsLong(t)
    BY <2>1 DEF LongFields, IsLong
  <2>3. LongMore(k, s, i, t)
    BY <1>3, <2>2 DEF LongMore, LongSame, o, a, l
  <2> QED
    BY <2>2, <2>3 DEF t
<1> QED
  BY <1>1, <1>2, <1>3

(* After n of the sentences s of block k: those are covered by what is     *)
(* full and what is open, and the two share what the open chunk declares.  *)
LongHolds(s, n, g) ==
  /\ IsLong(g) /\ IsSeq(g.open)
  /\ \E S : /\ Covers(g.full, S)
            /\ S \cup ToSet(g.open) = {s[m] : m \in 1 .. n}
            /\ S \cap ToSet(g.open) \subseteq g.overlap

(* The chunks and the open one hold the sentences so far.                  *)
LEMMA LongGoesOn ==
  ASSUME NEW k, NEW s, IsSeq(s), Distinct(s), NEW n \in 0 .. Len(s) - 1, NEW g, LongHolds(s, n, g)
  PROVE  LongHolds(s, n + 1, AddSentence(k, g, s[n + 1]))
<1> DEFINE i == s[n + 1]
           t == AddSentence(k, g, i)
           U == {s[m] : m \in 1 .. n}
<1>0. Len(s) \in Nat /\ DOMAIN s = 1 .. Len(s)
  BY SeqDomain
<1>1. i \notin U /\ {s[m] : m \in 1 .. n + 1} = U \cup {i}
  <2>1. \A m \in 1 .. n : m \in 1 .. Len(s) /\ n + 1 \in 1 .. Len(s) /\ m # n + 1
    BY <1>0
  <2>2. i \notin U
    BY <2>1 DEF Distinct
  <2>3. 1 .. n + 1 = (1 .. n) \cup {n + 1}
    BY <1>0
  <2> QED
    BY <2>2, <2>3
<1>2. PICK S : /\ Covers(g.full, S)
               /\ S \cup ToSet(g.open) = U
               /\ S \cap ToSet(g.open) \subseteq g.overlap
  BY DEF LongHolds
<1>3. IsSeq(g.open) /\ IsLong(g)
  BY DEF LongHolds
<1> HIDE DEF U
<1>4. IsLong(t) /\ LongMore(k, g, i, t)
  BY <1>3, AddSentenceIs
<1> HIDE DEF t, i
<1>5. IsSeq(t.open)
      /\ \E R : /\ Covers(t.full, R)
                /\ R \cup ToSet(t.open) = U \cup {i}
                /\ R \cap ToSet(t.open) \subseteq t.overlap
  <2>1. CASE LongSame(g, t) /\ IsSeq(t.open) /\ ToSet(t.open) = ToSet(g.open) \cup {i}
    BY <1>1, <1>2, <2>1 DEF LongSame
  <2>2. CASE LongSame(g, t) /\ t.open = Append(g.open, i)
    <3>1. IsSeq(t.open) /\ ToSet(t.open) = ToSet(g.open) \cup {i}
      BY <1>3, <2>2, AppendIs
    <3> QED
      BY <2>1, <2>2, <3>1
  <2>3. CASE LongSame(g, t) /\ g.open = <<>> /\ t.open = <<i>>
    BY <2>1, <2>3, SingleIs, EmptyIs
  <2>4. CASE /\ g.open # <<>> /\ t.full = Append(g.full, Chunk(<<k>>, g.open, g.overlap))
             /\ t.open = <<Last(g.open), i>> /\ t.overlap = {Last(g.open)}
    <3> DEFINE c == Chunk(<<k>>, g.open, g.overlap)
               l == Last(g.open)
    <3>1. Follows(c) /\ c.anchors = g.open /\ c.overlap = g.overlap
      BY ChunkOfOne, ChunkIs
    <3> HIDE DEF c
    <3>2. Covers(Append(g.full, c), S \cup ToSet(g.open))
      BY <1>2, <3>1, MoreCovers
    <3>3. l \in ToSet(g.open)
      <4>1. Len(g.open) \in DOMAIN g.open
        BY <1>3, <2>4, NonEmptyIs
      <4> QED
        BY <4>1 DEF Last, ToSet
    <3>4. l \in U
      BY <1>2, <3>3
    <3> HIDE DEF l
    <3>5. t.open = <<l, i>> /\ t.overlap = {l} /\ t.full = Append(g.full, c)
      BY <2>4 DEF c, l
    <3>6. ToSet(t.open) = {l, i} /\ IsSeq(t.open)
      <4>1. <<l, i>> \in Seq({l, i})
        OBVIOUS
      <4>2. IsSeq(<<l, i>>)
        BY <4>1, SeqIs
      <4> QED
        BY <3>5, <4>2, PairIs
    <3> QED
      BY <1>1, <1>2, <3>2, <3>4, <3>5, <3>6
  <2> QED
    BY <1>4, <2>2, <2>3, <2>4 DEF LongMore
<1>6. LongHolds(s, n + 1, t)
  BY <1>1, <1>4, <1>5 DEF LongHolds
<1> QED
  BY <1>6 DEF t, i

(* The chunks of a long block cover its sentences.                         *)
LEMMA LongCovers ==
  ASSUME NEW k, IsSeq(blocks[k].sentences), Distinct(blocks[k].sentences)
  PROVE  Covers(LongChunks(k), ToSet(blocks[k].sentences))
<1> DEFINE s == blocks[k].sentences
           end == FoldLeft(LAMBDA x, i : AddSentence(k, x, i), LongStart, s)
           L == Len(s)
<1>0. L \in Nat /\ DOMAIN s = 1 .. L
  BY SeqDomain
<1>1. PICK g : /\ g[0] = LongStart
               /\ \A n \in 1 .. L : g[n] = AddSentence(k, g[n - 1], s[n])
               /\ end = g[L]
  BY LongSteps
<1>2. LongChunks(k) = Append(end.full, Chunk(<<k>>, end.open, end.overlap))
  BY DEF LongChunks, LongStart
<1> HIDE DEF end, L
<1> DEFINE T == {n \in 0 .. L : LongHolds(s, n, g[n])}
<1>3. 0 \in T
  <2> DEFINE b == LongStart
  <2>1. IsLong(b) /\ b.open = <<>> /\ b.full = <<>> /\ b.overlap = {}
    BY DEF LongStart, LongFields, IsLong
  <2>2. {s[m] : m \in 1 .. 0} = {}
    OBVIOUS
  <2> HIDE DEF b
  <2>3. LongHolds(s, 0, b)
    BY <2>1, <2>2, NoneCovers, EmptyIs DEF LongHolds
  <2> QED
    BY <1>0, <1>1, <2>3 DEF b
<1>4. ASSUME NEW n \in 0 .. L - 1, n \in T PROVE n + 1 \in T
  <2>1. LongHolds(s, n + 1, AddSentence(k, g[n], s[n + 1]))
    BY <1>4, LongGoesOn DEF L
  <2>2. n + 1 \in 1 .. L /\ (n + 1) - 1 = n
    BY <1>0
  <2>3. g[n + 1] = AddSentence(k, g[n], s[n + 1])
    BY <1>1, <2>2
  <2> QED
    BY <2>1, <2>2, <2>3
<1> HIDE DEF T
<1>5. L \in T
  <2>1. L \in Nat /\ L \in 0 .. L
    BY <1>0
  <2>2. \A n \in 0 .. L - 1 : n \in T => n + 1 \in T
    BY <1>4
  <2>3. \A n \in 0 .. L : n \in T
    BY <1>3, <2>1, <2>2, RisesTo
  <2> QED
    BY <2>1, <2>3
<1>6. LongHolds(s, L, end)
  BY <1>1, <1>5 DEF T
<1> HIDE DEF s
<1>7. PICK S : /\ Covers(end.full, S)
               /\ S \cup ToSet(end.open) = {s[m] : m \in 1 .. L}
               /\ S \cap ToSet(end.open) \subseteq end.overlap
  BY <1>6 DEF LongHolds
<1> DEFINE c == Chunk(<<k>>, end.open, end.overlap)
<1>8. Follows(c) /\ c.anchors = end.open /\ c.overlap = end.overlap
  BY ChunkOfOne, ChunkIs
<1> HIDE DEF c
<1>9. Covers(Append(end.full, c), S \cup ToSet(end.open))
  BY <1>7, <1>8, MoreCovers
<1>10. {s[m] : m \in 1 .. L} = ToSet(s)
  BY <1>0 DEF ToSet
<1> QED
  BY <1>2, <1>7, <1>9, <1>10 DEF c, s

-----------------------------------------------------------------------------
(* The anchors of the first n blocks.                                      *)
Anchors(n) == {i \in DOMAIN anchors : anchors[i].block <= n}

(* The anchors of one block more.                                          *)
LEMMA AnchorsMore ==
  ASSUME Pages, NEW n \in Nat, n + 1 \in DOMAIN blocks
  PROVE  Anchors(n + 1) = Anchors(n) \cup Of(n + 1) /\ Anchors(n) \cap Of(n + 1) = {}
<1>1. \A i \in DOMAIN anchors : anchors[i].block \in Nat
  BY SeqDomain DEF Pages, Paged, Parsed
<1> QED
  BY <1>1 DEF Anchors, Of

(* The anchors of no block, and of all.                                    *)
LEMMA AllAnchors ==
  ASSUME Pages
  PROVE  Anchors(0) = {} /\ Anchors(Len(blocks)) = DOMAIN anchors
<1>1. \A i \in DOMAIN anchors : anchors[i].block \in 1 .. Len(blocks) /\ Len(blocks) \in Nat
  BY SeqDomain DEF Pages, Paged, Parsed
<1> DEFINE L == Len(blocks)
<1> HIDE DEF L
<1>2. \A i \in DOMAIN anchors : anchors[i].block \in 1 .. L /\ L \in Nat
  BY <1>1 DEF L
<1>3. \A i \in DOMAIN anchors : ~(anchors[i].block <= 0) /\ anchors[i].block <= L
  BY <1>2
<1> QED
  BY <1>3 DEF Anchors, L

(* The sentences of a block are its anchors, each once.                    *)
LEMMA OwnDistinct ==
  ASSUME Pages, NEW k \in DOMAIN blocks
  PROVE  IsSeq(blocks[k].sentences) /\ Distinct(blocks[k].sentences) /\ ToSet(blocks[k].sentences) = Of(k)
<1>1. PICK b : Owned(blocks, anchors, k, b) /\ Len(blocks[k].sentences) = Len(Split(blocks[k].text))
  BY OwnAnchors
<1> DEFINE L == Len(Split(blocks[k].text))
<1>2. blocks[k].sentences = [m \in 1 .. L |-> b + m] /\ b \in Nat /\ Len(blocks[k].sentences) = L
  BY <1>1 DEF Owned
<1> DEFINE s == blocks[k].sentences
<1> HIDE DEF L, s
<1>3. Distinct(s)
  <2>1. Len(s) = L /\ b \in Nat /\ \A m \in 1 .. L : s[m] = b + m
    BY <1>2 DEF s
  <2>2. \A m, n \in 1 .. Len(s) : m \in Int /\ n \in Int
    OBVIOUS
  <2>3. \A m, n \in 1 .. Len(s) : s[m] = s[n] => m = n
    BY <2>1, <2>2
  <2> QED
    BY <2>3 DEF Distinct
<1> QED
  BY <1>3, OwnAnchors DEF s

(* What is full has the anchors of the blocks up to j; what is open are    *)
(* the blocks from there to n.                                             *)
Opens(open, j, n) ==
  /\ IsSeq(open) /\ j \in Nat /\ n \in Nat /\ j + Len(open) = n
  /\ \A m \in 1 .. Len(open) : open[m] = j + m

(* A chunk of the open blocks has their anchors.                           *)
LEMMA WholeIs ==
  ASSUME Pages, NEW j, NEW n \in 0 .. Len(blocks), NEW open, Opens(open, j, n)
  PROVE  /\ Follows(Whole(open)) /\ Whole(open).overlap = {}
         /\ ToSet(Whole(open).anchors) = {i \in DOMAIN anchors : anchors[i].block > j /\ anchors[i].block <= n}
<1> DEFINE ss == [m \in DOMAIN open |-> blocks[open[m]].sentences]
           c == Whole(open)
<1>1. c.blocks = open /\ c.anchors = FlattenSeq(ss) /\ c.overlap = {}
  BY ChunkIs DEF Whole
<1>2. DOMAIN open = 1 .. Len(open) /\ Len(open) \in Nat /\ j \in Nat /\ n \in Nat /\ j + Len(open) = n
      /\ \A m \in 1 .. Len(open) : open[m] = j + m
  BY SeqDomain DEF Opens
<1>3. DOMAIN blocks = 1 .. Len(blocks) /\ Len(blocks) \in Nat
  BY SeqDomain DEF Pages, Paged, Parsed
<1>4. \A m \in 1 .. Len(open) : j + m \in DOMAIN blocks /\ ss[m] = blocks[j + m].sentences
  BY <1>2, <1>3
<1>5. IsSeq(ss) /\ Len(ss) = Len(open)
  <2>1. ss = [m \in 1 .. Len(open) |-> ss[m]]
    BY <1>2
  <2> HIDE DEF ss
  <2> QED
    BY <1>2, <2>1, FunctionIsSeq
<1> HIDE DEF ss, c
<1>6. \A m \in 1 .. Len(ss) : IsSeq(ss[m]) /\ ToSet(ss[m]) = Of(j + m)
  BY <1>4, <1>5, OwnAnchors
<1>7. ToSet(c.anchors) = UNION {ToSet(ss[m]) : m \in 1 .. Len(ss)}
  BY <1>1, <1>5, <1>6, FlattenHas
<1>8. ToSet(c.anchors) = UNION {Of(j + m) : m \in 1 .. Len(open)}
  BY <1>5, <1>6, <1>7
<1>9. \A i \in DOMAIN anchors : anchors[i].block \in Nat
  BY <1>3 DEF Pages, Paged, Parsed
<1>10. ASSUME NEW i \in DOMAIN anchors, anchors[i].block > j /\ anchors[i].block <= n
       PROVE  i \in ToSet(c.anchors)
  <2>1. anchors[i].block - j \in 1 .. Len(open) /\ j + (anchors[i].block - j) = anchors[i].block
    BY <1>2, <1>9, <1>10
  <2>2. i \in Of(j + (anchors[i].block - j))
    BY <2>1 DEF Of
  <2> QED
    BY <1>8, <2>1, <2>2
<1>11. ASSUME NEW i \in ToSet(c.anchors)
       PROVE  i \in DOMAIN anchors /\ anchors[i].block > j /\ anchors[i].block <= n
  <2>1. PICK m \in 1 .. Len(open) : i \in Of(j + m)
    BY <1>8
  <2> QED
    BY <1>2, <2>1 DEF Of
<1>12. Follows(c)
  <2>1. ASSUME NEW m \in 2 .. Len(open) PROVE open[m] = open[m - 1] + 1
    <3>1. m \in 1 .. Len(open) /\ m - 1 \in 1 .. Len(open)
      BY <1>2
    <3>2. open[m] = j + m /\ open[m - 1] = j + (m - 1)
      BY <1>2, <3>1
    <3> QED
      BY <1>2, <3>2
  <2> QED
    BY <1>1, <2>1 DEF Follows
<1> QED
  BY <1>1, <1>10, <1>11, <1>12 DEF c

(* Closing the open chunk.                                                 *)
LEMMA FlushCovers ==
  ASSUME Pages, NEW j, NEW n \in 0 .. Len(blocks), NEW open, Opens(open, j, n), NEW full,
         Covers(full, Anchors(j))
  PROVE  Covers(full \o Flush(open), Anchors(n))
<1>1. CASE open = <<>>
  <2>1. full \o <<>> = full
    BY ConcatEmptySeq DEF Covers, IsSeq
  <2>2. j = n
    BY <1>1, EmptyIs DEF Opens
  <2> QED
    BY <1>1, <2>1, <2>2 DEF Flush
<1>2. CASE open # <<>>
  <2> DEFINE c == Whole(open)
             R == {i \in DOMAIN anchors : anchors[i].block > j /\ anchors[i].block <= n}
  <2>1. Follows(c) /\ c.overlap = {} /\ ToSet(c.anchors) = R
    BY WholeIs
  <2>2. Flush(open) = <<c>>
    BY <1>2 DEF Flush
  <2>3. \A i \in DOMAIN anchors : anchors[i].block \in Nat
    BY SeqDomain DEF Pages, Paged, Parsed
  <2>4. Anchors(j) \cap R = {} /\ Anchors(j) \cup R = Anchors(n)
    BY <2>3 DEF Anchors, Opens, IsSeq
  <2> HIDE DEF c, R
  <2>5. Covers(Append(full, c), Anchors(j) \cup ToSet(c.anchors))
    BY <2>1, <2>4, MoreCovers
  <2>6. full \o <<c>> = Append(full, c)
    BY DEF Covers, IsSeq
  <2> QED
    BY <2>1, <2>2, <2>4, <2>5, <2>6
<1> QED
  BY <1>1, <1>2

PackFields == {"full", "open", "weight"}
IsPack(g) == g = [x \in PackFields |-> g[x]]

(* After n blocks.                                                         *)
Packed(n, g) ==
  /\ IsPack(g)
  /\ \E j : Opens(g.open, j, n) /\ Covers(g.full, Anchors(j))

(* Nothing is open behind a closed chunk.                                  *)
LEMMA FreshIs ==
  \A f : IsPack(Fresh(f)) /\ Fresh(f).full = f /\ Fresh(f).open = <<>>
BY DEF Fresh, IsPack, PackFields

(* No blocks are open from n to n.                                         *)
LEMMA NothingOpen ==
  ASSUME NEW n \in Nat
  PROVE  Opens(<<>>, n, n)
BY EmptyIs DEF Opens

(* What is packed when nothing is open.                                    *)
LEMMA FreshPacked ==
  ASSUME NEW n \in Nat, NEW f, Covers(f, Anchors(n))
  PROVE  Packed(n, Fresh(f))
BY FreshIs, NothingOpen DEF Packed

(* A new section closes the open chunk, or leaves it.                      *)
LEMMA SectionKeeps ==
  ASSUME Pages, NEW n \in 0 .. Len(blocks), NEW g, Packed(n, g), NEW k
  PROVE  Packed(n, Section(g, k))
<1>1. PICK j : Opens(g.open, j, n) /\ Covers(g.full, Anchors(j))
  BY DEF Packed
<1>2. Covers(g.full \o Flush(g.open), Anchors(n))
  BY <1>1, FlushCovers
<1>3. Packed(n, Fresh(g.full \o Flush(g.open)))
  BY <1>2, FreshPacked
<1> QED
  BY <1>3 DEF Section

(* One more block: it goes into the open chunk, begins a new one, or is    *)
(* cut.                                                                    *)
LEMMA FitKeeps ==
  ASSUME Pages, NEW n \in 0 .. Len(blocks) - 1, NEW g, Packed(n, g)
  PROVE  Packed(n + 1, Fit(g, n + 1))
<1> DEFINE k == n + 1
           w == Estimate(blocks[k].text)
           f == g.full \o Flush(g.open)
           t == Fit(g, k)
<1>0. Len(blocks) \in Nat /\ DOMAIN blocks = 1 .. Len(blocks)
  BY SeqDomain DEF Pages, Paged, Parsed
<1>1. n \in Nat /\ k \in Nat /\ k \in DOMAIN blocks /\ n \in 0 .. Len(blocks) /\ k \in 0 .. Len(blocks)
  BY <1>0
<1>2. PICK j : Opens(g.open, j, n) /\ Covers(g.full, Anchors(j))
  BY DEF Packed
<1>3. Covers(f, Anchors(n))
  BY <1>1, <1>2, FlushCovers
<1>4. Anchors(k) = Anchors(n) \cup Of(k) /\ Anchors(n) \cap Of(k) = {}
  BY <1>1, AnchorsMore
<1>5. IsPack(g)
  BY DEF Packed
<1> HIDE DEF f
<1>6. CASE w > MaxChunk
  <2> DEFINE l == LongChunks(k)
  <2>1. t = Fresh(f \o l)
    BY <1>6 DEF Fit, f
  <2>2. Covers(l, Of(k))
    BY <1>1, OwnDistinct, LongCovers
  <2>3. \A d \in DOMAIN l : Anchors(n) \cap ToSet(l[d].anchors) \subseteq l[d].overlap
    <3> HIDE DEF l
    <3> QED
      BY <1>4, <2>2 DEF Covers
  <2> HIDE DEF l
  <2>4. Covers(f \o l, Anchors(k))
    <3>1. Covers(f \o l, Anchors(n) \cup Of(k))
      BY <1>3, <2>2, <2>3, JoinedCovers
    <3> QED
      BY <1>4, <3>1
  <2>5. Packed(k, Fresh(f \o l))
    BY <1>1, <2>4, FreshPacked
  <2> QED
    BY <2>1, <2>5
<1>7. CASE ~(w > MaxChunk) /\ g.weight + w <= MaxChunk
  <2> DEFINE o == Append(g.open, k)
             v == g.weight + w
  <2>1. t = [g EXCEPT !.open = o, !.weight = v]
    BY <1>7 DEF Fit
  <2> HIDE DEF t, v, o
  <2>2. IsPack(t) /\ t.open = o /\ t.full = g.full
    BY <1>5, <2>1 DEF IsPack, PackFields
  <2>3. Opens(o, j, k)
    <3>1. IsSeq(g.open) /\ Len(g.open) \in Nat /\ j \in Nat /\ j + Len(g.open) = n
          /\ \A m \in 1 .. Len(g.open) : g.open[m] = j + m
      BY <1>2 DEF Opens, IsSeq
    <3>2. /\ IsSeq(o) /\ Len(o) = Len(g.open) + 1
          /\ \A m \in 1 .. Len(g.open) : o[m] = g.open[m]
          /\ o[Len(g.open) + 1] = k
      BY <3>1, AppendIs DEF o
    <3>3. j + Len(o) = k /\ k = j + (Len(g.open) + 1)
      <4> DEFINE q == Len(g.open)
                 p == Len(o)
      <4>1. q \in Nat /\ j \in Nat /\ j + q = n
        BY <3>1
      <4>2. p = q + 1
        BY <3>2
      <4> HIDE DEF q, p
      <4>3. j + p = n + 1 /\ n + 1 = j + (q + 1)
        BY <4>1, <4>2
      <4> QED
        BY <4>3 DEF q, p
    <3>4. ASSUME NEW m \in 1 .. Len(o) PROVE o[m] = j + m
      <4>1. CASE m = Len(g.open) + 1
        BY <3>2, <3>3, <4>1
      <4>2. CASE m # Len(g.open) + 1
        <5>1. m \in 1 .. Len(g.open)
          BY <3>1, <3>2, <4>2
        <5> QED
          BY <3>1, <3>2, <5>1
      <4> QED
        BY <4>1, <4>2
    <3> QED
      BY <1>1, <3>1, <3>2, <3>3, <3>4 DEF Opens
  <2> QED
    BY <1>2, <2>2, <2>3 DEF Packed, t
<1>8. CASE ~(w > MaxChunk) /\ ~(g.weight + w <= MaxChunk)
  <2> DEFINE o == <<k>>
  <2>1. t = [full |-> f, open |-> o, weight |-> w]
    BY <1>8 DEF Fit, f
  <2> HIDE DEF t, o, w
  <2>2. IsPack(t) /\ t.open = o /\ t.full = f
    BY <2>1 DEF IsPack, PackFields
  <2>3. Opens(o, n, k)
    <3>1. IsSeq(o) /\ Len(o) = 1 /\ o[1] = k
      BY SingleIs DEF o
    <3> QED
      BY <1>1, <3>1 DEF Opens
  <2> QED
    BY <1>3, <2>2, <2>3 DEF Packed, t
<1> QED
  BY <1>6, <1>7, <1>8

(* The chunks cover every anchor of the document.                          *)
LEMMA ChunksCover ==
  ASSUME Pages
  PROVE  Covers(Chunks, DOMAIN anchors)
<1> DEFINE end == FoldLeft(LAMBDA s, k : Fit(Section(s, k), k), Fresh(<<>>), BlockNumbers)
           L == Len(blocks)
<1>0. L \in Nat /\ DOMAIN blocks = 1 .. L
  BY SeqDomain DEF Pages, Paged, Parsed
<1>1. IsSeq(BlockNumbers) /\ Len(BlockNumbers) = L /\ \A n \in 1 .. L : BlockNumbers[n] = n
  <2>1. BlockNumbers = [n \in 1 .. L |-> BlockNumbers[n]] /\ \A n \in 1 .. L : BlockNumbers[n] = n
    BY <1>0 DEF BlockNumbers
  <2> QED
    BY <1>0, <2>1, FunctionIsSeq
<1>2. PICK g : /\ g[0] = Fresh(<<>>)
               /\ \A n \in 1 .. L : g[n] = Fit(Section(g[n - 1], BlockNumbers[n]), BlockNumbers[n])
               /\ end = g[L]
  BY <1>1, PackSteps
<1>3. Chunks = end.full \o Flush(end.open)
  BY DEF Chunks, BlockNumbers
<1> HIDE DEF end
<1> DEFINE T == {n \in 0 .. L : Packed(n, g[n])}
<1>4. 0 \in T
  <2>1. Packed(0, Fresh(<<>>))
    BY AllAnchors, NoneCovers, FreshPacked
  <2> QED
    BY <1>0, <1>2, <2>1
<1>5. ASSUME NEW n \in 0 .. L - 1, n \in T PROVE n + 1 \in T
  <2>1. n + 1 \in 1 .. L /\ (n + 1) - 1 = n /\ n \in 0 .. L
    BY <1>0
  <2>2. g[n + 1] = Fit(Section(g[n], n + 1), n + 1)
    BY <1>1, <1>2, <2>1
  <2>3. Packed(n, Section(g[n], n + 1))
    BY <1>5, <2>1, SectionKeeps
  <2>4. Packed(n + 1, Fit(Section(g[n], n + 1), n + 1))
    BY <2>3, FitKeeps
  <2> QED
    BY <2>1, <2>2, <2>4
<1> HIDE DEF T
<1>6. L \in T
  <2>1. L \in 0 .. L
    BY <1>0
  <2>2. \A n \in 0 .. L - 1 : n \in T => n + 1 \in T
    BY <1>5
  <2>3. \A n \in 0 .. L : n \in T
    BY <1>0, <1>4, <2>2, RisesTo
  <2> QED
    BY <2>1, <2>3
<1>7. Packed(L, end) /\ L \in 0 .. L
  BY <1>0, <1>2, <1>6 DEF T
<1>8. PICK j : Opens(end.open, j, L) /\ Covers(end.full, Anchors(j))
  BY <1>7 DEF Packed
<1>9. Covers(end.full \o Flush(end.open), Anchors(L))
  BY <1>7, <1>8, FlushCovers
<1> QED
  BY <1>3, <1>9, AllAnchors

(* Chunks that cover the anchors pass their validators.                    *)
LEMMA CoverIsSound ==
  ASSUME Covers(chunks, DOMAIN anchors)
  PROVE  ChunkCoverage /\ ChunkContinuity
<1>1. ChunkContinuity
  BY DEF Covers, Follows, ChunkContinuity
<1>2. ASSUME NEW i \in DOMAIN anchors
      PROVE  LET in == {c \in DOMAIN chunks : i \in ToSet(chunks[c].anchors)}
             IN  in # {} /\ (Cardinality(in) > 1 => \E c \in DOMAIN chunks : i \in chunks[c].overlap)
  <2> DEFINE in == {c \in DOMAIN chunks : i \in ToSet(chunks[c].anchors)}
  <2>1. in # {}
    BY DEF Covers
  <2>2. IsFiniteSet(in) /\ DOMAIN chunks \subseteq Int
    <3>1. IsFiniteSet(DOMAIN chunks) /\ DOMAIN chunks = 1 .. Len(chunks)
      BY SeqFinite, SeqDomain DEF Covers
    <3> QED
      BY <3>1, FS_Subset
  <2>3. ASSUME Cardinality(in) > 1 PROVE \E c \in DOMAIN chunks : i \in chunks[c].overlap
    <3>1. \E c, d \in in : c # d
      <4> HIDE DEF in
      <4> QED
        BY <2>2, <2>3, TwoMembers
    <3>2. PICK c \in in, d \in in : c # d
      BY <3>1
    <3>3. c < d \/ d < c
      BY <2>2, <3>2
    <3> QED
      BY <3>2, <3>3 DEF Covers
  <2> QED
    BY <2>1, <2>3
<1> QED
  BY <1>1, <1>2 DEF ChunkCoverage

-----------------------------------------------------------------------------
(* What is true of a document, stage by stage.                             *)
AllRelated ==
  \A k \in DOMAIN blocks :
    IsSeq(blocks[k].relations) /\ \A r \in ToSet(blocks[k].relations) : Related(k, r)

DocumentInv ==
  /\ Pages
  /\ stage \notin {"body", "relate"} => AllRelated
  /\ stage \notin {"body", "relate", "chunk"} => Covers(chunks, DOMAIN anchors)

(* Relations of the kinds there are have targets.                          *)
LEMMA RelatedTargets ==
  ASSUME Pages, AllRelated PROVE RelationTargets
<1>1. Layout
  BY DEF Pages, Paged, Layout
<1> QED
  BY <1>1, RelatedInside DEF AllRelated, RelationTargets

(* A document that has been built passes its validators.                   *)
LEMMA SoundWhenBuilt ==
  ASSUME DocumentInv, stage \notin {"body", "relate", "chunk"}
  PROVE  DocumentSound
BY RelatedTargets, PagesLossless, CoverIsSound DEF DocumentInv, DocumentSound

(* The relations that are built are of the kinds there are.                *)
LEMMA RelateKeeps ==
  ASSUME Pages, Relate PROVE AllRelated'
<1>0. Layout
  BY DEF Pages, Paged, Layout
<1> DEFINE new == [k \in DOMAIN blocks |-> [blocks[k] EXCEPT !.relations = RelationsOf(k)]]
<1>1. blocks' = new
  BY DEF Relate
<1>2. DOMAIN blocks' = DOMAIN blocks
  BY <1>1
<1>3. \A k \in DOMAIN blocks : blocks'[k] = [blocks[k] EXCEPT !.relations = RelationsOf(k)]
  BY <1>1
<1> HIDE DEF new
<1>4. ASSUME NEW k \in DOMAIN blocks
      PROVE  /\ blocks'[k].relations = RelationsOf(k)
             /\ \A x \in BlockFields \ {"relations"} : blocks'[k][x] = blocks[k][x]
  <2>1. PICK r : r = RelationsOf(k)
    OBVIOUS
  <2>2. blocks'[k] = [blocks[k] EXCEPT !.relations = r]
    BY <1>3, <2>1
  <2>3. IsBlock(blocks[k])
    BY DEF Pages, Paged, IsCitingBlock
  <2>4. /\ blocks'[k].relations = r
        /\ \A x \in BlockFields \ {"relations"} : blocks'[k][x] = blocks[k][x]
    BY <2>2, <2>3 DEF IsBlock, BlockFields
  <2> QED
    BY <2>1, <2>4
<1>5. \A k \in DOMAIN blocks : /\ blocks'[k].kind = blocks[k].kind
                               /\ blocks'[k].group = blocks[k].group
                               /\ blocks'[k].note = blocks[k].note
                               /\ blocks'[k].path = blocks[k].path
                               /\ blocks'[k].order = blocks[k].order
                               /\ blocks'[k].para = blocks[k].para
                               /\ blocks'[k].table = blocks[k].table
                               /\ blocks'[k].cell = blocks[k].cell
                               /\ blocks'[k].refs = blocks[k].refs
  BY <1>4 DEF BlockFields
<1>6. ASSUME NEW k \in DOMAIN blocks, NEW r, Related(k, r) PROVE Related(k, r)'
  <2>0. r.target \in DOMAIN blocks
    BY <1>0, <1>6, RelatedInside
  <2>00. DOMAIN blocks = 1 .. Len(blocks) /\ Len(blocks) \in Nat
    BY <1>0, BlocksNumbered
  <2>1. Lead(k)' = Lead(k)
    <3>1. {j \in 1 .. k - 1 : blocks'[j].group = blocks'[k].group /\ blocks'[j].kind # "list"}
          = {j \in 1 .. k - 1 : blocks[j].group = blocks[k].group /\ blocks[j].kind # "list"}
      <4>1. \A j \in 1 .. k - 1 : j \in DOMAIN blocks
        BY <2>00
      <4> QED
        BY <1>5, <4>1
    <3> QED
      BY <1>5, <3>1 DEF Lead
  <2>2. \A j \in DOMAIN blocks : Adjacent(blocks[j], blocks[k]) => Adjacent(blocks[j], blocks[k])'
    BY <1>5 DEF Adjacent
  <2>3. Cells(k)' = Cells(k) /\ Cells(k) \subseteq DOMAIN blocks
    BY <1>2, <1>5 DEF Cells
  <2>4. LeftCell(k)' = LeftCell(k)
    <3> DEFINE S == {j \in Cells(k) : LET c == blocks[j].cell
                                      IN  /\ c.r1 <= blocks[k].cell.r1 /\ c.r2 >= blocks[k].cell.r2
                                          /\ c.c2 < blocks[k].cell.c1}
               e == [j \in S |-> blocks[j].cell.c2]
    <3>1. S' = S /\ S \subseteq DOMAIN blocks
      BY <1>5, <2>3
    <3>2. e' = e
      BY <1>5, <3>1
    <3>3. LeftCell(k) = (IF blocks[k].kind # "cell" THEN {} ELSE Nearest(S, e))
      BY DEF LeftCell
    <3>4. LeftCell(k)' = (IF blocks'[k].kind # "cell" THEN {} ELSE Nearest(S', e'))
      BY DEF LeftCell
    <3> QED
      BY <1>5, <3>1, <3>2, <3>3, <3>4
  <2>5. AboveCell(k)' = AboveCell(k)
    <3> DEFINE S == {j \in Cells(k) : LET c == blocks[j].cell
                                      IN  /\ c.c1 <= blocks[k].cell.c1 /\ c.c2 >= blocks[k].cell.c2
                                          /\ c.r2 < blocks[k].cell.r1}
               e == [j \in S |-> blocks[j].cell.r2]
    <3>1. S' = S /\ S \subseteq DOMAIN blocks
      BY <1>5, <2>3
    <3>2. e' = e
      BY <1>5, <3>1
    <3>3. AboveCell(k) = (IF blocks[k].kind # "cell" THEN {} ELSE Nearest(S, e))
      BY DEF AboveCell
    <3>4. AboveCell(k)' = (IF blocks'[k].kind # "cell" THEN {} ELSE Nearest(S', e'))
      BY DEF AboveCell
    <3> QED
      BY <1>5, <3>1, <3>2, <3>3, <3>4
  <2>6. \A n : NoteBlock(n)' = NoteBlock(n)
    BY <1>2, <1>5 DEF NoteBlock
  <2>7. (UNION {NoteBlock(n) : n \in ToSet(blocks[k].refs)})' = UNION {NoteBlock(n) : n \in ToSet(blocks[k].refs)}
    BY <1>5, <2>6
  <2> QED
    BY <1>6, <2>0, <2>1, <2>2, <2>4, <2>5, <2>7 DEF Related
<1>7. ASSUME NEW k \in DOMAIN blocks
      PROVE  IsSeq(blocks'[k].relations) /\ \A r \in ToSet(blocks'[k].relations) : Related(k, r)'
  <2>1. IsSeq(blocks[k].refs)
    BY DEF Pages, Paged, IsCitingBlock
  <2> QED
    BY <1>0, <1>4, <1>6, <2>1, RelationsAre
<1> QED
  BY <1>2, <1>7 DEF AllRelated

(* The invariant of the document at the start.                             *)
LEMMA DocumentBegins == ReadingInit => DocumentInv
<1> SUFFICES ASSUME ReadingInit PROVE DocumentInv
  OBVIOUS
<1>1. stage = "body" /\ blocks = <<>> /\ anchors = <<>>
  BY DEF ReadingInit, ParseInit
<1>2. DOMAIN <<>> = {} /\ IsSeq(<<>>)
  BY EmptyIs, SeqDomain
<1>3. Pages
  BY <1>1, <1>2 DEF Pages, Paged, Parsed
<1> QED
  BY <1>1, <1>3 DEF DocumentInv

(* Every step keeps it.                                                    *)
LEMMA DocumentKeeps ==
  ReadingInv /\ DocumentInv /\ [ReadingNext]_readingVars => DocumentInv'
<1> SUFFICES ASSUME ReadingInv, DocumentInv, [ReadingNext]_readingVars PROVE DocumentInv'
  OBVIOUS
<1>0. ASSUME UNCHANGED <<blocks, anchors>> PROVE Pages' /\ (AllRelated => AllRelated')
  <2>1. \A k, r : Related(k, r)' = Related(k, r)
    BY <1>0 DEF Related, Lead, LeftCell, AboveCell, Nearest, Cells, NoteBlock, Adjacent
  <2> QED
    BY <1>0, <2>1 DEF DocumentInv, Pages, AllRelated
<1>1. ASSUME UNCHANGED <<blocks, anchors, chunks>>,
             stage' = stage \/ stage \notin {"body", "relate", "chunk"}
      PROVE  DocumentInv'
  BY <1>0, <1>1 DEF DocumentInv
<1>2. CASE Parse
  <2>1. stage \in ParseStages /\ ParseStep
    BY <1>2, ParseStage DEF Parse
  <2>2. Pages /\ Scan
    BY <2>1 DEF ReadingInv, DocumentInv
  <2>3. Pages'
    BY <2>1, <2>2, ParseKeepsPages
  <2>4. CASE stage = "body"
    <3>1. stage' \in {"body", "relate"}
      BY <2>1, <2>4 DEF ParseStep, EmptyParagraph, Heading, ListItem, Paragraph, TableCell, EndTable,
              Other, ReadNote, EndBody, Relate, BuildChunks, CheckDocument, Reading, Next1
    <3> QED
      BY <2>3, <3>1 DEF DocumentInv
  <2>5. CASE Relate
    <3>1. stage' = "chunk"
      BY <2>5 DEF Relate
    <3> QED
      BY <2>2, <2>3, <2>5, <3>1, RelateKeeps DEF DocumentInv
  <2>6. CASE BuildChunks
    <3>1. stage' = "checkDoc" /\ stage = "chunk" /\ chunks' = Chunks /\ UNCHANGED <<blocks, anchors>>
      BY <2>6 DEF BuildChunks
    <3>2. AllRelated'
      BY <1>0, <3>1 DEF DocumentInv
    <3>3. Covers(chunks', DOMAIN anchors)
      BY <2>2, <3>1, ChunksCover
    <3>4. Covers(chunks, DOMAIN anchors)'
      BY <3>1, <3>3
    <3> QED
      BY <2>3, <3>1, <3>2, <3>4 DEF DocumentInv
  <2>7. CASE CheckDocument
    BY <1>1, <2>7 DEF CheckDocument, parseVars
  <2> QED
    BY <2>1, <2>4, <2>5, <2>6, <2>7
       DEF ParseStep, EmptyParagraph, Heading, ListItem, Paragraph, TableCell, EndTable,
           Other, ReadNote, EndBody, Reading
<1>3. CASE Collect \/ EndCollect \/ Recognise \/ Undefer \/ EndRecognition \/ Arbitrate \/ CheckClaims
  <2>1. UNCHANGED <<blocks, anchors, chunks>> /\ stage \notin {"body", "relate", "chunk"}
    BY <1>3 DEF Collect, EndCollect, Recognise, Undefer, EndRecognition, Arbitrate, CheckClaims, parseVars
  <2> QED
    BY <1>1, <2>1
<1>4. CASE UNCHANGED readingVars
  BY <1>1, <1>4 DEF readingVars, parseVars
<1> QED
  BY <1>2, <1>3, <1>4 DEF ReadingNext

(* A document that has been parsed is as its validators want it: no        *)
(* document is refused before its claims are looked at                     *)
(* (parsing/validators.py, validate_shared_document).                      *)
THEOREM ParsedIsSound ==
  ReadingSpec => [](stage \notin {"body", "relate", "chunk"} => DocumentSound)
<1>1. DocumentInv => (stage \notin {"body", "relate", "chunk"} => DocumentSound)
  BY SoundWhenBuilt
<1>2. ReadingSpec => []DocumentInv
  BY DocumentBegins, DocumentKeeps, ReadingIsSafe, PTL DEF ReadingSpec
<1> QED
  BY <1>1, <1>2, PTL

(* An article that is governed by a mention.                               *)
Governing(text, m, p) ==
  /\ m \in Mentions(text) /\ p \in NumberPositions(text) /\ Governs(text, m, p)

(* The places of a mention and of an article that it governs.              *)
LEMMA GoverningIs ==
  ASSUME NEW text, IsSeq(text), NEW m, NEW p, Governing(text, m, p)
  PROVE  /\ m \in 1 .. Len(text) /\ p \in 1 .. Len(text) /\ m < p
         /\ Len(text) \in Nat /\ text[p] \in Numbers
         /\ p - m \in 1 .. Len(Governed(text, m))
         /\ \A n \in Mentions(text) : n > m => n > p
<1>1. m \in 1 .. Len(text) /\ Len(text) \in Nat
  BY MentionsIn DEF Governing
<1>2. p \in 1 .. Len(text) /\ text[p] \in Numbers
  BY SeqDomain DEF Governing, NumberPositions
<1>3. Len(Governed(text, m)) \in 0 .. Len(text) - m
      /\ \A n \in Mentions(text) : n > m => n > m + Len(Governed(text, m))
  BY GovernedIs DEF Governing
<1>4. p > m /\ p <= m + Len(Governed(text, m))
  BY DEF Governing, Governs
<1>5. \A n \in Mentions(text) : n \in Nat
  BY MentionsIn
<1> DEFINE l == Len(Governed(text, m))
<1> HIDE DEF l
<1>6. l \in Nat /\ p <= m + l /\ \A n \in Mentions(text) : n > m => n > m + l
  BY <1>1, <1>3, <1>4 DEF l
<1>7. p - m \in 1 .. l
  BY <1>1, <1>2, <1>4, <1>6
<1>8. \A n \in Mentions(text) : n > m => n > p
  BY <1>1, <1>2, <1>5, <1>6
<1> QED
  BY <1>1, <1>2, <1>4, <1>7, <1>8 DEF l

(* It is governed by one.                                                  *)
LEMMA OneGoverns ==
  ASSUME NEW text, IsSeq(text), NEW m, NEW n, NEW p, Governing(text, m, p), Governing(text, n, p)
  PROVE  m = n
<1>1. m \in Mentions(text) /\ n \in Mentions(text)
  BY DEF Governing
<1>2. m \in Nat /\ n \in Nat /\ p \in Nat /\ m < p /\ n < p
      /\ (n > m => n > p) /\ (m > n => m > p)
  BY <1>1, GoverningIs
<1> QED
  BY <1>2

(* They are governed in the other text too.                                *)
LEMMA GovernsInside ==
  ASSUME NEW text, NEW u, NEW d, Inside(text, u, d), NEW m, NEW p, Governing(u, m, p)
  PROVE  Governing(text, d + m, d + p)
<1> DEFINE later == {j \in d + m + 1 .. Len(text) :
                       IF IsTitle(text, d + m) THEN IsTitle(text, j) \/ IsBare(text, j)
                       ELSE ~Chained(text, j)}
           S == later \cup {Len(text) + 1}
           e == Min(S)
           g == Governed(text, d + m)
<1>1. /\ Len(text) \in Nat /\ Len(u) \in Nat /\ d \in Nat
      /\ DOMAIN text = 1 .. Len(text) /\ DOMAIN u = 1 .. Len(u)
      /\ \A i \in DOMAIN u : d + i \in DOMAIN text /\ text[d + i] = u[i]
  BY InsideIs
<1>2. IsSeq(u) /\ IsSeq(text)
  BY DEF Inside
<1>3. /\ m \in 1 .. Len(u) /\ p \in 1 .. Len(u) /\ m < p /\ u[p] \in Numbers
      /\ p - m \in 1 .. Len(Governed(u, m))
      /\ \A n \in Mentions(u) : n > m => n > p
  BY <1>2, GoverningIs
<1>4. m \in Mentions(u) /\ p \in NumberPositions(u)
  BY DEF Governing
<1>5. /\ d + m \in Mentions(text) /\ (IsTitle(text, d + m) <=> IsTitle(u, m))
      /\ d + p \in NumberPositions(text)
  BY <1>4, MentionsInside, NumbersInside
<1>6. /\ Len(Governed(u, m)) \in Nat
      /\ ~IsTitle(u, m) => \A x \in 1 .. Len(Governed(u, m)) : Chained(u, m + x)
  BY <1>2, <1>4, GovernedIs, SeqDomain
<1>7. ASSUME NEW j \in later PROVE j > d + p
  <2> SUFFICES ASSUME j <= d + p PROVE FALSE
    BY <1>1, <1>3
  <2>0. j \in d + m + 1 .. d + p
    BY <1>1, <1>3
  <2>1. j - d \in m + 1 .. p /\ j - d \in DOMAIN u /\ d + (j - d) = j
    BY <1>1, <1>3, <2>0
  <2>2. text[j] = u[j - d]
    BY <1>1, <2>1
  <2> DEFINE i == j - d
  <2>3. i \in m + 1 .. p /\ i \in DOMAIN u /\ text[j] = u[i] /\ j = d + i
    BY <2>1, <2>2
  <2>4. i \notin Mentions(u)
    BY <1>1, <1>3, <2>3
  <2>5. CASE IsTitle(u, m)
    <3>1. IsTitle(text, j) \/ IsBare(text, j)
      BY <1>5, <2>5
    <3>2. CASE IsTitle(text, j)
      BY <2>3, <2>4, <3>2 DEF IsTitle, Mentions
    <3>3. CASE IsBare(text, j)
      <4>1. u[i] \in DOMAIN BareNames /\ text[j + 1] \in Numbers
        BY <2>3, <3>3 DEF IsBare
      <4>2. i # p
        BY <1>3, <4>1, NoNameChained DEF Chainable
      <4>3. i < Len(u) /\ i + 1 \in DOMAIN u /\ d + (i + 1) = j + 1
        BY <1>1, <1>3, <2>3, <4>2
      <4>4. u[i + 1] \in Numbers
        BY <1>1, <4>1, <4>3
      <4> QED
        BY <2>3, <2>4, <4>1, <4>3, <4>4 DEF IsBare, Mentions
    <3> QED
      BY <3>1, <3>2, <3>3
  <2>6. CASE ~IsTitle(u, m)
    <3>1. ~Chained(text, j)
      BY <1>5, <2>6
    <3>2. i - m \in 1 .. Len(Governed(u, m)) /\ m + (i - m) = i
      BY <1>1, <1>3, <1>6, <2>3
    <3>3. Chained(u, i)
      BY <1>6, <2>6, <3>2
    <3>4. CASE u[i] \in Numbers
      BY <2>3, <3>1, <3>4 DEF Chained
    <3>5. CASE u[i] \in Paragraphs /\ u[i - 1] \in Numbers
      <4>1. i - 1 \in DOMAIN u /\ d + (i - 1) = j - 1
        BY <1>1, <1>3, <2>3
      <4>2. text[j - 1] \in Numbers
        BY <1>1, <3>5, <4>1
      <4> QED
        BY <2>3, <3>1, <3>5, <4>2 DEF Chained
    <3>6. CASE u[i] = "comma" /\ i < Len(u) /\ u[i + 1] \in Numbers
      <4>1. i + 1 \in DOMAIN u /\ d + (i + 1) = j + 1 /\ d + (i + 1) \in DOMAIN text
        BY <1>1, <2>3, <3>6
      <4>2. text[j + 1] \in Numbers /\ j < Len(text)
        BY <1>1, <2>0, <3>6, <4>1
      <4> QED
        BY <2>3, <3>1, <3>6, <4>2 DEF Chained
    <3> QED
      BY <3>3, <3>4, <3>5, <3>6 DEF Chained
  <2> QED
    BY <2>5, <2>6
<1>8. S \subseteq Nat /\ S # {} /\ \A x \in S : x > d + p
  <2>1. \A x \in later : x \in Nat
    BY <1>1, <1>3
  <2>2. Len(text) + 1 > d + p /\ Len(text) + 1 \in Nat
    BY <1>1, <1>3
  <2> HIDE DEF later
  <2> QED
    BY <1>7, <2>1, <2>2
<1>9. g = SubSeq(text, d + m + 1, e - 1)
  BY DEF Governed
<1>10. \A x \in S : x \in d + m + 1 .. Len(text) + 1
  BY <1>1, <1>3
<1> HIDE DEF S, later
<1>11. e \in S
  BY <1>8, NatMinIs
<1> HIDE DEF e, g
<1>12. e \in Nat /\ e > d + p /\ e \in d + m + 1 .. Len(text) + 1
  BY <1>8, <1>10, <1>11
<1>13. Len(g) = e - 1 - (d + m)
  <2> DEFINE a == d + m + 1
             b == e - 1
             h == SubSeq(text, a, b)
  <2>1. a \in 1 .. Len(text) + 1 /\ b \in 0 .. Len(text) /\ a <= b + 1 /\ b - a + 1 = e - 1 - (d + m)
    BY <1>1, <1>3, <1>12
  <2>2. g = h
    BY <1>9
  <2> HIDE DEF a, b
  <2>3. Len(h) = b - a + 1
    BY <1>2, <2>1, SubSeqIs
  <2> HIDE DEF h
  <2> QED
    BY <2>1, <2>2, <2>3
<1>14. d + p > d + m /\ d + p <= (d + m) + Len(g)
  <2> DEFINE l == Len(g)
  <2> HIDE DEF l
  <2>1. l = e - 1 - (d + m)
    BY <1>13 DEF l
  <2>2. d \in Nat /\ m \in Nat /\ p \in Nat /\ m < p /\ e \in Nat /\ e > d + p
    BY <1>1, <1>3, <1>12, SMTT(30)
  <2>3. d + p > d + m /\ d + p <= (d + m) + l
    BY <2>1, <2>2
  <2> QED
    BY <2>3 DEF l
<1> QED
  BY <1>5, <1>14 DEF Governing, Governs, g

-----------------------------------------------------------------------------
(* A text in which no article is contested by a statute that is named.     *)
Clear(text) ==
  \A i, j \in NumberPositions(text) :
    i < j /\ text[i] = text[j] =>
      \A m \in Mentions(text) : Governs(text, m, j) => ~NamedBefore(text, TitleAt(text, m), i)

(* An article that a statute governs is the first such behind any mention  *)
(* of it.                                                                  *)
LEMMA FirstBehind ==
  ASSUME NEW text, Clear(text), NEW u, NEW d, Inside(text, u, d),
         NEW m, NEW p, Governing(u, m, p), NEW n \in Mentions(u), TitleAt(u, n) = TitleAt(u, m),
         NEW i \in DOMAIN text, text[i] = u[p], i > d + n
  PROVE  i >= d + p
<1>1. Governing(text, d + m, d + p)
  BY GovernsInside
<1>2. m \in Mentions(u) /\ p \in NumberPositions(u)
  BY DEF Governing
<1>3. TitleAt(text, d + m) = TitleAt(u, m) /\ TitleAt(text, d + n) = TitleAt(u, n) /\ d + n \in Mentions(text)
  BY <1>2, MentionsInside
<1>4. text[d + p] = u[p] /\ d + p \in NumberPositions(text)
  BY <1>2, NumbersInside
<1>5. i \in NumberPositions(text)
  BY <1>4 DEF NumberPositions
<1>6. i \in Nat /\ d + p \in Nat
  BY <1>4, InsideIs DEF NumberPositions
<1>7. NamedBefore(text, TitleAt(text, d + m), i)
  BY <1>3 DEF NamedBefore
<1>8. Governs(text, d + m, d + p) /\ d + m \in Mentions(text)
  BY <1>1 DEF Governing
<1>9. ~(i < d + p)
  BY <1>4, <1>5, <1>7, <1>8 DEF Clear
<1> QED
  BY <1>6, <1>9

(* In a text with nothing contested, a statute has a number once.          *)
LEMMA CitedOnce ==
  ASSUME NEW text, Clear(text), NEW u, NEW d, Inside(text, u, d),
         NEW m, NEW p, Governing(u, m, p), NEW n, NEW q, Governing(u, n, q),
         TitleAt(u, n) = TitleAt(u, m), u[p] = u[q]
  PROVE  p = q /\ m = n
<1>0. IsSeq(u)
  BY DEF Inside
<1>1. m \in Mentions(u) /\ n \in Mentions(u) /\ p \in NumberPositions(u) /\ q \in NumberPositions(u)
  BY DEF Governing
<1>2. m \in Nat /\ n \in Nat /\ p \in Nat /\ q \in Nat /\ m < p /\ n < q /\ d \in Nat
  <2>1. m \in 1 .. Len(u) /\ p \in m + 1 .. Len(u)
    BY <1>0, GoverningIs
  <2>2. n \in 1 .. Len(u) /\ q \in n + 1 .. Len(u)
    BY <1>0, GoverningIs
  <2>3. d \in Nat
    BY DEF Inside
  <2>4. Len(u) \in Nat
    BY <1>0, SeqDomain
  <2> DEFINE l == Len(u)
  <2> HIDE DEF l
  <2> QED
    BY <2>1, <2>2, <2>3, <2>4 DEF l
<1>3. /\ d + p \in DOMAIN text /\ text[d + p] = u[p]
      /\ d + q \in DOMAIN text /\ text[d + q] = u[q]
  BY <1>1, NumbersInside DEF NumberPositions
<1>4. d + q > d + n /\ d + p > d + m
  BY <1>2
<1>5. d + q >= d + p
  BY <1>1, <1>3, <1>4, FirstBehind
<1>6. d + p >= d + q
  BY <1>1, <1>3, <1>4, FirstBehind
<1>7. p = q
  BY <1>2, <1>5, <1>6
<1> QED
  BY <1>0, <1>7, OneGoverns

(* Without a bare name before its marks, the first mention is the first in *)
(* the text.                                                               *)
LEMMA SpanFirst ==
  ASSUME NEW text, ~BareFirst(text), NEW u, NEW d, Inside(text, u, d),
         NEW title, NEW n \in NamedIn(u, title)
  PROVE  MentionsOf(u, title)[1] \in NamedIn(u, title) /\ MentionsOf(u, title)[1] <= n
<1> DEFINE s == MentionsOf(u, title)[1]
           r == MentionsOf(u, title)
<1>0. IsSeq(u)
  BY DEF Inside
<1>1. /\ IsSeq(r) /\ ToSet(r) = NamedIn(u, title)
      /\ Place(u, s) <= Place(u, n)
  BY <1>0, MentionsOfIs
<1>2. 1 \in DOMAIN r
  <2>1. r # <<>>
    BY <1>1, EmptyIs
  <2> QED
    BY <1>1, <2>1, NonEmptyIs
<1>3. s \in NamedIn(u, title)
  BY <1>1, <1>2 DEF ToSet
<1> HIDE DEF s, r
<1>4. s \in Mentions(u) /\ n \in Mentions(u) /\ TitleAt(u, s) = TitleAt(u, n)
  BY <1>3 DEF NamedIn
<1>5. /\ s \in 1 .. Len(u) /\ n \in 1 .. Len(u) /\ Len(u) \in Nat
      /\ IsTitle(u, n) \/ (~IsTitle(u, n) /\ IsBare(u, n))
  BY <1>0, <1>4, MentionsIn
<1>6. CASE IsTitle(u, s) /\ ~IsTitle(u, n)
  <2> SUFFICES ASSUME n < s PROVE FALSE
    BY <1>3, <1>5 DEF s
  <2>1. IsTitle(text, d + s) /\ IsBare(text, d + n) /\ TitleAt(text, d + s) = TitleAt(text, d + n)
    BY <1>4, <1>5, <1>6, MentionsInside
  <2>2. d + s \in DOMAIN text /\ d + n \in DOMAIN text /\ d + n < d + s
    <3>1. s \in DOMAIN u /\ n \in DOMAIN u /\ d \in Nat
      BY <1>5, InsideIs
    <3>2. d + s \in DOMAIN text /\ d + n \in DOMAIN text
      BY <3>1, InsideIs
    <3> QED
      BY <1>5, <3>1, <3>2
  <2> QED
    BY <2>1, <2>2 DEF BareFirst
<1>7. CASE ~(IsTitle(u, s) /\ ~IsTitle(u, n))
  BY <1>1, <1>3, <1>5, <1>7 DEF Place, s
<1> QED
  BY <1>6, <1>7

-----------------------------------------------------------------------------
(* What a statute that is named in a text cites of it.                     *)
Cites(u, title, p, r) ==
  \E m \in NamedIn(u, title) : Governing(u, m, p) /\ r = ArticleRef(Governed(u, m), p - m)
CitedOf(u, title) ==
  {ArticleRef(Governed(u, x[1]), x[2] - x[1]) :
     x \in {y \in NamedIn(u, title) \X DOMAIN u : Governing(u, y[1], y[2])}}

(* The articles a statute cites of a text.                                 *)
LEMMA CitedOfIs ==
  ASSUME NEW u, NEW title, NEW r
  PROVE  r \in CitedOf(u, title) <=> \E p : Cites(u, title, p, r)
<1>1. ASSUME NEW p, Cites(u, title, p, r) PROVE r \in CitedOf(u, title)
  <2>1. PICK m \in NamedIn(u, title) : Governing(u, m, p) /\ r = ArticleRef(Governed(u, m), p - m)
    BY <1>1 DEF Cites
  <2>2. p \in DOMAIN u
    BY <2>1 DEF Governing, NumberPositions
  <2>3. <<m, p>> \in {y \in NamedIn(u, title) \X DOMAIN u : Governing(u, y[1], y[2])}
    BY <2>1, <2>2
  <2> QED
    BY <2>1, <2>3 DEF CitedOf
<1>2. ASSUME r \in CitedOf(u, title) PROVE \E p : Cites(u, title, p, r)
  BY <1>2 DEF CitedOf, Cites
<1> QED
  BY <1>1, <1>2

(* An article that is governed, among those of what governs it.            *)
LEMMA WithinGoverned ==
  ASSUME NEW u, IsSeq(u), NEW m, NEW p, Governing(u, m, p)
  PROVE  /\ IsSeq(Governed(u, m)) /\ p - m \in NumberPositions(Governed(u, m))
         /\ Governed(u, m)[p - m] = u[p]
<1> DEFINE g == Governed(u, m)
<1>1. /\ m \in 1 .. Len(u) /\ p \in 1 .. Len(u) /\ u[p] \in Numbers
      /\ p - m \in 1 .. Len(g) /\ Len(u) \in Nat
  BY GoverningIs
<1>2. m \in Mentions(u)
  BY DEF Governing
<1>3. IsSeq(g) /\ \A x \in 1 .. Len(g) : g[x] = u[m + x]
  BY <1>2, GovernedIs
<1> HIDE DEF g
<1> DEFINE x == p - m
<1>4. m + x = p /\ x \in 1 .. Len(g)
  BY <1>1
<1> HIDE DEF x
<1>5. g[x] = u[p] /\ x \in DOMAIN g
  BY <1>3, <1>4, SeqDomain
<1> QED
  BY <1>1, <1>3, <1>5 DEF NumberPositions, g, x

(* An article of what a mention governs.                                   *)
LEMMA GovernsWithin ==
  ASSUME NEW u, IsSeq(u), NEW m \in Mentions(u), NEW q \in NumberPositions(Governed(u, m))
  PROVE  Governing(u, m, m + q) /\ (m + q) - m = q /\ u[m + q] = Governed(u, m)[q]
<1> DEFINE g == Governed(u, m)
           L == Len(g)
           n == Len(u)
<1>1. /\ IsSeq(g) /\ L \in 0 .. n - m
      /\ \A x \in 1 .. L : g[x] = u[m + x]
  BY GovernedIs
<1>2. m \in 1 .. n /\ n \in Nat /\ DOMAIN u = 1 .. n
  BY MentionsIn, SeqDomain
<1> HIDE DEF g
<1>3. q \in 1 .. L /\ g[q] \in Numbers
  BY <1>1, SeqDomain DEF NumberPositions, g
<1>4. g[q] = u[m + q]
  BY <1>1, <1>3
<1> HIDE DEF L, n
<1>5. m + q \in 1 .. n /\ (m + q) - m = q /\ m + q > m /\ m + q <= m + L
  BY <1>1, <1>2, <1>3
<1>6. m + q \in NumberPositions(u)
  BY <1>2, <1>3, <1>4, <1>5 DEF NumberPositions
<1> QED
  BY <1>4, <1>5, <1>6 DEF Governing, Governs, L, g

(* Its paragraphs come before the next article that any statute governs.   *)
LEMMA CitesIs ==
  ASSUME NEW u, IsSeq(u), NEW title, NEW p, NEW r, Cites(u, title, p, r)
  PROVE  /\ r = Ref(r.art, r.paras, r.raw) /\ IsWholeArticle(r) /\ IsSeq(r.paras)
         /\ p \in NumberPositions(u) /\ r.art = u[p]
         /\ \A x \in ToSet(r.paras) :
              \E i \in DOMAIN u :
                /\ i > p /\ u[i] = x
                /\ \A n, q : Governing(u, n, q) /\ q > p => i < q
<1>1. PICK m \in NamedIn(u, title) : Governing(u, m, p) /\ r = ArticleRef(Governed(u, m), p - m)
  BY DEF Cites
<1> DEFINE g == Governed(u, m)
           a == p - m
           L == Len(g)
<1>2. IsSeq(g) /\ a \in NumberPositions(g) /\ g[a] = u[p]
  BY <1>1, WithinGoverned
<1>3. /\ r.art = g[a] /\ IsWholeArticle(r) /\ IsSeq(r.paras)
      /\ \A x \in ToSet(r.paras) :
           \E i \in DOMAIN g :
             /\ i > a /\ g[i] = x
             /\ \A j \in NumberPositions(g) : j > a => i < j
  BY <1>1, <1>2, ArticleRefIs
<1>4. r = Ref(r.art, r.paras, r.raw)
  BY <1>1, WholeArticleIs DEF ArticleRef
<1>5. /\ m \in 1 .. Len(u) /\ p \in 1 .. Len(u) /\ m < p /\ Len(u) \in Nat
      /\ \A n \in Mentions(u) : n > m => n > p
  BY <1>1, GoverningIs
<1>6. m \in Mentions(u)
  BY <1>1 DEF Governing
<1>7. /\ L \in 0 .. Len(u) - m /\ \A x \in 1 .. L : g[x] = u[m + x]
      /\ \A n \in Mentions(u) : n > m => n > m + L
  BY <1>6, GovernedIs
<1>8. DOMAIN g = 1 .. L /\ DOMAIN u = 1 .. Len(u)
  BY <1>2, SeqDomain
<1> DEFINE l == Len(u)
<1> HIDE DEF g, a, L, l
<1>9. ASSUME NEW x \in ToSet(r.paras)
      PROVE  \E i \in DOMAIN u : /\ i > p /\ u[i] = x
                                 /\ \A n, q : Governing(u, n, q) /\ q > p => i < q
  <2>1. PICK k \in DOMAIN g : /\ k > a /\ g[k] = x
                              /\ \A j \in NumberPositions(g) : j > a => k < j
    BY <1>3
  <2>2. k \in 1 .. L /\ m + k \in 1 .. l /\ u[m + k] = x
    <3>1. k \in 1 .. L
      BY <1>8, <2>1
    <3>2. u[m + k] = x
      BY <1>7, <2>1, <3>1
    <3>3. m + k \in 1 .. l
      BY <1>5, <1>7, <3>1 DEF l
    <3> QED
      BY <3>1, <3>2, <3>3
  <2>3. m + k > p
    BY <2>1, <2>2, <1>5, <1>7 DEF a, l
  <2>4. ASSUME NEW n, NEW q, Governing(u, n, q), q > p PROVE m + k < q
    <3>1. /\ n \in 1 .. Len(u) /\ q \in 1 .. Len(u) /\ n < q /\ n \in Mentions(u)
          /\ \A o \in Mentions(u) : o > n => o > q
      BY <2>4, GoverningIs DEF Governing
    <3>2. CASE n = m
      <4>1. q - m \in NumberPositions(g)
        BY <2>4, <3>2, WithinGoverned DEF g
      <4>2. q - m > a
        BY <1>5, <2>4, <3>1 DEF a
      <4>3. k < q - m
        BY <2>1, <4>1, <4>2
      <4> QED
        BY <1>5, <1>7, <2>2, <3>1, <4>3
    <3>3. CASE n > m
      <4>1. n > m + L
        BY <1>7, <3>1, <3>3
      <4> QED
        BY <1>5, <1>7, <2>2, <3>1, <4>1
    <3>4. CASE m > n
      <4>1. m > q
        BY <1>6, <3>1, <3>4
      <4> QED
        BY <1>5, <2>4, <3>1, <4>1
    <3> QED
      BY <1>5, <3>1, <3>2, <3>3, <3>4
  <2> QED
    BY <1>8, <2>2, <2>3, <2>4 DEF l
<1>10. p \in NumberPositions(u)
  BY <1>1 DEF Governing
<1> QED
  BY <1>2, <1>3, <1>4, <1>9, <1>10

-----------------------------------------------------------------------------
(* A text in which every number stands for itself, and no paragraph for an *)
(* article.                                                                *)
NoneAlone(text) == \A i \in DOMAIN text : ~TakenAlone(text, i)
PlainText(text) == PlainWords(text) /\ NoneAlone(text)

(* A text within a plain one that is clear, and with no name before its    *)
(* marks.                                                                  *)
Plain(text, u, d) == Clear(text) /\ ~BareFirst(text) /\ PlainText(text) /\ Inside(text, u, d)

(* A mention in it cites what it governs, and nothing else.                *)
LEMMA CitedByIs ==
  ASSUME NEW text, NEW u, NEW d, Inside(text, u, d), NoneAlone(text), NEW m \in Mentions(u)
  PROVE  CitedBy(u, m) = ArticlesIn(Governed(u, m))
<1> DEFINE g == Governed(u, m)
           i == d + m + 1
           h == SubSeq(text, i, Len(text))
<1>1. /\ Len(text) \in Nat /\ Len(u) \in Nat /\ d \in Nat
      /\ DOMAIN text = 1 .. Len(text) /\ DOMAIN u = 1 .. Len(u)
      /\ \A x \in DOMAIN u : d + x \in DOMAIN text /\ text[d + x] = u[x]
  BY InsideIs
<1>2. IsSeq(u) /\ IsSeq(text)
  BY DEF Inside
<1>3. m \in 1 .. Len(u)
  BY <1>2, MentionsIn
<1>4. Len(g) \in 0 .. Len(u) - m /\ \A x \in 1 .. Len(g) : g[x] = u[m + x]
  BY <1>2, GovernedIs
<1> SUFFICES ASSUME IsTitle(u, m), StandsAlone(g) PROVE FALSE
  BY DEF CitedBy
<1> HIDE DEF g, h
<1>5. /\ Len(g) > 1 /\ g[1] \in Paragraphs /\ g[2] \in {"provides", "comma", "colon"}
  BY DEF StandsAlone
<1>6. 1 \in 1 .. Len(g) /\ 2 \in 1 .. Len(g) /\ m + 1 \in DOMAIN u /\ m + 2 \in DOMAIN u
  BY <1>1, <1>3, <1>4, <1>5
<1>7. g[1] = text[i] /\ g[2] = text[i + 1] /\ i \in DOMAIN text /\ i + 1 \in DOMAIN text
  <2>1. d + (m + 1) = i /\ d + (m + 2) = i + 1
    BY <1>1, <1>3
  <2> QED
    BY <1>1, <1>4, <1>6, <2>1
<1>8. i \in 1 .. Len(text) + 1 /\ Len(text) \in 0 .. Len(text) /\ i <= Len(text) + 1
      /\ Len(text) - i + 1 >= 2
  BY <1>1, <1>3, <1>7
<1>9. Len(h) = Len(text) - i + 1 /\ \A k \in 1 .. Len(text) - i + 1 : h[k] = text[i + k - 1]
  <2> DEFINE b == Len(text)
  <2> HIDE DEF i, b
  <2>1. Len(SubSeq(text, i, b)) = b - i + 1 /\ \A k \in 1 .. b - i + 1 : SubSeq(text, i, b)[k] = text[i + k - 1]
    BY <1>2, <1>8, SubSeqIs DEF b
  <2> QED
    BY <2>1 DEF h, b
<1>10. h[1] = g[1] /\ h[2] = g[2] /\ Len(h) > 1
  <2>1. i + 1 - 1 = i /\ i + 2 - 1 = i + 1 /\ 1 \in 1 .. Len(text) - i + 1 /\ 2 \in 1 .. Len(text) - i + 1
    BY <1>1, <1>3, <1>8
  <2> QED
    BY <1>1, <1>3, <1>7, <1>8, <1>9, <2>1
<1>11. StandsAlone(h)
  BY <1>5, <1>10 DEF StandsAlone
<1>12. i > 1 /\ text[i - 1] \in Titles
  <2>1. i - 1 = d + m /\ i > 1 /\ m \in DOMAIN u
    BY <1>1, <1>3
  <2> QED
    BY <1>1, <2>1 DEF IsTitle
<1> QED
  BY <1>7, <1>11, <1>12 DEF NoneAlone, TakenAlone, h

(* A statute cites each article once.                                      *)
LEMMA CitedOneOfEach ==
  ASSUME NEW text, NEW u, NEW d, Plain(text, u, d), NEW title
  PROVE  OneOfEach(CitedOf(u, title))
<1>0. Clear(text) /\ Inside(text, u, d) /\ IsSeq(u)
  BY DEF Plain, Inside
<1>1. ASSUME NEW r \in CitedOf(u, title)
      PROVE  r = Ref(r.art, r.paras, r.raw) /\ IsSeq(r.paras)
  <2>1. PICK p : Cites(u, title, p, r)
    BY CitedOfIs
  <2> QED
    BY <1>0, <2>1, CitesIs
<1>2. ASSUME NEW r \in CitedOf(u, title), NEW s \in CitedOf(u, title), s.art = r.art
      PROVE  s = r
  <2>1. PICK p : Cites(u, title, p, r)
    BY CitedOfIs
  <2>2. PICK q : Cites(u, title, q, s)
    BY CitedOfIs
  <2>3. PICK m \in NamedIn(u, title) : Governing(u, m, p) /\ r = ArticleRef(Governed(u, m), p - m)
    BY <2>1 DEF Cites
  <2>4. PICK n \in NamedIn(u, title) : Governing(u, n, q) /\ s = ArticleRef(Governed(u, n), q - n)
    BY <2>2 DEF Cites
  <2>5. u[p] = u[q]
    <3>1. r.art = u[p]
      BY <1>0, <2>1, CitesIs
    <3>2. s.art = u[q]
      BY <1>0, <2>2, CitesIs
    <3> QED
      BY <1>2, <3>1, <3>2
  <2>6. TitleAt(u, n) = TitleAt(u, m)
    BY <2>3, <2>4 DEF NamedIn
  <2>7. p = q /\ m = n
    BY <1>0, <2>3, <2>4, <2>5, <2>6, CitedOnce
  <2> QED
    BY <2>3, <2>4, <2>7
<1> QED
  BY <1>1, <1>2 DEF OneOfEach

(* What one mention cites is of that.                                      *)
LEMMA MentionCites ==
  ASSUME NEW text, NEW u, NEW d, Plain(text, u, d), NEW title, NEW m \in NamedIn(u, title)
  PROVE  Merged(ArticlesIn(Governed(u, m)), CitedOf(u, title))
<1> DEFINE g == Governed(u, m)
<1>0. Clear(text) /\ Inside(text, u, d) /\ IsSeq(u)
  BY DEF Plain, Inside
<1>1. m \in Mentions(u)
  BY DEF NamedIn
<1>2. IsSeq(g)
  BY <1>0, <1>1, GovernedIs
<1>3. \A p, q \in NumberPositions(g) : g[p] = g[q] => p = q
  <2>1. SUFFICES ASSUME NEW p \in NumberPositions(g), NEW q \in NumberPositions(g), g[p] = g[q]
                 PROVE  p = q
    OBVIOUS
  <2>2. Governing(u, m, m + p) /\ (m + p) - m = p /\ u[m + p] = g[p]
    BY <1>0, <1>1, GovernsWithin
  <2>3. Governing(u, m, m + q) /\ (m + q) - m = q /\ u[m + q] = g[q]
    BY <1>0, <1>1, GovernsWithin
  <2> HIDE DEF g
  <2>4. m + p = m + q
    BY <1>0, <2>1, <2>2, <2>3, CitedOnce
  <2> QED
    BY <2>2, <2>3, <2>4
<1> DEFINE s == ArticlesIn(g)
<1>4. /\ IsSeq(s) /\ OnceEach(s)
      /\ \A r \in ToSet(s) : \E q \in NumberPositions(g) : r = ArticleRef(g, q)
  <2>1. PlainWords(g)
    <3>1. PlainWords(u)
      BY PlainInside DEF Plain, PlainText
    <3>2. Inside(u, g, m)
      <4>1. m \in 1 .. Len(u) /\ Len(u) \in Nat
        BY <1>0, <1>1, MentionsIn
      <4>2. Len(g) \in 0 .. Len(u) - m /\ \A x \in 1 .. Len(g) : g[x] = u[m + x]
        BY <1>0, <1>1, GovernedIs
      <4> HIDE DEF g
      <4> QED
        BY <1>0, <1>2, <4>1, <4>2 DEF Inside
    <3> QED
      BY <3>1, <3>2, PlainInside
  <2> QED
    BY <1>2, <1>3, <2>1, ArticlesInIs
<1> HIDE DEF s
<1>5. ASSUME NEW r \in ToSet(s) PROVE r \in CitedOf(u, title)
  <2>1. PICK q \in NumberPositions(g) : r = ArticleRef(g, q)
    BY <1>4
  <2>2. Governing(u, m, m + q) /\ (m + q) - m = q
    BY <1>0, <1>1, GovernsWithin
  <2>3. Cites(u, title, m + q, r)
    BY <2>1, <2>2 DEF Cites
  <2> QED
    BY <2>3, CitedOfIs
<1> QED
  BY <1>4, <1>5 DEF Merged, s

(* One source.                                                             *)
OwnSource(u, title, s) ==
  /\ s.title = title /\ s.span = MentionsOf(u, title)[1] /\ s.origin = 0
  /\ s.form \in {"explicit", "bare"} /\ Merged(s.articles, CitedOf(u, title))
  /\ {"title", "span", "articles"} \subseteq DOMAIN s

(* The source of a statute has what it cites, and begins at its first      *)
(* mention.                                                                *)
LEMMA SourceOfIs ==
  ASSUME NEW text, NEW u, NEW d, Plain(text, u, d), NEW title, NamedIn(u, title) # {}
  PROVE  OwnSource(u, title, SourceOf(u, title))
<1> DEFINE M == MentionsOf(u, title)
           R == CitedOf(u, title)
           refs == [n \in DOMAIN M |-> CitedBy(u, M[n])]
           s == SourceOf(u, title)
<1>0. IsSeq(u) /\ Inside(text, u, d) /\ NoneAlone(text)
  BY DEF Plain, PlainText, Inside
<1>1. /\ s.title = title /\ s.span = M[1] /\ s.origin = 0 /\ s.form \in {"explicit", "bare"}
      /\ s.articles = FoldLeft(MergeArticles, refs[1], Tail(refs))
      /\ {"title", "span", "articles"} \subseteq DOMAIN s
  BY DEF SourceOf
<1>2. IsSeq(M) /\ ToSet(M) = NamedIn(u, title) /\ M # <<>>
  BY <1>0, NamedStatute
<1>3. OneOfEach(R)
  BY CitedOneOfEach
<1>4. ASSUME NEW n \in DOMAIN M PROVE Merged(refs[n], R)
  <2>1. M[n] \in NamedIn(u, title)
    BY <1>2 DEF ToSet
  <2>2. refs[n] = ArticlesIn(Governed(u, M[n]))
    <3>1. refs[n] = CitedBy(u, M[n])
      OBVIOUS
    <3>2. M[n] \in Mentions(u)
      BY <2>1 DEF NamedIn
    <3> HIDE DEF M, refs
    <3> QED
      BY <1>0, <3>1, <3>2, CitedByIs
  <2> HIDE DEF M, R, refs
  <2> QED
    BY <2>1, <2>2, MentionCites DEF R
<1>5. IsSeq(refs) /\ Len(refs) = Len(M) /\ DOMAIN refs = DOMAIN M
  <2>1. Len(M) \in Nat /\ DOMAIN M = 1 .. Len(M)
    BY <1>2, SeqDomain
  <2>2. refs = [n \in 1 .. Len(M) |-> refs[n]]
    BY <2>1
  <2> HIDE DEF refs
  <2>3. IsSeq(refs) /\ Len(refs) = Len(M)
    BY <2>1, <2>2, FunctionIsSeq
  <2> QED
    BY <2>1, <2>3, SeqDomain
<1> HIDE DEF M, R, refs, s
<1>6. 1 \in DOMAIN M /\ Len(M) \in Nat \ {0}
  BY <1>2, NonEmptyIs
<1>7. refs # <<>>
  BY <1>5, <1>6, EmptyIs
<1> DEFINE t == Tail(refs)
<1>8. IsSeq(t) /\ ToSet(refs) = {Head(refs)} \cup ToSet(t)
  BY <1>5, <1>7, TailIs
<1> HIDE DEF t
<1>9. \A n \in 1 .. Len(t) : IsSeq(t[n]) /\ ToSet(t[n]) \subseteq R
  <2>1. SUFFICES ASSUME NEW n \in 1 .. Len(t) PROVE IsSeq(t[n]) /\ ToSet(t[n]) \subseteq R
    OBVIOUS
  <2>2. t[n] \in ToSet(t)
    BY <1>8, SeqDomain DEF ToSet
  <2>3. PICK k \in DOMAIN refs : t[n] = refs[k]
    BY <1>8, <2>2 DEF ToSet
  <2>4. Merged(t[n], R)
    BY <1>4, <1>5, <2>3
  <2> QED
    BY <2>4 DEF Merged, OnceEach
<1>10. Merged(refs[1], R)
  BY <1>4, <1>6
<1>11. Merged(FoldLeft(MergeArticles, refs[1], t), R)
  BY <1>3, <1>8, <1>9, <1>10, GatherKeeps
<1>12. Merged(s.articles, R)
  BY <1>1, <1>11 DEF t
<1> QED
  BY <1>1, <1>12 DEF OwnSource, M, R, s

(* All of them.                                                            *)
OwnSources(u, sources) ==
  /\ IsSeq(sources)
  /\ \A k \in DOMAIN sources :
       NamedIn(u, sources[k].title) # {} /\ OwnSource(u, sources[k].title, sources[k])
  /\ \A k, l \in DOMAIN sources : sources[k].title = sources[l].title => k = l

(* So have all sources of a text.                                          *)
LEMMA LegalSourcesAre ==
  ASSUME NEW text, NEW u, NEW d, Plain(text, u, d)
  PROVE  OwnSources(u, LegalSources(u))
<1> DEFINE S == Statutes(u)
           key == [t \in S |-> Place(u, MentionsOf(u, t)[1])]
           order == Ranked(S, key)
           n == Cardinality(S)
           L == LegalSources(u)
<1>0. IsSeq(u)
  BY DEF Plain, Inside
<1>1. IsFiniteSet(S) /\ n \in Nat
  BY CitationAssumption, FS_Subset, FS_CardinalityType DEF Statutes
<1>2. ASSUME NEW t \in S
      PROVE  /\ NamedIn(u, t) # {} /\ MentionsOf(u, t)[1] \in NamedIn(u, t)
             /\ MentionsOf(u, t)[1] \in Mentions(u) /\ TitleAt(u, MentionsOf(u, t)[1]) = t
             /\ key[t] = Place(u, MentionsOf(u, t)[1])
  <2>1. NamedIn(u, t) # {}
    BY DEF Statutes, NamedIn
  <2>2. MentionsOf(u, t)[1] \in NamedIn(u, t)
    BY <1>0, <2>1, NamedStatute
  <2> QED
    BY <2>1, <2>2 DEF NamedIn
<1>3. L = [k \in 1 .. n |-> SourceOf(u, order[k])]
  BY DEF LegalSources
<1> HIDE DEF S, key, order, L
<1>4. \A t \in S : key[t] \in Int
  BY <1>0, <1>2, PlaceIs
<1>5. \A t, v \in S : key[t] = key[v] => t = v
  <2>1. SUFFICES ASSUME NEW t \in S, NEW v \in S, key[t] = key[v] PROVE t = v
    OBVIOUS
  <2>2. MentionsOf(u, t)[1] = MentionsOf(u, v)[1]
    BY <1>0, <1>2, <2>1, PlaceIs
  <2> QED
    BY <1>2, <2>2
<1>6. /\ DOMAIN order = 1 .. n /\ ToSet(order) = S
      /\ \A k, l \in 1 .. n : order[k] = order[l] => k = l
  BY <1>1, <1>4, <1>5, RankedIs DEF order
<1> HIDE DEF n
<1>7. ASSUME NEW k \in 1 .. n PROVE order[k] \in S /\ OwnSource(u, order[k], L[k])
  <2>1. order[k] \in S
    BY <1>6 DEF ToSet
  <2>2. L[k] = SourceOf(u, order[k])
    BY <1>3
  <2> QED
    BY <1>2, <2>1, <2>2, SourceOfIs
<1>8. IsSeq(L) /\ DOMAIN L = 1 .. n
  <2>1. L = [k \in 1 .. n |-> L[k]]
    BY <1>3
  <2>2. IsSeq(L) /\ Len(L) = n
    BY <1>1, <2>1, FunctionIsSeq
  <2> QED
    BY <2>2, SeqDomain
<1>9. \A k \in 1 .. n : L[k].title = order[k]
  BY <1>7 DEF OwnSource
<1>10. \A k, l \in DOMAIN L : L[k].title = L[l].title => k = l
  BY <1>6, <1>8, <1>9
<1>11. \A k \in DOMAIN L : NamedIn(u, L[k].title) # {} /\ OwnSource(u, L[k].title, L[k])
  BY <1>2, <1>7, <1>8, <1>9
<1> QED
  BY <1>8, <1>10, <1>11 DEF OwnSources, L

-----------------------------------------------------------------------------
(* The sources that a text names, where it stands within that of a claim.  *)
Standing(u, d, sources) ==
  /\ IsSeq(sources)
  /\ \A k \in DOMAIN sources :
       /\ NamedIn(u, sources[k].title) # {}
       /\ sources[k].span = d + MentionsOf(u, sources[k].title)[1]
       /\ Merged(sources[k].articles, CitedOf(u, sources[k].title))
  /\ \A k, l \in DOMAIN sources : sources[k].title = sources[l].title => k = l

(* What they cite are whole articles, each once.                           *)
LEMMA StandingSourced ==
  ASSUME NEW u, IsSeq(u), NEW d, NEW sources, Standing(u, d, sources)
  PROVE  Sourced(sources)
<1>1. ASSUME NEW k \in DOMAIN sources, NEW r \in ToSet(sources[k].articles) PROVE IsWholeArticle(r)
  <2>1. r \in CitedOf(u, sources[k].title)
    BY <1>1 DEF Standing, Merged
  <2>2. PICK p : Cites(u, sources[k].title, p, r)
    BY <2>1, CitedOfIs
  <2> QED
    BY <2>2, CitesIs
<1> QED
  BY <1>1 DEF Standing, Merged, Sourced

(* The sources of a text in a claim that begins with it.                   *)
LEMMA StandingFirst ==
  ASSUME NEW u, IsSeq(u), NEW sources, OwnSources(u, sources)
  PROVE  Standing(u, 0, sources)
<1>1. ASSUME NEW k \in DOMAIN sources
      PROVE  sources[k].span = 0 + MentionsOf(u, sources[k].title)[1]
  <2> DEFINE s == MentionsOf(u, sources[k].title)[1]
  <2>1. NamedIn(u, sources[k].title) # {} /\ sources[k].span = s
    BY DEF OwnSources, OwnSource
  <2>2. s \in NamedIn(u, sources[k].title)
    BY <2>1, NamedStatute
  <2>3. s \in Int
    BY <2>2, MentionsIn DEF NamedIn
  <2> HIDE DEF s
  <2>4. s = 0 + s
    BY <2>3
  <2> QED
    BY <2>1, <2>4 DEF s
<1> QED
  BY <1>1 DEF OwnSources, OwnSource, Standing

(* And in a claim where it comes second.                                   *)
LEMMA StandingShifted ==
  ASSUME NEW u, IsSeq(u), NEW d \in Nat, NEW sources, OwnSources(u, sources)
  PROVE  Standing(u, d, Shifted(sources, d))
<1> DEFINE t == Shifted(sources, d)
           L == Len(sources)
<1>1. L \in Nat /\ DOMAIN sources = 1 .. L
  BY SeqDomain DEF OwnSources
<1>2. t = [k \in 1 .. L |-> [sources[k] EXCEPT !.span = @ + d]]
  BY <1>1 DEF Shifted
<1>3. ASSUME NEW k \in 1 .. L
      PROVE  /\ t[k].title = sources[k].title /\ t[k].articles = sources[k].articles
             /\ t[k].span = sources[k].span + d
  <2> DEFINE s == sources[k]
  <2>1. {"title", "span", "articles"} \subseteq DOMAIN s
    BY <1>1 DEF OwnSources, OwnSource
  <2>2. t[k] = [s EXCEPT !.span = @ + d]
    BY <1>2
  <2> HIDE DEF s, t
  <2> QED
    BY <2>1, <2>2 DEF s
<1>4. IsSeq(t) /\ DOMAIN t = 1 .. L
  <2>1. t = [k \in 1 .. L |-> t[k]]
    BY <1>2
  <2>2. IsSeq(t) /\ Len(t) = L
    BY <1>1, <2>1, FunctionIsSeq
  <2> QED
    BY <2>2, SeqDomain
<1> HIDE DEF t, L
<1>5. ASSUME NEW k \in 1 .. L
      PROVE  t[k].span = d + MentionsOf(u, t[k].title)[1] /\ NamedIn(u, t[k].title) # {}
  <2> DEFINE s == MentionsOf(u, sources[k].title)[1]
  <2>1. NamedIn(u, sources[k].title) # {} /\ sources[k].span = s
    BY <1>1 DEF OwnSources, OwnSource
  <2>2. s \in NamedIn(u, sources[k].title)
    BY <2>1, NamedStatute
  <2>3. s \in Int
    BY <2>2, MentionsIn DEF NamedIn
  <2> HIDE DEF s
  <2>4. s + d = d + s
    BY <2>3
  <2> QED
    BY <1>3, <2>1, <2>4 DEF s
<1>6. \A k \in 1 .. L : Merged(t[k].articles, CitedOf(u, t[k].title))
  BY <1>1, <1>3 DEF OwnSources, OwnSource
<1>7. \A k, l \in 1 .. L : t[k].title = t[l].title => k = l
  BY <1>1, <1>3 DEF OwnSources
<1> QED
  BY <1>4, <1>5, <1>6, <1>7 DEF Standing, t

(* The places of what they cite.                                           *)
PlacesOf(u, d, sources) ==
  [w \in Want(sources) |-> d + (CHOOSE p : Cites(u, sources[w.source].title, p, w.ref))]

Placed(text, u, d, sources, w, p) ==
  /\ Cites(u, sources[w.source].title, p, w.ref)
  /\ p \in NumberPositions(u) /\ w.ref.art = u[p]
  /\ PlacesOf(u, d, sources)[w] = d + p
  /\ d + p \in DOMAIN text /\ text[d + p] = u[p]

(* Each article of a source has a place in the claim.                      *)
LEMMA PlacedAt ==
  ASSUME NEW text, NEW u, NEW d, Plain(text, u, d), NEW sources, Standing(u, d, sources),
         NEW w \in Want(sources)
  PROVE  \E p : Placed(text, u, d, sources, w, p)
<1>0. IsSeq(u) /\ Inside(text, u, d)
  BY DEF Plain, Inside
<1>1. Sourced(sources)
  BY <1>0, StandingSourced
<1>2. w.source \in DOMAIN sources /\ w.ref \in ToSet(sources[w.source].articles)
  BY <1>1, WantedIs
<1> DEFINE title == sources[w.source].title
           p == CHOOSE q : Cites(u, title, q, w.ref)
<1>3. w.ref \in CitedOf(u, title)
  BY <1>2 DEF Standing, Merged
<1>4. Cites(u, title, p, w.ref)
  <2>1. \E q : Cites(u, title, q, w.ref)
    BY <1>3, CitedOfIs
  <2> QED
    BY <2>1
<1>5. PlacesOf(u, d, sources)[w] = d + p
  BY DEF PlacesOf
<1> HIDE DEF p
<1>6. p \in NumberPositions(u) /\ w.ref.art = u[p]
  BY <1>0, <1>4, CitesIs
<1>7. d + p \in DOMAIN text /\ text[d + p] = u[p]
  BY <1>0, <1>6, NumbersInside DEF NumberPositions
<1> QED
  BY <1>4, <1>5, <1>6, <1>7 DEF Placed

(* No two have the same.                                                   *)
LEMMA PlacedApart ==
  ASSUME NEW text, NEW u, NEW d, Plain(text, u, d), NEW sources, Standing(u, d, sources),
         NEW w \in Want(sources), NEW v \in Want(sources),
         NEW p, Placed(text, u, d, sources, w, p), NEW q, Placed(text, u, d, sources, v, q), p = q
  PROVE  w = v
<1>0. IsSeq(u)
  BY DEF Plain, Inside
<1>1. Sourced(sources)
  BY <1>0, StandingSourced
<1>2. /\ w.source \in DOMAIN sources /\ w = [source |-> w.source, ref |-> w.ref]
      /\ v.source \in DOMAIN sources /\ v = [source |-> v.source, ref |-> v.ref]
  BY <1>1, WantedIs
<1>3. PICK m \in NamedIn(u, sources[w.source].title) :
        Governing(u, m, p) /\ w.ref = ArticleRef(Governed(u, m), p - m)
  BY DEF Placed, Cites
<1>4. PICK n \in NamedIn(u, sources[v.source].title) :
        Governing(u, n, q) /\ v.ref = ArticleRef(Governed(u, n), q - n)
  BY DEF Placed, Cites
<1>5. m = n
  BY <1>0, <1>3, <1>4, OneGoverns
<1>6. sources[w.source].title = sources[v.source].title
  BY <1>3, <1>4, <1>5 DEF NamedIn
<1>7. w.source = v.source /\ w.ref = v.ref
  BY <1>2, <1>3, <1>4, <1>5, <1>6 DEF Standing
<1> QED
  BY <1>2, <1>7

(* It is the first with that number behind the first mention of the        *)
(* statute.                                                                *)
LEMMA PlacedSought ==
  ASSUME NEW text, NEW u, NEW d, Plain(text, u, d), NEW sources, Standing(u, d, sources),
         NEW w \in Want(sources), NEW p, Placed(text, u, d, sources, w, p)
  PROVE  LET span == sources[w.source].span
         IN  /\ span # 0 /\ d + p > span
             /\ \A i \in DOMAIN text : text[i] = w.ref.art /\ i > span => d + p <= i
<1> DEFINE title == sources[w.source].title
           s == MentionsOf(u, title)[1]
           span == sources[w.source].span
<1>0. IsSeq(u) /\ Inside(text, u, d) /\ Clear(text) /\ ~BareFirst(text)
  BY DEF Plain, Inside
<1>1. Sourced(sources)
  BY <1>0, StandingSourced
<1>2. w.source \in DOMAIN sources
  BY <1>1, WantedIs
<1>3. span = d + s /\ NamedIn(u, title) # {}
  BY <1>2 DEF Standing
<1>4. PICK m \in NamedIn(u, title) : Governing(u, m, p)
  BY DEF Placed, Cites
<1>5. s \in NamedIn(u, title) /\ s <= m
  BY <1>0, <1>4, SpanFirst
<1> HIDE DEF s, span, title
<1>6. s \in Mentions(u) /\ TitleAt(u, s) = TitleAt(u, m)
  BY <1>4, <1>5 DEF NamedIn
<1>7. s \in 1 .. Len(u) /\ Len(u) \in Nat
  BY <1>0, <1>6, MentionsIn
<1>8. m \in 1 .. Len(u) /\ p \in 1 .. Len(u) /\ m < p
  BY <1>0, <1>4, GoverningIs
<1>9. d \in Nat /\ Len(text) \in Nat /\ DOMAIN text = 1 .. Len(text)
  BY <1>0, InsideIs
<1> DEFINE l == Len(u)
<1> HIDE DEF l
<1>10. span # 0 /\ d + p > span
  BY <1>3, <1>5, <1>7, <1>8, <1>9 DEF l
<1>11. ASSUME NEW i \in DOMAIN text, text[i] = w.ref.art, i > span PROVE d + p <= i
  <2>1. text[i] = u[p] /\ i > d + s
    BY <1>3, <1>11 DEF Placed
  <2>2. i >= d + p
    BY <1>0, <1>4, <1>6, <2>1, FirstBehind
  <2> QED
    BY <1>8, <1>9, <2>2
<1> QED
  BY <1>10, <1>11 DEF span

(* Its paragraphs come before the place of any article behind it.          *)
LEMMA PlacedFollow ==
  ASSUME NEW text, NEW u, NEW d, Plain(text, u, d), NEW sources, Standing(u, d, sources),
         NEW w \in Want(sources), NEW p, Placed(text, u, d, sources, w, p), NEW x \in ToSet(w.ref.paras)
  PROVE  \E i \in DOMAIN text :
           /\ i > d + p /\ text[i] = x
           /\ \A v \in Want(sources) :
                PlacesOf(u, d, sources)[v] > d + p => i < PlacesOf(u, d, sources)[v]
<1>0. IsSeq(u) /\ Inside(text, u, d)
  BY DEF Plain, Inside
<1>1. PICK j \in DOMAIN u : /\ j > p /\ u[j] = x
                            /\ \A n, q : Governing(u, n, q) /\ q > p => j < q
  <2>1. Cites(u, sources[w.source].title, p, w.ref)
    BY DEF Placed
  <2> QED
    BY <1>0, <2>1, CitesIs
<1>2. d + j \in DOMAIN text /\ text[d + j] = x
  BY <1>0, <1>1, InsideIs
<1>3. d \in Nat /\ DOMAIN u = 1 .. Len(u) /\ Len(u) \in Nat
  BY <1>0, InsideIs
<1>4. p \in DOMAIN u
  BY DEF Placed, NumberPositions
<1> DEFINE l == Len(u)
<1>5. j \in Nat /\ p \in Nat
  BY <1>1, <1>3, <1>4
<1>6. d + j > d + p
  BY <1>1, <1>3, <1>5
<1>7. ASSUME NEW v \in Want(sources), PlacesOf(u, d, sources)[v] > d + p
      PROVE  d + j < PlacesOf(u, d, sources)[v]
  <2>1. PICK q : Placed(text, u, d, sources, v, q)
    BY PlacedAt
  <2>2. PICK n \in NamedIn(u, sources[v.source].title) : Governing(u, n, q)
    BY <2>1 DEF Placed, Cites
  <2>3. PlacesOf(u, d, sources)[v] = d + q /\ q \in DOMAIN u
    BY <2>1 DEF Placed, NumberPositions
  <2>4. q \in Nat
    BY <1>3, <2>3
  <2>5. q > p
    BY <1>3, <1>5, <1>7, <2>3, <2>4
  <2>6. j < q
    BY <1>1, <2>2, <2>5
  <2> QED
    BY <1>3, <1>5, <2>3, <2>4, <2>6
<1> QED
  BY <1>2, <1>6, <1>7

(* What a claim names itself is intact.                                    *)
LEMMA OwnIntact ==
  ASSUME NEW text, NEW u, NEW d, Plain(text, u, d), NEW sources, Standing(u, d, sources)
  PROVE  CitationsIntact(sources, Occurrences(text, sources))
<1> DEFINE P == PlacesOf(u, d, sources)
<1>0. IsSeq(u) /\ IsSeq(text) /\ PlainWords(text)
  BY DEF Plain, PlainText, Inside
<1>1. Sourced(sources)
  BY <1>0, StandingSourced
<1>2. \A w \in Want(sources) : \E p : Placed(text, u, d, sources, w, p)
  BY PlacedAt
<1> HIDE DEF P
<1>3. \A w \in Want(sources) : P[w] \in NumberPositions(text) /\ text[P[w]] = w.ref.art
  <2>1. SUFFICES ASSUME NEW w \in Want(sources)
                 PROVE  P[w] \in NumberPositions(text) /\ text[P[w]] = w.ref.art
    OBVIOUS
  <2>2. PICK p : Placed(text, u, d, sources, w, p)
    BY <1>2
  <2>3. d + p \in NumberPositions(text) /\ text[d + p] = u[p]
    BY <2>2, NumbersInside DEF Placed, Plain
  <2> QED
    BY <2>2, <2>3 DEF Placed, P
<1>4. ASSUME NEW w \in Want(sources), NEW v \in Want(sources), P[w] = P[v] PROVE w = v
  <2>1. PICK p : Placed(text, u, d, sources, w, p)
    BY <1>2
  <2>2. PICK q : Placed(text, u, d, sources, v, q)
    BY <1>2
  <2>3. P[w] = d + p /\ P[v] = d + q /\ p \in DOMAIN u /\ q \in DOMAIN u
    BY <2>1, <2>2 DEF Placed, P, NumberPositions
  <2>4. d \in Nat /\ DOMAIN u = 1 .. Len(u)
    BY InsideIs DEF Plain
  <2>5. p \in Nat /\ q \in Nat
    BY <2>3, <2>4
  <2>6. p = q
    <3>1. d + p = d + q
      BY <1>4, <2>3
    <3> QED
      BY <2>4, <2>5, <3>1
  <2> QED
    BY <2>1, <2>2, <2>6, PlacedApart
<1>5. SoughtAt(text, sources, P)
  <2>1. ASSUME NEW w \in Want(sources)
        PROVE  /\ sources[w.source].span # 0 /\ P[w] > sources[w.source].span
               /\ \A i \in DOMAIN text : text[i] = w.ref.art /\ i > sources[w.source].span => P[w] <= i
    <3>1. PICK p : Placed(text, u, d, sources, w, p)
      BY <1>2
    <3>2. P[w] = d + p
      BY <3>1 DEF Placed, P
    <3> QED
      BY <3>1, <3>2, PlacedSought
  <2> QED
    BY <2>1 DEF SoughtAt
<1>6. ParagraphsFollow(text, sources, P)
  <2>1. ASSUME NEW w \in Want(sources), NEW x \in ToSet(w.ref.paras)
        PROVE  \E i \in DOMAIN text :
                 i > P[w] /\ text[i] = x /\ \A v \in Want(sources) : P[v] > P[w] => i < P[v]
    <3>1. PICK p : Placed(text, u, d, sources, w, p)
      BY <1>2
    <3>2. P[w] = d + p
      BY <3>1 DEF Placed, P
    <3> QED
      BY <3>1, <3>2, PlacedFollow DEF P
  <2> QED
    BY <2>1 DEF ParagraphsFollow
<1>7. Fits(text, sources, P)
  BY <1>0, <1>1, <1>3, <1>4, <1>5, <1>6 DEF Fits, Places
<1> QED
  BY <1>7, FitsIntact

-----------------------------------------------------------------------------
(* Cells in a table, and what is not one.                                  *)
Proper(b) ==
  /\ b.kind = "cell" =>
       /\ b.group = 0 /\ b.table \in Nat
       /\ b.cell.r1 \in Nat /\ b.cell.r2 \in Nat /\ b.cell.c1 \in Nat /\ b.cell.c2 \in Nat
       /\ b.cell.r1 <= b.cell.r2
  /\ b.note # NoNote => b.kind = "note"
  /\ b.refs \in Seq(NoteId)
Rows(bs) ==
  \A j, k \in DOMAIN bs :
    j < k /\ bs[j].kind = "cell" /\ bs[k].kind = "cell" /\ bs[j].table = bs[k].table
      => InRow(bs[j].cell, bs[k].cell)
Tabled(bs) == IsSeq(bs) /\ (\A k \in DOMAIN bs : IsBlock(bs[k]) /\ Proper(bs[k])) /\ Rows(bs)

(* Blocks that differ in nothing but their groups have the same tables.    *)
LEMMA AlikeTabled ==
  ASSUME NEW bs, Tabled(bs), NEW cs, IsSeq(cs), DOMAIN cs = DOMAIN bs,
         \A k \in DOMAIN bs : IsBlock(cs[k]) /\ Alike(bs[k], cs[k])
  PROVE  Tabled(cs)
<1>1. \A k \in DOMAIN cs : Proper(cs[k])
  BY DEF Tabled, Proper, Alike
<1>2. Rows(cs)
  BY DEF Tabled, Rows, Alike
<1> QED
  BY <1>1, <1>2 DEF Tabled

(* A block that is added.                                                  *)
LEMMA AddedIs ==
  ASSUME NEW read, IsSeq(read.blocks), NEW block, IsBlock(block)
  PROVE  LET bs == Add(read, block).blocks
             n == Len(read.blocks)
         IN  /\ IsSeq(bs) /\ DOMAIN bs = 1 .. n + 1 /\ n \in Nat /\ DOMAIN read.blocks = 1 .. n
             /\ \A k \in 1 .. n : bs[k] = read.blocks[k]
             /\ IsBlock(bs[n + 1]) /\ Alike(block, bs[n + 1]) /\ bs[n + 1].group = block.group
<1> DEFINE n == Len(read.blocks)
           bs0 == read.blocks
           bs == Add(read, block).blocks
<1>1. PICK ids : bs = Append(bs0, [block EXCEPT !.sentences = ids])
  BY DEF Add
<1> DEFINE b == [block EXCEPT !.sentences = ids]
<1>2. IsBlock(b) /\ Alike(block, b) /\ b.group = block.group
  <2>1. IsBlock(b) /\ \A x \in BlockFields \ {"sentences"} : b[x] = block[x]
    BY DEF IsBlock, BlockFields
  <2> HIDE DEF b
  <2>2. /\ b.kind = block.kind /\ b.table = block.table /\ b.cell = block.cell
        /\ b.note = block.note /\ b.refs = block.refs /\ b.group = block.group
    BY <2>1 DEF BlockFields
  <2> QED
    BY <2>1, <2>2 DEF Alike
<1>3. bs = Append(bs0, b)
  BY <1>1
<1> HIDE DEF b, bs, bs0
<1>4. /\ IsSeq(bs) /\ Len(bs) = Len(bs0) + 1
      /\ \A k \in 1 .. Len(bs0) : bs[k] = bs0[k]
      /\ bs[Len(bs0) + 1] = b
  BY <1>3, AppendIs DEF bs0
<1>5. Len(bs0) \in Nat /\ DOMAIN bs0 = 1 .. Len(bs0) /\ DOMAIN bs = 1 .. Len(bs)
  BY <1>4, SeqDomain DEF bs0
<1> QED
  BY <1>2, <1>4, <1>5 DEF bs, bs0

(* A block that is added, its cell behind those of its table.              *)
LEMMA AddTabled ==
  ASSUME NEW read, Tabled(read.blocks), NEW block, IsBlock(block), Proper(block),
         block.kind = "cell" =>
           \A k \in DOMAIN read.blocks :
             read.blocks[k].kind = "cell" /\ read.blocks[k].table = block.table
               => InRow(read.blocks[k].cell, block.cell)
  PROVE  Tabled(Add(read, block).blocks)
<1> DEFINE n == Len(read.blocks)
           bs0 == read.blocks
           bs == Add(read, block).blocks
<1>0. IsSeq(bs0) /\ \A k \in DOMAIN bs0 : IsBlock(bs0[k]) /\ Proper(bs0[k])
  BY DEF Tabled
<1>1. /\ IsSeq(bs) /\ DOMAIN bs = 1 .. n + 1 /\ n \in Nat /\ DOMAIN bs0 = 1 .. n
      /\ \A k \in 1 .. n : bs[k] = bs0[k]
      /\ IsBlock(bs[n + 1]) /\ Alike(block, bs[n + 1]) /\ bs[n + 1].group = block.group
  BY <1>0, AddedIs
<1> HIDE DEF n, bs
<1>2. Proper(bs[n + 1])
  BY <1>1 DEF Proper, Alike
<1>3. \A k \in DOMAIN bs : IsBlock(bs[k]) /\ Proper(bs[k])
  <2> SUFFICES ASSUME NEW k \in DOMAIN bs PROVE IsBlock(bs[k]) /\ Proper(bs[k])
    OBVIOUS
  <2>1. CASE k = n + 1
    BY <1>1, <1>2, <2>1
  <2>2. CASE k \in 1 .. n
    BY <1>0, <1>1, <2>2
  <2> QED
    BY <1>1, <2>1, <2>2
<1>4. Rows(bs)
  <2> SUFFICES ASSUME NEW j \in DOMAIN bs, NEW k \in DOMAIN bs, j < k,
                      bs[j].kind = "cell", bs[k].kind = "cell", bs[j].table = bs[k].table
               PROVE  InRow(bs[j].cell, bs[k].cell)
    BY DEF Rows
  <2>1. CASE k \in 1 .. n
    <3>1. j \in 1 .. n
      BY <1>1, <2>1
    <3> QED
      BY <1>1, <2>1, <3>1 DEF Tabled, Rows
  <2>2. CASE k = n + 1
    <3>1. j \in 1 .. n
      BY <1>1, <2>2
    <3>2. /\ bs0[j].kind = "cell" /\ block.kind = "cell" /\ bs0[j].table = block.table
          /\ bs[j].cell = bs0[j].cell /\ bs[k].cell = block.cell
      BY <1>1, <2>2, <3>1 DEF Alike
    <3> QED
      BY <1>1, <3>1, <3>2
  <2> QED
    BY <1>1, <2>1, <2>2
<1> QED
  BY <1>1, <1>3, <1>4 DEF Tabled, bs

(* What the cursor tells of the tables and of the previous paragraph.      *)
At(cell, place) ==
  place = [r1 |-> cell.r1, r2 |-> cell.r2, c1 |-> cell.c1, c2 |-> cell.c2]
CellRead(b) ==
  \/ b.table <= cursor.table
  \/ /\ b.table = cursor.table + 1
     /\ \E m \in 1 .. cursor.cell : At(Here.cells[m], b.cell)
Scanned ==
  /\ cursor.table \in Nat
  /\ cursor.previous \in 0 .. Len(blocks)
  /\ cursor.previous # 0 => blocks[cursor.previous].kind # "cell"
  /\ cursor.cell # 0 => at <= Len(doc.body) /\ Here.el = "t"
  /\ \A k \in DOMAIN blocks : blocks[k].kind = "cell" => CellRead(blocks[k])

(* The fields of a block before it gets a group, a table or a note.        *)
LEMMA FieldsOfBlock ==
  ASSUME NEW kind, NEW text, NEW path, NEW order, NEW para
  PROVE  LET b == Block(kind, text, path, order, para)
         IN  /\ IsBlock(b) /\ b.kind = kind /\ b.group = 0 /\ b.refs = <<>>
             /\ b.table = 0 /\ b.cell = NoCell /\ b.note = NoNote
<1> DEFINE b == Block(kind, text, path, order, para)
<1>1. /\ b.kind = kind /\ b.group = 0 /\ b.refs = <<>>
      /\ b.table = 0 /\ b.cell = NoCell /\ b.note = NoNote
  BY DEF Block
<1>2. IsBlock(b)
  BY BlockIs DEF IsCitingBlock
<1> QED
  BY <1>1, <1>2

(* A block that is none of a table.                                        *)
LEMMA PlainBlockKeeps ==
  ASSUME Scanned, cursor.cell = 0, NEW read, Tabled(read.blocks),
         IsSeq(blocks), DOMAIN read.blocks = DOMAIN blocks, Len(read.blocks) = Len(blocks),
         \A k \in DOMAIN blocks : Alike(blocks[k], read.blocks[k]),
         NEW block, IsBlock(block), Proper(block), block.kind # "cell",
         Keep(Add(read, block)),
         cursor'.table = cursor.table, cursor'.cell = cursor.cell,
         cursor'.previous \in {cursor.previous, Len(blocks) + 1}
  PROVE  Tabled(blocks') /\ Scanned'
<1> DEFINE n == Len(read.blocks)
           bs0 == read.blocks
           bs == Add(read, block).blocks
<1>0. IsSeq(bs0)
  BY DEF Tabled
<1>1. /\ IsSeq(bs) /\ DOMAIN bs = 1 .. n + 1 /\ n \in Nat /\ DOMAIN bs0 = 1 .. n
      /\ \A k \in 1 .. n : bs[k] = bs0[k]
      /\ Alike(block, bs[n + 1])
  BY <1>0, AddedIs
<1>2. blocks' = bs
  BY DEF Keep
<1>3. Tabled(bs)
  BY AddTabled
<1> HIDE DEF bs
<1>4. Len(blocks') = n + 1
  <2>1. Len(bs) \in Nat /\ DOMAIN bs = 1 .. Len(bs)
    BY <1>1, SeqDomain
  <2> QED
    BY <1>1, <1>2, <2>1
<1>5. bs[n + 1].kind # "cell"
  BY <1>1 DEF Alike
<1>6. ASSUME NEW k \in 1 .. n PROVE Alike(blocks[k], bs[k])
  BY <1>1, <1>6
<1>7. cursor'.previous \in 0 .. Len(blocks')
  BY <1>1, <1>4 DEF Scanned
<1>8. ASSUME cursor'.previous # 0 PROVE blocks'[cursor'.previous].kind # "cell"
  <2>1. CASE cursor'.previous = Len(blocks) + 1
    BY <1>2, <1>5, <2>1
  <2>2. CASE cursor'.previous = cursor.previous
    <3>1. cursor.previous \in 1 .. n /\ blocks[cursor.previous].kind # "cell"
      BY <1>1, <1>8, <2>2 DEF Scanned
    <3> QED
      BY <1>2, <1>6, <2>2, <3>1 DEF Alike
  <2> QED
    BY <2>1, <2>2
<1>9. ASSUME NEW k \in DOMAIN blocks', blocks'[k].kind = "cell" PROVE blocks'[k].table <= cursor'.table
  <2>1. k \in 1 .. n
    BY <1>1, <1>2, <1>5, <1>9
  <2>2. blocks[k].kind = "cell" /\ blocks[k].table = blocks'[k].table
    BY <1>2, <1>6, <1>9, <2>1 DEF Alike
  <2>3. CellRead(blocks[k])
    BY <1>1, <2>1, <2>2 DEF Scanned
  <2> QED
    BY <2>2, <2>3 DEF CellRead
<1> QED
  BY <1>2, <1>3, <1>7, <1>8, <1>9 DEF Scanned, CellRead

(* No table is being read at a paragraph.                                  *)
LEMMA ParagraphsAlone ==
  ASSUME Scanned, Reading("p") PROVE cursor.cell = 0
BY DEF Scanned, Reading

(* What is read so far.                                                    *)
LEMMA ReadIsAlike ==
  ASSUME Tabled(blocks)
  PROVE  /\ Read.blocks = blocks /\ IsSeq(blocks)
         /\ \A k \in DOMAIN blocks : Alike(blocks[k], blocks[k])
BY DEF Read, Tabled, Alike

(* A lead joins a group: nothing else about the blocks changes.            *)
LEMMA LeadIsAlike ==
  ASSUME Tabled(blocks), Scanned
  PROVE  /\ Tabled(WithLead) /\ DOMAIN WithLead = DOMAIN blocks /\ Len(WithLead) = Len(blocks)
         /\ \A k \in DOMAIN blocks : Alike(blocks[k], WithLead[k])
<1>0. IsSeq(blocks) /\ DOMAIN blocks = 1 .. Len(blocks) /\ Len(blocks) \in Nat
      /\ \A k \in DOMAIN blocks : IsBlock(blocks[k])
  BY SeqDomain DEF Tabled
<1>1. CASE WithLead = blocks
  BY <1>0, <1>1 DEF Alike
<1>2. CASE WithLead # blocks
  <2> DEFINE p == cursor.previous
             lead == [blocks[p] EXCEPT !.group = ItemGroup]
             cs == [blocks EXCEPT ![p] = lead]
  <2>1. WithLead = cs /\ p # 0
    BY <1>2 DEF WithLead, Leads
  <2>2. p \in DOMAIN blocks /\ blocks[p].kind # "cell"
    BY <1>0, <2>1 DEF Scanned
  <2>3. IsBlock(lead) /\ Alike(blocks[p], lead)
    <3> DEFINE b == blocks[p]
    <3>1. IsBlock(b) /\ b.kind # "cell"
      BY <1>0, <2>2
    <3>2. lead = [b EXCEPT !.group = ItemGroup]
      OBVIOUS
    <3> HIDE DEF lead, b
    <3>3. IsBlock(lead) /\ lead.kind = b.kind /\ lead.table = b.table /\ lead.cell = b.cell
          /\ lead.note = b.note /\ lead.refs = b.refs
      BY <3>1, <3>2 DEF IsBlock, BlockFields
    <3> QED
      BY <3>1, <3>3 DEF Alike, b
  <2> HIDE DEF lead
  <2>4. cs = [k \in 1 .. Len(blocks) |-> cs[k]] /\ DOMAIN cs = DOMAIN blocks
    BY <1>0
  <2>5. \A k \in DOMAIN blocks : IsBlock(cs[k]) /\ Alike(blocks[k], cs[k])
    <3>1. \A k \in DOMAIN blocks : cs[k] = IF k = p THEN lead ELSE blocks[k]
      BY <1>0
    <3> HIDE DEF cs
    <3> QED
      BY <1>0, <2>3, <3>1 DEF Alike
  <2> HIDE DEF cs
  <2>6. IsSeq(cs) /\ Len(cs) = Len(blocks)
    BY <1>0, <2>4, FunctionIsSeq
  <2> QED
    BY <2>1, <2>4, <2>5, <2>6, AlikeTabled
<1> QED
  BY <1>1, <1>2

(* The element that is being read.                                         *)
LEMMA ElementIs ==
  ASSUME Scan, NEW el, Reading(el)
  PROVE  Here \in Element /\ Here.el = el
<1>1. doc.body \in Seq(Element) /\ at \in 1 .. Len(doc.body)
  BY LenProperties DEF Scan, Document, Reading
<1> QED
  BY <1>1, ElementOfSeq DEF Here, Reading

(* The cell that is read next, and those before it.                        *)
LEMMA CellIs ==
  ASSUME Scan, Reading("t"), cursor.cell < Len(Here.cells)
  PROVE  LET c == Here.cells[cursor.cell + 1]
         IN  /\ c \in CellOfTable
             /\ \A m \in 1 .. cursor.cell : InRow(Here.cells[m], c)
<1>1. Here \in Element /\ Here.el = "t"
  BY ElementIs
<1> DEFINE cells == Here.cells
           n == cursor.cell
<1>2. cells \in Seq(CellOfTable) /\ RowByRow(cells)
  BY <1>1 DEF Element
<1>3. n \in Nat /\ n < Len(cells)
  BY DEF Scan, CursorOK
<1> HIDE DEF cells, n
<1>4. n + 1 \in 1 .. Len(cells) /\ Len(cells) \in Nat /\ DOMAIN cells = 1 .. Len(cells)
  BY <1>2, <1>3, LenProperties
<1>5. cells[n + 1] \in CellOfTable
  BY <1>2, <1>4, ElementOfSeq
<1>6. \A m \in 1 .. n : m \in DOMAIN cells /\ m < n + 1
  BY <1>3, <1>4
<1>7. \A m \in 1 .. n : InRow(cells[m], cells[n + 1])
  BY <1>2, <1>4, <1>6 DEF RowByRow
<1> QED
  BY <1>5, <1>7 DEF cells, n

(* What is no cell leaves the tables as they are.                          *)
LEMMA AloneKeeps ==
  ASSUME Scanned, cursor.cell = 0, blocks' = blocks,
         cursor'.table = cursor.table, cursor'.cell = 0, cursor'.previous = cursor.previous
  PROVE  Scanned'
<1>1. \A k \in DOMAIN blocks : blocks[k].kind = "cell" => blocks[k].table <= cursor.table
  BY DEF Scanned, CellRead
<1> QED
  BY <1>1 DEF Scanned, CellRead

(* A cell with text.                                                       *)
LEMMA CellBlockIs ==
  ASSUME NEW text, NEW path, NEW order, NEW para, NEW c \in CellOfTable, NEW table \in Nat
  PROVE  LET b == [Block("cell", text, path, order, para)
                     EXCEPT !.refs = c.refs, !.table = table,
                            !.cell = [r1 |-> c.r1, r2 |-> c.r2, c1 |-> c.c1, c2 |-> c.c2]]
         IN  IsBlock(b) /\ Proper(b) /\ b.kind = "cell" /\ b.table = table /\ At(c, b.cell)
<1> DEFINE a == Block("cell", text, path, order, para)
           place == [r1 |-> c.r1, r2 |-> c.r2, c1 |-> c.c1, c2 |-> c.c2]
           b == [a EXCEPT !.refs = c.refs, !.table = table, !.cell = place]
<1>1. IsBlock(a) /\ a.kind = "cell" /\ a.group = 0 /\ a.note = NoNote
  BY FieldsOfBlock
<1>2. /\ c.r1 \in Nat /\ c.r2 \in Nat /\ c.c1 \in Nat /\ c.c2 \in Nat /\ c.r1 <= c.r2
      /\ c.refs \in Seq(NoteId)
  BY DEF CellOfTable
<1>3. At(c, place)
  BY DEF At
<1>4. /\ place.r1 \in Nat /\ place.r2 \in Nat /\ place.c1 \in Nat /\ place.c2 \in Nat
      /\ place.r1 <= place.r2
  BY <1>2
<1> HIDE DEF a, place
<1>5. /\ IsBlock(b) /\ b.kind = "cell" /\ b.refs = c.refs /\ b.table = table /\ b.cell = place
      /\ b.group = 0 /\ b.note = NoNote
  BY <1>1 DEF IsBlock, BlockFields
<1> HIDE DEF b
<1>6. Proper(b)
  BY <1>2, <1>4, <1>5 DEF Proper
<1> QED
  BY <1>3, <1>5, <1>6 DEF b, a, place

(* A cell with text that is read.                                          *)
LEMMA CellKeeps ==
  ASSUME Tabled(blocks), Scanned, Scan, TableCell, Here.cells[cursor.cell + 1].text # <<>>
  PROVE  Tabled(blocks') /\ Scanned'
<1> DEFINE c == Here.cells[cursor.cell + 1]
           n == Len(blocks)
<1>1. c \in CellOfTable /\ \A m \in 1 .. cursor.cell : InRow(Here.cells[m], c)
  BY CellIs DEF TableCell
<1>2. cursor.cell \in Nat /\ cursor.table \in Nat
  BY SMTT(30) DEF Scan, CursorOK, Scanned
<1>3. PICK path, order, para :
        Keep(Add(Read, [Block("cell", c.text, path, order, para)
                          EXCEPT !.refs = c.refs, !.table = cursor.table + 1,
                                 !.cell = [r1 |-> c.r1, r2 |-> c.r2, c1 |-> c.c1, c2 |-> c.c2]]))
  BY DEF TableCell
<1> DEFINE b == [Block("cell", c.text, path, order, para)
                   EXCEPT !.refs = c.refs, !.table = cursor.table + 1,
                          !.cell = [r1 |-> c.r1, r2 |-> c.r2, c1 |-> c.c1, c2 |-> c.c2]]
<1>4. cursor.table + 1 \in Nat
  BY <1>2
<1> HIDE DEF c
<1>5. IsBlock(b) /\ Proper(b) /\ b.kind = "cell" /\ b.table = cursor.table + 1 /\ At(c, b.cell)
  BY <1>1, <1>4, CellBlockIs
<1>6. Keep(Add(Read, b))
  BY <1>3
<1> HIDE DEF b
<1>7. Read.blocks = blocks /\ IsSeq(blocks)
  BY ReadIsAlike
<1>8. ASSUME NEW k \in DOMAIN blocks, blocks[k].kind = "cell", blocks[k].table = b.table
      PROVE  InRow(blocks[k].cell, b.cell)
  <2>1. CellRead(blocks[k])
    BY <1>8 DEF Scanned
  <2>2. PICK m \in 1 .. cursor.cell : At(Here.cells[m], blocks[k].cell)
    BY <1>2, <1>5, <1>8, <2>1 DEF CellRead
  <2> QED
    BY <1>1, <1>5, <2>2 DEF At, InRow
<1>9. Tabled(blocks')
  <2>1. Tabled(Add(Read, b).blocks)
    BY <1>5, <1>7, <1>8, AddTabled
  <2> QED
    BY <1>6, <2>1 DEF Keep
<1>10. /\ DOMAIN blocks' = 1 .. n + 1 /\ n \in Nat /\ DOMAIN blocks = 1 .. n /\ IsSeq(blocks')
       /\ \A k \in 1 .. n : blocks'[k] = blocks[k]
       /\ Alike(b, blocks'[n + 1])
  <2> DEFINE bs == Add(Read, b).blocks
  <2>1. /\ IsSeq(bs) /\ DOMAIN bs = 1 .. n + 1 /\ n \in Nat /\ DOMAIN blocks = 1 .. n
        /\ \A k \in 1 .. n : bs[k] = blocks[k]
        /\ Alike(b, bs[n + 1])
    BY <1>5, <1>7, AddedIs
  <2>2. blocks' = bs
    BY <1>6 DEF Keep
  <2> HIDE DEF bs
  <2> QED
    BY <2>1, <2>2
<1>11. /\ cursor'.cell = cursor.cell + 1 /\ cursor'.table = cursor.table
       /\ cursor'.previous = cursor.previous /\ at' = at /\ doc' = doc
  BY DEF TableCell, Scan, CursorOK, CursorFields
<1>12. Len(blocks') = n + 1
  BY <1>10, SeqDomain
<1>13. Here' = Here /\ at <= Len(doc.body) /\ Here.el = "t"
  BY <1>11 DEF Here, TableCell, Reading
<1>14. ASSUME NEW k \in DOMAIN blocks', blocks'[k].kind = "cell"
       PROVE  CellRead(blocks[k])'
  <2>1. CASE k \in 1 .. n
    <3>1. CellRead(blocks[k]) /\ blocks'[k] = blocks[k]
      BY <1>10, <1>14, <2>1 DEF Scanned
    <3>2. \A m \in 1 .. cursor.cell : m \in 1 .. cursor.cell + 1
      BY <1>2
    <3> QED
      BY <1>11, <1>13, <3>1, <3>2 DEF CellRead
  <2>2. CASE k = n + 1
    <3>1. At(Here.cells[cursor.cell + 1], blocks'[k].cell) /\ blocks'[k].table = cursor.table + 1
      BY <1>5, <1>10, <2>2 DEF Alike, c
    <3>2. cursor.cell + 1 \in 1 .. cursor.cell + 1
      BY <1>2
    <3> QED
      BY <1>11, <1>13, <3>1, <3>2 DEF CellRead
  <2> QED
    BY <1>10, <2>1, <2>2
<1>15. /\ cursor'.previous \in 0 .. n + 1
       /\ cursor'.previous # 0 => blocks'[cursor'.previous].kind # "cell"
  BY <1>10, <1>11 DEF Scanned
<1> QED
  BY <1>2, <1>9, <1>11, <1>12, <1>13, <1>14, <1>15 DEF Scanned

(* What is known of the blocks while they are read and after.              *)
TablesInv == Tabled(blocks) /\ (stage = "body" => Scanned)

(* Every step of the parsing keeps the tables.                             *)
LEMMA ParseKeepsTables ==
  ASSUME Layout, Scan, TablesInv, ParseStep
  PROVE  TablesInv'
<1>0. Tabled(blocks)
  BY DEF TablesInv
<1>1. CASE EmptyParagraph
  <2>1. Scanned /\ cursor.cell = 0
    BY <1>1, ParagraphsAlone DEF EmptyParagraph, Reading, TablesInv
  <2>2. /\ blocks' = blocks /\ cursor'.table = cursor.table /\ cursor'.cell = 0
        /\ cursor'.previous = cursor.previous
    BY <1>1, <2>1 DEF EmptyParagraph, Scan, CursorOK, CursorFields
  <2> QED
    BY <1>0, <2>1, <2>2, AloneKeeps DEF TablesInv
<1>2. CASE Heading
  <2>1. Scanned /\ cursor.cell = 0 /\ Here \in Element /\ Here.el = "p"
    BY <1>2, ParagraphsAlone, ElementIs DEF Heading, Reading, TablesInv
  <2>2. Here.refs \in Seq(NoteId)
    BY <2>1 DEF Element
  <2>3. PICK path, order, para :
          Keep(Add(Read, [Block("heading", Here.text, path, order, para) EXCEPT !.refs = Here.refs]))
    BY <1>2 DEF Heading
  <2> DEFINE b == [Block("heading", Here.text, path, order, para) EXCEPT !.refs = Here.refs]
             read == Read
  <2>4. IsBlock(b) /\ Proper(b) /\ b.kind = "heading"
    <3> DEFINE a == Block("heading", Here.text, path, order, para)
    <3>1. IsBlock(a) /\ a.kind = "heading" /\ a.note = NoNote
      BY FieldsOfBlock
    <3>2. b = [a EXCEPT !.refs = Here.refs]
      OBVIOUS
    <3> HIDE DEF a, b
    <3>3. IsBlock(b) /\ b.kind = "heading" /\ b.note = NoNote /\ b.refs = Here.refs
      BY <3>1, <3>2 DEF IsBlock, BlockFields
    <3> QED
      BY <2>2, <3>3 DEF Proper
  <2>5. Keep(Add(read, b))
    BY <2>3
  <2> HIDE DEF b
  <2>6. /\ cursor'.table = cursor.table /\ cursor'.cell = cursor.cell
        /\ cursor'.previous \in {cursor.previous, Len(blocks) + 1}
    BY <1>2 DEF Heading, Scan, CursorOK, CursorFields
  <2>7. /\ Tabled(read.blocks) /\ IsSeq(blocks) /\ DOMAIN read.blocks = DOMAIN blocks
        /\ Len(read.blocks) = Len(blocks)
        /\ \A k \in DOMAIN blocks : Alike(blocks[k], read.blocks[k])
    BY <1>0, ReadIsAlike DEF read
  <2> HIDE DEF read
  <2>8. Tabled(blocks') /\ Scanned'
    BY <2>1, <2>4, <2>5, <2>6, <2>7, PlainBlockKeeps
  <2> QED
    BY <2>8 DEF TablesInv
<1>3. CASE ListItem
  <2>1. Scanned /\ cursor.cell = 0 /\ Here \in Element /\ Here.el = "p"
    BY <1>3, ParagraphsAlone, ElementIs DEF ListItem, Reading, TablesInv
  <2>2. Here.refs \in Seq(NoteId)
    BY <2>1 DEF Element
  <2>3. PICK path, order, para, group :
          Keep(Add([Read EXCEPT !.blocks = WithLead],
                   [Block("list", Here.text, path, order, para) EXCEPT !.refs = Here.refs, !.group = group]))
    BY <1>3 DEF ListItem
  <2> DEFINE b == [Block("list", Here.text, path, order, para) EXCEPT !.refs = Here.refs, !.group = group]
             read == [Read EXCEPT !.blocks = WithLead]
  <2>4. IsBlock(b) /\ Proper(b) /\ b.kind = "list"
    <3> DEFINE a == Block("list", Here.text, path, order, para)
    <3>1. IsBlock(a) /\ a.kind = "list" /\ a.note = NoNote
      BY FieldsOfBlock
    <3>2. b = [a EXCEPT !.refs = Here.refs, !.group = group]
      OBVIOUS
    <3> HIDE DEF a, b
    <3>3. IsBlock(b) /\ b.kind = "list" /\ b.note = NoNote /\ b.refs = Here.refs
      BY <3>1, <3>2 DEF IsBlock, BlockFields
    <3> QED
      BY <2>2, <3>3 DEF Proper
  <2>5. Keep(Add(read, b)) /\ read.blocks = WithLead
    BY <2>3 DEF Read
  <2> HIDE DEF b, read
  <2>6. /\ cursor'.table = cursor.table /\ cursor'.cell = cursor.cell
        /\ cursor'.previous \in {cursor.previous, Len(blocks) + 1}
    BY <1>3 DEF ListItem, Scan, CursorOK, CursorFields
  <2>7. /\ Tabled(read.blocks) /\ IsSeq(blocks) /\ DOMAIN read.blocks = DOMAIN blocks
        /\ Len(read.blocks) = Len(blocks)
        /\ \A k \in DOMAIN blocks : Alike(blocks[k], read.blocks[k])
    BY <1>0, <2>1, <2>5, ReadIsAlike, LeadIsAlike
  <2>8. Tabled(blocks') /\ Scanned'
    BY <2>1, <2>4, <2>5, <2>6, <2>7, PlainBlockKeeps
  <2> QED
    BY <2>8 DEF TablesInv
<1>4. CASE Paragraph
  <2>1. Scanned /\ cursor.cell = 0 /\ Here \in Element /\ Here.el = "p"
    BY <1>4, ParagraphsAlone, ElementIs DEF Paragraph, Reading, TablesInv
  <2>2. Here.refs \in Seq(NoteId)
    BY <2>1 DEF Element
  <2>3. PICK path, order, para :
          Keep(Add(Read, [Block("paragraph", Here.text, path, order, para) EXCEPT !.refs = Here.refs]))
    BY <1>4 DEF Paragraph
  <2> DEFINE b == [Block("paragraph", Here.text, path, order, para) EXCEPT !.refs = Here.refs]
             read == Read
  <2>4. IsBlock(b) /\ Proper(b) /\ b.kind = "paragraph"
    <3> DEFINE a == Block("paragraph", Here.text, path, order, para)
    <3>1. IsBlock(a) /\ a.kind = "paragraph" /\ a.note = NoNote
      BY FieldsOfBlock
    <3>2. b = [a EXCEPT !.refs = Here.refs]
      OBVIOUS
    <3> HIDE DEF a, b
    <3>3. IsBlock(b) /\ b.kind = "paragraph" /\ b.note = NoNote /\ b.refs = Here.refs
      BY <3>1, <3>2 DEF IsBlock, BlockFields
    <3> QED
      BY <2>2, <3>3 DEF Proper
  <2>5. Keep(Add(read, b))
    BY <2>3
  <2> HIDE DEF b
  <2>6. /\ cursor'.table = cursor.table /\ cursor'.cell = cursor.cell
        /\ cursor'.previous \in {cursor.previous, Len(blocks) + 1}
    BY <1>4 DEF Paragraph, Scan, CursorOK, CursorFields
  <2>7. /\ Tabled(read.blocks) /\ IsSeq(blocks) /\ DOMAIN read.blocks = DOMAIN blocks
        /\ Len(read.blocks) = Len(blocks)
        /\ \A k \in DOMAIN blocks : Alike(blocks[k], read.blocks[k])
    BY <1>0, ReadIsAlike DEF read
  <2> HIDE DEF read
  <2>8. Tabled(blocks') /\ Scanned'
    BY <2>1, <2>4, <2>5, <2>6, <2>7, PlainBlockKeeps
  <2> QED
    BY <2>8 DEF TablesInv
<1>5. CASE TableCell
  <2>1. Scanned
    BY <1>5 DEF TableCell, Reading, TablesInv
  <2>2. CASE Here.cells[cursor.cell + 1].text = <<>>
    <3>1. blocks' = blocks /\ doc' = doc /\ at' = at
      BY <1>5, <2>2 DEF TableCell
    <3>2. cursor'.cell = cursor.cell + 1 /\ cursor'.table = cursor.table
          /\ cursor'.previous = cursor.previous
      BY <1>5 DEF TableCell, Scan, CursorOK, CursorFields
    <3>3. Here' = Here /\ at <= Len(doc.body) /\ Here.el = "t"
      BY <1>5, <3>1 DEF Here, TableCell, Reading
    <3>4. \A m \in 1 .. cursor.cell : m \in 1 .. cursor.cell + 1
      BY DEF Scan, CursorOK
    <3>5. \A k \in DOMAIN blocks : CellRead(blocks[k]) => CellRead(blocks[k])'
      BY <3>1, <3>2, <3>3, <3>4 DEF CellRead
    <3>6. Scanned'
      BY <2>1, <3>1, <3>2, <3>3, <3>5 DEF Scanned
    <3> QED
      BY <1>0, <3>1, <3>6 DEF TablesInv
  <2>3. CASE Here.cells[cursor.cell + 1].text # <<>>
    BY <1>0, <1>5, <2>1, <2>3, CellKeeps DEF TablesInv
  <2> QED
    BY <2>2, <2>3
<1>6. CASE EndTable
  <2>1. Scanned
    BY <1>6 DEF EndTable, Reading, TablesInv
  <2>2. /\ blocks' = blocks /\ cursor'.table = cursor.table + 1 /\ cursor'.cell = 0
        /\ cursor'.previous = cursor.previous
    BY <1>6 DEF EndTable, Scan, CursorOK, CursorFields
  <2>3. \A k \in DOMAIN blocks : blocks[k].kind = "cell" => blocks[k].table <= cursor.table + 1
    <3>1. \A k \in DOMAIN blocks : blocks[k].kind = "cell" => blocks[k].table \in Nat
      BY <1>0 DEF Tabled, Proper
    <3> QED
      BY <2>1, <3>1 DEF Scanned, CellRead
  <2>4. Scanned'
    BY <2>1, <2>2, <2>3 DEF Scanned, CellRead
  <2> QED
    BY <1>0, <2>2, <2>4 DEF TablesInv
<1>7. CASE Other
  <2>1. Scanned /\ cursor.cell = 0
    BY <1>7 DEF Other, Reading, TablesInv, Scanned
  <2>2. /\ blocks' = blocks /\ cursor'.table = cursor.table /\ cursor'.cell = 0
        /\ cursor'.previous = cursor.previous
    BY <1>7, <2>1 DEF Other, Scan, CursorOK, CursorFields
  <2> QED
    BY <1>0, <2>1, <2>2, AloneKeeps DEF TablesInv
<1>8. CASE ReadNote
  <2>1. Scanned /\ cursor.cell = 0
    <3>1. Scanned /\ at - Len(doc.body) >= 1
      BY <1>8 DEF ReadNote, NoteAt, TablesInv
    <3>2. doc.body \in Seq(Element) /\ at \in Nat
      BY DEF Scan, Document
    <3>3. Len(doc.body) \in Nat
      BY <3>2
    <3>4. ~(at <= Len(doc.body))
      BY <3>1, <3>2, <3>3
    <3> QED
      BY <3>1, <3>4 DEF Scanned
  <2>2. PICK path, order, para, note :
          Keep(Add(Read, [Block("note", doc.notes[NoteAt].text, path, order, para) EXCEPT !.note = note]))
    BY <1>8 DEF ReadNote
  <2> DEFINE b == [Block("note", doc.notes[NoteAt].text, path, order, para) EXCEPT !.note = note]
             read == Read
  <2>3. IsBlock(b) /\ Proper(b) /\ b.kind = "note"
    <3> DEFINE a == Block("note", doc.notes[NoteAt].text, path, order, para)
    <3>1. IsBlock(a) /\ a.kind = "note" /\ a.refs = <<>>
      BY FieldsOfBlock
    <3>2. b = [a EXCEPT !.note = note]
      OBVIOUS
    <3> HIDE DEF a, b
    <3>3. IsBlock(b) /\ b.kind = "note" /\ b.refs = <<>>
      BY <3>1, <3>2 DEF IsBlock, BlockFields
    <3> QED
      BY <3>3 DEF Proper
  <2>4. Keep(Add(read, b))
    BY <2>2
  <2> HIDE DEF b
  <2>5. /\ cursor'.table = cursor.table /\ cursor'.cell = cursor.cell
        /\ cursor'.previous \in {cursor.previous, Len(blocks) + 1}
    BY <1>8 DEF ReadNote, Scan, CursorOK, CursorFields
  <2>6. /\ Tabled(read.blocks) /\ IsSeq(blocks) /\ DOMAIN read.blocks = DOMAIN blocks
        /\ Len(read.blocks) = Len(blocks)
        /\ \A k \in DOMAIN blocks : Alike(blocks[k], read.blocks[k])
    BY <1>0, ReadIsAlike DEF read
  <2> HIDE DEF read
  <2>7. Tabled(blocks') /\ Scanned'
    BY <2>1, <2>3, <2>4, <2>5, <2>6, PlainBlockKeeps
  <2> QED
    BY <2>7 DEF TablesInv
<1>9. CASE EndBody \/ BuildChunks \/ CheckDocument
  <2>1. blocks' = blocks /\ stage' # "body"
    BY <1>9 DEF EndBody, BuildChunks, CheckDocument, parseVars
  <2> QED
    BY <1>0, <2>1 DEF TablesInv
<1>10. CASE Relate
  <2>1. stage' = "chunk"
        /\ blocks' = [k \in DOMAIN blocks |-> [blocks[k] EXCEPT !.relations = RelationsOf(k)]]
    BY <1>10 DEF Relate
  <2>2. DOMAIN blocks = 1 .. Len(blocks) /\ Len(blocks) \in Nat
    BY <1>0, SeqDomain DEF Tabled
  <2>3. blocks' = [k \in 1 .. Len(blocks) |-> blocks'[k]] /\ DOMAIN blocks' = DOMAIN blocks
    BY <2>1, <2>2
  <2>4. IsSeq(blocks')
    BY <2>2, <2>3, FunctionIsSeq
  <2>5. ASSUME NEW k \in DOMAIN blocks
        PROVE  IsBlock(blocks'[k]) /\ Alike(blocks[k], blocks'[k])
    <3>1. PICK r : blocks'[k] = [blocks[k] EXCEPT !.relations = r]
      BY <2>1
    <3>2. IsBlock(blocks[k])
      BY <1>0 DEF Tabled
    <3>3. IsBlock(blocks'[k]) /\ \A x \in BlockFields \ {"relations"} : blocks'[k][x] = blocks[k][x]
      BY <3>1, <3>2 DEF IsBlock, BlockFields
    <3> QED
      BY <3>3 DEF Alike, BlockFields
  <2>6. Tabled(blocks')
    BY <1>0, <2>3, <2>4, <2>5, AlikeTabled
  <2> QED
    BY <2>1, <2>6 DEF TablesInv
<1> QED
  BY <1>1, <1>2, <1>3, <1>4, <1>5, <1>6, <1>7, <1>8, <1>9, <1>10 DEF ParseStep

(* Nothing is a cell or cited when the reading begins.                     *)
LEMMA TablesBegin == ReadingInit => TablesInv
<1> SUFFICES ASSUME ReadingInit PROVE TablesInv
  OBVIOUS
<1>1. blocks = <<>> /\ cursor = Beginning
  BY DEF ReadingInit, ParseInit
<1>2. DOMAIN <<>> = {} /\ IsSeq(<<>>) /\ Len(<<>>) = 0
  BY EmptyIs, SeqDomain
<1>3. Tabled(blocks)
  BY <1>1, <1>2 DEF Tabled, Rows
<1>4. cursor.table = 0 /\ cursor.previous = 0 /\ cursor.cell = 0
  BY <1>1 DEF Beginning
<1>5. Scanned
  BY <1>1, <1>2, <1>4 DEF Scanned
<1> QED
  BY <1>3, <1>5 DEF TablesInv

(* Every step does.                                                        *)
LEMMA TablesKeep ==
  ReadingInv /\ TablesInv /\ [ReadingNext]_readingVars => TablesInv'
<1> SUFFICES ASSUME ReadingInv, TablesInv, [ReadingNext]_readingVars PROVE TablesInv'
  OBVIOUS
<1>1. CASE Parse
  <2>1. stage \in ParseStages /\ ParseStep
    BY <1>1, ParseStage DEF Parse
  <2> QED
    BY <2>1, ParseKeepsTables DEF ReadingInv
<1>2. CASE Collect \/ EndCollect \/ Recognise \/ Undefer \/ EndRecognition \/ Arbitrate \/ CheckClaims
  <2>1. blocks' = blocks /\ stage' # "body"
    BY <1>2 DEF Collect, EndCollect, Recognise, Undefer, EndRecognition, Arbitrate, CheckClaims, parseVars
  <2> QED
    BY <2>1 DEF TablesInv
<1>3. CASE UNCHANGED readingVars
  <2>1. UNCHANGED <<blocks, stage, cursor, at, doc>>
    BY <1>3 DEF readingVars, parseVars
  <2>2. Scanned => Scanned'
    BY <2>1 DEF Scanned, CellRead, Here
  <2> QED
    BY <2>1, <2>2 DEF TablesInv
<1> QED
  BY <1>1, <1>2, <1>3 DEF ReadingNext

(* A block that is found is no cell, or it is a cell before the cell that  *)
(* it is found from.                                                       *)
Backs(b, k) == blocks[b].kind = "cell" => blocks[k].kind = "cell" /\ b < k

(* A relation that leads to a cell comes from a later cell.                *)
LEMMA RelatedBacks ==
  ASSUME Layout, Tabled(blocks), NEW k \in DOMAIN blocks, NEW r, Related(k, r)
  PROVE  Backs(r.target, k)
<1>0. r.target \in DOMAIN blocks
  BY RelatedInside
<1>00. DOMAIN blocks = 1 .. Len(blocks) /\ Len(blocks) \in Nat
  BY BlocksNumbered
<1>1. SUFFICES ASSUME blocks[r.target].kind = "cell"
               PROVE  blocks[k].kind = "cell" /\ r.target < k
  BY DEF Backs
<1> DEFINE t == r.target
<1>01. /\ blocks[t].group = 0 /\ blocks[t].note = NoNote
       /\ blocks[t].cell.r1 \in Nat /\ blocks[t].cell.r2 \in Nat
       /\ blocks[t].cell.c1 \in Nat /\ blocks[t].cell.c2 \in Nat
       /\ blocks[t].cell.r1 <= blocks[t].cell.r2
  BY <1>0, <1>1 DEF Tabled, Proper
<1>2. CASE t \in Lead(k)
  <2> DEFINE leads == {j \in 1 .. k - 1 : /\ blocks[j].group = blocks[k].group
                                          /\ blocks[j].kind # "list"}
  <2>1. leads # {} /\ t = Max(leads) /\ blocks[k].group # 0
    BY <1>2 DEF Lead
  <2>2. leads \in SUBSET (0 .. Len(blocks))
    BY <1>00
  <2>3. t \in leads
    BY <1>00, <2>1, <2>2, MaxIs
  <2> QED
    BY <1>01, <2>1, <2>3
<1>3. CASE Adjacent(blocks[t], blocks[k])
  BY <1>1, <1>3 DEF Adjacent
<1>4. CASE t \in LeftCell(k)
  <2>1. /\ blocks[k].kind = "cell" /\ t \in Cells(k)
        /\ blocks[t].cell.r1 <= blocks[k].cell.r1 /\ blocks[t].cell.c2 < blocks[k].cell.c1
    BY <1>4 DEF LeftCell, Nearest
  <2>2. /\ blocks[k].cell.r1 \in Nat /\ blocks[k].cell.c1 \in Nat
    BY <2>1 DEF Tabled, Proper
  <2>3. t # k /\ blocks[t].table = blocks[k].table
    BY <2>1 DEF Cells
  <2>4. ~(k < t)
    <3>1. SUFFICES ASSUME k < t PROVE FALSE
      OBVIOUS
    <3>2. InRow(blocks[k].cell, blocks[t].cell)
      BY <1>0, <1>1, <2>1, <2>3, <3>1 DEF Tabled, Rows
    <3> QED
      BY <1>01, <2>1, <2>2, <3>2 DEF InRow
  <2> QED
    BY <1>0, <1>00, <2>1, <2>3, <2>4
<1>5. CASE t \in AboveCell(k)
  <2>1. /\ blocks[k].kind = "cell" /\ t \in Cells(k)
        /\ blocks[t].cell.r2 < blocks[k].cell.r1
    BY <1>5 DEF AboveCell, Nearest
  <2>2. /\ blocks[k].cell.r1 \in Nat /\ blocks[k].cell.c1 \in Nat
    BY <2>1 DEF Tabled, Proper
  <2>3. t # k /\ blocks[t].table = blocks[k].table
    BY <2>1 DEF Cells
  <2>4. ~(k < t)
    <3>1. SUFFICES ASSUME k < t PROVE FALSE
      OBVIOUS
    <3>2. InRow(blocks[k].cell, blocks[t].cell)
      BY <1>0, <1>1, <2>1, <2>3, <3>1 DEF Tabled, Rows
    <3> QED
      BY <1>01, <2>1, <2>2, <3>2 DEF InRow
  <2> QED
    BY <1>0, <1>00, <2>1, <2>3, <2>4
<1>6. CASE t \in UNION {NoteBlock(n) : n \in ToSet(blocks[k].refs)}
  <2>1. PICK n \in ToSet(blocks[k].refs) : t \in NoteBlock(n)
    BY <1>6
  <2>2. n \in NoteId
    <3>1. blocks[k].refs \in Seq(NoteId)
      BY DEF Tabled, Proper
    <3> DEFINE refs == blocks[k].refs
    <3> HIDE DEF refs
    <3>2. DOMAIN refs = 1 .. Len(refs) /\ \A m \in 1 .. Len(refs) : refs[m] \in NoteId
      BY <3>1, SeqIs, SeqDomain DEF refs
    <3> QED
      BY <2>1, <3>2 DEF ToSet, refs
  <2> DEFINE S == {j \in DOMAIN blocks : blocks[j].note = n}
  <2>3. S # {} /\ t = Min(S)
    BY <2>1 DEF NoteBlock
  <2>4. S \subseteq Nat
    BY <1>00
  <2> HIDE DEF S
  <2>5. t \in S
    BY <2>3, <2>4, NatMinIs
  <2>6. blocks[t].note = n
    BY <2>5 DEF S
  <2>7. n # NoNote
    <3>1. n.type \in {"foot", "end"} /\ NoNote.type = "body"
      BY <2>2 DEF NoteId, NoNote
    <3> QED
      BY <3>1
  <2> QED
    BY <1>01, <2>6, <2>7
<1> QED
  BY <1>2, <1>3, <1>4, <1>5, <1>6 DEF Related

BackTo(k) ==
  {Nothing} \cup {Offer(b) : b \in {c \in DOMAIN blocks : records[c] # <<>> /\ Backs(c, k)}}

(* One step of the search comes to a cell only from a later one.           *)
LEMMA SearchBacks ==
  ASSUME Layout, Tabled(blocks), AllRelated, RelationTargets,
         NEW f, NEW left \in SUBSET DOMAIN blocks, NEW k \in DOMAIN blocks,
         \A t \in left : f[left \ {t}][t] \in BackTo(t)
  PROVE  Search(f, left, k) \in BackTo(k)
<1> DEFINE rs == blocks[k].relations
           deciding == {n \in DOMAIN rs : Decides(f, left, rs[n])}
           first == {n \in deciding : \A m \in deciding : ~Ahead(k, m, n)}
<1>1. Nothing \in BackTo(k)
  BY DEF BackTo
<1>2. CASE first = {}
  BY <1>1, <1>2 DEF Search
<1>3. CASE first # {}
  <2> DEFINE n == CHOOSE n \in first : TRUE
  <2>1. n \in DOMAIN rs
    BY <1>3
  <2>2. Search(f, left, k) = AnswerOf(f, left, rs[n])
    BY <1>3 DEF Search
  <2>3. rs[n].target \in DOMAIN blocks /\ Backs(rs[n].target, k)
    <3>1. rs[n] \in ToSet(rs)
      BY <2>1 DEF ToSet
    <3>2. Related(k, rs[n])
      BY <3>1 DEF AllRelated
    <3> QED
      BY <3>2, RelatedInside, RelatedBacks
  <2> HIDE DEF n, rs
  <2> DEFINE t == rs[n].target
  <2>4. BackTo(t) \subseteq BackTo(k)
    <3>1. \A b \in DOMAIN blocks : Backs(b, t) => Backs(b, k)
      <4>1. DOMAIN blocks \subseteq Int
        BY BlocksNumbered
      <4> QED
        BY <2>3, <4>1 DEF Backs
    <3> QED
      BY <3>1 DEF BackTo
  <2>5. Through(f, left, t) \in BackTo(k)
    BY <1>1, <2>4 DEF Through
  <2>6. records[t] # <<>> => Offer(t) \in BackTo(k)
    BY <2>3 DEF BackTo
  <2> QED
    BY <2>2, <2>5, <2>6 DEF AnswerOf
<1> QED
  BY <1>2, <1>3

(* So does the whole search.                                               *)
LEMMA FollowBacks ==
  ASSUME Layout, Tabled(blocks), AllRelated, RelationTargets,
         NEW left \in SUBSET DOMAIN blocks, NEW k \in DOMAIN blocks
  PROVE  Follow[left][k] \in BackTo(k)
<1> DEFINE T == {m \in Nat : \A v \in Smaller(m) : \A j \in DOMAIN blocks : Follow[v][j] \in BackTo(j)}
<1>0. IsFiniteSet(DOMAIN blocks)
  BY BlocksFinite
<1>1. 0 \in T
  <2>1. Smaller(0) = {}
    BY <1>0, FS_Subset, FS_CardinalityType DEF Smaller
  <2> QED
    BY <2>1
<1>2. ASSUME NEW m \in Nat, m \in T PROVE m + 1 \in T
  <2>1. ASSUME NEW v \in Smaller(m + 1), NEW j \in DOMAIN blocks PROVE Follow[v][j] \in BackTo(j)
    <3>1. v \in SUBSET DOMAIN blocks
      BY DEF Smaller
    <3>2. \A t \in v : Follow[v \ {t}][t] \in BackTo(t)
      BY <1>0, <1>2, <3>1, OneLess
    <3>3. Search(Follow, v, j) \in BackTo(j)
      BY <3>1, <3>2, SearchBacks
    <3>4. Follow[v][j] = Search(Follow, v, j)
      BY <1>0, <3>1, FollowEquation
    <3> QED
      BY <3>3, <3>4
  <2> QED
    BY <2>1
<1> HIDE DEF T
<1>3. Cardinality(DOMAIN blocks) + 1 \in T
  BY <1>0, <1>1, <1>2, Rises, FS_CardinalityType
<1>4. left \in Smaller(Cardinality(DOMAIN blocks) + 1)
  BY <1>0, FS_Subset, FS_CardinalityType DEF Smaller
<1> QED
  BY <1>3, <1>4 DEF T

(* A statute that is taken from a cell comes from before.                  *)
LEMMA ResolveBacks ==
  ASSUME Pages, Tabled(blocks), AllRelated, Ready, NEW i \in DOMAIN anchors,
         Resolve(i) # Nothing, FromCell(Resolve(i))
  PROVE  Resolve(i).anchor \in DOMAIN anchors /\ Resolve(i).anchor < i
<1> DEFINE k == Anchor(i).block
           latest == records[k][Len(records[k])]
           own == [anchor |-> latest.anchor, block |-> k, source |-> <<latest.sources[1]>>]
<1>0. k \in DOMAIN blocks /\ Layout /\ RelationTargets
  BY DEF Ready, Layout, Parsed, Anchor
<1>00. DOMAIN anchors \subseteq Int /\ DOMAIN blocks \subseteq Int
  BY <1>0, BlocksNumbered
<1>1. CASE Resolve(i) = Along(k)
  <2>1. Along(k) \in BackTo(k)
    BY <1>0, FollowBacks DEF Along
  <2>2. PICK b \in DOMAIN blocks : records[b] # <<>> /\ Backs(b, k) /\ Resolve(i) = Offer(b)
    BY <1>1, <2>1 DEF BackTo
  <2>3. Resolve(i).block = b /\ Resolve(i).anchor = records[b][1].anchor
    BY <2>2 DEF Offer, FirstOf
  <2>4. RecordOK(records[b][1], b)
    BY <2>2, FirstRecord
  <2> DEFINE a == records[b][1].anchor
  <2>5. a \in DOMAIN anchors /\ Anchor(a).block = b
    BY <2>4 DEF RecordOK
  <2>6. b < k
    BY <2>2, <2>3 DEF Backs, FromCell
  <2>7. ~(i <= a)
    <3>1. \A m, n \in DOMAIN anchors : m < n => anchors[m].block <= anchors[n].block
      BY DEF Pages, Paged
    <3> HIDE DEF a
    <3> QED
      BY <1>0, <1>00, <2>5, <2>6, <3>1 DEF Anchor
  <2> QED
    BY <1>00, <2>3, <2>5, <2>7
<1>2. CASE Resolve(i) = own /\ records[k] # <<>> /\ latest.anchor = i - 1
  <2>1. RecordOK(latest, k)
    BY <1>0, <1>2, FirstRecord
  <2>2. Resolve(i).anchor = latest.anchor
    BY <1>2, SMTT(30)
  <2> QED
    BY <1>00, <1>2, <2>1, <2>2 DEF RecordOK
<1>3. \/ Resolve(i) = Along(k)
      \/ Resolve(i) = own /\ records[k] # <<>> /\ latest.anchor = i - 1
  BY DEF Resolve
<1> QED
  BY <1>1, <1>2, <1>3

-----------------------------------------------------------------------------
(* The text of a claim.  That of an anchor is never empty.                 *)
LEMMA TextIs ==
  ASSUME Pages, NEW i \in DOMAIN anchors
  PROVE  IsSeq(Text(i)) /\ Text(i) # <<>> /\ Len(Text(i)) \in Nat
<1> DEFINE k == anchors[i].block
           parts == Split(blocks[k].text)
<1>1. k \in DOMAIN blocks /\ i \in ToSet(blocks[k].sentences)
  BY DEF Pages, Paged, Parsed
<1>2. PICK b : Owned(blocks, anchors, k, b)
  BY <1>1 DEF Pages, Paged
<1>3. PICK m \in 1 .. Len(parts) : i = b + m
  BY <1>1, <1>2 DEF Owned, ToSet
<1>4. Text(i) = parts[m].text /\ blocks[k].text \in Texts
  BY <1>2, <1>3 DEF Owned, Text
<1>5. blocks[k].text # <<>>
  <2>1. SUFFICES ASSUME blocks[k].text = <<>> PROVE FALSE
    OBVIOUS
  <2>2. parts = <<>>
    BY <2>1 DEF Split
  <2> HIDE DEF parts
  <2> QED
    BY <1>3, <2>2, EmptyIs
<1>6. IsSeq(parts[m].text) /\ parts[m].text # <<>>
  BY <1>3, <1>4, <1>5, SplitParts
<1> HIDE DEF parts
<1> QED
  BY <1>4, <1>6, SeqDomain

Rising(ids) ==
  /\ IsSeq(ids) /\ Len(ids) # 0 /\ \A n \in 1 .. Len(ids) : ids[n] \in DOMAIN anchors
  /\ \A m, n \in 1 .. Len(ids) : m < n => ids[m] < ids[n]

(* The text of a claim begins with that of its first anchor.               *)
LEMMA TextOfIs ==
  ASSUME Pages, NEW ids, Rising(ids)
  PROVE  \E rest : /\ IsSeq(rest) /\ TextOf(ids) = Text(ids[1]) \o rest
                   /\ Len(ids) = 1 => rest = <<>>
                   /\ Len(ids) = 2 => rest = Text(ids[2])
<1> DEFINE L == Len(ids)
           ss == [k \in DOMAIN ids |-> Text(ids[k])]
<1>0. L \in Nat /\ DOMAIN ids = 1 .. L
  BY SeqDomain DEF Rising
<1>00. DOMAIN anchors = 1 .. Len(anchors) /\ Len(anchors) \in Nat
  BY SeqDomain DEF Pages, Paged, Parsed
<1>1. \A n \in 1 .. L : ids[n] \in Int
  BY <1>00 DEF Rising
<1>2. InOrder(ToSet(ids)) = ids
  BY <1>1, InOrderOf DEF Rising
<1>3. TextOf(ids) = FlattenSeq(ss)
  BY <1>2 DEF TextOf
<1>4. ss = [k \in 1 .. L |-> ss[k]] /\ \A k \in 1 .. L : ss[k] = Text(ids[k])
  BY <1>0
<1> HIDE DEF ss
<1>5. IsSeq(ss) /\ Len(ss) = L
  BY <1>0, <1>4, FunctionIsSeq
<1>6. \A k \in 1 .. L : IsSeq(ss[k])
  BY <1>4, TextIs DEF Rising
<1>7. L # 0
  BY DEF Rising
<1>8. PICK rest : /\ IsSeq(rest) /\ FlattenSeq(ss) = ss[1] \o rest
                  /\ Len(ss) = 1 => rest = <<>>
                  /\ Len(ss) = 2 => rest = ss[2]
  BY <1>5, <1>6, <1>7, FlattenFirst
<1>9. 1 \in 1 .. L /\ (L = 2 => 2 \in 1 .. L)
  BY <1>0, <1>7
<1>10. ss[1] = Text(ids[1]) /\ (L = 2 => ss[2] = Text(ids[2]))
  BY <1>4, <1>9
<1> HIDE DEF L
<1> QED
  BY <1>3, <1>5, <1>8, <1>10 DEF L

(* The anchors of a claim of one.                                          *)
LEMMA OneRises ==
  ASSUME NEW i \in DOMAIN anchors PROVE Rising(<<i>>) /\ <<i>>[1] = i /\ Len(<<i>>) = 1
<1> DEFINE s == <<i>>
<1>1. IsSeq(s) /\ Len(s) = 1 /\ s[1] = i
  BY SingleIs
<1> HIDE DEF s
<1>2. Rising(s)
  BY <1>1 DEF Rising
<1> QED
  BY <1>1, <1>2 DEF s

(* The anchors of a claim of two.                                          *)
LEMMA TwoRise ==
  ASSUME NEW i \in DOMAIN anchors, NEW j \in DOMAIN anchors, j < i
  PROVE  Rising(<<j, i>>) /\ <<j, i>>[1] = j /\ <<j, i>>[2] = i /\ Len(<<j, i>>) = 2
<1> DEFINE s == <<j, i>>
<1>1. s = [n \in 1 .. 2 |-> s[n]] /\ s[1] = j /\ s[2] = i
  OBVIOUS
<1> HIDE DEF s
<1>2. IsSeq(s) /\ Len(s) = 2
  BY <1>1, FunctionIsSeq
<1>3. Rising(s)
  BY <1>1, <1>2 DEF Rising
<1> QED
  BY <1>1, <1>2, <1>3 DEF s

(* The text of a claim of one anchor.                                      *)
LEMMA TextOfOne ==
  ASSUME Pages, NEW i \in DOMAIN anchors
  PROVE  TextOf(<<i>>) = Text(i)
<1> DEFINE s == <<i>>
<1>1. Rising(s) /\ s[1] = i /\ Len(s) = 1
  BY OneRises
<1> HIDE DEF s
<1>2. TextOf(s) = Text(i) \o <<>>
  BY <1>1, TextOfIs
<1>3. Text(i) \o <<>> = Text(i)
  BY TextIs, ConcatEmptySeq DEF IsSeq
<1> QED
  BY <1>2, <1>3 DEF s

(* The text of a claim of two.                                             *)
LEMMA TextOfTwo ==
  ASSUME Pages, NEW i \in DOMAIN anchors, NEW j \in DOMAIN anchors, j < i
  PROVE  TextOf(<<j, i>>) = Text(j) \o Text(i)
<1> DEFINE s == <<j, i>>
<1>1. Rising(s) /\ s[1] = j /\ s[2] = i /\ Len(s) = 2
  BY TwoRise
<1> HIDE DEF s
<1> QED
  BY <1>1, TextOfIs DEF s

(* The text of a claim on what an anchor names has the text of the anchor. *)
LEMMA LegalText ==
  ASSUME Pages, NEW i \in DOMAIN anchors
  PROVE  LET c == LegalCandidate(i)
             t == TextOf(c.anchors)
         IN  /\ t # <<>>
             /\ \/ c.sources = Sources(i) /\ Inside(t, Text(i), 0)
                \/ \E d \in Nat : c.sources = Shifted(Sources(i), d) /\ Inside(t, Text(i), d)
<1> DEFINE c == LegalCandidate(i)
           t == TextOf(c.anchors)
<1>0. IsSeq(anchors) /\ DOMAIN anchors = 1 .. Len(anchors) /\ Len(anchors) \in Nat
  BY SeqDomain DEF Pages, Paged, Parsed
<1>1. CASE QuotedBefore(i)
  <2>1. c.anchors = <<i - 1, i>> /\ c.sources = Shifted(Sources(i), Len(Text(i - 1)))
    BY <1>1 DEF LegalCandidate, Candidate
  <2>2. i - 1 \in DOMAIN anchors /\ i - 1 < i
    BY <1>0, <1>1 DEF QuotedBefore
  <2>3. t = Text(i - 1) \o Text(i)
    BY <2>1, <2>2, TextOfTwo
  <2>4. IsSeq(Text(i)) /\ IsSeq(Text(i - 1)) /\ Text(i - 1) # <<>> /\ Len(Text(i - 1)) \in Nat
    BY <2>2, TextIs
  <2> HIDE DEF c, t
  <2>5. t # <<>> /\ Inside(t, Text(i), Len(Text(i - 1)))
    BY <2>3, <2>4, FirstInside
  <2> QED
    BY <2>1, <2>4, <2>5 DEF c, t
<1>2. CASE ~QuotedBefore(i)
  <2> DEFINE ids == Together(i, Explaining)
  <2>1. c.anchors = ids /\ c.sources = Sources(i)
    BY <1>2 DEF LegalCandidate, Candidate
  <2>2. PICK latest \in i .. Len(anchors) :
          /\ IsSeq(ids) /\ Len(ids) = latest - i + 1
          /\ \A n \in 1 .. Len(ids) : ids[n] = i + n - 1
    BY <1>0, TogetherIs
  <2> HIDE DEF ids
  <2>3. i \in 1 .. Len(anchors) /\ latest \in Int /\ latest >= i /\ latest <= Len(anchors)
    BY <1>0
  <2>4. Rising(ids) /\ ids[1] = i
    <3>1. Len(ids) # 0 /\ 1 \in 1 .. Len(ids) /\ Len(ids) \in Nat
      BY <2>2, <2>3
    <3>2. \A n \in 1 .. Len(ids) : ids[n] \in DOMAIN anchors
      BY <1>0, <2>2, <2>3
    <3>3. \A m, n \in 1 .. Len(ids) : m < n => ids[m] < ids[n]
      BY <2>2, <2>3
    <3>4. ids[1] = i
      BY <2>2, <2>3, <3>1
    <3> QED
      BY <2>2, <3>1, <3>2, <3>3, <3>4 DEF Rising
  <2>5. PICK rest : IsSeq(rest) /\ TextOf(ids) = Text(i) \o rest
    BY <2>4, TextOfIs
  <2>6. IsSeq(Text(i)) /\ Text(i) # <<>>
    BY TextIs
  <2>7. TextOf(ids) # <<>> /\ Inside(TextOf(ids), Text(i), 0)
    BY <2>5, <2>6, FirstInside
  <2> HIDE DEF c
  <2> QED
    BY <2>1, <2>7 DEF c
<1> QED
  BY <1>1, <1>2

(* A claim on what an anchor names cites what it recognised.               *)
LEMMA OwnClaim ==
  ASSUME Pages, NEW i \in DOMAIN anchors, Sources(i) = LegalSources(Text(i)),
         NEW c, c = LegalCandidate(i), NEW t, t = TextOf(c.anchors),
         Clear(t), ~BareFirst(t), PlainText(t)
  PROVE  t # <<>> /\ CitationsIntact(c.sources, Occurrences(t, c.sources))
<1>0. IsSeq(Text(i))
  BY TextIs
<1>1. /\ t # <<>>
      /\ \/ c.sources = Sources(i) /\ Inside(t, Text(i), 0)
         \/ \E d \in Nat : c.sources = Shifted(Sources(i), d) /\ Inside(t, Text(i), d)
  BY LegalText
<1>2. CASE c.sources = Sources(i) /\ Inside(t, Text(i), 0)
  <2>1. Plain(t, Text(i), 0)
    BY <1>2 DEF Plain
  <2>2. Standing(Text(i), 0, c.sources)
    BY <1>0, <1>2, <2>1, LegalSourcesAre, StandingFirst
  <2> QED
    BY <1>1, <2>1, <2>2, OwnIntact
<1>3. CASE \E d \in Nat : c.sources = Shifted(Sources(i), d) /\ Inside(t, Text(i), d)
  <2>0. PICK d \in Nat : c.sources = Shifted(Sources(i), d) /\ Inside(t, Text(i), d)
    BY <1>3
  <2>1. Plain(t, Text(i), d)
    BY <2>0 DEF Plain
  <2>2. Standing(Text(i), d, c.sources)
    BY <1>0, <2>0, <2>1, LegalSourcesAre, StandingShifted
  <2> QED
    BY <1>1, <2>1, <2>2, OwnIntact
<1> QED
  BY <1>1, <1>2, <1>3

-----------------------------------------------------------------------------
(* What every anchor is known to name is what its text does, and whatever  *)
(* a block is recorded with cites articles.                                *)
NamedIs == \A i \in DOMAIN named : named[i] = <<>> \/ named[i] = LegalSources(Text(i))
RecordsCite ==
  \A k \in DOMAIN blocks : \A r \in ToSet(records[k]) : AreArticles(r.sources[1].articles)

(* What is recorded cites articles.                                        *)
LEMMA CollectCites ==
  ASSUME Pages, Collecting, NamedIs, RecordsCite, Collect
  PROVE  NamedIs' /\ RecordsCite'
<1>1. PICK sources : /\ sources = <<>> \/ sources = LegalSources(Text(at))
                     /\ named' = Append(named, sources)
                     /\ records' = IF sources = <<>> THEN records ELSE Record(Anchor(at).block, at, sources)
  BY DEF Collect
<1>2. blocks' = blocks /\ anchors' = anchors /\ at <= Len(anchors)
  BY DEF Collect, parseVars
<1>3. IsSeq(named) /\ IsSeq(anchors)
  BY DEF Collecting, NamedOK, Layout, Parsed
<1>4. /\ Len(named) \in Nat /\ Len(named) + 1 = at /\ at \in DOMAIN anchors
      /\ DOMAIN named = 1 .. Len(named) /\ DOMAIN named' = 1 .. Len(named) + 1
      /\ \A k \in 1 .. Len(named) : named'[k] = named[k]
      /\ named'[Len(named) + 1] = sources
  <2>1. /\ IsSeq(named') /\ Len(named') = Len(named) + 1
        /\ \A k \in 1 .. Len(named) : named'[k] = named[k]
        /\ named'[Len(named) + 1] = sources
    BY <1>1, <1>3, AppendIs
  <2>2. /\ DOMAIN named = 1 .. Len(named) /\ Len(named) \in Nat
        /\ DOMAIN anchors = 1 .. Len(anchors) /\ Len(anchors) \in Nat
    BY <1>3, SeqDomain
  <2>3. DOMAIN named' = 1 .. Len(named')
    BY <2>1, SeqDomain
  <2> QED
    BY <1>2, <2>1, <2>2, <2>3 DEF Collecting
<1>5. NamedIs'
  <2>1. ASSUME NEW i \in DOMAIN named' PROVE named'[i] = <<>> \/ named'[i] = LegalSources(Text(i))
    <3>1. CASE i \in DOMAIN named
      BY <3>1, <1>4 DEF NamedIs
    <3>2. CASE i \notin DOMAIN named
      <4>1. i = Len(named) + 1
        BY <3>2, <1>4
      <4> QED
        BY <4>1, <1>1, <1>4
    <3> QED
      BY <3>1, <3>2
  <2> QED
    BY <2>1, <1>2 DEF NamedIs, Text
<1>6. sources # <<>> => AreArticles(sources[1].articles)
  <2>1. SUFFICES ASSUME sources # <<>> PROVE AreArticles(sources[1].articles)
    OBVIOUS
  <2>2. IsSeq(Text(at))
    BY <1>4, TextIs
  <2>3. sources = LegalSources(Text(at)) /\ IsSeq(sources)
    BY <1>1, <2>1, LegalSourcesIs
  <2>4. 1 \in DOMAIN sources
    BY <2>1, <2>3, NonEmptyIs
  <2> QED
    BY <2>2, <2>3, <2>4, LegalSourcesCite
<1>7. RecordsCite'
  <2>1. CASE sources = <<>>
    BY <2>1, <1>1, <1>2 DEF RecordsCite
  <2>2. CASE sources # <<>>
    <3> DEFINE b == Anchor(at).block
    <3>1. b \in DOMAIN blocks
      BY <1>4 DEF Collecting, Layout, Parsed, Anchor
    <3>2. \A k \in DOMAIN blocks' :
              ToSet(records'[k]) = ToSet(records[k]) \cup
                    (IF k = b THEN {[anchor |-> at, sources |-> sources]} ELSE {})
      <4>1. records' = Record(b, at, sources)
        BY <2>2, <1>1
      <4> HIDE DEF b
      <4> QED
        BY <4>1, <1>2, <3>1, RecordAppends DEF Collecting
    <3> QED
      BY <1>2, <1>6, <2>2, <3>2 DEF RecordsCite
  <2> QED
    BY <2>1, <2>2
<1> QED
  BY <1>5, <1>7

(* The statute that an article takes over.                                 *)
LEMMA ResolveCites ==
  ASSUME Ready, RecordsCite, NEW i \in DOMAIN anchors, Resolve(i) # Nothing
  PROVE  AreArticles(Resolve(i).source[1].articles)
<1> DEFINE k == Anchor(i).block
           latest == records[k][Len(records[k])]
           own == [anchor |-> latest.anchor, block |-> k, source |-> <<latest.sources[1]>>]
<1>1. k \in DOMAIN blocks
  BY DEF Ready, Layout, Parsed, Anchor
<1>2. CASE Resolve(i) = Along(k)
  <2>1. Along(k) \in Answers
    BY <1>1, AlongFinds, BlocksFinite DEF Ready
  <2>2. PICK b \in DOMAIN blocks : records[b] # <<>> /\ Resolve(i) = Offer(b)
    BY <1>2, <2>1 DEF Answers, Offers
  <2>3. Resolve(i).source[1] = records[b][1].sources[1]
    BY <2>2 DEF Offer, FirstOf
  <2>4. records[b][1] \in ToSet(records[b])
    BY <2>2, FirstRecord
  <2> QED
    BY <2>3, <2>4 DEF RecordsCite
<1>3. CASE Resolve(i) = own /\ records[k] # <<>>
  <2>1. latest \in ToSet(records[k])
    BY <1>1, <1>3, FirstRecord
  <2>2. Resolve(i).source[1] = latest.sources[1]
    BY <1>3
  <2> HIDE DEF latest, own
  <2> QED
    BY <1>1, <2>1, <2>2 DEF RecordsCite
<1>4. \/ Resolve(i) = Along(k)
      \/ Resolve(i) = own /\ records[k] # <<>>
  BY DEF Resolve
<1> QED
  BY <1>2, <1>3, <1>4

(* A source that is inherited takes its title and form from elsewhere, and *)
(* its articles from the text or the record.                               *)
LEMMA InheritedBorrows ==
  ASSUME Pages, NEW i \in DOMAIN anchors, NEW from,
         from # Nothing => AreArticles(from.source[1].articles),
         NEW lent, lent = Inherited(i, from), lent # <<>>
  PROVE  /\ lent = <<lent[1]>> /\ lent[1].form = "inherited" /\ Borrowed(lent[1], Text(i))
         /\ AreArticles(lent[1].articles)
<1> DEFINE u == Text(i)
           refs == ArticlesIn(u)
           source == from.source[1]
           complete == IF refs # <<>> \/ from = Nothing THEN refs ELSE Completed(u, source)
<1>0. from # Nothing /\ complete # <<>>
  BY DEF Inherited
<1>1. PICK s : lent = <<s>> /\ s.form = "inherited" /\ s.span = 0 /\ s.articles = complete
  BY <1>0 DEF Inherited
<1>2. lent[1] = s
  BY <1>1
<1>3. IsSeq(u)
  BY TextIs
<1> HIDE DEF source
<1>4. Takes(u, complete) /\ AreArticles(complete)
  <2>1. CASE complete = refs
    BY <1>3, <2>1, ArticlesInAre DEF Takes
  <2>2. CASE complete # refs
    <3>1. complete = Completed(u, source)
      BY <2>2
    <3>2. /\ PartialParagraphs(u) # <<>> /\ Len(source.articles) = 1
          /\ complete = <<WholeArticle(source.articles[1].art, PartialParagraphs(u))>>
      <4> DEFINE whole == <<WholeArticle(source.articles[1].art, PartialParagraphs(u))>>
      <4>1. Completed(u, source) = IF PartialParagraphs(u) = <<>> \/ Len(source.articles) # 1 THEN <<>> ELSE whole
        <5> HIDE DEF u
        <5> QED
          BY Zenon DEF Completed, WholeArticle
      <4> HIDE DEF u, complete, whole
      <4>2. /\ PartialParagraphs(u) # <<>> /\ Len(source.articles) = 1 /\ complete = whole
        BY <1>0, <3>1, <4>1
      <4> QED
        BY <4>2 DEF whole
    <3>3. source.articles[1].art \in Articles
      <4>1. AreArticles(source.articles)
        BY <1>0 DEF source
      <4>2. 1 \in DOMAIN source.articles
        <5>1. DOMAIN source.articles = 1 .. 1
          BY <3>2, <4>1, SeqDomain DEF AreArticles
        <5> QED
          BY <5>1
      <4>3. source.articles[1] \in ToSet(source.articles)
        BY <4>2 DEF ToSet
      <4> QED
        BY <4>1, <4>3 DEF AreArticles, IsArticle
    <3> HIDE DEF complete, u
    <3> QED
      BY <3>2, <3>3, OneArticle DEF Takes
  <2> QED
    BY <2>1, <2>2
<1> QED
  BY <1>1, <1>2, <1>4 DEF Borrowed

-----------------------------------------------------------------------------
(* What the candidates are made of.                                        *)
Borrows(c) ==
  LET s == c.sources[1]
  IN  /\ c.type = "law" /\ c.sources = <<s>>
      /\ s.form = "inherited" /\ s.origin \in DOMAIN anchors
      /\ \E i \in DOMAIN anchors :
           /\ Borrowed(s, Text(i))
           /\ c.anchors = <<i>> \/ \E b \in DOMAIN anchors : b < i /\ c.anchors = <<b, i>>
CandidateFits(c) == (CaseLaw(c) /\ Rising(c.anchors)) \/ OwnLaw(c) \/ Borrows(c)
CandidatesFit == \A c \in ToSet(candidates) : CandidateFits(c)

(* A candidate that fits goes on to.                                       *)
LEMMA SameFits ==
  ASSUME SameReading, consumed \subseteq consumed', NEW c, CandidateFits(c)
  PROVE  CandidateFits(c)'
<1>1. anchors' = anchors /\ \A i : Text(i)' = Text(i)
  BY DEF SameReading, Text
<1>2. CASE CaseLaw(c) /\ Rising(c.anchors)
  BY <1>1, <1>2 DEF CandidateFits, CaseLaw, Rising
<1>3. CASE OwnLaw(c)
  BY <1>3, SameLaw DEF CandidateFits
<1>4. CASE Borrows(c)
  BY <1>1, <1>4 DEF CandidateFits, Borrows, Borrowed
<1> QED
  BY <1>2, <1>3, <1>4 DEF CandidateFits

(* A case goes on in the anchors behind it.                                *)
LEMMA CaseRises ==
  ASSUME IsSeq(anchors), NEW i \in DOMAIN anchors
  PROVE  Rising(CaseCandidate(i).anchors)
<1> DEFINE all == Together(i, GoingOn)
           m == Min({Len(all), 6})
           near == SubSeq(all, 1, m)
           ids == CaseAnchors(i)
<1>1. Rising(<<i>>)
  BY OneRises
<1>2. PICK latest \in i .. Len(anchors) :
        /\ IsSeq(all) /\ Len(all) = latest - i + 1
        /\ \A n \in 1 .. Len(all) : all[n] = i + n - 1
  BY TogetherIs
<1>3. Len(anchors) \in Nat /\ DOMAIN anchors = 1 .. Len(anchors)
  BY SeqDomain
<1> DEFINE L == Len(all)
<1>4. L \in Nat /\ L >= 1 /\ i + L - 1 = latest /\ i \in Nat /\ 1 <= i /\ latest <= Len(anchors)
  BY <1>2, <1>3
<1> HIDE DEF all
<1>5. m \in 1 .. L
  <2>1. {L, 6} \subseteq Nat /\ {L, 6} # {}
    BY <1>4
  <2>2. Min({L, 6}) \in {L, 6} /\ \A x \in {L, 6} : Min({L, 6}) <= x
    <3> DEFINE S == {L, 6}
    <3> HIDE DEF S
    <3> QED
      BY <2>1, NatMinIs DEF S
  <2>3. m = Min({L, 6})
    OBVIOUS
  <2> HIDE DEF m, L
  <2> QED
    BY <1>4, <2>2, <2>3
<1> HIDE DEF m
<1>6. /\ IsSeq(near) /\ Len(near) = m
      /\ \A n \in 1 .. m : near[n] = all[n]
  <2>1. 1 \in 1 .. Len(all) + 1 /\ m \in 0 .. Len(all) /\ 1 <= m + 1 /\ m - 1 + 1 = m
    BY <1>4, <1>5
  <2>2. \A n \in 1 .. m : 1 + n - 1 = n
    BY <1>5
  <2> QED
    BY <1>2, <2>1, <2>2, SubSeqIs
<1> HIDE DEF near
<1>7. \A n \in 1 .. m : near[n] = i + n - 1
  BY <1>2, <1>5, <1>6
<1> HIDE DEF L
<1>8. Rising(near)
  <2>1. ASSUME NEW n \in 1 .. m PROVE near[n] \in DOMAIN anchors
    BY <1>3, <1>4, <1>5, <1>7
  <2>2. ASSUME NEW k \in 1 .. m, NEW n \in 1 .. m, k < n PROVE near[k] < near[n]
    BY <1>4, <1>5, <1>7, <2>2
  <2>3. Len(near) # 0
    BY <1>5, <1>6
  <2> QED
    BY <1>6, <2>1, <2>2, <2>3 DEF Rising
<1>9. ids = near \/ ids = <<i>>
  BY DEF CaseAnchors, near, m, all
<1>10. CaseCandidate(i).anchors = ids \/ CaseCandidate(i).anchors = <<i>>
  <2> HIDE DEF ids
  <2>1. CaseCandidate(i) = Candidate("holding", CaseAnchors(i), <<>>) \/ CaseCandidate(i) = Candidate("case", <<i>>, <<>>)
    BY DEF CaseCandidate
  <2> QED
    BY <2>1 DEF Candidate, ids
<1> QED
  BY <1>1, <1>8, <1>9, <1>10

(* The candidates made of an anchor fit.                                   *)
LEMMA RecogniseFits ==
  ASSUME Pages, Tabled(blocks), AllRelated, Recognising, RecordsCite, CandidatesFit, Recognise
  PROVE  RecordsCite' /\ CandidatesFit'
<1>1. PICK from, lent :
        /\ from = IF LooksBack(at) THEN Resolve(at) ELSE Nothing
        /\ lent = Inherited(at, from)
        /\ candidates' = candidates \o LawCandidates(at, from, lent) \o CaseCandidates(at)
        /\ IF lent = <<>> THEN UNCHANGED <<records, consumed>>
           ELSE /\ records' = Record(Anchor(at).block, at, lent)
                /\ consumed' = IF FromCell(from) THEN consumed \cup {from.anchor} ELSE consumed
  BY DEF Recognise
<1>2. SameReading /\ at <= Len(anchors)
  BY DEF Recognise, parseVars, SameReading
<1>3. at \in DOMAIN anchors /\ Anchor(at).block \in DOMAIN blocks /\ IsSeq(anchors) /\ Ready
  <2>1. IsSeq(anchors)
    BY DEF Recognising, Ready, Layout, Parsed
  <2>2. at \in DOMAIN anchors
    BY <1>2, <2>1, SeqDomain DEF Recognising
  <2> QED
    BY <2>1, <2>2 DEF Recognising, Ready, Layout, Parsed, Anchor
<1>4. consumed \subseteq consumed'
  BY <1>1
<1>5. ASSUME lent # <<>>
      PROVE  /\ lent = <<lent[1]>> /\ lent[1].form = "inherited" /\ lent[1].origin \in DOMAIN anchors
             /\ Borrowed(lent[1], Text(at)) /\ AreArticles(lent[1].articles)
             /\ FromCell(from) => from.anchor \in DOMAIN anchors /\ from.anchor < at
  <2>1. Inherited(at, Nothing) = <<>>
    BY DEF Inherited
  <2>2. from = Resolve(at) /\ from # Nothing
    BY <1>1, <1>5, <2>1
  <2>3. Gives(from, Anchor(at).block) /\ AreArticles(from.source[1].articles)
    BY <1>3, <2>2, ResolveGives, ResolveCites
  <2>4. Lent(lent, Anchor(at).block)
    BY <1>1, <1>3, <1>5, <2>3, InheritedLent
  <2>5. /\ lent = <<lent[1]>> /\ lent[1].form = "inherited" /\ Borrowed(lent[1], Text(at))
        /\ AreArticles(lent[1].articles)
    BY <1>1, <1>3, <1>5, <2>3, InheritedBorrows
  <2>6. FromCell(from) => from.anchor \in DOMAIN anchors /\ from.anchor < at
    BY <1>3, <2>2, ResolveBacks
  <2> QED
    BY <2>4, <2>5, <2>6 DEF Lent, Rests
<1>6. RecordsCite'
  <2>1. CASE lent = <<>>
    BY <2>1, <1>1, <1>2 DEF RecordsCite, SameReading
  <2>2. CASE lent # <<>>
    <3> DEFINE b == Anchor(at).block
    <3>1. \A k \in DOMAIN blocks' :
              ToSet(records'[k]) = ToSet(records[k]) \cup
                    (IF k = b THEN {[anchor |-> at, sources |-> lent]} ELSE {})
      <4>1. records' = Record(b, at, lent) /\ DOMAIN blocks' = DOMAIN blocks /\ b \in DOMAIN blocks
        BY <1>1, <1>2, <1>3, <2>2 DEF SameReading
      <4>2. records = [k \in DOMAIN blocks |-> records[k]] /\ \A k \in DOMAIN blocks : IsSeq(records[k])
        BY <1>3 DEF Ready, RecordsOK
      <4> QED
        BY <4>1, <4>2, RecordAppends
    <3> QED
      BY <1>2, <1>5, <2>2, <3>1 DEF RecordsCite, SameReading
  <2> QED
    BY <2>1, <2>2
<1> DEFINE L == LawCandidates(at, from, lent)
           C == CaseCandidates(at)
<1>7. IsSeq(L) /\ IsSeq(C)
  <2>1. lent # <<>> => Sources(at) = <<>> /\ Lent(lent, Anchor(at).block)
    <3>1. SUFFICES ASSUME lent # <<>> PROVE Sources(at) = <<>> /\ Lent(lent, Anchor(at).block)
      OBVIOUS
    <3>2. Inherited(at, Nothing) = <<>>
      BY DEF Inherited
    <3>3. LooksBack(at) /\ from = Resolve(at) /\ from # Nothing
      BY <1>1, <3>1, <3>2
    <3>4. Gives(from, Anchor(at).block)
      BY <1>3, <3>3, ResolveGives
    <3>5. Lent(lent, Anchor(at).block)
      BY <1>1, <1>3, <3>1, <3>4, InheritedLent
    <3> QED
      BY <3>3, <3>5 DEF LooksBack
  <2> QED
    BY <1>3, <2>1, LawCandidatesOK, CaseCandidatesOK
<1>8. \A c \in ToSet(L) : CandidateFits(c)
  <2>1. CASE lent # <<>>
    <3> DEFINE c == InheritedCandidate(at, from, lent)
    <3>1. L = <<c>>
      BY <2>1 DEF LawCandidates
    <3>2. /\ c.type = "law" /\ c.sources = lent
          /\ c.anchors = IF FromCell(from) THEN <<from.anchor, at>> ELSE <<at>>
      BY OneBefore DEF InheritedCandidate, Candidate
    <3> HIDE DEF c
    <3>3. ToSet(<<c>>) = {c}
      BY SingleIs
    <3>4. PICK i : i = at
      OBVIOUS
    <3>5. c.anchors = <<i>> \/ \E b \in DOMAIN anchors : b < i /\ c.anchors = <<b, i>>
      BY <1>5, <2>1, <3>2, <3>4
    <3>6. i \in DOMAIN anchors /\ Borrowed(c.sources[1], Text(i))
      BY <1>3, <1>5, <2>1, <3>2, <3>4
    <3>7. Borrows(c)
      BY <1>5, <2>1, <3>2, <3>5, <3>6 DEF Borrows
    <3> QED
      BY <3>1, <3>3, <3>7 DEF CandidateFits
  <2>2. CASE lent = <<>> /\ Sources(at) # <<>> /\ ~Waits(at)
    <3>1. L = <<LegalCandidate(at)>>
      BY <2>2 DEF LawCandidates
    <3>2. ToSet(<<LegalCandidate(at)>>) = {LegalCandidate(at)}
      BY SingleIs
    <3> QED
      BY <1>3, <2>2, <3>1, <3>2 DEF OwnLaw, CandidateFits
  <2>3. CASE lent = <<>> /\ ~(Sources(at) # <<>> /\ ~Waits(at))
    BY <2>3, EmptyIs DEF LawCandidates
  <2> QED
    BY <2>1, <2>2, <2>3
<1>9. \A c \in ToSet(C) : CandidateFits(c)
  <2>1. CaseLaw(CaseCandidate(at)) /\ Rising(CaseCandidate(at).anchors)
    BY <1>3, CaseRises DEF CaseLaw, CaseCandidate, Candidate
  <2>2. ToSet(<<CaseCandidate(at)>>) = {CaseCandidate(at)}
    BY SingleIs
  <2> QED
    BY <2>1, <2>2, EmptyIs DEF CaseCandidates, CandidateFits
<1> HIDE DEF L, C
<1>10. ToSet(candidates') = ToSet(candidates) \cup ToSet(L) \cup ToSet(C)
  <2>1. IsSeq(candidates \o L) /\ ToSet(candidates \o L) = ToSet(candidates) \cup ToSet(L)
    BY <1>7, ConcatIs DEF Recognising, CandidatesOK
  <2>2. ToSet((candidates \o L) \o C) = ToSet(candidates \o L) \cup ToSet(C)
    BY <1>7, <2>1, ConcatIs
  <2>3. candidates' = (candidates \o L) \o C
    BY <1>1 DEF L, C
  <2> QED
    BY <2>1, <2>2, <2>3
<1>11. CandidatesFit'
  <2>1. \A c \in ToSet(candidates') : CandidateFits(c)
    BY <1>8, <1>9, <1>10 DEF CandidatesFit
  <2>2. \A c \in ToSet(candidates') : CandidateFits(c)'
    BY <1>2, <1>4, <2>1, SameFits
  <2> QED
    BY <2>2 DEF CandidatesFit
<1> QED
  BY <1>6, <1>11

(* So does one that was deferred.                                          *)
LEMMA UndeferFits ==
  ASSUME Recognising, CandidatesFit, Undefer PROVE CandidatesFit'
<1> DEFINE d == Head(deferred)
<1>1. /\ SameReading /\ consumed' = consumed /\ deferred # <<>>
      /\ candidates' = IF d \in consumed THEN candidates ELSE Append(candidates, LegalCandidate(d))
  BY DEF Undefer, parseVars, SameReading
<1>2. d \in DOMAIN anchors /\ Sources(d) # <<>>
  BY <1>1, TailIs DEF Recognising, DeferredOK
<1> HIDE DEF d
<1>3. ToSet(candidates') = ToSet(candidates) \cup (IF d \in consumed THEN {} ELSE {LegalCandidate(d)})
  BY <1>1, AppendIs DEF Recognising, CandidatesOK
<1>4. \A c \in ToSet(candidates') : CandidateFits(c)
  BY <1>2, <1>3 DEF CandidatesFit, CandidateFits, OwnLaw
<1>5. \A c \in ToSet(candidates') : CandidateFits(c)'
  BY <1>1, <1>4, SameFits
<1> QED
  BY <1>5 DEF CandidatesFit

-----------------------------------------------------------------------------
(* What the claims come to.                                                *)
HasCause(c) == Contested(c) \/ BareFirst(c.text) \/ ~PlainText(c.text)
ClaimExcused(c) == ClaimSound(c) \/ (~CitationsIntact(c.sources, c.citations) /\ HasCause(c))

(* A claim with its text, its origins and its citations passes the         *)
(* validator.                                                              *)
LEMMA SoundClaim ==
  ASSUME NEW d, HardChecked(d), NEW c, c = ClaimOf(d), c.text # <<>>,
         \A k \in DOMAIN d.sources :
           d.sources[k].form = "inherited" => d.sources[k].origin \in DOMAIN anchors,
         CitationsIntact(d.sources, c.citations) \/ HasCause(c)
  PROVE  ClaimExcused(c)
<1>1. c.anchors = d.anchors /\ c.text = TextOf(d.anchors) /\ c.sources = d.sources
  BY DEF ClaimOf
<1>2. HardChecked(c)
  BY <1>1 DEF HardChecked
<1>3. CitationsIntact(c.sources, c.citations) => ClaimSound(c)
  BY <1>1, <1>2 DEF ClaimSound
<1> QED
  BY <1>1, <1>3 DEF ClaimExcused

(* The same number at two places of a plain text is cited at both.         *)
LEMMA SharedNumber ==
  ASSUME NEW text, PlainWords(text), NEW i \in NumberPositions(text), NEW j \in NumberPositions(text),
         text[i] = text[j]
  PROVE  i \in DOMAIN text /\ j \in DOMAIN text /\ CitedAt(text, i) \cap CitedAt(text, j) # {}
<1>1. i \in DOMAIN text /\ j \in DOMAIN text
  BY DEF NumberPositions
<1>2. text[i] \in NumbersAt(text, i) /\ text[i] \in NumbersAt(text, j)
  BY <1>1, PlainAt
<1> QED
  BY <1>1, <1>2 DEF CitedAt

(* A case cites nothing.                                                   *)
LEMMA CaseClaim ==
  ASSUME Pages, NEW d, CaseLaw(d), Rising(d.anchors), HardChecked(d)
  PROVE  ClaimExcused(ClaimOf(d))
<1> DEFINE c == ClaimOf(d)
           first == d.anchors[1]
<1>1. c.text = TextOf(d.anchors) /\ c.citations = {} /\ d.sources = <<>> /\ DOMAIN d.sources = {}
  BY EmptyIs, SeqDomain DEF ClaimOf, CaseLaw
<1>2. first \in DOMAIN anchors
  <2>1. Len(d.anchors) \in Nat /\ 1 \in 1 .. Len(d.anchors)
    BY SeqDomain DEF Rising
  <2> QED
    BY <2>1 DEF Rising
<1>3. PICK rest : IsSeq(rest) /\ TextOf(d.anchors) = Text(first) \o rest
  BY TextOfIs
<1>4. IsSeq(Text(first)) /\ Text(first) # <<>>
  BY <1>2, TextIs
<1> HIDE DEF first
<1>5. Text(first) \o rest # <<>>
  BY <1>3, <1>4, FirstInside
<1>6. CitationsIntact(d.sources, c.citations)
  BY <1>1 DEF CitationsIntact
<1> HIDE DEF c
<1>7. c.text # <<>>
  BY <1>1, <1>3, <1>5
<1>8. ClaimExcused(c)
  BY <1>1, <1>6, <1>7, SoundClaim DEF c
<1> QED
  BY <1>8 DEF c

(* What an anchor names itself.                                            *)
LEMMA OwnClaimSound ==
  ASSUME Pages, Ready, NamedIs, NEW d, OwnLaw(d), HardChecked(d)
  PROVE  ClaimExcused(ClaimOf(d))
<1> DEFINE c == ClaimOf(d)
<1>1. PICK i \in DOMAIN anchors : Sources(i) # <<>> /\ d = LegalCandidate(i)
  BY DEF OwnLaw
<1>2. Sources(i) = LegalSources(Text(i))
  BY <1>1 DEF Ready, NamedIs, Sources
<1>3. d.type = "law" /\ \A k \in DOMAIN d.sources : d.sources[k].form # "inherited"
  BY <1>1, LegalIs DEF Statute
<1>4. c.text = TextOf(d.anchors) /\ c.citations = Occurrences(c.text, d.sources)
  BY <1>3 DEF ClaimOf
<1> HIDE DEF c
<1>5. c.text # <<>>
  BY <1>1, <1>4, LegalText
<1>6. SUFFICES ASSUME ~HasCause(c) PROVE CitationsIntact(d.sources, c.citations)
  BY <1>3, <1>5, SoundClaim DEF c
<1>7. Clear(c.text)
  BY <1>6, SharedNumber DEF Clear, Contested, HasCause, PlainText
<1>8. CitationsIntact(d.sources, Occurrences(c.text, d.sources))
  <2> DEFINE t == c.text
  <2>1. t = TextOf(d.anchors) /\ Clear(t) /\ ~BareFirst(t) /\ PlainText(t)
    BY <1>4, <1>6, <1>7 DEF HasCause
  <2> HIDE DEF t
  <2>2. CitationsIntact(d.sources, Occurrences(t, d.sources))
    BY <1>1, <1>2, <2>1, OwnClaim
  <2> QED
    BY <2>2 DEF t
<1> QED
  BY <1>4, <1>8

(* What an article takes over.                                             *)
LEMMA BorrowedClaimSound ==
  ASSUME Pages, NEW d, Borrows(d), HardChecked(d)
  PROVE  ClaimExcused(ClaimOf(d))
<1> DEFINE c == ClaimOf(d)
           s == d.sources[1]
<1>1. d.type = "law" /\ d.sources = <<s>> /\ s.form = "inherited" /\ s.origin \in DOMAIN anchors
  BY DEF Borrows
<1>2. PICK i \in DOMAIN anchors :
        /\ Borrowed(s, Text(i))
        /\ d.anchors = <<i>> \/ \E b \in DOMAIN anchors : b < i /\ d.anchors = <<b, i>>
  BY DEF Borrows
<1>3. /\ c.text = TextOf(d.anchors) /\ c.citations = Occurrences(c.text, d.sources)
      /\ c.sources = d.sources
  BY <1>1 DEF ClaimOf
<1> HIDE DEF c, s
<1>4. DOMAIN d.sources = {1} /\ d.sources[1] = s
  <2>1. IsSeq(<<s>>) /\ DOMAIN <<s>> = 1 .. 1 /\ <<s>>[1] = s
    BY SingleIs
  <2>2. 1 .. 1 = {1}
    OBVIOUS
  <2> QED
    BY <1>1, <2>1, <2>2
<1>5. IsSeq(Text(i)) /\ Text(i) # <<>>
  BY TextIs
<1>6. \E v : IsSeq(v) /\ c.text = v \o Text(i)
  <2>1. CASE d.anchors = <<i>>
    <3>1. c.text = Text(i)
      BY <1>3, <2>1, TextOfOne
    <3>2. <<>> \o Text(i) = Text(i)
      BY <1>5, ConcatEmptySeq DEF IsSeq
    <3> QED
      BY <3>1, <3>2, EmptyIs
  <2>2. CASE \E b \in DOMAIN anchors : b < i /\ d.anchors = <<b, i>>
    <3>1. PICK b \in DOMAIN anchors : b < i /\ d.anchors = <<b, i>>
      BY <2>2
    <3>2. c.text = Text(b) \o Text(i)
      BY <1>3, <3>1, TextOfTwo
    <3> QED
      BY <3>1, <3>2, TextIs
  <2> QED
    BY <1>2, <2>1, <2>2
<1>7. PICK v : IsSeq(v) /\ c.text = v \o Text(i)
  BY <1>6
<1>8. IsSeq(c.text) /\ c.text # <<>>
  <2>1. IsSeq(v \o Text(i)) /\ Len(v \o Text(i)) = Len(v) + Len(Text(i))
    BY <1>5, <1>7, ConcatIs
  <2>2. Len(Text(i)) \in Nat /\ Len(Text(i)) # 0 /\ Len(v) \in Nat
    BY <1>5, <1>7, NonEmptyIs, SeqDomain
  <2>3. Len(v \o Text(i)) # 0
    BY <2>1, <2>2
  <2> QED
    BY <1>7, <2>1, <2>3, EmptyIs
<1>9. \A k \in DOMAIN d.sources :
         d.sources[k].form = "inherited" => d.sources[k].origin \in DOMAIN anchors
  BY <1>1, <1>4
<1>10. SUFFICES ASSUME ~HasCause(c) PROVE CitationsIntact(d.sources, c.citations)
  BY <1>8, <1>9, SoundClaim DEF c
<1>11. ~Contested(c) /\ PlainWords(c.text)
  BY <1>10 DEF HasCause, PlainText
<1>12. Singly(c.text)
  <2>1. SUFFICES ASSUME NEW p \in NumberPositions(c.text), NEW q \in NumberPositions(c.text),
                        c.text[p] = c.text[q], p # q
                 PROVE  FALSE
    BY DEF Singly
  <2>2. ~(p < q) /\ ~(q < p)
    <3>1. \E k \in DOMAIN c.sources : c.sources[k].form = "inherited"
      BY <1>1, <1>3, <1>4
    <3>2. /\ p \in DOMAIN c.text /\ q \in DOMAIN c.text
          /\ CitedAt(c.text, p) \cap CitedAt(c.text, q) # {} /\ CitedAt(c.text, q) \cap CitedAt(c.text, p) # {}
      BY <1>11, <2>1, SharedNumber
    <3> QED
      BY <1>11, <3>1, <3>2 DEF Contested
  <2>3. DOMAIN c.text = 1 .. Len(c.text)
    BY <1>8, SeqDomain
  <2>4. p \in Int /\ q \in Int
    BY <2>3 DEF NumberPositions
  <2> QED
    BY <2>1, <2>2, <2>4
<1>13. CitationsIntact(d.sources, c.citations)
  <2> DEFINE t == c.text
             u == Text(i)
  <2>1. IsSeq(v) /\ IsSeq(u) /\ t = v \o u /\ PlainWords(t) /\ Singly(t) /\ Borrowed(s, u)
    BY <1>2, <1>11, <1>5, <1>7, <1>12
  <2> HIDE DEF t, u
  <2>2. CitationsIntact(<<s>>, Occurrences(t, <<s>>))
    BY <2>1, BorrowedIntact
  <2> QED
    BY <1>1, <1>3, <2>2 DEF t
<1> QED
  BY <1>13

(* The claims after the ruling.                                            *)
LEMMA ArbitrateFits ==
  ASSUME Pages, Recognising, NamedIs, CandidatesFit, Arbitrate
  PROVE  \A c \in claims' : ClaimExcused(c)
<1>1. claims' = {ClaimOf(candidates[n]) : n \in Ruled}
  BY DEF Arbitrate
<1>2. ASSUME NEW n \in Ruled PROVE ClaimExcused(ClaimOf(candidates[n]))
  <2> DEFINE d == candidates[n]
  <2>1. d \in ToSet(candidates) /\ HardChecked(d)
    BY DEF Ruled, Kept, Checked, ToSet
  <2>2. CandidateFits(d) /\ Ready
    BY <2>1 DEF CandidatesFit, Recognising
  <2> HIDE DEF d
  <2>3. ClaimExcused(ClaimOf(d))
    <3>1. CASE CaseLaw(d) /\ Rising(d.anchors)
      BY <2>1, <3>1, CaseClaim
    <3>2. CASE OwnLaw(d)
      BY <2>1, <2>2, <3>2, OwnClaimSound
    <3>3. CASE Borrows(d)
      BY <2>1, <3>3, BorrowedClaimSound
    <3> QED
      BY <2>2, <3>1, <3>2, <3>3 DEF CandidateFits
  <2> QED
    BY <2>3 DEF d
<1> QED
  BY <1>1, <1>2

(* Whether a claim passes depends on the document alone.                   *)
LEMMA SameSound ==
  ASSUME SameReading, NEW c PROVE ClaimSound(c)' <=> ClaimSound(c)
<1>1. \A ids : TextOf(ids)' = TextOf(ids)
  BY DEF SameReading, TextOf, Text
<1>2. HardChecked(c)' <=> HardChecked(c)
  BY DEF SameReading, HardChecked, Continuous, RelatedTablePair, IsCell, Home, Anchor
<1> QED
  BY <1>1, <1>2 DEF SameReading, ClaimSound

(* So does whether it is excused.                                          *)
LEMMA SameClaim ==
  ASSUME SameReading, NEW c PROVE ClaimExcused(c)' <=> ClaimExcused(c)
BY SameSound DEF ClaimExcused

-----------------------------------------------------------------------------
(* The invariant.                                                          *)
CitedInv ==
  /\ NamedIs
  /\ stage \in {"collect", "recognise"} => RecordsCite
  /\ stage \in {"collect", "recognise", "arbitrate"} => CandidatesFit
  /\ stage \in {"checkClaims", "done", "refused"} => \A c \in claims : ClaimExcused(c)
  /\ stage = "refused" => \E c \in claims : ~ClaimSound(c)

(* The invariant holds at the start.                                       *)
LEMMA CitedBegins == ReadingInit => CitedInv
<1> SUFFICES ASSUME ReadingInit PROVE CitedInv
  OBVIOUS
<1>1. named = <<>> /\ stage = "body"
  BY DEF ReadingInit, ParseInit
<1>2. DOMAIN <<>> = {}
  BY EmptyIs, SeqDomain
<1> QED
  BY <1>1, <1>2 DEF CitedInv, NamedIs

(* Every step keeps it.                                                    *)
LEMMA CitedKeeps ==
  ReadingInv /\ DocumentInv /\ TablesInv /\ CitedInv /\ [ReadingNext]_readingVars => CitedInv'
<1> SUFFICES ASSUME ReadingInv, DocumentInv, TablesInv, CitedInv, [ReadingNext]_readingVars
             PROVE  CitedInv'
  OBVIOUS
<1>0. Pages /\ Tabled(blocks) /\ (stage \notin {"body", "relate"} => AllRelated)
  BY DEF DocumentInv, TablesInv
<1>1. CASE Parse
  <2>1. stage \in ParseStages /\ (CheckDocument \/ stage' \in ParseStages)
    BY <1>1, ParseStage DEF Parse
  <2>2. named' = <<>> /\ candidates' = <<>> /\ DOMAIN <<>> = {} /\ ToSet(<<>>) = {}
    BY <1>1, <2>1, EmptyIs, SeqDomain DEF ReadingInv, Unread, Parse
  <2>3. NamedIs' /\ CandidatesFit'
    BY <2>2 DEF NamedIs, CandidatesFit
  <2>4. CASE stage' \in ParseStages
    BY <2>3, <2>4 DEF CitedInv, ParseStages
  <2>5. CASE CheckDocument
    <3>1. stage = "checkDoc" /\ blocks' = blocks /\ stage' = IF DocumentSound THEN "collect" ELSE "refused"
      BY <2>5 DEF CheckDocument, parseVars
    <3>2. DocumentSound
      BY <3>1, SoundWhenBuilt
    <3>3. stage' = "collect"
      BY <3>1, <3>2
    <3>4. records' = [k \in DOMAIN blocks |-> <<>>]
      BY <1>1, <3>3 DEF Parse
    <3>5. RecordsCite'
      BY <2>2, <3>1, <3>4 DEF RecordsCite
    <3> QED
      BY <2>3, <3>3, <3>5 DEF CitedInv
  <2> QED
    BY <2>1, <2>4, <2>5
<1>2. CASE Collect
  <2>1. stage = "collect" /\ stage' = "collect" /\ candidates' = candidates
    BY <1>2 DEF Collect
  <2>2. NamedIs' /\ RecordsCite'
    BY <1>0, <1>2, <2>1, CollectCites DEF ReadingInv, CitedInv
  <2>3. candidates = <<>> /\ ToSet(<<>>) = {}
    BY <2>1, EmptyIs DEF ReadingInv
  <2>4. CandidatesFit'
    BY <2>1, <2>3 DEF CandidatesFit
  <2> QED
    BY <2>1, <2>2, <2>4 DEF CitedInv
<1>3. CASE EndCollect
  <2>1. /\ stage = "collect" /\ stage' = "recognise"
        /\ SameReading /\ UNCHANGED <<records, candidates, consumed>>
    BY <1>3 DEF EndCollect, parseVars, claimVars, SameReading
  <2>2. NamedIs'
    BY <2>1 DEF CitedInv, NamedIs, SameReading, Text
  <2>3. RecordsCite'
    BY <2>1 DEF CitedInv, RecordsCite, SameReading
  <2>4. CandidatesFit'
    BY <2>1, SameFits DEF CitedInv, CandidatesFit
  <2> QED
    BY <2>1, <2>2, <2>3, <2>4 DEF CitedInv
<1>4. CASE Recognise
  <2>1. stage = "recognise" /\ stage' = "recognise" /\ SameReading
    BY <1>4 DEF Recognise, parseVars, SameReading
  <2>2. NamedIs'
    BY <2>1 DEF CitedInv, NamedIs, SameReading, Text
  <2>3. Recognising /\ RecordsCite /\ CandidatesFit /\ AllRelated
    BY <1>0, <2>1 DEF ReadingInv, CitedInv
  <2>4. RecordsCite' /\ CandidatesFit'
    BY <1>0, <1>4, <2>3, RecogniseFits
  <2> QED
    BY <2>1, <2>2, <2>4 DEF CitedInv
<1>5. CASE Undefer
  <2>1. stage = "recognise" /\ stage' = "recognise" /\ SameReading /\ records' = records
    BY <1>5 DEF Undefer, parseVars, SameReading
  <2>2. NamedIs'
    BY <2>1 DEF CitedInv, NamedIs, SameReading, Text
  <2>3. RecordsCite'
    BY <2>1 DEF CitedInv, RecordsCite, SameReading
  <2>4. CandidatesFit'
    BY <1>5, <2>1, UndeferFits DEF ReadingInv, CitedInv
  <2> QED
    BY <2>1, <2>2, <2>3, <2>4 DEF CitedInv
<1>6. CASE EndRecognition
  <2>1. /\ stage = "recognise" /\ stage' = "arbitrate"
        /\ SameReading /\ UNCHANGED <<candidates, consumed>>
    BY <1>6 DEF EndRecognition, parseVars, claimVars, SameReading
  <2>2. NamedIs'
    BY <2>1 DEF CitedInv, NamedIs, SameReading, Text
  <2>3. CandidatesFit'
    BY <2>1, SameFits DEF CitedInv, CandidatesFit
  <2> QED
    BY <2>1, <2>2, <2>3 DEF CitedInv
<1>7. CASE Arbitrate
  <2>1. stage = "arbitrate" /\ stage' = "checkClaims" /\ SameReading
    BY <1>7 DEF Arbitrate, parseVars, SameReading
  <2>2. NamedIs'
    BY <2>1 DEF CitedInv, NamedIs, SameReading, Text
  <2>3. \A c \in claims' : ClaimExcused(c)
    BY <1>0, <1>7, <2>1, ArbitrateFits DEF ReadingInv, Recognised, CitedInv
  <2>4. \A c \in claims' : ClaimExcused(c)'
    BY <2>1, <2>3, SameClaim
  <2> QED
    BY <2>1, <2>2, <2>4 DEF CitedInv
<1>8. CASE CheckClaims
  <2>1. /\ stage = "checkClaims" /\ SameReading /\ claims' = claims
        /\ stage' = IF \A c \in claims : ClaimSound(c) THEN "done" ELSE "refused"
    BY <1>8 DEF CheckClaims, parseVars, claimVars, SameReading
  <2>2. NamedIs'
    BY <2>1 DEF CitedInv, NamedIs, SameReading, Text
  <2>3. \A c \in claims' : ClaimExcused(c)'
    BY <2>1, SameClaim DEF CitedInv
  <2>4. stage' = "refused" => \E c \in claims : ~ClaimSound(c)
    BY <2>1
  <2>5. stage' = "refused" => \E c \in claims' : ~ClaimSound(c)'
    BY <2>1, <2>4, SameSound
  <2>6. stage' \in {"done", "refused"}
    BY <2>1
  <2> QED
    BY <2>2, <2>3, <2>5, <2>6 DEF CitedInv
<1>9. CASE UNCHANGED readingVars
  <2>1. /\ SameReading /\ UNCHANGED <<stage, records, candidates, consumed, claims>>
    BY <1>9 DEF readingVars, parseVars, claimVars, SameReading
  <2>2. NamedIs'
    BY <2>1 DEF CitedInv, NamedIs, SameReading, Text
  <2>3. stage \in {"collect", "recognise"} => RecordsCite'
    BY <2>1 DEF CitedInv, RecordsCite, SameReading
  <2>4. stage \in {"collect", "recognise", "arbitrate"} => CandidatesFit'
    BY <2>1, SameFits DEF CitedInv, CandidatesFit
  <2>5. stage \in {"checkClaims", "done", "refused"} => \A c \in claims' : ClaimExcused(c)'
    BY <2>1, SameClaim DEF CitedInv
  <2>6. stage = "refused" => \E c \in claims' : ~ClaimSound(c)'
    BY <2>1, SameSound DEF CitedInv
  <2> QED
    BY <2>1, <2>2, <2>3, <2>4, <2>5, <2>6 DEF CitedInv
<1> QED
  BY <1>1, <1>2, <1>3, <1>4, <1>5, <1>6, <1>7, <1>8, <1>9 DEF ReadingNext

(* Whatever the documents, one is refused only where a claim cites the     *)
(* same article at two places and can take the one for the other, or names *)
(* a statute without marks before it does with them                        *)
(* (citation_integrity.py), as long as the claims are intact in which      *)
(* several articles stand at one place, or a word or a paragraph stands    *)
(* for an article: nothing that the split, the relations, the chunks, the  *)
(* inheritance or the ruling do is ever refused.                           *)
THEOREM RefusedOnlyForACause ==
  ReadingSpec =>
    []((\A c \in claims : ~PlainText(c.text) => CitationsIntact(c.sources, c.citations))
          => RefusedForACause)
<1> DEFINE Cause == (\A c \in claims : ~PlainText(c.text) => CitationsIntact(c.sources, c.citations))
                      => RefusedForACause
<1>1. CitedInv => Cause
  <2> SUFFICES ASSUME CitedInv, stage = "refused",
                      \A c \in claims : ~PlainText(c.text) => CitationsIntact(c.sources, c.citations)
               PROVE  RefusedForACause
    BY DEF RefusedForACause
  <2>1. PICK c \in claims : ~ClaimSound(c)
    BY DEF CitedInv
  <2>2. ~CitationsIntact(c.sources, c.citations) /\ HasCause(c)
    BY <2>1 DEF CitedInv, ClaimExcused
  <2>3. Contested(c) \/ BareFirst(c.text)
    BY <2>2 DEF HasCause
  <2> QED
    BY <2>2, <2>3 DEF RefusedForACause
<1>2. ReadingInit => ReadingInv /\ DocumentInv /\ TablesInv /\ CitedInv
  BY ReadingBegins, DocumentBegins, TablesBegin, CitedBegins
<1>3. ReadingInv /\ DocumentInv /\ TablesInv /\ CitedInv /\ [ReadingNext]_readingVars
        => (ReadingInv /\ DocumentInv /\ TablesInv /\ CitedInv)'
  BY ReadingKeeps, DocumentKeeps, TablesKeep, CitedKeeps
<1> HIDE DEF Cause
<1>4. ReadingSpec => []Cause
  BY <1>1, <1>2, <1>3, PTL DEF ReadingSpec
<1> QED
  BY <1>4 DEF Cause
=============================================================================
