----------------------------- MODULE Sentences -----------------------------
(***************************************************************************)
(* parsing/sentences.py: how the text of a block is cut into the sentences *)
(* that become its anchors.  A text is a sequence of words; the marks the  *)
(* splitter looks at are words of their own:                               *)
(*                                                                         *)
(*   "stop"           one of the three that end a sentence                 *)
(*   "open", "close"  Chinese quotation marks                              *)
(*   "dq"             the ASCII quotation mark, both opening and closing   *)
(*   "lpar", "rpar"   brackets                                             *)
(*   "sp"             a space                                              *)
(***************************************************************************)
EXTENDS Ordering

Closing == {"close", "dq", "rpar"}

Lower(n) == IF n > 1 THEN n - 1 ELSE 0

(* Quotation marks and brackets open after the first i words.  A closing   *)
(* mark too many is ignored; the ASCII mark turns the count round.         *)
Quotes(text, i) ==
  LET d[k \in 0 .. i] ==
        IF k = 0 THEN 0
        ELSE IF text[k] = "open" THEN d[k - 1] + 1
        ELSE IF text[k] = "close" THEN Lower(d[k - 1])
        ELSE IF text[k] = "dq" THEN 1 - d[k - 1]
        ELSE d[k - 1]
  IN  d[i]

Brackets(text, i) ==
  LET d[k \in 0 .. i] ==
        IF k = 0 THEN 0
        ELSE IF text[k] = "lpar" THEN d[k - 1] + 1
        ELSE IF text[k] = "rpar" THEN Lower(d[k - 1])
        ELSE d[k - 1]
  IN  d[i]

Nesting(text, i) == Quotes(text, i) + Brackets(text, i)

(* The first word after i that is no space closes something.               *)
ClosedNext(text, i) ==
  \E k \in i + 1 .. Len(text) :
    text[k] \in Closing /\ \A j \in i + 1 .. k - 1 : text[j] = "sp"

EndsSentence(text, i) ==
  /\ text[i] = "stop"
  /\ \/ Nesting(text, i) = 0
     \/ Nesting(text, i) = 1 /\ ClosedNext(text, i)

(* Where the sentences of a text end: closing marks right behind a stop go *)
(* with the sentence before.                                               *)
Ends(text) ==
  {k \in 1 .. Len(text) :
     \/ k = Len(text)
     \/ /\ text[k + 1] \notin Closing
        /\ \E i \in 1 .. k :
             EndsSentence(text, i) /\ \A j \in i + 1 .. k : text[j] \in Closing}

(* split_sentences: the sentences with where each begins (0 is the first). *)
Split(text) ==
  IF text = <<>> THEN <<>>
  ELSE LET ends == InOrder(Ends(text))
           from(k) == IF k = 1 THEN 1 ELSE ends[k - 1] + 1
       IN  [k \in 1 .. Cardinality(Ends(text)) |->
              [text |-> SubSeq(text, from(k), ends[k]), start |-> from(k) - 1]]
=============================================================================
