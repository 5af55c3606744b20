---------------------------- MODULE MCCaseCheck ----------------------------
(* Instances of CaseCheck for TLC: two documents of one case that          *)
(* contradict or not, one of them with a link, a ruling of it, a record of *)
(* its number under another name, a case of another number, a typical case *)
(* that tells of the first one.                                            *)
EXTENDS CaseCheck

CONSTANTS none, n1, n2, name1, name2, party, court1, court2, day1, day2, link

Record(id, number, name, court, date, type, holding) ==
  [id |-> id, number |-> number, name |-> name, court |-> court, date |-> date, type |-> type,
   holding |-> holding, typical |-> FALSE, mentions |-> {party}, guiding |-> none]

MCLibrary == {
  Record(none, n1, name1, court1, day1, "judgment", FALSE),
  Record(link, n1, name1, court1, day2, "judgment", TRUE),
  Record(none, n1, name1, court1, none, "ruling", FALSE),
  Record(none, n1, name2, court2, day1, none, FALSE),
  Record(none, n2, name2, court2, day1, none, TRUE),
  [Record(none, none, name2, none, none, none, FALSE) EXCEPT
     !.typical = TRUE, !.mentions = {name1}, !.guiding = "24"] }

Citation(claim, number, name, court, paraphrase) ==
  [claim |-> claim, jurisdiction |-> "CN", number |-> number, name |-> name, court |-> court,
   type |-> none, guiding |-> none, parties |-> {}, personal |-> FALSE, long |-> FALSE,
   words |-> FALSE, paraphrase |-> paraphrase]

Foreign(claim) == [Citation(claim, none, name1, none, FALSE) EXCEPT !.jurisdiction = "US"]

MCDocuments == {
  <<Citation(1, n1, none, none, TRUE)>>,
  <<Citation(1, n1, name1, court1, FALSE)>>,
  <<[Citation(1, n1, name2, none, FALSE) EXCEPT !.type = "ruling"]>>,
  <<[Citation(1, none, name1, none, FALSE) EXCEPT !.long = TRUE]>>,
  <<[Citation(1, none, name1, court2, FALSE) EXCEPT !.parties = {party}, !.personal = TRUE]>>,
  <<[Citation(1, none, name1, none, FALSE) EXCEPT !.guiding = "24"]>>,
  <<Citation(1, none, none, none, FALSE)>>,
  <<Foreign(1), Foreign(1), Citation(2, n2, none, court1, TRUE)>> }
=============================================================================
