------------------------------ MODULE TaskPane ------------------------------
(***************************************************************************)
(* apps/word_addin/assets: the task pane of the Word add-in, on top of the *)
(* server's stream.  The script runs one event at a time, but a check, the *)
(* seeding of bookmarks and the writing of a revision each await an answer *)
(* while the user goes on clicking.                                        *)
(*                                                                         *)
(* A document stands for its document_key, a card for its check_id.  What  *)
(* localStorage holds survives a reload of the pane.                       *)
(***************************************************************************)
EXTENDS CheckStream, Sequences

CONSTANTS
  Docs,           \* document keys a check may be about
  Cards,          \* check ids with a revision that can be written
  HistoryLimit,   \* HISTORY_LIMIT
  MaxWritings,    \* bound on the revisions being written at once
  None            \* no document, no request

ASSUME PaneAssumption ==
  /\ HistoryLimit \in Nat \ {0}
  /\ MaxWritings \in Nat
  /\ None \notin Docs /\ None \notin Nat

VARIABLES
  screen,       \* the screen in view
  check,        \* the check in progress: [step, mode, request, result]
  last,         \* lastResult, by its document, and lastCheckMode
  list,         \* the rendered cards: [doc, accepted, disabled]
  writings,     \* revisions being written
  decisions,    \* localStorage: accepted cards by document
  history,      \* localStorage: recentChecks, latest first
  snapshots     \* localStorage: documents with a result snapshot

paneVars == <<screen, check, last, list, writings>>
stored == <<decisions, history, snapshots>>
vars == <<serverVars, paneVars, stored>>

Screens == {"home", "progress", "results", "help"}
Modes == {"full", "selection"}
Revisions == Docs \X Cards
Idle == [step |-> "none", mode |-> "full", request |-> None, result |-> None]

(* A writing undoes the revision or applies it; "current" while its button *)
(* is still the one in view, "saved" while its capture is still awaited.   *)
Writings == [doc : Docs, card : Cards, undo : BOOLEAN, current : BOOLEAN, saved : BOOLEAN]

PaneInit ==
  /\ screen = "home" /\ check = Idle
  /\ last = [doc |-> None, mode |-> "full"]
  /\ list = [doc |-> None, accepted |-> {}, disabled |-> {}]
  /\ writings = {}

Init ==
  /\ ServerInit /\ PaneInit
  /\ decisions = {} /\ history = << >> /\ snapshots = {}

-----------------------------------------------------------------------------
(* A check.  setBusy disables the buttons that start one until it is over. *)

Start(mode) ==
  /\ check.step = "none"
  /\ screen = "home" \/ (screen = "results" /\ mode = last.mode)
  /\ check' = [Idle EXCEPT !.step = "reading", !.mode = mode]
  /\ screen' = IF mode = "full" THEN "progress" ELSE screen
  /\ UNCHANGED <<serverVars, last, list, writings, stored>>

(* The catch and finally of runCheck and runSelectionCheck. *)
Fail ==
  /\ screen' = "home" /\ check' = Idle
  /\ UNCHANGED <<last, list, writings, stored>>

ReadFails == check.step = "reading" /\ Fail /\ UNCHANGED serverVars

NothingSelected ==
  /\ check.step = "reading" /\ check.mode = "selection"
  /\ check' = Idle
  /\ UNCHANGED <<serverVars, screen, last, list, writings, stored>>

(* The document is read and sent; its key is the hash of what was read.    *)
Submit ==
  /\ check.step = "reading" /\ check.mode = "full"
  /\ \E r \in Requests, d \in Docs :
       /\ \A q \in Requests : q < r => stream[q] # "none"
       /\ Accept(r)
       /\ check' = [check EXCEPT !.step = "waiting", !.request = r, !.result = d]
  /\ UNCHANGED <<screen, last, list, writings, stored>>

(* The check of a selection is answered without a stream. *)
SubmitSelection ==
  /\ check.step = "reading" /\ check.mode = "selection"
  /\ \E d \in Docs : check' = [check EXCEPT !.step = "waiting", !.result = d]
  /\ screen' = "progress"
  /\ UNCHANGED <<serverVars, last, list, writings, stored>>

Cut(entries) ==
  SubSeq(entries, 1, IF Len(entries) < HistoryLimit THEN Len(entries) ELSE HistoryLimit)

(* recordHistory: the document moves to the front; the list is cut.        *)
Recorded(d) == Cut(<<d>> \o SelectSeq(history, LAMBDA h : h # d))

Listed(entries) == {entries[i] : i \in DOMAIN entries}

(* Mutant: the snapshots of documents no longer listed stay. *)
Unpruned(d, full) == IF full THEN {} ELSE snapshots \cup {d}

(* saveSnapshot: the snapshots of documents no longer listed go; all of    *)
(* them do when the storage is full.                                       *)
Snapshots(d, full) == IF full THEN {} ELSE (snapshots \cup {d}) \cap Listed(Recorded(d))

(* finishCheck up to the seeding of the bookmarks. *)
TakeResult ==
  /\ last' = [doc |-> check.result, mode |-> check.mode]
  /\ check' = [check EXCEPT !.step = "seeding", !.request = None]
  /\ IF check.mode = "full"
       THEN /\ history' = Recorded(check.result)
            /\ \E full \in BOOLEAN : snapshots' = Snapshots(check.result, full)
       ELSE UNCHANGED <<history, snapshots>>
  /\ UNCHANGED <<screen, list, writings, decisions>>

Answered ==
  /\ check.step = "waiting" /\ check.mode = "full" /\ stream[check.request] = "closed"
  /\ IF final[check.request] = "response" THEN TakeResult ELSE Fail
  /\ UNCHANGED serverVars

SelectionAnswered ==
  /\ check.step = "waiting" /\ check.mode = "selection"
  /\ TakeResult \/ Fail
  /\ UNCHANGED serverVars

(* The connection breaks before the stream has ended. *)
LoseConnection ==
  /\ check.step = "waiting" /\ check.mode = "full"
  /\ stream[check.request] = "open"
  /\ Cancel(check.request) /\ Fail
  /\ UNCHANGED <<job, final>>

(* renderResults builds the cards, and their buttons, anew. *)
Render(d) ==
  /\ list' = [doc |-> d, accepted |-> {c \in Cards : <<d, c>> \in decisions}, disabled |-> {}]
  /\ writings' = {[w EXCEPT !.current = FALSE] : w \in writings}
  /\ screen' = "results"

(* finishCheck after the seeding, whether it failed or not. *)
FinishCheck ==
  /\ check.step = "seeding"
  /\ check' = Idle
  /\ Render(check.result)
  /\ UNCHANGED <<serverVars, last, stored>>

-----------------------------------------------------------------------------
(* What the user may do at any time.                                       *)

(* showHome, openHelp *)
Show(s) ==
  /\ s \in {"home", "help"} /\ screen # s
  /\ screen' = s
  /\ UNCHANGED <<serverVars, check, last, list, writings, stored>>

(* openHistorySnapshot: only a message without a snapshot. *)
OpenHistory(d) ==
  /\ screen = "home" /\ d \in Listed(history) /\ d \in snapshots
  /\ last' = [doc |-> d, mode |-> "full"]
  /\ Render(d)
  /\ UNCHANGED <<serverVars, check, stored>>

(* The button of a card undoes its revision if it is accepted and applies  *)
(* it otherwise.                                                           *)
PressFix(c) ==
  /\ screen = "results" /\ last.doc # None
  /\ c \notin list.disabled /\ Cardinality(writings) < MaxWritings
  /\ list' = [list EXCEPT !.disabled = @ \cup {c}]
  /\ writings' = writings \cup {[doc |-> list.doc, card |-> c,
                                 undo |-> c \in list.accepted, current |-> TRUE,
                                 saved |-> FALSE]}
  /\ UNCHANGED <<serverVars, screen, check, last, stored>>

(* saveDecision: under lastResult.document_key, read when the revision has *)
(* been written.                                                           *)
Saved(w) ==
  IF w.undo THEN decisions \ {<<last.doc, w.card>>}
            ELSE decisions \cup {<<last.doc, w.card>>}

(* Whether the text is found exactly once is up to the Word document.      *)
FixWritten(w) ==
  /\ w \in writings /\ ~w.saved
  /\ decisions' = Saved(w)
  /\ writings' = (writings \ {w}) \cup {[w EXCEPT !.saved = TRUE]}
  /\ UNCHANGED <<serverVars, screen, check, last, list, history, snapshots>>

(* setDecision after the capture: on the cards in view by now.             *)
ShowDecision(w) ==
  /\ w \in writings /\ w.saved
  /\ list' = [list EXCEPT !.accepted = IF w.undo THEN @ \ {w.card} ELSE @ \cup {w.card},
                          !.disabled = @ \ {w.card}]
  /\ writings' = writings \ {w}
  /\ UNCHANGED <<serverVars, screen, check, last, stored>>

(* Mutant: a writing that fails leaves its button disabled. *)
LeftDisabled(w) == list.disabled

(* The finally of the button's handler: a button that was rendered anew    *)
(* meanwhile is another one.                                               *)
StillDisabled(w) == IF w.current THEN list.disabled \ {w.card} ELSE list.disabled

FixFails(w) ==
  /\ w \in writings /\ ~w.saved
  /\ writings' = writings \ {w}
  /\ list' = [list EXCEPT !.disabled = StillDisabled(w)]
  /\ UNCHANGED <<serverVars, screen, check, last, stored>>

(* The pane is closed and opened again. *)
Reload ==
  /\ screen' = "home" /\ check' = Idle
  /\ last' = [doc |-> None, mode |-> "full"]
  /\ list' = [doc |-> None, accepted |-> {}, disabled |-> {}]
  /\ writings' = {}
  /\ IF check.request = None THEN UNCHANGED stream ELSE Cancel(check.request)
  /\ UNCHANGED <<job, final, stored>>

-----------------------------------------------------------------------------
Server(r) == ServerStep(r) /\ UNCHANGED <<paneVars, stored>>

(* What an answer that has come makes the script do. *)
Continue ==
  \/ ReadFails \/ NothingSelected \/ Submit \/ SubmitSelection
  \/ Answered \/ SelectionAnswered \/ FinishCheck

User ==
  \/ \E mode \in Modes : Start(mode)
  \/ \E s \in Screens : Show(s)
  \/ \E d \in Docs : OpenHistory(d)
  \/ \E c \in Cards : PressFix(c)
  \/ Reload

Next ==
  \/ \E r \in Requests : Server(r)
  \/ Continue \/ User \/ LoseConnection
  \/ \E w \in writings : FixWritten(w) \/ FixFails(w) \/ ShowDecision(w)

Spec == Init /\ [][Next]_vars

(* A thread of the pool takes the next request, every check ends, and the  *)
(* loop and the script go on when what they await has come.  Nobody has to *)
(* press a button, and a connection need not break.                        *)
FairSpec ==
  /\ Spec
  /\ WF_vars(Continue)
  /\ \A r \in Requests : SF_vars(Server(r))

-----------------------------------------------------------------------------
TypeOK ==
  /\ job \in [Requests -> Jobs]
  /\ stream \in [Requests -> {"none", "open", "closed", "cancelled"}]
  /\ final \in [Requests -> {"none", "response", "error"}]
  /\ screen \in Screens
  /\ check \in [step : {"none", "reading", "waiting", "seeding"}, mode : Modes,
                request : Requests \cup {None}, result : Docs \cup {None}]
  /\ last \in [doc : Docs \cup {None}, mode : Modes]
  /\ list \in [doc : Docs \cup {None}, accepted : SUBSET Cards, disabled : SUBSET Cards]
  /\ writings \subseteq Writings
  /\ decisions \subseteq Revisions
  /\ history \in Seq(Docs) /\ Len(history) <= HistoryLimit
  /\ snapshots \subseteq Docs

(* Every snapshot in storage belongs to a document that the list of recent *)
(* checks names: none is kept that the list no longer reaches, whichever   *)
(* checks are recorded, fail to be stored or are interrupted.              *)
HistoryReachesSnapshots == snapshots \subseteq Listed(history)

(* A check that was started ends, in results or with a message, and the    *)
(* buttons come back, unless the server's own check raised TimeoutError:   *)
(* also when the connection is lost or earlier checks still hold the       *)
(* threads of the pool.                                                    *)
CheckEnds ==
  check.step # "none" ~>
    (check.step = "none" \/ (check.request # None /\ job[check.request] = "timeout"))

(* app.py:200 catches every exception of the check so that no connection   *)
(* is left hanging: a check that was started ends whatever it raises.      *)
EveryCheckEnds == check.step # "none" ~> check.step = "none"

(* A button of a card in view is disabled only while a revision it started *)
(* is being written, whatever ended, failed or was rendered meanwhile.     *)
NoButtonStuck ==
  \A c \in list.disabled :
    \E w \in writings : w.current /\ w.doc = list.doc /\ w.card = c
=============================================================================
