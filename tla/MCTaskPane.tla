----------------------------- MODULE MCTaskPane -----------------------------
(* Instances of TaskPane for TLC. *)
EXTENDS TaskPane, TLC

CONSTANTS d1, d2, c1, none

MCDocs == {d1, d2}
MCCards == {c1}
=============================================================================
