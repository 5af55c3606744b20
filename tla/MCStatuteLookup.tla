--------------------------- MODULE MCStatuteLookup ---------------------------
(* Two title shapes, known or not, in every kind of world. *)
EXTENDS StatuteLookup

MCWorlds == [known : SUBSET (1 .. 2), canonical : BOOLEAN, article : BOOLEAN]
=============================================================================
