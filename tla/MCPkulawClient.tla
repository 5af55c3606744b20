--------------------------- MODULE MCPkulawClient ---------------------------
(* An instance of PkulawClient for TLC: two threads of one document beside *)
(* one thread of another.                                                  *)
EXTENDS PkulawClient, TLC

CONSTANTS w1, w2, w3, docA, docB, nobody

MCThreads == {w1, w2, w3}
TwoDocuments == w1 :> docA @@ w2 :> docA @@ w3 :> docB
=============================================================================
