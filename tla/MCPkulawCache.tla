--------------------------- MODULE MCPkulawCache ---------------------------
(* Instances of PkulawCache for TLC: two threads, one key that is          *)
(* revalidated and one behind the miss lock that is not.                   *)
EXTENDS PkulawCache, TLC

CONSTANTS w1, w2, kArticle, kSearch, absent, nobody

MCThreads == {w1, w2}
MCKindOf == [k \in Keys |-> IF k = kArticle THEN "article" ELSE "law_semantic_query"]
MCTTL == "effective" :> 2 @@ "repealed" :> 3 @@ "not_found" :> 2

Symmetry == Permutations(MCThreads)
=============================================================================
