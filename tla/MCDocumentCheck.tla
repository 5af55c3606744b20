--------------------------- MODULE MCDocumentCheck ---------------------------
(* Documents for TLC. *)
EXTENDS DocumentCheck

CONSTANTS c1, c2, k1, k2, k3

Cited(claim, key, form, traits, within) ==
  [claim |-> claim, key |-> key, form |-> form, traits |-> traits, within |-> within]

(* Three articles in one claim, each in the scope of those before it. *)
Chain == [model |-> FALSE, items |-> <<Cited(c1, k1, "article", {}, << >>),
                                       Cited(c1, k2, "article", {}, <<1>>),
                                       Cited(c1, k3, "article", {}, <<2, 1>>)>>]

(* Two articles in one claim, compared by the model. *)
Pair == [model |-> TRUE, items |-> <<Cited(c1, k1, "article", {}, << >>),
                                     Cited(c1, k2, "article", {"malformed"}, << >>)>>]

(* An article with a paragraph and one nested in it. *)
Nested == [model |-> TRUE, items |-> <<Cited(c1, k1, "article", {"deep"}, << >>),
                                       Cited(c1, k2, "article", {}, <<1>>)>>]

(* Two claims that cite the same article, and so share its lookup. *)
Shared == [model |-> TRUE, items |-> <<Cited(c1, k1, "article", {}, << >>),
                                       Cited(c2, k1, "article", {}, << >>)>>]

(* One claim with a paragraph, and a chapter. *)
Deep == [model |-> TRUE, items |-> <<Cited(c1, k1, "article", {"deep", "dated"}, << >>),
                                     Cited(c2, k2, "structure", {}, << >>)>>]

(* A foreign law, a whole law and a citation that is not verifiable. *)
Mixed == [model |-> TRUE, items |-> <<Cited(c1, k1, "article", {"foreign", "deep"}, << >>),
                                      Cited(c2, k2, "whole", {"queried", "unplanned"}, << >>),
                                      Cited(c2, k3, "unknown", {}, << >>)>>]

(* A claim about one article. *)
Sole == [model |-> TRUE, items |-> <<Cited(c1, k1, "article", {}, << >>)>>]

MCDocuments == {Chain, Pair, Nested, Shared, Deep, Mixed}
MCSole == {Sole}
=============================================================================
