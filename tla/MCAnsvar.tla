------------------------------ MODULE MCAnsvar ------------------------------
(* Instances of AnsvarSource for TLC, one set-up after the other: sessions *)
(* and tools found by two threads of a document, the cache between two     *)
(* documents, the login of the user in two documents, a service account.   *)
EXTENDS AnsvarSource, TLC

CONSTANTS w1, w2, w3, docA, docB, nobody

Together == w1 :> docA @@ w2 :> docA
Apart == w1 :> docA @@ w3 :> docB
Three == Together @@ Apart

Setup(auth, doc, stateful, confusing, discovers, cached, warm, saved, asks) ==
  [auth |-> auth, doc |-> doc, stateful |-> stateful, confusing |-> confusing,
   discovers |-> discovers, cached |-> cached, warm |-> warm, saved |-> saved, asks |-> asks]

MCConfigs ==
  { Setup("static", Together, TRUE, TRUE, TRUE, FALSE, FALSE, FALSE, {"law"}),
    Setup("static", Together, FALSE, TRUE, FALSE, TRUE, TRUE, FALSE, {"article"}),
    Setup("static", Apart, FALSE, FALSE, FALSE, TRUE, TRUE, FALSE, {"article"}),
    Setup("oauth", Together, FALSE, FALSE, FALSE, FALSE, TRUE, TRUE, {"law"}),
    Setup("oauth", Apart, FALSE, FALSE, FALSE, FALSE, TRUE, TRUE, {"law"}),
    Setup("oauth", Together, FALSE, FALSE, FALSE, FALSE, TRUE, FALSE, {"law"}),
    Setup("oauth", Apart, FALSE, FALSE, FALSE, FALSE, TRUE, FALSE, {"law"}),
    Setup("service", Together, FALSE, TRUE, FALSE, FALSE, TRUE, FALSE, {"law"}) }
=============================================================================
