----------------------------- MODULE MCClaimRun -----------------------------
(* Instances of ClaimRun for TLC. *)
EXTENDS ClaimRun, TLC

CONSTANTS t1, t2, t3, t4, a1, none

MCTitles == {t1, t2, t3, t4}
MCArticles == {a1}
MCIdentities == {<< >>, t1 :> 1, t1 :> 1 @@ t2 :> 2}
MCOffers == {{}, {t2, t3, t4}}
MCListings == {{}, {t1, t2}}
=============================================================================
