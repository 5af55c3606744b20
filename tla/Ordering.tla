------------------------------ MODULE Ordering ------------------------------
(***************************************************************************)
(* Sorting, by rank.  SortSeq and SelectSeq of the library are evaluated   *)
(* by TLC, but no prover can look into them; these can be reasoned about.  *)
(***************************************************************************)
EXTENDS Integers, FiniteSets, SequencesExt

(* The elements of S by ascending key; no two have the same one.           *)
Ranked(S, key) ==
  [n \in 1 .. Cardinality(S) |->
     CHOOSE x \in S : Cardinality({y \in S : key[y] < key[x]}) = n - 1]

(* A set of numbers, ascending.                                            *)
InOrder(S) == Ranked(S, [x \in S |-> x])

(* Those elements of a sequence that are in S, in their order.             *)
Only(s, S) ==
  LET kept == {k \in DOMAIN s : s[k] \in S}
  IN  [n \in 1 .. Cardinality(kept) |-> s[InOrder(kept)[n]]]
=============================================================================
