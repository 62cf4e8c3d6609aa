----------------------------- MODULE MCSanctions -----------------------------
(* Sanctions with interchangeable requests and hits.                       *)
EXTENDS Sanctions, TLC

Interchangeable == Permutations(Requests) \union Permutations(Hits)
=============================================================================
