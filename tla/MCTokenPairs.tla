---------------------------- MODULE MCTokenPairs ----------------------------
(***************************************************************************)
(* Requests are interchangeable.                                           *)
(***************************************************************************)
EXTENDS TokenPairs, TLC

Interchangeable == Permutations(Requests)
=============================================================================
