----------------------------- MODULE MCVOffice -----------------------------
(***************************************************************************)
(* Small offices for TLC: three connections, of three accounts or of two.  *)
(***************************************************************************)
EXTENDS VOffice, TLC

CONSTANTS s1, s2, s3, u1, u2, r1, r2, d1, d2, d3

(* Every connection is of an account of its own, called by the same name.  *)
OneSessionEach == [s \in Sessions |-> s]

(* Two connections of one account, and one of another.                     *)
TwoOfOneUser == s1 :> u1 @@ s2 :> u1 @@ s3 :> u2

(* Connections with an account each that all may drop, or all may not, and *)
(* requests and chat ids are interchangeable in every invariant and action *)
(* property.                                                               *)
Interchangeable ==
    Permutations({s1, s2, s3}) \cup Permutations({r1, r2})
        \cup Permutations({d1, d2, d3})

(* Where the clients are not alike, requests and chat ids still are.       *)
AlikeRequests == Permutations({r1, r2}) \cup Permutations({d1, d2, d3})
=============================================================================
