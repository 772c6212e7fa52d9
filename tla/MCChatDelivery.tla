--------------------------- MODULE MCChatDelivery ---------------------------
(***************************************************************************)
(* Two connections of one account and one of another, and a chat that      *)
(* either may be a member of.                                              *)
(***************************************************************************)
EXTENDS ChatDelivery, TLC

CONSTANTS s1, s2, s3, u1, u2, x1, x2

TwoOfOneUser == s1 :> u1 @@ s2 :> u1 @@ s3 :> u2

Interchangeable == Permutations({x1, x2})
=============================================================================
