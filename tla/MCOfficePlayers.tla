-------------------------- MODULE MCOfficePlayers --------------------------
(***************************************************************************)
(* Two connections of one user and one of another.                         *)
(***************************************************************************)
EXTENDS OfficePlayers, TLC

CONSTANTS s1, s2, s3, u1, u2

TwoOfOneUser == s1 :> u1 @@ s2 :> u1 @@ s3 :> u2
=============================================================================
