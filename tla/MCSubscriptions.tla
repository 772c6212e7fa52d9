-------------------------- MODULE MCSubscriptions --------------------------
(***************************************************************************)
(* Users, checkouts and requests are interchangeable, and so are           *)
(* subscriptions that are contested, and those that are not.               *)
(***************************************************************************)
EXTENDS Subscriptions, TLC

Interchangeable ==
    Permutations(Users) \cup Permutations(Contested)
        \cup Permutations(Subs \ Contested)
        \cup Permutations(Checkouts) \cup Permutations(Requests)
=============================================================================
