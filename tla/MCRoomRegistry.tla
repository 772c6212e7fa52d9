--------------------------- MODULE MCRoomRegistry ---------------------------
(***************************************************************************)
(* Rooms, chats and requests are interchangeable, and so are users of whom *)
(* the same is supposed.                                                   *)
(***************************************************************************)
EXTENDS RoomRegistry, TLC

(* Where some users are unlucky, the others are alike.                     *)
LuckyAlike ==
    Permutations(Users \ Unlucky) \cup Permutations(Rooms)
        \cup Permutations(ChatIds) \cup Permutations(Requests)

(* Where some users are patient, the ids are alike.                        *)
IdsAlike ==
    Permutations(Rooms) \cup Permutations(ChatIds) \cup Permutations(Requests)

(* What decides the next step: the history does not.                       *)
Present == <<room, chat, req>>
=============================================================================
