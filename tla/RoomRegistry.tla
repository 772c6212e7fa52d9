---------------------------- MODULE RoomRegistry ----------------------------
(***************************************************************************)
(* Rooms, their members and their chats over HTTP: RoomController with     *)
(* RoomService and ChatService (src/modules/rooms, src/modules/chat).      *)
(*                                                                         *)
(* A request runs from one database call to the next; every action is the  *)
(* stretch that ends with one call, and requests interleave at the calls.  *)
(* A request may be refused for data that is not modelled (a name that is  *)
(* taken, a map outside the plan, a private room, an expired link):        *)
(* Abandoned stands for all of these, and for a call that fails.           *)
(***************************************************************************)
EXTENDS Integers, FiniteSets

CONSTANTS Users, Rooms, ChatIds,
          Requests,    \* bound: requests in flight at once
          NoOne, NoRoom, NoChat,
          MaxRoom,     \* maxRoom of the users' plan
          Capacity,    \* maxRoomCapacity of the users' plan
          MaxEntries,  \* bound: list entries of one user told apart
          Patient,     \* the users whose client waits for each answer
          Unlucky      \* the users whose calls may fail between two writes

ASSUME RegistryAssumption ==
    /\ NoOne \notin Users /\ NoRoom \notin Rooms
    /\ MaxRoom \in Nat \ {0} /\ Capacity \in Nat \ {0}
    /\ MaxEntries \in Nat \ {0}
    /\ Patient \subseteq Users /\ Unlucky \subseteq Users
    /\ IsFiniteSet(Rooms) /\ IsFiniteSet(Requests)

VARIABLES
    room,   \* the documents of the collection of rooms
    chat,   \* the documents of the collection of chats
    req,    \* the requests in flight
    early   \* history: <<r, u>>: user u named room r before its creation ended

vars == <<room, chat, req, early>>

Lists == [Users -> 0..MaxEntries]

Nobody == [u \in Users |-> 0]
Add(list, u) ==
    [list EXCEPT ![u] = IF @ < MaxEntries THEN @ + 1 ELSE @]
Drop(list, u) == [list EXCEPT ![u] = 0]

(* The users a list names.                                                 *)
Listing(list) == {u \in Users : list[u] > 0}

RoomRecords ==
    [stage : {"unused", "live", "gone"}, creator : Users \cup {NoOne},
     active : BOOLEAN, members : Lists]

Chats ==
    [room : Rooms, kind : {"lobby", "public", "private", "group"},
     members : Lists]

ASSUME NoChatAssumption == NoChat \notin Chats

(* by is the user of the access token, who the user named in the body.     *)
Idle == [pc |-> "idle"]
Steps == {"count", "store", "lobby", "check", "push", "list", "pull", "clear",
          "delete", "activate", "shut", "pair", "gather", "chat"}
InFlight ==
    [pc : Steps, by : Users, room : Rooms \cup {NoRoom}, who : Users,
     kind : {"none", "public", "private", "group"}, members : Lists]

TypeOK ==
    /\ room \in [Rooms -> RoomRecords]
    /\ chat \in [ChatIds -> Chats \cup {NoChat}]
    /\ req \in [Requests -> InFlight \cup {Idle}]
    /\ early \subseteq Rooms \X Users

Init ==
    /\ room = [r \in Rooms |-> [stage |-> "unused", creator |-> NoOne,
                                active |-> TRUE, members |-> Nobody]]
    /\ chat = [k \in ChatIds |-> NoChat]
    /\ req = [q \in Requests |-> Idle]
    /\ early = {}

-----------------------------------------------------------------------------
Live(r) == room[r].stage = "live"
Owned(u) == {r \in Rooms : Live(r) /\ room[r].creator = u}
Stored == {k \in ChatIds : chat[k] # NoChat}
ChatsOf(r) == {k \in Stored : chat[k].room = r}
Busy(u) == \E q \in Requests : req[q] # Idle /\ req[q].by = u

Touched(r, steps) ==
    \E q \in Requests : req[q].pc \in steps /\ req[q].room = r

(* A room can be named as soon as it is stored: GET /rooms lists it then,  *)
(* before its lobby is stored and its creation answered.                   *)
Begin(q, step, u, r, v, kind) ==
    /\ req[q] = Idle
    /\ u \in Patient => ~Busy(u)
    /\ req' = [req EXCEPT ![q] = [pc |-> step, by |-> u, room |-> r, who |-> v,
                                  kind |-> kind, members |-> Nobody]]
    /\ early' = early \cup (IF Touched(r, {"lobby"}) THEN {<<r, u>>} ELSE {})
    /\ UNCHANGED <<room, chat>>

At(q, step) == req[q].pc = step
Goto(q, step) == req' = [req EXCEPT ![q].pc = step]
Answer(q) == req' = [req EXCEPT ![q] = Idle]

-----------------------------------------------------------------------------
(* POST /rooms                                                             *)

Create(q, u) == Begin(q, "count", u, NoRoom, u, "none")

(* Variant: the limit itself passes the check.                             *)
RoomsCountedLoosely(q) ==
    /\ At(q, "count")
    /\ Cardinality(Owned(req[q].by)) <= MaxRoom
    /\ Goto(q, "store")
    /\ UNCHANGED <<room, chat, early>>

RoomsCounted(q) ==
    /\ At(q, "count")
    /\ Cardinality(Owned(req[q].by)) < MaxRoom
    /\ Goto(q, "store")
    /\ UNCHANGED <<room, chat, early>>

RoomStored(q) ==
    /\ At(q, "store")
    /\ \E r \in Rooms :
         /\ room[r].stage = "unused"
         /\ room' = [room EXCEPT ![r] =
                [stage |-> "live", creator |-> req[q].by, active |-> TRUE,
                 members |-> Add(Nobody, req[q].by)]]
         /\ req' = [req EXCEPT ![q].room = r, ![q].pc = "lobby"]
    /\ UNCHANGED <<chat, early>>

LobbyStored(q) ==
    /\ At(q, "lobby")
    /\ \E k \in ChatIds \ Stored :
         chat' = [chat EXCEPT ![k] =
             [room |-> req[q].room, kind |-> "lobby",
              members |-> Add(Nobody, req[q].by)]]
    /\ Answer(q)
    /\ UNCHANGED <<room, early>>

-----------------------------------------------------------------------------
(* GET /rooms/:roomId/join and POST /rooms/:roomId/join-by-token           *)

Join(q, u, r) ==
    /\ Live(r)
    /\ room[r].active
    /\ Begin(q, "check", u, r, u, "none")

(* Variant: nobody asks whether the user is a member.                      *)
MembershipUnchecked(q) ==
    /\ At(q, "check")
    /\ Goto(q, "push")
    /\ UNCHANGED <<room, chat, early>>

MembershipChecked(q) ==
    /\ At(q, "check")
    /\ IF room[req[q].room].members[req[q].by] = 0
       THEN Goto(q, "push") ELSE Answer(q)
    /\ UNCHANGED <<room, chat, early>>

(* The push of one element is appended to the list as it is by now; saving *)
(* a room that is gone is an error.                                        *)
MemberPushed(q) ==
    /\ At(q, "push")
    /\ Live(req[q].room)
    /\ room' = [room EXCEPT ![req[q].room].members = Add(@, req[q].by)]
    /\ Goto(q, "list")
    /\ UNCHANGED <<chat, early>>

(* Variant: only public chats made by createChat take the member.          *)
MemberListedElsewhere(q) ==
    /\ At(q, "list")
    /\ chat' = [k \in ChatIds |->
           IF k \in ChatsOf(req[q].room) /\ chat[k].kind = "public"
           THEN [chat[k] EXCEPT !.members = Add(@, req[q].by)] ELSE chat[k]]
    /\ Answer(q)
    /\ UNCHANGED <<room, early>>

(* $addToSet compares whole entries, and every entry has an _id of its own: *)
(* the user is appended, listed or not.                                    *)
MemberListed(q) ==
    /\ At(q, "list")
    /\ chat' = [k \in ChatIds |->
           IF /\ k \in ChatsOf(req[q].room)
              /\ chat[k].kind \in {"lobby", "public"}
           THEN [chat[k] EXCEPT !.members = Add(@, req[q].by)] ELSE chat[k]]
    /\ Answer(q)
    /\ UNCHANGED <<room, early>>

-----------------------------------------------------------------------------
(* GET /rooms/:roomId/leave, POST /rooms/:roomId/remove                    *)

Leave(q, u, r) ==
    /\ Live(r)
    /\ room[r].creator # u
    /\ Begin(q, "pull", u, r, u, "none")

Remove(q, u, r, v) ==
    /\ Live(r)
    /\ room[r].creator = u
    /\ Begin(q, "pull", u, r, v, "none")

MemberPulled(q) ==
    /\ At(q, "pull")
    /\ room' = [room EXCEPT ![req[q].room].members = Drop(@, req[q].who)]
    /\ Answer(q)
    /\ UNCHANGED <<chat, early>>

-----------------------------------------------------------------------------
(* POST /rooms/:roomId/setting, of which only active matters here          *)

ChangeRoomSetting(q, u, r) ==
    /\ Live(r)
    /\ room[r].creator = u
    /\ \E step \in {"activate", "shut"} : Begin(q, step, u, r, u, "none")

SettingSaved(q) ==
    /\ req[q].pc \in {"activate", "shut"}
    /\ room' = [room EXCEPT ![req[q].room].active =
           IF Live(req[q].room) THEN At(q, "activate") ELSE @]
    /\ Answer(q)
    /\ UNCHANGED <<chat, early>>

-----------------------------------------------------------------------------
(* DELETE /rooms/:roomId/delete: the chats first, then the room            *)

DeleteRoom(q, u, r) ==
    /\ Live(r)
    /\ room[r].creator = u
    /\ Begin(q, "clear", u, r, u, "none")

(* Variant: the chats created by createChat are cleared, the lobby is not. *)
ChatsClearedPartly(q) ==
    /\ At(q, "clear")
    /\ chat' = [k \in ChatIds |->
           IF k \in ChatsOf(req[q].room) /\ chat[k].kind # "lobby"
           THEN NoChat ELSE chat[k]]
    /\ Goto(q, "delete")
    /\ UNCHANGED <<room, early>>

ChatsCleared(q) ==
    /\ At(q, "clear")
    /\ chat' = [k \in ChatIds |->
           IF k \in ChatsOf(req[q].room) THEN NoChat ELSE chat[k]]
    /\ Goto(q, "delete")
    /\ UNCHANGED <<room, early>>

RoomDeleted(q) ==
    /\ At(q, "delete")
    /\ room' = [room EXCEPT ![req[q].room].stage = "gone",
                            ![req[q].room].members = Nobody]
    /\ Answer(q)
    /\ UNCHANGED <<chat, early>>

-----------------------------------------------------------------------------
(* POST /rooms/:roomId/chats; v is the other member of a private chat and  *)
(* stands for the members of a group                                       *)

CreateChat(q, u, r, v, kind) ==
    /\ Live(r)
    /\ v # u
    /\ Begin(q, IF kind = "private" THEN "pair" ELSE "gather", u, r, v, kind)

PrivateChats(r, u, v) ==
    {k \in ChatsOf(r) :
        chat[k].kind = "private" /\ {u, v} \subseteq Listing(chat[k].members)}

PrivateChatSought(q) ==
    /\ At(q, "pair")
    /\ PrivateChats(req[q].room, req[q].by, req[q].who) = {}
    /\ Goto(q, "gather")
    /\ UNCHANGED <<room, chat, early>>

(* The room is read again, and its members for a public chat.              *)
MembersGathered(q) ==
    LET found == room[req[q].room]
    IN  /\ At(q, "gather")
        /\ found.stage = "live"
        /\ req[q].kind = "public" => found.creator = req[q].by
        /\ req' = [req EXCEPT ![q].pc = "chat",
               ![q].members = Add(IF req[q].kind = "public"
                                  THEN Drop(found.members, req[q].by)
                                  ELSE Add(Nobody, req[q].who), req[q].by)]
        /\ UNCHANGED <<room, chat, early>>

(* Bound: the ids are few, and one is kept for each lobby on its way.      *)
IdsToSpare ==
    Cardinality(ChatIds \ Stored) > Cardinality({q \in Requests : At(q, "lobby")})

ChatStored(q) ==
    /\ At(q, "chat")
    /\ IdsToSpare
    /\ \E k \in ChatIds \ Stored :
         chat' = [chat EXCEPT ![k] =
             [room |-> req[q].room, kind |-> req[q].kind,
              members |-> req[q].members]]
    /\ Answer(q)
    /\ UNCHANGED <<room, early>>

-----------------------------------------------------------------------------
(* A request ends early.  Once it has written, only a failing call does it. *)
Abandoned(q) ==
    /\ req[q] # Idle
    /\ req[q].pc \in {"lobby", "list", "delete"} => req[q].by \in Unlucky
    /\ Answer(q)
    /\ UNCHANGED <<room, chat, early>>

Start(q, u) ==
    \/ Create(q, u)
    \/ \E r \in Rooms :
         \/ Join(q, u, r) \/ Leave(q, u, r)
         \/ ChangeRoomSetting(q, u, r) \/ DeleteRoom(q, u, r)
         \/ \E v \in Users :
              \/ Remove(q, u, r, v)
              \/ \E kind \in {"public", "private", "group"} :
                   CreateChat(q, u, r, v, kind)

Continue(q) ==
    \/ RoomsCounted(q) \/ RoomStored(q) \/ LobbyStored(q)
    \/ MembershipChecked(q) \/ MemberPushed(q) \/ MemberListed(q)
    \/ MemberPulled(q) \/ SettingSaved(q)
    \/ ChatsCleared(q) \/ RoomDeleted(q)
    \/ PrivateChatSought(q) \/ MembersGathered(q) \/ ChatStored(q)

Next ==
    \E q \in Requests :
        (\E u \in Users : Start(q, u)) \/ Continue(q) \/ Abandoned(q)

Spec == Init /\ [][Next]_vars

-----------------------------------------------------------------------------
(* Properties                                                              *)

(* A user whose requests do not overlap owns no more rooms than the plan   *)
(* allows, whatever others do meanwhile (controller.ts 57-61).             *)
OwnedWithinPlan == \A u \in Patient : Cardinality(Owned(u)) <= MaxRoom

(* However many requests a user has in flight, the check of the plan is    *)
(* missed by less than their number: rooms stored and rooms about to be    *)
(* are within the plan where requests do not overlap, whatever others do   *)
(* (controller.ts 57-80).                                                  *)
Storing(u) == {q \in Requests : At(q, "store") /\ req[q].by = u}
Parallel(u) == IF u \in Patient THEN 1 ELSE Cardinality(Requests)
OvershootBounded ==
    \A u \in Users :
        Cardinality(Owned(u)) + Cardinality(Storing(u))
            <= MaxRoom - 1 + Parallel(u)

(* A user whose requests do not overlap is a member of a room once, however *)
(* often it joins and leaves and is removed (controller.ts 134, 147).      *)
MembersOnce ==
    \A r \in Rooms, u \in Patient : room[r].members[u] <= 1

(* Unless a call of its creator fails, a live room that is not just being  *)
(* created or deleted has its one lobby; and the lobby lists every member  *)
(* who is through joining, had no failing call and did not come before the *)
(* lobby did (controller.ts 80-82, 135-136, 150-151, 257-258).             *)
LobbyListsMembers ==
    \A r \in Rooms :
        /\ Live(r) /\ room[r].creator \notin Unlucky
        /\ ~Touched(r, {"lobby", "clear", "delete"})
        => \E k \in ChatsOf(r) :
              /\ {j \in ChatsOf(r) : chat[j].kind = "lobby"} = {k}
              /\ \A u \in Listing(room[r].members) \ Unlucky :
                   \/ <<r, u>> \in early
                   \/ u \in Listing(chat[k].members)
                   \/ \E q \in Requests :
                        At(q, "list") /\ req[q].room = r /\ req[q].by = u

(* A lobby has its room: a deletion that stops halfway leaves a room       *)
(* without chats, never the reverse, unless the creator acted on the room  *)
(* before its creation had ended (controller.ts 80-82, 257-258).           *)
LobbyHasRoom ==
    \A k \in Stored :
        chat[k].kind = "lobby" =>
            \/ Live(chat[k].room)
            \/ <<chat[k].room, room[chat[k].room].creator>> \in early

(* The same whenever the creator acts (controller.ts 80-82, 257-258).      *)
LobbyAlwaysHasRoom ==
    \A k \in Stored : chat[k].kind = "lobby" => Live(chat[k].room)

(* No more people are members of a room than the plan allows               *)
(* (subcription/dto.ts 21).                                                *)
WithinCapacity ==
    \A r \in Rooms : Cardinality(Listing(room[r].members)) <= Capacity

(* A chat belongs to a room that exists (controller.ts 302-303).           *)
ChatHasRoom == \A k \in Stored : Live(chat[k].room)

(* Two users share one private chat in a room (controller.ts 293-295).     *)
PrivateChatOnce ==
    \A r \in Rooms, u, v \in Users :
        u # v => Cardinality(PrivateChats(r, u, v)) <= 1

(* Nobody joins a room while it is inactive (controller.ts 131, 146).      *)
InactiveTakesNobody ==
    [][\A r \in Rooms : ~room[r].active =>
          Listing(room'[r].members) \subseteq Listing(room[r].members)]_vars

(* A public chat lists a member once (chat/service.ts 91-95).              *)
LobbyListsOnce ==
    \A k \in Stored : chat[k].kind = "lobby" =>
        \A u \in Users : chat[k].members[u] <= 1
=============================================================================
