------------------------------ MODULE Catalog ------------------------------
(***************************************************************************)
(* The data that administrators keep and others refer to: maps, characters *)
(* and plans (src/modules/map, character, plan), the profile in which a    *)
(* user names a character (src/modules/user), and the map of a room.       *)
(*                                                                         *)
(* A request runs from one database call to the next.  Nothing is captured *)
(* before the first of them, so a request begins with it.                  *)
(***************************************************************************)
EXTENDS Naturals, FiniteSets

CONSTANTS Maps,         \* ids the database may give to a new map
          Names,        \* names of maps
          Sizes,        \* positive values of the numeric fields of a map
          Kinds,        \* collections without a unique index on the name
          Labels,       \* names in them
          Users,
          Rooms,
          MaxRoomCapacity,  \* of the plan of the rooms' creators
          Edits,        \* bound: requests in flight at once
          NoMap, NoName

ASSUME CatalogAssumption ==
    /\ NoMap \notin Maps \cup [name : Names, capacity : Sizes]
    /\ NoName \notin Names
    /\ Sizes \subseteq Nat \ {0}
    /\ IsFiniteSet(Edits)

VARIABLES
    map,      \* the documents of the collection of maps
    listed,   \* listed[k][l]: how many documents of kind k have the name l
    profile,  \* fullname and character of a user
    mapOf,    \* the map of a room
    catalogReq  \* the requests in flight

catalogVars == <<map, listed, profile, mapOf, catalogReq>>

(* capacity stands for all the numeric fields of a map, which are handled  *)
(* alike; zero is what parseInt leaves of "0", and is as good as no value. *)
MapRecords == [name : Names, capacity : Sizes]
Given == [name : Names \cup {NoName}, capacity : Sizes \cup {0}]

Stored == {m \in Maps : map[m] # NoMap}
NamesTaken(except) == {map[m].name : m \in Stored \ except}

NoEdit == [pc |-> "idle"]
EditRecords ==
    [pc : {"insert"}, given : MapRecords]
        \cup [pc : {"save"}, map : Maps, hand : MapRecords, given : Given]
        \cup [pc : {"list"}, kind : Kinds, label : Labels]
        \cup [pc : {"profile"}, user : Users, character : BOOLEAN,
              fullname : BOOLEAN]
        \cup [pc : {"room"}, room : Rooms, map : Maps]

CatalogTypeOK ==
    /\ map \in [Maps -> MapRecords \cup {NoMap}]
    /\ listed \in [Kinds -> [Labels -> 0..Cardinality(Edits)]]
    /\ profile \in [Users -> [character : BOOLEAN, fullname : BOOLEAN]]
    /\ mapOf \in [Rooms -> Maps \cup {NoMap}]
    /\ catalogReq \in [Edits -> EditRecords \cup {NoEdit}]

CatalogInit ==
    /\ map = [m \in Maps |-> NoMap]
    /\ listed = [k \in Kinds |-> [l \in Labels |-> 0]]
    /\ profile = [u \in Users |-> [character |-> FALSE, fullname |-> FALSE]]
    /\ mapOf = [r \in Rooms |-> NoMap]
    /\ catalogReq = [q \in Edits |-> NoEdit]

BeginEdit(q, what) ==
    /\ catalogReq[q] = NoEdit
    /\ catalogReq' = [catalogReq EXCEPT ![q] = what]

EditAt(q, step) == catalogReq[q].pc = step
EndEdit(q) == catalogReq' = [catalogReq EXCEPT ![q] = NoEdit]

-----------------------------------------------------------------------------
(* POST /maps                                                              *)

MapNameSought(q, given) ==
    /\ given.name \notin NamesTaken({})
    /\ BeginEdit(q, [pc |-> "insert", given |-> given])
    /\ UNCHANGED <<map, listed, profile, mapOf>>

(* The unique index refuses a name that has been taken meanwhile.          *)
MapInserted(q) ==
    /\ EditAt(q, "insert")
    /\ catalogReq[q].given.name \notin NamesTaken({})
    /\ \E m \in Maps \ Stored :
         map' = [map EXCEPT ![m] = catalogReq[q].given]
    /\ EndEdit(q)
    /\ UNCHANGED <<listed, profile, mapOf>>

-----------------------------------------------------------------------------
(* PUT /maps/:id                                                           *)

MapFound(q, m, given) ==
    /\ m \in Stored
    /\ BeginEdit(q, [pc |-> "save", map |-> m, hand |-> map[m], given |-> given])
    /\ UNCHANGED <<map, listed, profile, mapOf>>

(* What the document in hand has become: fields that are given are set.    *)
Revised(hand, given) ==
    [name |-> IF given.name = NoName THEN hand.name ELSE given.name,
     capacity |-> IF given.capacity = 0 THEN hand.capacity ELSE given.capacity]

(* Variant: the whole document in hand is written back.                    *)
MapSavedWhole(q) ==
    LET revised == Revised(catalogReq[q].hand, catalogReq[q].given)
    IN  /\ EditAt(q, "save")
        /\ revised.name \notin NamesTaken({catalogReq[q].map})
        /\ map' = [map EXCEPT ![catalogReq[q].map] = revised]
        /\ EndEdit(q)
        /\ UNCHANGED <<listed, profile, mapOf>>

(* mongoose writes the fields that differ from the document as it was      *)
(* found, and those only; the index refuses a name that another map has.   *)
MapSaved(q) ==
    LET m == catalogReq[q].map
        hand == catalogReq[q].hand
        revised == Revised(hand, catalogReq[q].given)
        written == [f \in {"name", "capacity"} |->
                       IF revised[f] # hand[f] THEN revised[f] ELSE map[m][f]]
    IN  /\ EditAt(q, "save")
        /\ written.name \notin NamesTaken({m})
        /\ map' = [map EXCEPT ![m] = written]
        /\ EndEdit(q)
        /\ UNCHANGED <<listed, profile, mapOf>>

-----------------------------------------------------------------------------
(* POST /characters, POST /plans                                           *)

NameSought(q, k, l) ==
    /\ listed[k][l] = 0
    /\ BeginEdit(q, [pc |-> "list", kind |-> k, label |-> l])
    /\ UNCHANGED <<map, listed, profile, mapOf>>

Created(q) ==
    /\ EditAt(q, "list")
    /\ listed' = [listed EXCEPT
           ![catalogReq[q].kind][catalogReq[q].label] = @ + 1]
    /\ EndEdit(q)
    /\ UNCHANGED <<map, profile, mapOf>>

-----------------------------------------------------------------------------
(* PATCH /users/profile: of a character and a full name, what is given is  *)
(* set.  TRUE is a field that the user has changed.                        *)

CharacterSought(q, u, character, fullname) ==
    /\ BeginEdit(q, [pc |-> "profile", user |-> u,
                 character |-> character, fullname |-> fullname])
    /\ UNCHANGED <<map, listed, profile, mapOf>>

ProfileUpdated(q) ==
    LET u == catalogReq[q].user
    IN  /\ EditAt(q, "profile")
        /\ profile' = [profile EXCEPT
               ![u].character = @ \/ catalogReq[q].character,
               ![u].fullname = @ \/ catalogReq[q].fullname]
        /\ EndEdit(q)
        /\ UNCHANGED <<map, listed, mapOf>>

-----------------------------------------------------------------------------
(* The map of a room: POST /rooms and POST /rooms/:roomId/setting          *)

(* The map is found to fit the plan several calls before the room is       *)
(* stored.                                                                 *)
RoomMapFits(q, r, m) ==
    /\ mapOf[r] = NoMap
    /\ m \in Stored
    /\ map[m].capacity <= MaxRoomCapacity
    /\ BeginEdit(q, [pc |-> "room", room |-> r, map |-> m])
    /\ UNCHANGED <<map, listed, profile, mapOf>>

RoomStored(q) ==
    /\ EditAt(q, "room")
    /\ mapOf[catalogReq[q].room] = NoMap
    /\ mapOf' = [mapOf EXCEPT ![catalogReq[q].room] = catalogReq[q].map]
    /\ EndEdit(q)
    /\ UNCHANGED <<map, listed, profile>>

(* A setting is stored as it was sent, without a look at map or plan.      *)
RoomMapSet(r, m) ==
    /\ mapOf[r] # NoMap
    /\ m \in Stored
    /\ mapOf' = [mapOf EXCEPT ![r] = m]
    /\ UNCHANGED <<map, listed, profile, catalogReq>>

-----------------------------------------------------------------------------
(* A request is refused, or a call of it fails.                            *)
EditRefused(q) ==
    /\ catalogReq[q] # NoEdit
    /\ EndEdit(q)
    /\ UNCHANGED <<map, listed, profile, mapOf>>

Start(q) ==
    \/ \E given \in MapRecords : MapNameSought(q, given)
    \/ \E m \in Maps, given \in Given : MapFound(q, m, given)
    \/ \E k \in Kinds, l \in Labels : NameSought(q, k, l)
    \/ \E u \in Users, c, f \in BOOLEAN : CharacterSought(q, u, c, f)
    \/ \E r \in Rooms, m \in Maps : RoomMapFits(q, r, m)

Continue(q) ==
    MapInserted(q) \/ MapSaved(q) \/ Created(q) \/ ProfileUpdated(q) \/ RoomStored(q)

CatalogNext ==
    \/ \E q \in Edits : Start(q) \/ Continue(q) \/ EditRefused(q)
    \/ \E r \in Rooms, m \in Maps : RoomMapSet(r, m)

CatalogSpec == CatalogInit /\ [][CatalogNext]_catalogVars

-----------------------------------------------------------------------------
(* Properties                                                              *)

(* Every field of a map that changes is one that a request under way saves.*)
FieldsAskedFor ==
    \A m \in Stored, f \in {"name", "capacity"} :
        map'[m][f] # map[m][f] =>
            \E q \in Edits : /\ EditAt(q, "save")
                             /\ catalogReq[q].map = m
                             /\ catalogReq[q].given[f] = map'[m][f]

(* A field of a map changes only to what a request that is under way asked *)
(* for, and never back because another field was saved from an older copy  *)
(* of the document (map/controller.ts 50-62).                              *)
SavesKeepOthers == [][FieldsAskedFor]_map

(* A name is given once (plan/controller.ts 27, character/service.ts 17).  *)
NameOnce == \A k \in Kinds, l \in Labels : listed[k][l] <= 1

(* The map of a room fits the plan (rooms/controller.ts 68).               *)
RoomsFitPlan ==
    \A r \in Rooms : mapOf[r] # NoMap => map[mapOf[r]].capacity <= MaxRoomCapacity
=============================================================================
