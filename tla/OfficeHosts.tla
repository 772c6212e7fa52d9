---------------------------- MODULE OfficeHosts ----------------------------
(***************************************************************************)
(* The offices that one process holds: how an office of a stored room is   *)
(* opened and disposed of (VOffice.onCreate, onDispose), the two registers *)
(* outside of it, roomsMap and whiteboardRoomIds, and the notice of        *)
(* closure that HTTP handlers send through roomsMap.                       *)
(*                                                                         *)
(* Colyseus opens an office for whoever asks, a second one of a room that  *)
(* has one included; autoDispose is off, so an office ends only when the   *)
(* monitor or the end of the process disposes of it.                       *)
(***************************************************************************)
EXTENDS Naturals, FiniteSets

CONSTANTS Rooms,            \* rooms that clients name
          PublicLobby,      \* the room of RoomType.PUBLIC, which is not stored
          Offices,          \* instances of VOffice
          Sessions,
          WhiteboardIds,    \* what getRoomId can come up with
          TotalWhiteboard,  \* of the map of every room
          Requests,         \* bound: HTTP requests in flight
          None

ASSUME HostsAssumption ==
    /\ PublicLobby \in Rooms
    /\ None \notin Offices \cup Rooms
    /\ IsFiniteSet(WhiteboardIds)
    /\ TotalWhiteboard \in Nat

VARIABLES
    stored,             \* the documents of the collection of rooms
    office,             \* the instances
    roomsMap,           \* VOffice.roomsMap
    whiteboardRoomIds,  \* the ids in use, of OfficeState.ts
    inside,             \* the office a session is connected to
    told,               \* the sessions that have received ROOM_DISPOSE
    req                 \* requests that have written and not yet told anybody

hostVars == <<office, roomsMap, whiteboardRoomIds>>
vars == <<stored, hostVars, inside, told, req>>

Unborn == [stage |-> "unborn", room |-> None, boards |-> {}]

TypeOK ==
    /\ stored \in [Rooms -> {"active", "off", "missing"}]
    /\ office \in [Offices ->
           [stage : {"unborn", "opening", "open", "failed", "disposed"},
            room : Rooms \cup {None}, boards : SUBSET WhiteboardIds]]
    /\ roomsMap \in [Rooms -> Offices \cup {None}]
    /\ whiteboardRoomIds \subseteq WhiteboardIds
    /\ inside \in [Sessions -> Offices \cup {None}]
    /\ told \subseteq Sessions
    /\ req \in [Requests -> Rooms \cup {None}]

Init ==
    /\ stored = [r \in Rooms |-> IF r = PublicLobby THEN "missing" ELSE "active"]
    /\ office = [i \in Offices |-> Unborn]
    /\ roomsMap = [r \in Rooms |-> None]
    /\ whiteboardRoomIds = {}
    /\ inside = [s \in Sessions |-> None]
    /\ told = {}
    /\ req = [q \in Requests |-> None]

-----------------------------------------------------------------------------
(* Offices                                                                 *)

(* onCreate up to its await: the office is registered before its room has  *)
(* been found.                                                             *)
Create(i, r) ==
    /\ office[i] = Unborn
    /\ office' = [office EXCEPT ![i] = [@ EXCEPT !.stage = "opening", !.room = r]]
    /\ roomsMap' = [roomsMap EXCEPT ![r] = i]
    /\ UNCHANGED <<stored, whiteboardRoomIds, inside, told, req>>

(* Variant: an id that is taken is not drawn again.                        *)
FurnishedFromAll(i) ==
    /\ office[i].stage = "opening"
    /\ stored[office[i].room] # "missing"
    /\ \E ids \in SUBSET WhiteboardIds :
         /\ Cardinality(ids) = TotalWhiteboard
         /\ office' = [office EXCEPT ![i].stage = "open", ![i].boards = ids]
         /\ whiteboardRoomIds' = whiteboardRoomIds \cup ids
    /\ UNCHANGED <<stored, roomsMap, inside, told, req>>

(* The room is found.  Every whiteboard of its map draws an id, again and  *)
(* again until it is a new one.                                            *)
Furnished(i) ==
    /\ office[i].stage = "opening"
    /\ stored[office[i].room] # "missing"
    /\ \E ids \in SUBSET (WhiteboardIds \ whiteboardRoomIds) :
         /\ Cardinality(ids) = TotalWhiteboard
         /\ office' = [office EXCEPT ![i].stage = "open", ![i].boards = ids]
         /\ whiteboardRoomIds' = whiteboardRoomIds \cup ids
    /\ UNCHANGED <<stored, roomsMap, inside, told, req>>

(* There is no such room (always so for PublicLobby, whose handler is not  *)
(* given its services either), or the database refuses the search: the     *)
(* office never opens.  Nothing takes it out of roomsMap.                  *)
Failed(i) ==
    /\ office[i].stage = "opening"
    /\ office' = [office EXCEPT ![i].stage = "failed"]
    /\ UNCHANGED <<stored, roomsMap, whiteboardRoomIds, inside, told, req>>

(* Variant: the office stays registered.                                   *)
DisposeRegistered(i) ==
    /\ office[i].stage = "open"
    /\ inside' = [s \in Sessions |-> IF inside[s] = i THEN None ELSE inside[s]]
    /\ office' = [office EXCEPT ![i].stage = "disposed", ![i].boards = {}]
    /\ whiteboardRoomIds' = whiteboardRoomIds \ office[i].boards
    /\ UNCHANGED <<stored, roomsMap, told, req>>

(* Everybody is disconnected, and onDispose takes the ids and whatever     *)
(* roomsMap has for the room out of the registers.                         *)
Dispose(i) ==
    /\ office[i].stage = "open"
    /\ inside' = [s \in Sessions |-> IF inside[s] = i THEN None ELSE inside[s]]
    /\ office' = [office EXCEPT ![i].stage = "disposed", ![i].boards = {}]
    /\ whiteboardRoomIds' = whiteboardRoomIds \ office[i].boards
    /\ roomsMap' = [roomsMap EXCEPT ![office[i].room] = None]
    /\ UNCHANGED <<stored, told, req>>

(* A connection may come in at any time, and has been told nothing yet.    *)
Enter(s, i) ==
    /\ inside[s] = None
    /\ office[i].stage = "open"
    /\ inside' = [inside EXCEPT ![s] = i]
    /\ told' = told \ {s}
    /\ UNCHANGED <<stored, hostVars, req>>

Exit(s) ==
    /\ inside[s] # None
    /\ inside' = [inside EXCEPT ![s] = None]
    /\ UNCHANGED <<stored, hostVars, told, req>>

-----------------------------------------------------------------------------
(* DELETE /rooms/:roomId/delete, active: false of POST                     *)
(* /rooms/:roomId/setting, and the end of the creator's subscription: the  *)
(* room is written first, and then the office is told.                     *)

Write(q, r, state) ==
    /\ req[q] = None
    /\ stored[r] # "missing"
    /\ stored' = [stored EXCEPT ![r] = state]
    /\ req' = [req EXCEPT ![q] = r]
    /\ UNCHANGED <<hostVars, inside, told>>

DeleteRoom(q, r) == Write(q, r, "missing")
ShutRoom(q, r) == Write(q, r, "off")

ReopenRoom(r) ==
    /\ stored[r] = "off"
    /\ stored' = [stored EXCEPT ![r] = "active"]
    /\ UNCHANGED <<hostVars, inside, told, req>>

(* The clients of the office that roomsMap has for a room.                 *)
Clients(r) == {s \in Sessions : inside[s] # None /\ inside[s] = roomsMap[r]}

(* Variant: the notice goes to the first client only.                      *)
SendRoomMessageToOne(q) ==
    /\ req[q] # None
    /\ IF Clients(req[q]) = {} THEN UNCHANGED told
       ELSE \E s \in Clients(req[q]) : told' = told \cup {s}
    /\ req' = [req EXCEPT ![q] = None]
    /\ UNCHANGED <<stored, hostVars, inside>>

SendRoomMessage(q) ==
    /\ req[q] # None
    /\ told' = told \cup Clients(req[q])
    /\ req' = [req EXCEPT ![q] = None]
    /\ UNCHANGED <<stored, hostVars, inside>>

-----------------------------------------------------------------------------
Lifecycle(i) ==
    (\E r \in Rooms : Create(i, r)) \/ Furnished(i) \/ Failed(i) \/ Dispose(i)

Visit(s) == (\E i \in Offices : Enter(s, i)) \/ Exit(s)

Http(q) ==
    (\E r \in Rooms : DeleteRoom(q, r) \/ ShutRoom(q, r)) \/ SendRoomMessage(q)

Next ==
    \/ \E i \in Offices : Lifecycle(i)
    \/ \E s \in Sessions : Visit(s)
    \/ \E q \in Requests : Http(q)
    \/ \E r \in Rooms : ReopenRoom(r)

(* A request whose write has been answered runs on.                        *)
Spec == Init /\ [][Next]_vars /\ \A q \in Requests : WF_vars(SendRoomMessage(q))

-----------------------------------------------------------------------------
(* Properties                                                              *)

(* The whiteboards of all open offices are told apart by their ids, and the *)
(* ids in use are exactly theirs: no office that ends frees another's id,  *)
(* and none is lost (OfficeState.ts 106-118, VOffice.ts 446-448).          *)
IdsAccountedFor ==
    /\ \A i, j \in Offices :
           i # j => office[i].boards \cap office[j].boards = {}
    /\ whiteboardRoomIds = UNION {office[i].boards : i \in Offices}

OfficesOf(r) == {i \in Offices : office[i].room = r}

(* Where a room has had one office in this process, roomsMap leads to it   *)
(* until it ends, and to nothing after; it never leads to an office of     *)
(* another room or to one that has ended (VOffice.ts 62, 454).             *)
RoomsMapLeads ==
    /\ \A i \in Offices :
           /\ OfficesOf(office[i].room) = {i}
           /\ office[i].stage \in {"opening", "open"}
           => roomsMap[office[i].room] = i
    /\ \A r \in Rooms : roomsMap[r] # None =>
           /\ roomsMap[r] \in OfficesOf(r)
           /\ office[roomsMap[r]].stage # "disposed"

(* Everybody inside while a room is deleted or shut down is told or leaves, *)
(* if the room never had another office (rooms/controller.ts 220, 259).    *)
ClosureReaches ==
    \A r \in Rooms, s \in Sessions :
        (/\ \E q \in Requests : req[q] = r
         /\ inside[s] \in OfficesOf(r)
         /\ Cardinality(OfficesOf(r)) = 1)
        ~> (s \in told \/ inside[s] = None \/ Cardinality(OfficesOf(r)) > 1)

(* An open office can be told of its room's closure (VOffice.ts 62, 453).  *)
OpenOfficeListed ==
    \A i \in Offices :
        office[i].stage = "open" => \E j \in OfficesOf(office[i].room) :
            roomsMap[office[i].room] = j /\ office[j].stage = "open"

(* Nobody enters the office of a room that has been deleted (VOffice.ts 58, *)
(* rooms/controller.ts 258).                                               *)
NobodyEntersDeletedRoom ==
    [][\A s \in Sessions : inside[s] = None /\ inside'[s] # None =>
          stored[office[inside'[s]].room] # "missing"]_vars
=============================================================================
