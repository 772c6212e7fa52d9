------------------------- MODULE OfficeHostsProofs -------------------------
(***************************************************************************)
(* What holds of a process with any number of rooms, offices and requests: *)
(* whose the ids of whiteboards are, and where roomsMap leads.             *)
(***************************************************************************)
EXTENDS OfficeHosts, TLAPS

(* The actions of offices and of requests that touch neither the offices   *)
(* nor the two registers.                                                  *)
Outside ==
    \/ \E s \in Sessions : Visit(s)
    \/ \E q \in Requests : Http(q)
    \/ \E r \in Rooms : ReopenRoom(r)

LEMMA OutsideKeeps == Outside => UNCHANGED hostVars
  BY DEF Outside, Visit, Enter, Exit, Http, DeleteRoom, ShutRoom, Write,
         SendRoomMessage, ReopenRoom

LEMMA NextKinds == Next <=> Outside \/ \E i \in Offices : Lifecycle(i)
  BY DEF Next, Outside

-----------------------------------------------------------------------------
(* Typing                                                                  *)

LEMMA TypeInit == Init => TypeOK
  BY HostsAssumption DEF Init, TypeOK, Unborn

AnOffice ==
    [stage : {"unborn", "opening", "open", "failed", "disposed"},
     room : Rooms \cup {None}, boards : SUBSET WhiteboardIds]

LEMMA TypeStep == TypeOK /\ [Next]_vars => TypeOK'
  <1> SUFFICES ASSUME TypeOK, [Next]_vars PROVE TypeOK'
    OBVIOUS
  <1>1. CASE UNCHANGED vars
    BY <1>1 DEF vars, hostVars, TypeOK
  <1>2. ASSUME NEW i \in Offices, Lifecycle(i) PROVE TypeOK'
    <2>1. CASE \E r \in Rooms : Create(i, r)
      <3>1. PICK r \in Rooms : Create(i, r)
        BY <2>1
      <3>2. [office[i] EXCEPT !.stage = "opening", !.room = r] \in AnOffice
        BY DEF TypeOK, AnOffice
      <3>3. office' \in [Offices -> AnOffice]
        BY <3>1, <3>2 DEF Create, TypeOK, AnOffice
      <3> QED  BY <3>1, <3>3 DEF Create, TypeOK, AnOffice
    <2>2. CASE Furnished(i)
      <3>1. PICK ids \in SUBSET WhiteboardIds :
              /\ office' = [office EXCEPT ![i].stage = "open", ![i].boards = ids]
              /\ whiteboardRoomIds' = whiteboardRoomIds \cup ids
        BY <2>2 DEF Furnished
      <3>2. [office[i] EXCEPT !.stage = "open", !.boards = ids] \in AnOffice
        BY DEF TypeOK, AnOffice
      <3>3. office' \in [Offices -> AnOffice]
        BY <3>1, <3>2 DEF TypeOK, AnOffice
      <3>4. whiteboardRoomIds' \subseteq WhiteboardIds
        BY <3>1 DEF TypeOK
      <3> QED  BY <2>2, <3>3, <3>4 DEF Furnished, TypeOK, AnOffice
    <2>3. CASE Failed(i)
      BY <2>3 DEF Failed, TypeOK
    <2>4. CASE Dispose(i)
      BY <2>4 DEF Dispose, TypeOK
    <2> QED  BY <1>2, <2>1, <2>2, <2>3, <2>4 DEF Lifecycle
  <1>3. CASE Outside
    <2>1. UNCHANGED hostVars
      BY <1>3, OutsideKeeps
    <2>2. ASSUME NEW s \in Sessions, Visit(s) PROVE TypeOK'
      BY <2>1, <2>2 DEF Visit, Enter, Exit, TypeOK, hostVars
    <2>3. ASSUME NEW q \in Requests, Http(q) PROVE TypeOK'
      <3>1. CASE \E r \in Rooms : DeleteRoom(q, r) \/ ShutRoom(q, r)
        BY <2>1, <3>1 DEF DeleteRoom, ShutRoom, Write, TypeOK, hostVars
      <3>2. CASE SendRoomMessage(q)
        BY <2>1, <3>2 DEF SendRoomMessage, Clients, TypeOK, hostVars
      <3> QED  BY <2>3, <3>1, <3>2 DEF Http
    <2>4. ASSUME NEW r \in Rooms, ReopenRoom(r) PROVE TypeOK'
      BY <2>1, <2>4 DEF ReopenRoom, TypeOK, hostVars
    <2> QED  BY <1>3, <2>2, <2>3, <2>4 DEF Outside
  <1> QED  BY <1>1, <1>2, <1>3, NextKinds

(* Every variable of OfficeHosts keeps its type.                           *)
THEOREM TypeCorrect == Spec => []TypeOK
  BY TypeInit, TypeStep, PTL DEF Spec

-----------------------------------------------------------------------------
(* The inductive invariant                                                 *)

(* An office names a room from its creation on, and has whiteboards while  *)
(* it is open.                                                             *)
Staged ==
    \A i \in Offices :
        /\ office[i].stage = "unborn" <=> office[i].room = None
        /\ office[i].stage # "open" => office[i].boards = {}

(* IdsAccountedFor, one id at a time.                                      *)
OwnIds ==
    /\ \A i, j \in Offices, w \in WhiteboardIds :
           i # j /\ w \in office[i].boards => w \notin office[j].boards
    /\ \A w \in WhiteboardIds :
           w \in whiteboardRoomIds <=> \E i \in Offices : w \in office[i].boards

LEMMA IdsOneByOne == TypeOK => (IdsAccountedFor <=> OwnIds)
  <1> SUFFICES ASSUME TypeOK PROVE IdsAccountedFor <=> OwnIds
    OBVIOUS
  <1>1. /\ \A i \in Offices : office[i].boards \subseteq WhiteboardIds
        /\ whiteboardRoomIds \subseteq WhiteboardIds
    BY DEF TypeOK
  <1>2. (whiteboardRoomIds = UNION {office[i].boards : i \in Offices})
        <=> \A w \in WhiteboardIds :
                w \in whiteboardRoomIds <=> \E i \in Offices : w \in office[i].boards
    BY <1>1
  <1>3. (\A i, j \in Offices : i # j => office[i].boards \cap office[j].boards = {})
        <=> \A i, j \in Offices, w \in WhiteboardIds :
                i # j /\ w \in office[i].boards => w \notin office[j].boards
    BY <1>1
  <1> QED  BY <1>2, <1>3 DEF IdsAccountedFor, OwnIds

(* RoomsMapLeads, without the sets of offices.                             *)
Alone(i) == \A k \in Offices : office[k].room = office[i].room => k = i

Leads ==
    /\ \A i \in Offices :
           Alone(i) /\ office[i].stage \in {"opening", "open"}
               => roomsMap[office[i].room] = i
    /\ \A r \in Rooms : roomsMap[r] # None =>
           /\ roomsMap[r] \in Offices
           /\ office[roomsMap[r]].room = r
           /\ office[roomsMap[r]].stage # "disposed"

LEMMA LeadsOneByOne == RoomsMapLeads <=> Leads
  <1>1. \A i \in Offices : OfficesOf(office[i].room) = {i} <=> Alone(i)
    BY DEF OfficesOf, Alone
  <1>2. \A r \in Rooms : roomsMap[r] \in OfficesOf(r) <=>
            roomsMap[r] \in Offices /\ office[roomsMap[r]].room = r
    BY DEF OfficesOf
  <1> QED  BY <1>1, <1>2 DEF RoomsMapLeads, Leads

IInv == TypeOK /\ Staged /\ OwnIds /\ Leads

LEMMA InvInit == Init => IInv
  <1> SUFFICES ASSUME Init PROVE IInv
    OBVIOUS
  <1>1. Staged /\ OwnIds /\ Leads
    BY HostsAssumption DEF Init, Unborn, Staged, OwnIds, Leads
  <1> QED  BY <1>1, TypeInit DEF IInv

LEMMA StagedStep == TypeOK /\ Staged /\ [Next]_vars => Staged'
  <1> SUFFICES ASSUME TypeOK, Staged, [Next]_vars PROVE Staged'
    OBVIOUS
  <1> USE DEF Staged, TypeOK
  <1>1. CASE UNCHANGED office
    BY <1>1
  <1>2. ASSUME NEW i \in Offices, Lifecycle(i) PROVE Staged'
    <2>1. CASE \E r \in Rooms : Create(i, r)
      BY <2>1, HostsAssumption DEF Create, Unborn
    <2>2. CASE Furnished(i)
      BY <2>2 DEF Furnished
    <2>3. CASE Failed(i)
      BY <2>3 DEF Failed
    <2>4. CASE Dispose(i)
      BY <2>4 DEF Dispose
    <2> QED  BY <1>2, <2>1, <2>2, <2>3, <2>4 DEF Lifecycle
  <1> QED  BY <1>1, <1>2, NextKinds, OutsideKeeps DEF vars, hostVars

(* The ids an office draws are nobody's, and an office takes only its own  *)
(* with it.                                                                *)
LEMMA IdsStep == TypeOK /\ Staged /\ OwnIds /\ [Next]_vars => OwnIds'
  <1> SUFFICES ASSUME TypeOK, Staged, OwnIds, [Next]_vars PROVE OwnIds'
    OBVIOUS
  <1>1. CASE UNCHANGED hostVars
    BY <1>1 DEF OwnIds, hostVars
  <1>2. ASSUME NEW i \in Offices, Lifecycle(i) PROVE OwnIds'
    <2>1. CASE (\E r \in Rooms : Create(i, r)) \/ Failed(i)
      <3>1. /\ \A j \in Offices : office'[j].boards = office[j].boards
            /\ whiteboardRoomIds' = whiteboardRoomIds
        <4>1. CASE Failed(i)
          BY <4>1 DEF Failed, TypeOK
        <4>2. ASSUME NEW r \in Rooms, Create(i, r)
              PROVE  /\ \A j \in Offices : office'[j].boards = office[j].boards
                     /\ whiteboardRoomIds' = whiteboardRoomIds
          BY <4>2 DEF Create, TypeOK
        <4> QED  BY <2>1, <4>1, <4>2
      <3> QED  BY <3>1 DEF OwnIds
    <2>2. CASE Furnished(i)
      <3>1. PICK ids \in SUBSET (WhiteboardIds \ whiteboardRoomIds) :
              /\ office' = [office EXCEPT ![i].stage = "open", ![i].boards = ids]
              /\ whiteboardRoomIds' = whiteboardRoomIds \cup ids
        BY <2>2 DEF Furnished
      <3>2. /\ office'[i].boards = ids
            /\ \A j \in Offices \ {i} : office'[j].boards = office[j].boards
        BY <3>1 DEF TypeOK
      <3>3. office[i].boards = {}
        BY <2>2 DEF Furnished, Staged
      <3>4. \A j \in Offices, w \in ids : w \notin office[j].boards
        BY DEF OwnIds
      <3> QED  BY <3>1, <3>2, <3>3, <3>4 DEF OwnIds
    <2>3. CASE Dispose(i)
      <3>1. /\ office'[i].boards = {}
            /\ \A j \in Offices \ {i} : office'[j].boards = office[j].boards
            /\ whiteboardRoomIds' = whiteboardRoomIds \ office[i].boards
        BY <2>3 DEF Dispose, TypeOK
      <3> QED  BY <3>1 DEF OwnIds
    <2> QED  BY <1>2, <2>1, <2>2, <2>3 DEF Lifecycle
  <1> QED  BY <1>1, <1>2, NextKinds, OutsideKeeps DEF vars, hostVars

(* An office that is created takes its room's place in roomsMap, and one   *)
(* that is disposed of leaves it empty.                                    *)
LEMMA LeadsStep == TypeOK /\ Staged /\ Leads /\ [Next]_vars => Leads'
  <1> SUFFICES ASSUME TypeOK, Staged, Leads, [Next]_vars PROVE Leads'
    OBVIOUS
  <1> USE HostsAssumption
  <1>0. \A i \in Offices : office[i].stage # "unborn" => office[i].room \in Rooms
    BY DEF Staged, TypeOK
  <1>1. CASE UNCHANGED hostVars
    BY <1>1 DEF Leads, Alone, hostVars
  <1>2. ASSUME NEW i \in Offices, Lifecycle(i) PROVE Leads'
    <2>1. ASSUME NEW r \in Rooms, Create(i, r) PROVE Leads'
      <3>1. /\ office'[i].room = r /\ office'[i].stage = "opening"
            /\ \A j \in Offices \ {i} : office'[j] = office[j]
            /\ roomsMap'[r] = i
            /\ \A x \in Rooms \ {r} : roomsMap'[x] = roomsMap[x]
            /\ office[i].room = None
        BY <2>1 DEF Create, TypeOK, Unborn
      <3>2. ASSUME NEW j \in Offices, Alone(j)',
                   office'[j].stage \in {"opening", "open"}
            PROVE  roomsMap'[office'[j].room] = j
        <4>1. CASE j = i
          BY <3>1, <4>1
        <4>2. CASE j # i
          <5>1. office'[j] = office[j] /\ office[j].room \in Rooms \ {r}
            BY <1>0, <3>1, <3>2, <4>2 DEF Alone
          <5>2. Alone(j)
            BY <3>1, <3>2, <4>2, <5>1 DEF Alone
          <5>3. roomsMap[office[j].room] = j
            BY <3>2, <5>1, <5>2 DEF Leads
          <5> QED  BY <3>1, <5>1, <5>3
        <4> QED  BY <4>1, <4>2
      <3>3. ASSUME NEW x \in Rooms, roomsMap'[x] # None
            PROVE  /\ roomsMap'[x] \in Offices
                   /\ office'[roomsMap'[x]].room = x
                   /\ office'[roomsMap'[x]].stage # "disposed"
        <4>1. CASE x = r
          BY <3>1, <4>1
        <4>2. CASE x # r
          <5>1. /\ roomsMap'[x] = roomsMap[x]
                /\ roomsMap[x] \in Offices /\ office[roomsMap[x]].room = x
                /\ office[roomsMap[x]].stage # "disposed"
            BY <3>1, <3>3, <4>2 DEF Leads
          <5>2. roomsMap[x] # i
            BY <3>1, <5>1
          <5> QED  BY <3>1, <5>1, <5>2
        <4> QED  BY <4>1, <4>2
      <3> QED  BY <3>2, <3>3 DEF Leads
    <2>2. CASE Furnished(i) \/ Failed(i)
      <3>1. /\ office[i].stage = "opening"
            /\ office'[i].room = office[i].room
            /\ office'[i].stage \in {"open", "failed"}
            /\ \A j \in Offices \ {i} : office'[j] = office[j]
            /\ roomsMap' = roomsMap
        <4>1. CASE Furnished(i)
          BY <4>1 DEF Furnished, TypeOK
        <4>2. CASE Failed(i)
          BY <4>2 DEF Failed, TypeOK
        <4> QED  BY <2>2, <4>1, <4>2
      <3>2. \A j \in Offices : Alone(j)' => Alone(j)
        BY <3>1 DEF Alone
      <3>3. ASSUME NEW j \in Offices, Alone(j)',
                   office'[j].stage \in {"opening", "open"}
            PROVE  roomsMap'[office'[j].room] = j
        BY <3>1, <3>2, <3>3 DEF Leads
      <3>4. ASSUME NEW x \in Rooms, roomsMap'[x] # None
            PROVE  /\ roomsMap'[x] \in Offices
                   /\ office'[roomsMap'[x]].room = x
                   /\ office'[roomsMap'[x]].stage # "disposed"
        BY <3>1, <3>4 DEF Leads
      <3> QED  BY <3>3, <3>4 DEF Leads
    <2>3. CASE Dispose(i)
      <3>1. /\ office'[i].room = office[i].room /\ office'[i].stage = "disposed"
            /\ \A j \in Offices \ {i} : office'[j] = office[j]
            /\ office[i].room \in Rooms
            /\ roomsMap'[office[i].room] = None
            /\ \A x \in Rooms \ {office[i].room} : roomsMap'[x] = roomsMap[x]
        BY <1>0, <2>3 DEF Dispose, TypeOK
      <3>2. ASSUME NEW j \in Offices, Alone(j)',
                   office'[j].stage \in {"opening", "open"}
            PROVE  roomsMap'[office'[j].room] = j
        <4>1. j # i /\ office'[j] = office[j]
          BY <3>1, <3>2
        <4>2. Alone(j) /\ office[j].room # office[i].room
          BY <3>1, <3>2, <4>1 DEF Alone
        <4>3. roomsMap[office[j].room] = j /\ office[j].room \in Rooms
          BY <1>0, <3>2, <4>1, <4>2 DEF Leads
        <4> QED  BY <3>1, <4>1, <4>2, <4>3
      <3>3. ASSUME NEW x \in Rooms, roomsMap'[x] # None
            PROVE  /\ roomsMap'[x] \in Offices
                   /\ office'[roomsMap'[x]].room = x
                   /\ office'[roomsMap'[x]].stage # "disposed"
        <4>1. x # office[i].room /\ roomsMap'[x] = roomsMap[x]
          BY <3>1, <3>3
        <4>2. /\ roomsMap[x] \in Offices /\ office[roomsMap[x]].room = x
              /\ office[roomsMap[x]].stage # "disposed"
          BY <3>3, <4>1 DEF Leads
        <4>3. roomsMap[x] # i
          BY <4>1, <4>2
        <4> QED  BY <3>1, <4>1, <4>2, <4>3
      <3> QED  BY <3>2, <3>3 DEF Leads
    <2> QED  BY <1>2, <2>1, <2>2, <2>3 DEF Lifecycle
  <1> QED  BY <1>1, <1>2, NextKinds, OutsideKeeps DEF vars, hostVars

LEMMA InvStep == IInv /\ [Next]_vars => IInv'
  BY TypeStep, StagedStep, IdsStep, LeadsStep DEF IInv

-----------------------------------------------------------------------------
(* However many offices open and end, no whiteboard of two open offices has *)
(* the same id, and an id is in use exactly while an office has it.        *)
THEOREM BoardsApart == Spec => []IdsAccountedFor
  <1>1. IInv => IdsAccountedFor
    BY IdsOneByOne DEF IInv
  <1> QED  BY <1>1, InvInit, InvStep, PTL DEF Spec

(* roomsMap leads to the one office of a room until it ends, and never to  *)
(* another room's or to one that has ended.                                *)
THEOREM RoomsMapCorrect == Spec => []RoomsMapLeads
  <1>1. IInv => RoomsMapLeads
    BY LeadsOneByOne DEF IInv
  <1> QED  BY <1>1, InvInit, InvStep, PTL DEF Spec

-----------------------------------------------------------------------------
(* The notice of closure                                                   *)

(* Whoever is inside an office is inside an open one.                      *)
Inhabited ==
    \A s \in Sessions : inside[s] # None => office[inside[s]].stage = "open"

LEMMA InhabitedStep == TypeOK /\ Inhabited /\ [Next]_vars => Inhabited'
  <1> SUFFICES ASSUME TypeOK, Inhabited, [Next]_vars PROVE Inhabited'
    OBVIOUS
  <1>1. CASE UNCHANGED <<office, inside>>
    BY <1>1 DEF Inhabited
  <1>2. ASSUME NEW i \in Offices, Lifecycle(i) PROVE Inhabited'
    <2>1. CASE (\E r \in Rooms : Create(i, r)) \/ Furnished(i) \/ Failed(i)
      <3>1. /\ office[i].stage # "open" /\ inside' = inside
            /\ \A j \in Offices \ {i} : office'[j] = office[j]
        <4>1. ASSUME NEW r \in Rooms, Create(i, r)
              PROVE  /\ office[i].stage # "open" /\ inside' = inside
                     /\ \A j \in Offices \ {i} : office'[j] = office[j]
          BY <4>1 DEF Create, TypeOK, Unborn
        <4>2. CASE Furnished(i)
          BY <4>2 DEF Furnished, TypeOK
        <4>3. CASE Failed(i)
          BY <4>3 DEF Failed, TypeOK
        <4> QED  BY <2>1, <4>1, <4>2, <4>3
      <3> QED  BY <3>1 DEF Inhabited, TypeOK
    <2>2. CASE Dispose(i)
      <3>1. /\ \A s \in Sessions : inside'[s] # None =>
                    inside'[s] = inside[s] /\ inside[s] # i
            /\ \A j \in Offices \ {i} : office'[j] = office[j]
        BY <2>2 DEF Dispose, TypeOK
      <3> QED  BY <3>1 DEF Inhabited, TypeOK
    <2> QED  BY <1>2, <2>1, <2>2 DEF Lifecycle
  <1>3. ASSUME NEW s \in Sessions, Visit(s) PROVE Inhabited'
    BY <1>3 DEF Visit, Enter, Exit, Inhabited, TypeOK, hostVars
  <1>4. ASSUME NEW q \in Requests, Http(q) PROVE UNCHANGED <<office, inside>>
    BY <1>4 DEF Http, DeleteRoom, ShutRoom, Write, SendRoomMessage, hostVars
  <1>5. ASSUME NEW r \in Rooms, ReopenRoom(r) PROVE UNCHANGED <<office, inside>>
    BY <1>5 DEF ReopenRoom, hostVars
  <1> QED
    BY <1>1, <1>2, <1>3, <1>4, <1>5, NextKinds DEF Outside, vars, hostVars

(* When a request that has closed a room ends, everybody who is inside the *)
(* only office the room has had has been told; that it ends is what        *)
(* ClosureReaches adds (rooms/controller.ts 220, 259).                     *)
ClosureTold ==
    [][\A q \in Requests, s \in Sessions :
          (/\ req[q] # None /\ req'[q] = None
           /\ inside[s] # None
           /\ OfficesOf(req[q]) = {inside[s]})
          => s \in told']_vars

THEOREM AllInsideTold == Spec => ClosureTold
  <1> DEFINE Told ==
          \A q \in Requests, s \in Sessions :
              (/\ req[q] # None /\ req'[q] = None
               /\ inside[s] # None
               /\ OfficesOf(req[q]) = {inside[s]})
              => s \in told'
  <1>1. Init => Inhabited
    BY DEF Init, Inhabited
  <1>2. IInv /\ Inhabited /\ [Next]_vars => [Told]_vars
    <2> SUFFICES ASSUME IInv, Inhabited, [Next]_vars,
                        NEW q \in Requests, NEW s \in Sessions,
                        req[q] # None, req'[q] = None, inside[s] # None,
                        OfficesOf(req[q]) = {inside[s]}
                 PROVE  s \in told'
      OBVIOUS
    <2>1. TypeOK /\ RoomsMapLeads
      BY LeadsOneByOne DEF IInv
    <2>2. SendRoomMessage(q)
      <3>1. ~Outside => req' = req
        BY NextKinds DEF Lifecycle, Create, Furnished, Failed, Dispose, vars
      <3>2. Outside
        BY <3>1
      <3>3. \A x \in Sessions : Visit(x) => req' = req
        BY DEF Visit, Enter, Exit
      <3>4. \A r \in Rooms : ReopenRoom(r) => req' = req
        BY DEF ReopenRoom
      <3>5. ASSUME NEW p \in Requests, Http(p), ~SendRoomMessage(q)
            PROVE  FALSE
        <4>1. CASE SendRoomMessage(p)
          BY <2>1, <3>5, <4>1 DEF SendRoomMessage, TypeOK
        <4>2. ASSUME NEW r \in Rooms, Write(p, r, "missing") \/ Write(p, r, "off")
              PROVE  FALSE
          BY <2>1, <4>2, HostsAssumption DEF Write, TypeOK
        <4> QED  BY <3>5, <4>1, <4>2 DEF Http, DeleteRoom, ShutRoom
      <3> QED  BY <3>2, <3>3, <3>4, <3>5 DEF Outside
    <2>3. inside[s] \in OfficesOf(req[q])
      OBVIOUS
    <2>4. /\ inside[s] \in Offices /\ office[inside[s]].room = req[q]
          /\ office[inside[s]].stage = "open"
      BY <2>3 DEF OfficesOf, Inhabited
    <2>5. roomsMap[req[q]] = inside[s]
      BY <2>1, <2>4 DEF RoomsMapLeads
    <2>6. s \in Clients(req[q])
      BY <2>5 DEF Clients
    <2> QED  BY <2>2, <2>6 DEF SendRoomMessage
  <1> QED
    BY <1>1, <1>2, InvInit, InvStep, InhabitedStep, PTL DEF Spec, ClosureTold, IInv
=============================================================================
