------------------------ MODULE RoomRegistryProofs ------------------------
(***************************************************************************)
(* What holds of RoomRegistry for any users, rooms and requests: how far   *)
(* the plan's limit can be missed and by whom, that a patient user is a    *)
(* member once, which lobbies outlive their room, and whom a lobby lists.  *)
(***************************************************************************)
EXTENDS RoomRegistry, FiniteSetTheorems, TLAPS

-----------------------------------------------------------------------------
(* Typing                                                                  *)

(* Adding to a list and dropping from it gives a list.                     *)
LEMMA ListType ==
    ASSUME NEW list \in Lists, NEW u \in Users
    PROVE  /\ Nobody \in Lists
           /\ Add(list, u) \in Lists
           /\ Drop(list, u) \in Lists
  BY RegistryAssumption DEF Lists, Nobody, Add, Drop

(* Which room a request names at each step, and that it names the kind of  *)
(* the chat it creates.                                                    *)
RoomNamed ==
    \A q \in Requests :
        req[q] # Idle =>
            IF req[q].pc \in {"count", "store"} THEN req[q].room = NoRoom
            ELSE /\ req[q].room \in Rooms
                 /\ room[req[q].room].stage # "unused"
                 /\ req[q].pc \in {"pair", "gather", "chat"}
                       => req[q].kind # "none"

(* A request that begins is well typed, and touches no document.           *)
LEMMA BeginType ==
    ASSUME TypeOK, RoomNamed, NEW q \in Requests, NEW step \in Steps,
           NEW u \in Users, NEW r \in Rooms \cup {NoRoom}, NEW v \in Users,
           NEW kind \in {"none", "public", "private", "group"},
           Begin(q, step, u, r, v, kind)
    PROVE  TypeOK'
  <1>1. Nobody \in Lists
    BY RegistryAssumption DEF Lists, Nobody
  <1>2. [pc |-> step, by |-> u, room |-> r, who |-> v, kind |-> kind,
         members |-> Nobody] \in InFlight
    BY <1>1 DEF InFlight
  <1>3. Touched(r, {"lobby"}) => r \in Rooms
    BY DEF Touched, RoomNamed, Idle
  <1>4. early' \subseteq Rooms \X Users
    BY <1>3 DEF Begin, TypeOK
  <1> QED  BY <1>2, <1>4 DEF Begin, TypeOK

(* A request in flight has the fields of one, and the steps that follow the *)
(* first read of a room name it.                                           *)
LEMMA InFlightType ==
    ASSUME TypeOK, NEW q \in Requests, req[q].pc # "idle"
    PROVE  /\ req[q] \in InFlight
           /\ req[q].pc \in Steps
           /\ req[q].by \in Users
           /\ req[q].who \in Users
           /\ req[q].room \in Rooms \cup {NoRoom}
           /\ req[q].members \in Lists
  BY DEF TypeOK, Idle, InFlight

(* Moving on to another step keeps a request well typed.                   *)
LEMMA GotoType ==
    ASSUME TypeOK, NEW q \in Requests, req[q].pc # "idle",
           NEW step \in Steps, Goto(q, step)
    PROVE  req' \in [Requests -> InFlight \cup {Idle}]
  <1>1. req[q] \in InFlight
    BY InFlightType
  <1>2. [req[q] EXCEPT !.pc = step] \in InFlight
    BY <1>1 DEF InFlight
  <1> QED  BY <1>2 DEF Goto, TypeOK

(* Answering a request keeps the requests well typed.                      *)
LEMMA AnswerType ==
    ASSUME TypeOK, NEW q \in Requests, Answer(q)
    PROVE  req' \in [Requests -> InFlight \cup {Idle}]
  BY DEF Answer, TypeOK

(* How a request begins.                                                   *)
LEMMA StartShape ==
    ASSUME NEW q \in Requests, NEW u \in Users, Start(q, u)
    PROVE  \E step \in Steps, r \in Rooms \cup {NoRoom}, v \in Users,
              kind \in {"none", "public", "private", "group"} :
                /\ Begin(q, step, u, r, v, kind)
                /\ step \notin {"store", "lobby", "delete", "list", "push", "chat"}
                /\ step \in {"pair", "gather"} => kind # "none"
                /\ \/ step = "count" /\ r = NoRoom
                   \/ step # "count" /\ r \in Rooms /\ Live(r)
  <1>1. CASE Create(q, u)
    BY <1>1 DEF Create, Steps
  <1>2. CASE \E r \in Rooms : Join(q, u, r)
    BY <1>2 DEF Join, Steps
  <1>3. CASE \E r \in Rooms : Leave(q, u, r)
    BY <1>3 DEF Leave, Steps
  <1>4. CASE \E r \in Rooms : ChangeRoomSetting(q, u, r)
    <2>1. PICK r \in Rooms : ChangeRoomSetting(q, u, r)
      BY <1>4
    <2>2. PICK step \in {"activate", "shut"} : Begin(q, step, u, r, u, "none")
      BY <2>1 DEF ChangeRoomSetting
    <2>3. step \in Steps /\ step \notin {"count", "store", "lobby", "delete",
                                         "list", "push", "chat", "pair",
                                         "gather"}
      BY DEF Steps
    <2>4. r \in Rooms /\ Live(r)
      BY <2>1 DEF ChangeRoomSetting
    <2> QED  BY <2>2, <2>3, <2>4
  <1>5. CASE \E r \in Rooms : DeleteRoom(q, u, r)
    BY <1>5 DEF DeleteRoom, Steps
  <1>6. CASE \E r \in Rooms, v \in Users : Remove(q, u, r, v)
    BY <1>6 DEF Remove, Steps
  <1>7. CASE \E r \in Rooms, v \in Users,
                kind \in {"public", "private", "group"} :
                  CreateChat(q, u, r, v, kind)
    <2>1. PICK r \in Rooms, v \in Users,
               kind \in {"public", "private", "group"} :
                 CreateChat(q, u, r, v, kind)
      BY <1>7
    <2> DEFINE step == IF kind = "private" THEN "pair" ELSE "gather"
    <2>2. /\ Begin(q, step, u, r, v, kind)
          /\ r \in Rooms /\ Live(r)
      BY <2>1 DEF CreateChat
    <2>3. step \in Steps /\ step \notin {"count", "store", "lobby", "delete",
                                         "list", "push", "chat"}
      BY DEF Steps
    <2> HIDE DEF step
    <2> QED  BY <2>2, <2>3
  <1> QED
    BY <1>1, <1>2, <1>3, <1>4, <1>5, <1>6, <1>7 DEF Start

(* Every step keeps the type.                                              *)
LEMMA TypeStep ==
    ASSUME TypeOK, RoomNamed, [Next]_vars
    PROVE  TypeOK'
  <1>1. CASE UNCHANGED vars
    BY <1>1 DEF vars, TypeOK
  <1>2. ASSUME NEW q \in Requests, NEW u \in Users, Start(q, u)
        PROVE  TypeOK'
    BY <1>2, StartShape, BeginType
  <1>3. ASSUME NEW q \in Requests, Abandoned(q)
        PROVE  TypeOK'
    BY <1>3, AnswerType DEF Abandoned, TypeOK
  <1>4. ASSUME NEW q \in Requests, Continue(q)
        PROVE  TypeOK'
    <2>1. CASE RoomsCounted(q)
      <3>1. Goto(q, "store") /\ req[q].pc # "idle" /\ "store" \in Steps
        BY <2>1 DEF RoomsCounted, At, Steps
      <3> QED  BY <2>1, <3>1, GotoType DEF RoomsCounted, TypeOK
    <2>2. CASE RoomStored(q)
      <3>1. req[q].pc # "idle" /\ req[q] \in InFlight /\ req[q].by \in Users
        BY <2>2, InFlightType DEF RoomStored, At
      <3>2. PICK r \in Rooms :
              /\ room' = [room EXCEPT ![r] =
                    [stage |-> "live", creator |-> req[q].by, active |-> TRUE,
                     members |-> Add(Nobody, req[q].by)]]
              /\ req' = [req EXCEPT ![q].room = r, ![q].pc = "lobby"]
        BY <2>2 DEF RoomStored
      <3>3. Add(Nobody, req[q].by) \in Lists
        BY <3>1, RegistryAssumption DEF Lists, Nobody, Add
      <3>4. room' \in [Rooms -> RoomRecords]
        BY <3>1, <3>2, <3>3 DEF TypeOK, RoomRecords
      <3>5. req' \in [Requests -> InFlight \cup {Idle}]
        BY <3>1, <3>2 DEF TypeOK, InFlight, Steps
      <3> QED  BY <2>2, <3>4, <3>5 DEF RoomStored, TypeOK
    <2>3. CASE LobbyStored(q)
      <3>1. /\ req[q].pc = "lobby" /\ req[q].by \in Users
            /\ req[q].room \in Rooms
        BY <2>3, InFlightType DEF LobbyStored, At, RoomNamed, Idle
      <3>2. Add(Nobody, req[q].by) \in Lists
        BY <3>1, RegistryAssumption DEF Lists, Nobody, Add
      <3>3. chat' \in [ChatIds -> Chats \cup {NoChat}]
        BY <2>3, <3>1, <3>2 DEF LobbyStored, TypeOK, Chats
      <3> QED  BY <2>3, <3>3, AnswerType DEF LobbyStored, TypeOK
    <2>4. CASE MembershipChecked(q)
      <3>1. req[q].pc # "idle" /\ "push" \in Steps
        BY <2>4 DEF MembershipChecked, At, Steps
      <3>2. Goto(q, "push") \/ Answer(q)
        BY <2>4 DEF MembershipChecked
      <3> QED
        BY <2>4, <3>1, <3>2, GotoType, AnswerType DEF MembershipChecked, TypeOK
    <2>5. CASE MemberPushed(q)
      <3>1. /\ req[q].pc # "idle" /\ "list" \in Steps
            /\ req[q].by \in Users /\ req[q].room \in Rooms
        BY <2>5, InFlightType DEF MemberPushed, At, Steps, RoomNamed, Idle
      <3>2. Add(room[req[q].room].members, req[q].by) \in Lists
        BY <3>1, ListType DEF TypeOK, RoomRecords
      <3>3. room' \in [Rooms -> RoomRecords]
        BY <2>5, <3>1, <3>2 DEF MemberPushed, TypeOK, RoomRecords
      <3> QED
        BY <2>5, <3>1, <3>3, GotoType DEF MemberPushed, TypeOK
    <2>6. CASE MemberListed(q)
      <3>1. req[q].by \in Users
        BY <2>6, InFlightType DEF MemberListed, At
      <3>2. ASSUME NEW k \in ChatIds
            PROVE  chat'[k] \in Chats \cup {NoChat}
        <4>1. CASE k \in Stored
          <5>1. chat[k] \in Chats
            BY <4>1 DEF Stored, TypeOK
          <5>2. Add(chat[k].members, req[q].by) \in Lists
            BY <5>1, <3>1, ListType DEF Chats
          <5> QED
            BY <2>6, <5>1, <5>2 DEF MemberListed, Chats
        <4>2. CASE k \notin Stored
          BY <2>6, <4>2 DEF MemberListed, ChatsOf, TypeOK
        <4> QED  BY <4>1, <4>2
      <3>3. chat' \in [ChatIds -> Chats \cup {NoChat}]
        BY <2>6, <3>2 DEF MemberListed
      <3> QED  BY <2>6, <3>3, AnswerType DEF MemberListed, TypeOK
    <2>7. CASE MemberPulled(q)
      <3>1. req[q].who \in Users /\ req[q].room \in Rooms
        BY <2>7, InFlightType DEF MemberPulled, At, RoomNamed, Idle
      <3>2. Drop(room[req[q].room].members, req[q].who) \in Lists
        BY <3>1, ListType DEF TypeOK, RoomRecords
      <3>3. room' \in [Rooms -> RoomRecords]
        BY <2>7, <3>1, <3>2 DEF MemberPulled, TypeOK, RoomRecords
      <3> QED  BY <2>7, <3>3, AnswerType DEF MemberPulled, TypeOK
    <2>8. CASE SettingSaved(q)
      <3>1. req[q].room \in Rooms
        BY <2>8 DEF SettingSaved, RoomNamed, Idle
      <3>2. (IF Live(req[q].room) THEN At(q, "activate")
             ELSE room[req[q].room].active) \in BOOLEAN
        BY <3>1 DEF At, TypeOK, RoomRecords
      <3>3. room' \in [Rooms -> RoomRecords]
        BY <2>8, <3>1, <3>2 DEF SettingSaved, TypeOK, RoomRecords
      <3> QED  BY <2>8, <3>3, AnswerType DEF SettingSaved, TypeOK
    <2>9. CASE ChatsCleared(q)
      <3>1. req[q].pc # "idle" /\ "delete" \in Steps
        BY <2>9 DEF ChatsCleared, At, Steps
      <3>2. chat' \in [ChatIds -> Chats \cup {NoChat}]
        BY <2>9 DEF ChatsCleared, TypeOK
      <3> QED  BY <2>9, <3>1, <3>2, GotoType DEF ChatsCleared, TypeOK
    <2>10. CASE RoomDeleted(q)
      <3>1. req[q].room \in Rooms
        BY <2>10 DEF RoomDeleted, At, RoomNamed, Idle
      <3>2. Nobody \in Lists
        BY RegistryAssumption DEF Nobody, Lists
      <3>3. room' \in [Rooms -> RoomRecords]
        BY <2>10, <3>1, <3>2 DEF RoomDeleted, TypeOK, RoomRecords
      <3> QED  BY <2>10, <3>3, AnswerType DEF RoomDeleted, TypeOK
    <2>11. CASE PrivateChatSought(q)
      <3>1. req[q].pc # "idle" /\ "gather" \in Steps
        BY <2>11 DEF PrivateChatSought, At, Steps
      <3> QED  BY <2>11, <3>1, GotoType DEF PrivateChatSought, TypeOK
    <2>12. CASE MembersGathered(q)
      <3> DEFINE list == IF req[q].kind = "public"
                         THEN Drop(room[req[q].room].members, req[q].by)
                         ELSE Add(Nobody, req[q].who)
      <3>1. /\ req[q] \in InFlight /\ req[q].by \in Users
            /\ req[q].who \in Users /\ req[q].room \in Rooms
        BY <2>12, InFlightType DEF MembersGathered, At, RoomNamed, Idle
      <3>2. room[req[q].room].members \in Lists /\ Nobody \in Lists
        BY <3>1, RegistryAssumption
        DEF TypeOK, RoomRecords, Nobody, Lists
      <3>3. list \in Lists
        BY <3>1, <3>2, ListType
      <3>4. Add(list, req[q].by) \in Lists
        BY <3>1, <3>3, ListType
      <3>5. req' = [req EXCEPT ![q].pc = "chat",
                               ![q].members = Add(list, req[q].by)]
        BY <2>12 DEF MembersGathered
      <3> HIDE DEF list
      <3>6. req' \in [Requests -> InFlight \cup {Idle}]
        BY <3>1, <3>4, <3>5 DEF TypeOK, InFlight, Steps
      <3> QED  BY <2>12, <3>6 DEF MembersGathered, TypeOK
    <2>13. CASE ChatStored(q)
      <3>1. /\ req[q].members \in Lists /\ req[q].room \in Rooms
            /\ req[q].pc = "chat"
        BY <2>13, InFlightType DEF ChatStored, At, RoomNamed, Idle
      <3>2. req[q].kind \in {"public", "private", "group"}
        BY <2>13, <3>1, InFlightType DEF RoomNamed, Idle, InFlight
      <3>3. chat' \in [ChatIds -> Chats \cup {NoChat}]
        BY <2>13, <3>1, <3>2 DEF ChatStored, TypeOK, Chats
      <3> QED  BY <2>13, <3>3, AnswerType DEF ChatStored, TypeOK
    <2> QED
      BY <1>4, <2>1, <2>2, <2>3, <2>4, <2>5, <2>6, <2>7, <2>8, <2>9, <2>10,
         <2>11, <2>12, <2>13 DEF Continue
  <1> QED
    BY <1>1, <1>2, <1>3, <1>4 DEF Next

(* The requests go on naming what they should.                             *)
LEMMA NamesStep ==
    ASSUME TypeOK, RoomNamed, [Next]_vars
    PROVE  RoomNamed'
  <1>1. CASE UNCHANGED vars
    BY <1>1 DEF vars, RoomNamed
  <1>2. ASSUME NEW q \in Requests, NEW u \in Users, Start(q, u)
        PROVE  RoomNamed'
    <2>1. PICK step \in Steps, r \in Rooms \cup {NoRoom}, v \in Users,
               kind \in {"none", "public", "private", "group"} :
            /\ Begin(q, step, u, r, v, kind)
            /\ step \notin {"store", "lobby", "delete", "list", "push", "chat"}
            /\ step \in {"pair", "gather"} => kind # "none"
            /\ \/ step = "count" /\ r = NoRoom
               \/ step # "count" /\ r \in Rooms /\ Live(r)
      BY <1>2, StartShape
    <2>2. /\ UNCHANGED room
          /\ req' = [req EXCEPT ![q] =
                [pc |-> step, by |-> u, room |-> r, who |-> v, kind |-> kind,
                 members |-> Nobody]]
      BY <2>1 DEF Begin
    <2>3. step # "count" => r \in Rooms /\ room[r].stage # "unused"
      BY <2>1 DEF Live
    <2> QED
      BY <2>1, <2>2, <2>3 DEF RoomNamed, TypeOK
  <1>3. ASSUME NEW q \in Requests, Abandoned(q)
        PROVE  RoomNamed'
    BY <1>3 DEF Abandoned, Answer, RoomNamed, TypeOK
  <1>4. ASSUME NEW q \in Requests, Continue(q)
        PROVE  RoomNamed'
    <2>1. CASE RoomsCounted(q)
      BY <2>1 DEF RoomsCounted, At, Goto, RoomNamed, TypeOK, Idle
    <2>2. CASE RoomStored(q)
      <3>1. PICK r \in Rooms :
              /\ room' = [room EXCEPT ![r] =
                    [stage |-> "live", creator |-> req[q].by, active |-> TRUE,
                     members |-> Add(Nobody, req[q].by)]]
              /\ req' = [req EXCEPT ![q].room = r, ![q].pc = "lobby"]
        BY <2>2 DEF RoomStored
      <3>2. /\ room'[r].stage # "unused"
            /\ \A w \in Rooms \ {r} : room'[w] = room[w]
        BY <3>1 DEF TypeOK
      <3>3. req[q] \in InFlight
        BY <2>2, InFlightType DEF RoomStored, At
      <3>4. req'[q].pc = "lobby" /\ req'[q].room = r
        BY <3>1, <3>3 DEF TypeOK, InFlight
      <3>5. \A p \in Requests \ {q} : req'[p] = req[p]
        BY <3>1 DEF TypeOK
      <3> QED  BY <3>2, <3>4, <3>5 DEF RoomNamed
    <2>3. CASE LobbyStored(q)
      BY <2>3 DEF LobbyStored, Answer, RoomNamed, TypeOK
    <2>4. CASE MembershipChecked(q)
      <3>1. UNCHANGED room /\ req[q] # Idle /\ req[q].pc = "check"
        BY <2>4 DEF MembershipChecked, At, Idle
      <3>2. CASE Goto(q, "push")
        BY <3>1, <3>2 DEF Goto, RoomNamed, TypeOK
      <3>3. CASE Answer(q)
        BY <3>1, <3>3 DEF Answer, RoomNamed, TypeOK
      <3> QED  BY <2>4, <3>2, <3>3 DEF MembershipChecked
    <2>5. CASE MemberPushed(q)
      <3>1. \A w \in Rooms : room'[w].stage = room[w].stage
        BY <2>5 DEF MemberPushed, TypeOK, RoomRecords
      <3> QED
        BY <2>5, <3>1 DEF MemberPushed, At, Goto, RoomNamed, TypeOK, Idle
    <2>6. CASE MemberListed(q)
      BY <2>6 DEF MemberListed, Answer, RoomNamed, TypeOK
    <2>7. CASE MemberPulled(q)
      <3>1. \A w \in Rooms : room'[w].stage = room[w].stage
        BY <2>7 DEF MemberPulled, TypeOK, RoomRecords
      <3> QED  BY <2>7, <3>1 DEF MemberPulled, Answer, RoomNamed, TypeOK
    <2>8. CASE SettingSaved(q)
      <3>1. \A w \in Rooms : room'[w].stage = room[w].stage
        BY <2>8 DEF SettingSaved, TypeOK, RoomRecords
      <3> QED  BY <2>8, <3>1 DEF SettingSaved, Answer, RoomNamed, TypeOK
    <2>9. CASE ChatsCleared(q)
      BY <2>9 DEF ChatsCleared, At, Goto, RoomNamed, TypeOK, Idle
    <2>10. CASE RoomDeleted(q)
      <3>1. \A w \in Rooms : room[w].stage # "unused"
                                 => room'[w].stage # "unused"
        BY <2>10 DEF RoomDeleted, TypeOK, RoomRecords
      <3> QED  BY <2>10, <3>1 DEF RoomDeleted, Answer, RoomNamed, TypeOK
    <2>11. CASE PrivateChatSought(q)
      BY <2>11 DEF PrivateChatSought, At, Goto, RoomNamed, TypeOK, Idle
    <2>12. CASE MembersGathered(q)
      BY <2>12 DEF MembersGathered, At, RoomNamed, TypeOK, Idle
    <2>13. CASE ChatStored(q)
      BY <2>13 DEF ChatStored, Answer, RoomNamed, TypeOK
    <2> QED
      BY <1>4, <2>1, <2>2, <2>3, <2>4, <2>5, <2>6, <2>7, <2>8, <2>9, <2>10,
         <2>11, <2>12, <2>13 DEF Continue
  <1> QED
    BY <1>1, <1>2, <1>3, <1>4 DEF Next

TypeInv == TypeOK /\ RoomNamed

(* The type is no invariant by itself: a step that writes to the room its  *)
(* request names needs that it names one.                                  *)
LEMMA TypeInvariant == Spec => []TypeInv
  <1>1. Init => TypeInv
    <2>1. Nobody \in Lists
      BY RegistryAssumption DEF Nobody, Lists
    <2> QED
      BY <2>1 DEF Init, TypeInv, TypeOK, RoomNamed, RoomRecords
  <1>2. TypeInv /\ [Next]_vars => TypeInv'
    BY TypeStep, NamesStep DEF TypeInv
  <1> QED  BY <1>1, <1>2, PTL DEF Spec

(* The documents and the requests in flight keep their types, whatever     *)
(* requests overlap and whatever calls fail (controller.ts 51-358).        *)
THEOREM TypeCorrect == Spec => []TypeOK
  <1>1. TypeInv => TypeOK
    BY DEF TypeInv
  <1> QED  BY <1>1, TypeInvariant, PTL

-----------------------------------------------------------------------------
(* The limit of the plan                                                   *)

(* The two counts are of finite sets.                                      *)
LEMMA Counts ==
    ASSUME NEW u
    PROVE  /\ IsFiniteSet(Owned(u)) /\ IsFiniteSet(Storing(u))
           /\ Cardinality(Owned(u)) \in Nat
           /\ Cardinality(Storing(u)) \in Nat
  <1>1. Owned(u) \subseteq Rooms /\ Storing(u) \subseteq Requests
    BY DEF Owned, Storing
  <1> QED
    BY <1>1, RegistryAssumption, FS_Subset, FS_CardinalityType

(* The same after a step.                                                  *)
LEMMA CountsNext ==
    ASSUME NEW u
    PROVE  /\ IsFiniteSet(Owned(u)') /\ IsFiniteSet(Storing(u)')
           /\ Cardinality(Owned(u)') \in Nat
           /\ Cardinality(Storing(u)') \in Nat
  <1>1. Owned(u)' \subseteq Rooms /\ Storing(u)' \subseteq Requests
    BY DEF Owned, Storing
  <1> QED
    BY <1>1, RegistryAssumption, FS_Subset, FS_CardinalityType

Overshoot(u) ==
    Cardinality(Owned(u)) + Cardinality(Storing(u))
        <= MaxRoom - 1 + Parallel(u)

LEMMA ParallelType ==
    ASSUME NEW u
    PROVE  Parallel(u) \in Nat /\ MaxRoom \in Nat \ {0}
  BY RegistryAssumption, FS_CardinalityType DEF Parallel

(* A patient user has one request in flight at most.                       *)
PatientAlone ==
    \A p, q \in Requests :
        /\ req[p] # Idle /\ req[q] # Idle
        /\ req[p].by = req[q].by /\ req[p].by \in Patient
        => p = q

(* What a request in flight makes of the requests.                         *)
LEMMA ContinueShape ==
    ASSUME TypeInv, NEW q \in Requests, Continue(q) \/ Abandoned(q)
    PROVE  /\ \A p \in Requests \ {q} : req'[p] = req[p]
           /\ \/ req'[q] = Idle
              \/ req[q] # Idle /\ req'[q].by = req[q].by
  <1>1. req[q].pc # "idle" => req[q] \in InFlight /\ req[q] # Idle
    BY InFlightType DEF TypeInv, Idle
  <1>2. req \in [Requests -> InFlight \cup {Idle}]
    BY DEF TypeInv, TypeOK
  <1>3. CASE \/ LobbyStored(q) \/ MemberListed(q) \/ MemberPulled(q)
            \/ SettingSaved(q) \/ RoomDeleted(q) \/ ChatStored(q)
            \/ Abandoned(q)
    BY <1>2, <1>3
    DEF LobbyStored, MemberListed, MemberPulled, SettingSaved, RoomDeleted,
        ChatStored, Abandoned, Answer
  <1>4. CASE \/ RoomsCounted(q) \/ MembershipChecked(q) \/ MemberPushed(q)
            \/ ChatsCleared(q) \/ PrivateChatSought(q)
    BY <1>1, <1>2, <1>4
    DEF RoomsCounted, MembershipChecked, MemberPushed, ChatsCleared,
        PrivateChatSought, At, Goto, Answer, InFlight
  <1>5. CASE RoomStored(q) \/ MembersGathered(q)
    BY <1>1, <1>2, <1>5 DEF RoomStored, MembersGathered, At, InFlight
  <1> QED  BY <1>3, <1>4, <1>5 DEF Continue

LEMMA PatientInvariant == Spec => []PatientAlone
  <1>1. Init => PatientAlone
    BY DEF Init, PatientAlone
  <1>2. TypeInv /\ PatientAlone /\ [Next]_vars => PatientAlone'
    <2> SUFFICES ASSUME TypeInv, PatientAlone, [Next]_vars
                 PROVE  PatientAlone'
      OBVIOUS
    <2>1. CASE UNCHANGED vars
      BY <2>1 DEF vars, PatientAlone
    <2>2. ASSUME NEW q \in Requests, NEW u \in Users, Start(q, u)
          PROVE  PatientAlone'
      <3>1. /\ u \in Patient => ~Busy(u)
            /\ req'[q].by = u
            /\ \A p \in Requests \ {q} : req'[p] = req[p]
        BY <2>2, StartShape DEF Begin, TypeInv, TypeOK
      <3> QED  BY <3>1 DEF PatientAlone, Busy
    <2>3. ASSUME NEW q \in Requests, Continue(q) \/ Abandoned(q)
          PROVE  PatientAlone'
      BY <2>3, ContinueShape DEF PatientAlone
    <2> QED  BY <2>1, <2>2, <2>3 DEF Next
  <1> QED  BY <1>1, <1>2, TypeInvariant, PTL DEF Spec

(* Where neither set of a user grows, the bound is kept.                   *)
LEMMA FewerKeep ==
    ASSUME NEW u, Overshoot(u), Owned(u)' \subseteq Owned(u),
           Storing(u)' \subseteq Storing(u)
    PROVE  Overshoot(u)'
  <1>1. /\ Cardinality(Owned(u)') <= Cardinality(Owned(u))
        /\ Cardinality(Storing(u)') <= Cardinality(Storing(u))
    BY Counts, FS_Subset
  <1> QED
    BY <1>1, ParallelType, Counts, CountsNext DEF Overshoot

(* A step other than the check of the plan and the storing of a room adds  *)
(* no room to a user and no request that is about to store one.            *)
LEMMA OthersAddNone ==
    ASSUME TypeInv, NEW q \in Requests, NEW u \in Users,
           \/ \E v \in Users : Start(q, v)
           \/ Continue(q) /\ ~RoomsCounted(q) /\ ~RoomStored(q)
           \/ Abandoned(q)
    PROVE  /\ Owned(u)' \subseteq Owned(u)
           /\ Storing(u)' \subseteq Storing(u)
  <1>1. /\ \A p \in Requests \ {q} : req'[p] = req[p]
        /\ req'[q].pc # "store"
    <2>1. ASSUME NEW v \in Users, Start(q, v)
          PROVE  /\ \A p \in Requests \ {q} : req'[p] = req[p]
                 /\ req'[q].pc # "store"
      BY <2>1, StartShape DEF Begin, TypeInv, TypeOK
    <2>2. CASE Answer(q)
      BY <2>2 DEF Answer, Idle, TypeInv, TypeOK
    <2>3. ASSUME NEW step \in Steps \ {"store"}, Goto(q, step),
                 req[q].pc # "idle"
          PROVE  /\ \A p \in Requests \ {q} : req'[p] = req[p]
                 /\ req'[q].pc # "store"
      <3>1. req[q] \in InFlight
        BY <2>3, InFlightType DEF TypeInv
      <3> QED  BY <2>3, <3>1 DEF Goto, InFlight, TypeInv, TypeOK
    <2>4. CASE MembersGathered(q)
      <3>1. req[q] \in InFlight
        BY <2>4, InFlightType DEF MembersGathered, At, TypeInv
      <3> QED
        BY <2>4, <3>1 DEF MembersGathered, InFlight, TypeInv, TypeOK
    <2>5. CASE Abandoned(q)
      BY <2>5, <2>2 DEF Abandoned
    <2>6. CASE Continue(q) /\ ~RoomsCounted(q) /\ ~RoomStored(q)
      <3>1. {"push", "list", "delete", "gather"} \subseteq Steps \ {"store"}
        BY DEF Steps
      <3>2. CASE MembershipChecked(q)
        BY <3>1, <3>2, <2>2, <2>3 DEF MembershipChecked, At
      <3>3. CASE MemberPushed(q)
        BY <3>1, <3>3, <2>3 DEF MemberPushed, At
      <3>4. CASE ChatsCleared(q)
        BY <3>1, <3>4, <2>3 DEF ChatsCleared, At
      <3>5. CASE PrivateChatSought(q)
        BY <3>1, <3>5, <2>3 DEF PrivateChatSought, At
      <3>6. CASE \/ LobbyStored(q) \/ MemberListed(q) \/ MemberPulled(q)
                 \/ SettingSaved(q) \/ RoomDeleted(q) \/ ChatStored(q)
        BY <3>6, <2>2 DEF LobbyStored, MemberListed, MemberPulled,
           SettingSaved, RoomDeleted, ChatStored
      <3> QED
        BY <2>6, <3>2, <3>3, <3>4, <3>5, <3>6, <2>4 DEF Continue
    <2> QED
      BY <2>1, <2>5, <2>6
  <1>2. \A r \in Rooms : /\ room'[r].creator = room[r].creator
                         /\ room'[r].stage = "live" => room[r].stage = "live"
    <2>1. CASE UNCHANGED room
      BY <2>1
    <2>2. CASE MemberPushed(q)
      BY <2>2 DEF MemberPushed, TypeInv, TypeOK, RoomRecords
    <2>3. CASE MemberPulled(q)
      BY <2>3 DEF MemberPulled, TypeInv, TypeOK, RoomRecords
    <2>4. CASE SettingSaved(q)
      BY <2>4 DEF SettingSaved, TypeInv, TypeOK, RoomRecords
    <2>5. CASE RoomDeleted(q)
      BY <2>5 DEF RoomDeleted, TypeInv, TypeOK, RoomRecords
    <2>6. CASE Abandoned(q) \/ \E v \in Users : Start(q, v)
      <3>1. UNCHANGED room
        BY <2>6, StartShape DEF Abandoned, Begin
      <3> QED  BY <3>1
    <2>7. CASE Continue(q) /\ ~RoomsCounted(q) /\ ~RoomStored(q)
      <3>1. \/ MemberPushed(q) \/ MemberPulled(q) \/ SettingSaved(q)
            \/ RoomDeleted(q) \/ UNCHANGED room
        BY <2>7 DEF Continue, LobbyStored, MembershipChecked, MemberListed,
           ChatsCleared, PrivateChatSought, MembersGathered, ChatStored
      <3> QED  BY <3>1, <2>1, <2>2, <2>3, <2>4, <2>5
    <2> QED  BY <2>6, <2>7
  <1> QED
    BY <1>1, <1>2 DEF Owned, Live, Storing, At

(* However many requests of a user overlap, and whatever calls fail, the   *)
(* user owns at most MaxRoom - 1 rooms more than there are requests        *)
(* (controller.ts 57-80).                                                  *)
THEOREM OvershootIsBounded == Spec => []OvershootBounded
  <1>1. Init => OvershootBounded
    <2> SUFFICES ASSUME Init, NEW u \in Users
                 PROVE  Overshoot(u)
      BY DEF OvershootBounded, Overshoot
    <2>1. Owned(u) = {}
      BY DEF Init, Owned, Live
    <2>2. Storing(u) = {}
      BY DEF Init, Storing, At, Idle
    <2> QED  BY <2>1, <2>2, ParallelType, FS_EmptySet DEF Overshoot
  <1>2. TypeInv /\ PatientAlone /\ OvershootBounded /\ [Next]_vars
        => OvershootBounded'
    <2> SUFFICES ASSUME TypeInv, PatientAlone, OvershootBounded, [Next]_vars,
                        NEW u \in Users
                 PROVE  Overshoot(u)'
      BY DEF OvershootBounded, Overshoot
    <2>0. Overshoot(u)
      BY DEF OvershootBounded, Overshoot
    <2>1. CASE UNCHANGED vars
      <3>1. Owned(u)' = Owned(u) /\ Storing(u)' = Storing(u)
        BY <2>1 DEF vars, Owned, Live, Storing, At
      <3> QED  BY <3>1, <2>0, FewerKeep
    <2>2. ASSUME NEW q \in Requests, RoomsCounted(q)
          PROVE  Overshoot(u)'
      <3>1. /\ req[q] \in InFlight
            /\ req' = [req EXCEPT ![q].pc = "store"]
            /\ Owned(u)' = Owned(u)
        BY <2>2, InFlightType
        DEF RoomsCounted, At, Goto, TypeInv, Owned, Live
      <3>2. CASE req[q].by = u
        <4>1. Cardinality(Owned(u)) < MaxRoom
          BY <2>2, <3>2 DEF RoomsCounted
        <4>2. Cardinality(Storing(u)') <= Parallel(u)
          <5>1. CASE u \in Patient
            <6>1. Storing(u)' \subseteq {q}
              BY <3>1, <3>2, <5>1
              DEF PatientAlone, Storing, At, Idle, TypeInv, TypeOK, InFlight
            <6>2. IsFiniteSet({q}) /\ Cardinality({q}) = 1
              BY FS_Singleton
            <6>3. Cardinality(Storing(u)') <= 1
              BY <6>1, <6>2, FS_Subset
            <6> QED  BY <5>1, <6>3 DEF Parallel
          <5>2. CASE u \notin Patient
            <6>1. Storing(u)' \subseteq Requests
              BY DEF Storing
            <6> QED
              BY <5>2, <6>1, RegistryAssumption, FS_Subset DEF Parallel
          <5> QED  BY <5>1, <5>2
        <4> QED
          BY <4>1, <4>2, <3>1, ParallelType, Counts, CountsNext DEF Overshoot
      <3>3. CASE req[q].by # u
        <4>1. Storing(u)' \subseteq Storing(u)
          BY <3>1, <3>3 DEF Storing, At, TypeInv, TypeOK, InFlight
        <4> QED  BY <4>1, <3>1, <2>0, FewerKeep
      <3> QED  BY <3>2, <3>3
    <2>3. ASSUME NEW q \in Requests, RoomStored(q)
          PROVE  Overshoot(u)'
      <3>1. PICK r \in Rooms :
              /\ room[r].stage = "unused"
              /\ room' = [room EXCEPT ![r] =
                    [stage |-> "live", creator |-> req[q].by, active |-> TRUE,
                     members |-> Add(Nobody, req[q].by)]]
              /\ req' = [req EXCEPT ![q].room = r, ![q].pc = "lobby"]
        BY <2>3 DEF RoomStored
      <3>2. req[q] \in InFlight /\ req[q].pc = "store"
        BY <2>3, InFlightType DEF RoomStored, At, TypeInv
      <3>3. /\ req'[q].pc = "lobby"
            /\ \A p \in Requests \ {q} : req'[p] = req[p]
        BY <3>1, <3>2 DEF TypeInv, TypeOK, InFlight
      <3>4. /\ room'[r].creator = req[q].by
            /\ room'[r].stage = "live"
            /\ \A w \in Rooms \ {r} : room'[w] = room[w]
        BY <3>1 DEF TypeInv, TypeOK
      <3>5. CASE req[q].by = u
        <4>1. r \notin Owned(u) /\ Owned(u)' = Owned(u) \cup {r}
          BY <3>1, <3>4, <3>5 DEF Owned, Live
        <4>2. q \in Storing(u) /\ Storing(u)' = Storing(u) \ {q}
          BY <3>2, <3>3, <3>5 DEF Storing, At
        <4>3. Cardinality(Owned(u)') = Cardinality(Owned(u)) + 1
          BY <4>1, Counts, FS_AddElement
        <4>4. Cardinality(Storing(u)') = Cardinality(Storing(u)) - 1
          BY <4>2, Counts, FS_RemoveElement
        <4> QED
          BY <4>3, <4>4, <2>0, ParallelType, Counts DEF Overshoot
      <3>6. CASE req[q].by # u
        <4>1. Owned(u)' \subseteq Owned(u)
          BY <3>1, <3>4, <3>6 DEF Owned, Live
        <4>2. Storing(u)' \subseteq Storing(u)
          BY <3>3 DEF Storing, At
        <4> QED  BY <4>1, <4>2, <2>0, FewerKeep
      <3> QED  BY <3>5, <3>6
    <2>4. ASSUME NEW q \in Requests,
                 \/ \E v \in Users : Start(q, v)
                 \/ Continue(q) /\ ~RoomsCounted(q) /\ ~RoomStored(q)
                 \/ Abandoned(q)
          PROVE  Overshoot(u)'
      BY <2>0, <2>4, OthersAddNone, FewerKeep
    <2> QED
      BY <2>1, <2>2, <2>3, <2>4 DEF Next
  <1> QED  BY <1>1, <1>2, TypeInvariant, PatientInvariant, PTL DEF Spec

(* A user whose requests do not overlap never owns more rooms than the plan *)
(* allows, however the requests of others overlap (controller.ts 57-80).   *)
THEOREM PlanIsKept == Spec => []OwnedWithinPlan
  <1>1. OvershootBounded => OwnedWithinPlan
    <2> SUFFICES ASSUME OvershootBounded, NEW u \in Patient
                 PROVE  Cardinality(Owned(u)) <= MaxRoom
      BY DEF OwnedWithinPlan
    <2>1. Cardinality(Owned(u)) + Cardinality(Storing(u)) <= MaxRoom
      BY RegistryAssumption DEF OvershootBounded, Parallel
    <2> QED  BY <2>1, Counts, ParallelType
  <1> QED  BY <1>1, OvershootIsBounded, PTL

-----------------------------------------------------------------------------
(* The members of a room                                                   *)

(* A patient user who is about to become a member is not one.              *)
PushesNew ==
    \A q \in Requests :
        At(q, "push") /\ req[q].by \in Patient
            => room[req[q].room].members[req[q].by] = 0

(* No list of members changes and no request comes to the push.            *)
LEMMA OthersKeepMembers ==
    ASSUME TypeInv, MembersOnce, PushesNew, UNCHANGED room, NEW q \in Requests,
           \A p \in Requests \ {q} : req'[p] = req[p],
           req'[q].pc # "push"
    PROVE  MembersOnce' /\ PushesNew'
  BY DEF MembersOnce, PushesNew, At

(* Every step of a request in flight keeps members and pushes.             *)
LEMMA ContinueKeepsMembers ==
    ASSUME TypeInv, PatientAlone, MembersOnce, PushesNew,
           NEW q \in Requests, Continue(q)
    PROVE  MembersOnce' /\ PushesNew'
  <1>0. /\ req \in [Requests -> InFlight \cup {Idle}]
        /\ room \in [Rooms -> RoomRecords]
        /\ req[q].pc # "idle" => req[q] \in InFlight
        /\ \A p \in Requests \ {q} : req'[p] = req[p]
    BY ContinueShape, InFlightType DEF TypeInv, TypeOK
  <1>1. CASE \/ RoomsCounted(q) \/ LobbyStored(q) \/ MemberListed(q)
            \/ ChatsCleared(q) \/ PrivateChatSought(q) \/ MembersGathered(q)
            \/ ChatStored(q)
    <2>1. UNCHANGED room /\ req'[q].pc # "push"
      BY <1>0, <1>1
      DEF RoomsCounted, LobbyStored, MemberListed, ChatsCleared,
          PrivateChatSought, MembersGathered, ChatStored, At, Goto, Answer,
          InFlight, Idle
    <2> QED  BY <1>0, <2>1, OthersKeepMembers
  <1>2. CASE MembershipChecked(q)
    <2>1. UNCHANGED room /\ req[q] \in InFlight
      BY <1>0, <1>2 DEF MembershipChecked, At
    <2>2. CASE room[req[q].room].members[req[q].by] = 0
      <3>1. /\ req'[q].pc = "push"
            /\ req'[q].room = req[q].room /\ req'[q].by = req[q].by
        BY <1>0, <1>2, <2>1, <2>2 DEF MembershipChecked, Goto, InFlight
      <3> QED  BY <1>0, <2>1, <2>2, <3>1 DEF MembersOnce, PushesNew, At
    <2>3. CASE room[req[q].room].members[req[q].by] # 0
      <3>1. req'[q].pc # "push"
        BY <1>0, <1>2, <2>3 DEF MembershipChecked, Answer, Idle
      <3> QED  BY <1>0, <2>1, <3>1, OthersKeepMembers
    <2> QED  BY <2>2, <2>3
  <1>3. CASE RoomStored(q)
    <2>1. PICK r \in Rooms :
            /\ room[r].stage = "unused"
            /\ room' = [room EXCEPT ![r] =
                  [stage |-> "live", creator |-> req[q].by, active |-> TRUE,
                   members |-> Add(Nobody, req[q].by)]]
            /\ req' = [req EXCEPT ![q].room = r, ![q].pc = "lobby"]
      BY <1>3 DEF RoomStored
    <2>2. req[q] \in InFlight
      BY <1>0, <1>3 DEF RoomStored, At
    <2>3. /\ req'[q].pc = "lobby"
          /\ room'[r].members = Add(Nobody, req[q].by)
          /\ \A w \in Rooms \ {r} : room'[w] = room[w]
      BY <1>0, <2>1, <2>2 DEF InFlight
    <2>4. \A u \in Users : Add(Nobody, req[q].by)[u] <= 1
      BY <2>2, RegistryAssumption DEF Add, Nobody, InFlight
    <2>5. MembersOnce'
      BY <2>3, <2>4, RegistryAssumption DEF MembersOnce
    <2>6. \A p \in Requests : At(p, "push") =>
            req[p].room \in Rooms /\ req[p].room # r
      BY <2>1 DEF TypeInv, RoomNamed, At, Idle
    <2>7. PushesNew'
      BY <1>0, <2>3, <2>6 DEF PushesNew, At
    <2> QED  BY <2>5, <2>7
  <1>4. CASE MemberPushed(q)
    <2> DEFINE r == req[q].room
               v == req[q].by
    <2>1. /\ At(q, "push") /\ req[q] \in InFlight /\ r \in Rooms /\ v \in Users
          /\ req'[q].pc # "push"
      BY <1>0, <1>4
      DEF MemberPushed, At, Goto, InFlight, TypeInv, RoomNamed, Idle
    <2>2. /\ room'[r].members = Add(room[r].members, v)
          /\ \A w \in Rooms \ {r} : room'[w] = room[w]
          /\ room[r].members \in Lists
      BY <1>0, <1>4, <2>1 DEF MemberPushed, RoomRecords
    <2>3. \A u \in Users \ {v} : room'[r].members[u] = room[r].members[u]
      BY <2>2 DEF Add, Lists
    <2>4. v \in Patient => room'[r].members[v] <= 1
      BY <2>1, <2>2, RegistryAssumption DEF PushesNew, Add, Lists
    <2> HIDE DEF r, v
    <2>5. MembersOnce'
      BY <2>1, <2>2, <2>3, <2>4, RegistryAssumption DEF MembersOnce
    <2>6. \A p \in Requests \ {q} :
            At(p, "push") /\ req[p].by \in Patient =>
               /\ req[p].by \in Users \ {v} /\ req[p].room \in Rooms
      BY <1>0, <2>1, RegistryAssumption
      DEF v, PatientAlone, TypeInv, RoomNamed, At, Idle, InFlight
    <2>7. PushesNew'
      BY <1>0, <2>1, <2>2, <2>3, <2>6 DEF PushesNew, At
    <2> QED  BY <2>5, <2>7
  <1>5. CASE MemberPulled(q) \/ SettingSaved(q) \/ RoomDeleted(q)
    <2>1. req'[q].pc # "push"
      BY <1>0, <1>5 DEF MemberPulled, SettingSaved, RoomDeleted, Answer, Idle
    <2>2. \A w \in Rooms, u \in Users :
            \/ room'[w].members[u] = room[w].members[u]
            \/ room'[w].members[u] = 0
      <3>1. /\ Nobody \in Lists /\ \A u \in Users : Nobody[u] = 0
            /\ \A w \in Rooms : room[w] \in RoomRecords
        BY <1>0, RegistryAssumption DEF Nobody, Lists
      <3>2. CASE MemberPulled(q)
        <4>1. \A w \in Rooms :
                \/ room'[w].members = room[w].members
                \/ room'[w].members = Drop(room[w].members, req[q].who)
          BY <1>0, <3>1, <3>2 DEF MemberPulled, RoomRecords
        <4> QED  BY <3>1, <4>1 DEF Drop, RoomRecords, Lists
      <3>3. CASE SettingSaved(q)
        BY <1>0, <3>1, <3>3 DEF SettingSaved, RoomRecords
      <3>4. CASE RoomDeleted(q)
        <4>1. \A w \in Rooms : \/ room'[w].members = room[w].members
                               \/ room'[w].members = Nobody
          BY <1>0, <3>1, <3>4 DEF RoomDeleted, RoomRecords
        <4> QED  BY <3>1, <4>1
      <3> QED  BY <1>5, <3>2, <3>3, <3>4
    <2>3. \A p \in Requests : At(p, "push") =>
            req[p].room \in Rooms /\ req[p].by \in Users
      BY <1>0 DEF TypeInv, RoomNamed, At, Idle, InFlight
    <2>4. MembersOnce'
      BY <2>2, RegistryAssumption DEF MembersOnce
    <2>5. PushesNew'
      BY <1>0, <2>1, <2>2, <2>3 DEF PushesNew, At
    <2> QED  BY <2>4, <2>5
  <1> QED  BY <1>1, <1>2, <1>3, <1>4, <1>5 DEF Continue

(* A user whose requests do not overlap is never twice in the list of a    *)
(* room's members, although the check and the push are separate calls and  *)
(* the room may change between them (controller.ts 134, 147).              *)
THEOREM MembershipOnce == Spec => []MembersOnce
  <1>1. Init => MembersOnce /\ PushesNew
    BY RegistryAssumption
    DEF Init, MembersOnce, PushesNew, Nobody, At, Idle
  <1>2. /\ TypeInv /\ PatientAlone /\ MembersOnce /\ PushesNew /\ [Next]_vars
        => (MembersOnce /\ PushesNew)'
    <2> SUFFICES ASSUME TypeInv, PatientAlone, MembersOnce, PushesNew,
                        [Next]_vars
                 PROVE  MembersOnce' /\ PushesNew'
      OBVIOUS
    <2>1. CASE UNCHANGED vars
      BY <2>1 DEF vars, MembersOnce, PushesNew, At
    <2>2. ASSUME NEW q \in Requests, NEW u \in Users, Start(q, u)
          PROVE  MembersOnce' /\ PushesNew'
      <3>1. /\ UNCHANGED room
            /\ req'[q].pc # "push"
            /\ \A p \in Requests \ {q} : req'[p] = req[p]
        BY <2>2, StartShape DEF Begin, TypeInv, TypeOK
      <3> QED  BY <3>1, OthersKeepMembers
    <2>3. ASSUME NEW q \in Requests, Abandoned(q)
          PROVE  MembersOnce' /\ PushesNew'
      <3>1. /\ UNCHANGED room
            /\ req'[q].pc # "push"
            /\ \A p \in Requests \ {q} : req'[p] = req[p]
        BY <2>3 DEF Abandoned, Answer, Idle, TypeInv, TypeOK
      <3> QED  BY <3>1, OthersKeepMembers
    <2> QED  BY <2>1, <2>2, <2>3, ContinueKeepsMembers DEF Next
  <1> QED  BY <1>1, <1>2, TypeInvariant, PatientInvariant, PTL DEF Spec

-----------------------------------------------------------------------------
(* The lobby of a room                                                     *)

(* A chat names a room that was stored.                                    *)
ChatsNamed == \A k \in Stored : room[chat[k].room].stage # "unused"

(* A room is created, and deleted, by its creator.                         *)
Deleters ==
    \A q \in Requests, r \in Rooms :
        req[q].pc \in {"lobby", "clear", "delete"} /\ req[q].room = r =>
            room[r].creator = req[q].by

(* The creator acted on the room before its creation had ended.            *)
Hasty(r) == <<r, room[r].creator>> \in early

(* A room has one request that is about to store its lobby, and finds it   *)
(* there unless its creator was hasty: whoever else names the room by then *)
(* is early.                                                               *)
SoleCreator ==
    \A q \in Requests, r \in Rooms : At(q, "lobby") /\ req[q].room = r =>
        /\ Hasty(r) \/ Live(r)
        /\ \A p \in Requests \ {q} : req[p] # Idle /\ req[p].room = r =>
              req[p].pc # "lobby" /\ <<r, req[p].by>> \in early

(* A request about to delete a room finds no lobby of it.                  *)
ClearedFirst ==
    \A q \in Requests, r \in Rooms : At(q, "delete") /\ req[q].room = r =>
        \/ Hasty(r)
        \/ \A k \in Stored : chat[k].room = r => chat[k].kind # "lobby"

Lobbies ==
    /\ ChatsNamed /\ Deleters /\ SoleCreator /\ ClearedFirst /\ LobbyHasRoom

LobbyInv == TypeInv /\ Lobbies

(* What the invariant says of the rooms of chats.                          *)
LEMMA ChatRooms ==
    ASSUME TypeInv, NEW k \in Stored
    PROVE  /\ k \in ChatIds /\ chat[k] \in Chats
           /\ chat[k].room \in Rooms
  BY DEF TypeInv, TypeOK, Stored, Chats

(* A request that begins to delete a room is its creator's.                *)
LEMMA DeletionStart ==
    ASSUME TypeInv, NEW q \in Requests, NEW u \in Users, Start(q, u),
           NEW r \in Rooms, req'[q].pc = "clear", req'[q].room = r
    PROVE  room[r].creator = u
  <1>1. ASSUME NEW s, NEW w, NEW x, NEW k, Begin(q, s, u, w, x, k)
        PROVE  s = "clear" /\ w = r
    <2>1. req'[q] = [pc |-> s, by |-> u, room |-> w, who |-> x, kind |-> k,
                     members |-> Nobody]
      BY <1>1 DEF Begin, TypeInv, TypeOK
    <2> QED  BY <2>1
  <1>2. ~Create(q, u)
    BY <1>1 DEF Create
  <1>3. \A w \in Rooms : ~Join(q, u, w) /\ ~Leave(q, u, w)
    BY <1>1 DEF Join, Leave
  <1>4. \A w \in Rooms : ~ChangeRoomSetting(q, u, w)
    BY <1>1 DEF ChangeRoomSetting
  <1>5. \A w \in Rooms, x \in Users : ~Remove(q, u, w, x)
    BY <1>1 DEF Remove
  <1>6. \A w \in Rooms, x \in Users, k \in {"public", "private", "group"} :
          ~CreateChat(q, u, w, x, k)
    BY <1>1 DEF CreateChat
  <1>7. PICK w \in Rooms : DeleteRoom(q, u, w)
    BY <1>2, <1>3, <1>4, <1>5, <1>6 DEF Start
  <1> QED  BY <1>1, <1>7 DEF DeleteRoom

(* A request that begins is early if the room it names is being created.   *)
LEMMA StartKeepsLobbies ==
    ASSUME LobbyInv, NEW q \in Requests, NEW u \in Users, Start(q, u)
    PROVE  Lobbies'
  <1>1. PICK step \in Steps, r \in Rooms \cup {NoRoom}, v \in Users,
             kind \in {"none", "public", "private", "group"} :
          /\ Begin(q, step, u, r, v, kind)
          /\ step \notin {"store", "lobby", "delete", "list", "push", "chat"}
    BY StartShape
  <1>2. /\ UNCHANGED <<room, chat>>
        /\ req[q] = Idle
        /\ early \subseteq early'
        /\ Touched(r, {"lobby"}) => <<r, u>> \in early'
        /\ req' = [req EXCEPT ![q] =
              [pc |-> step, by |-> u, room |-> r, who |-> v, kind |-> kind,
               members |-> Nobody]]
    BY <1>1 DEF Begin
  <1>3. /\ req'[q].pc = step /\ req'[q].room = r /\ req'[q].by = u
        /\ \A p \in Requests \ {q} : req'[p] = req[p]
    BY <1>2 DEF LobbyInv, TypeInv, TypeOK
  <1>4. /\ \A w \in Rooms : Hasty(w) => Hasty(w)'
        /\ \A w \in Rooms : Live(w)' = Live(w)
        /\ Stored' = Stored
    BY <1>2 DEF Hasty, Live, Stored
  <1>5. SoleCreator'
    <2> SUFFICES ASSUME NEW p \in Requests, NEW w \in Rooms,
                        At(p, "lobby")', req'[p].room = w
                 PROVE  /\ Hasty(w)' \/ Live(w)'
                        /\ \A o \in Requests \ {p} :
                              req'[o] # Idle /\ req'[o].room = w =>
                                 /\ req'[o].pc # "lobby"
                                 /\ <<w, req'[o].by>> \in early'
      BY DEF SoleCreator
    <2>1. p # q /\ req'[p] = req[p] /\ At(p, "lobby")
      BY <1>1, <1>3 DEF At
    <2>2. /\ Hasty(w) \/ Live(w)
          /\ \A o \in Requests \ {p} : req[o] # Idle /\ req[o].room = w =>
                req[o].pc # "lobby" /\ <<w, req[o].by>> \in early
      BY <2>1 DEF LobbyInv, Lobbies, SoleCreator
    <2>3. r = w => <<w, u>> \in early'
      BY <1>2, <2>1 DEF Touched, At
    <2> QED  BY <1>1, <1>2, <1>3, <1>4, <2>1, <2>2, <2>3
  <1>6. ClearedFirst'
    BY <1>1, <1>2, <1>3, <1>4 DEF ClearedFirst, LobbyInv, Lobbies, At
  <1>7. LobbyHasRoom'
    BY <1>2, <1>4 DEF LobbyHasRoom, LobbyInv, Lobbies, Live
  <1>8. ChatsNamed'
    BY <1>2, <1>4 DEF ChatsNamed, LobbyInv, Lobbies
  <1>9. Deleters'
    <2>1. ASSUME NEW w \in Rooms, req'[q].pc = "clear", req'[q].room = w
          PROVE  room'[w].creator = req'[q].by
      BY <1>2, <1>3, <2>1, DeletionStart DEF LobbyInv
    <2> QED
      BY <1>1, <1>2, <1>3, <2>1 DEF Deleters, LobbyInv, Lobbies
  <1> QED  BY <1>5, <1>6, <1>7, <1>8, <1>9 DEF Lobbies

(* A step that neither stores nor deletes a document, nor moves a request  *)
(* to one of the steps of the invariant.                                   *)
Quiet(q) ==
    /\ \A p \in Requests \ {q} : req'[p] = req[p]
    /\ \/ req'[q] = Idle
       \/ /\ req'[q].room = req[q].room /\ req'[q].by = req[q].by
          /\ req[q] # Idle
    /\ req'[q].pc \notin {"lobby", "clear", "delete"}
    /\ early' = early
    /\ \A r \in Rooms : /\ room'[r].stage = room[r].stage
                        /\ room'[r].creator = room[r].creator
    /\ Stored' \subseteq Stored
    /\ \A k \in Stored' : /\ chat'[k].room = chat[k].room
                          /\ chat'[k].kind = chat[k].kind

LEMMA QuietKeepsLobbies ==
    ASSUME LobbyInv, NEW q \in Requests, Quiet(q)
    PROVE  Lobbies'
  <1>1. \A r \in Rooms : Hasty(r)' = Hasty(r) /\ Live(r)' = Live(r)
    BY DEF Hasty, Live, Quiet
  <1>2. SoleCreator'
    <2> SUFFICES ASSUME NEW p \in Requests, NEW r \in Rooms,
                        At(p, "lobby")', req'[p].room = r
                 PROVE  /\ Hasty(r)' \/ Live(r)'
                        /\ \A o \in Requests \ {p} :
                              req'[o] # Idle /\ req'[o].room = r =>
                                 /\ req'[o].pc # "lobby"
                                 /\ <<r, req'[o].by>> \in early'
      BY DEF SoleCreator
    <2>1. p # q /\ req'[p] = req[p] /\ At(p, "lobby")
      BY DEF At, Quiet
    <2>2. /\ Hasty(r) \/ Live(r)
          /\ \A o \in Requests \ {p} : req[o] # Idle /\ req[o].room = r =>
                req[o].pc # "lobby" /\ <<r, req[o].by>> \in early
      BY <2>1 DEF LobbyInv, Lobbies, SoleCreator
    <2> QED  BY <1>1, <2>1, <2>2 DEF Quiet
  <1>3. ClearedFirst'
    BY <1>1 DEF ClearedFirst, LobbyInv, Lobbies, At, Quiet
  <1>4. /\ \A k \in Stored' : k \in Stored /\ chat[k].room \in Rooms
        /\ LobbyHasRoom /\ ChatsNamed
    BY ChatRooms DEF Quiet, LobbyInv, Lobbies
  <1>5. LobbyHasRoom'
    <2> SUFFICES ASSUME NEW k \in Stored', chat'[k].kind = "lobby"
                 PROVE  Live(chat[k].room)' \/ Hasty(chat[k].room)'
      BY DEF LobbyHasRoom, Hasty, Quiet
    <2> QED  BY <1>1, <1>4 DEF LobbyHasRoom, Hasty, Quiet
  <1>6. ChatsNamed'
    BY <1>4 DEF ChatsNamed, Quiet
  <1>7. Deleters'
    BY DEF Deleters, LobbyInv, Lobbies, Quiet
  <1> QED  BY <1>2, <1>3, <1>5, <1>6, <1>7 DEF Lobbies

(* A room that is stored.                                                  *)
LEMMA RoomStoredKeepsLobbies ==
    ASSUME LobbyInv, NEW q \in Requests, RoomStored(q)
    PROVE  Lobbies'
  <1>0. /\ req \in [Requests -> InFlight \cup {Idle}]
        /\ room \in [Rooms -> RoomRecords]
        /\ TypeInv
    BY DEF LobbyInv, TypeInv, TypeOK
  <1>1. PICK r \in Rooms :
          /\ room[r].stage = "unused"
          /\ room' = [room EXCEPT ![r] =
                [stage |-> "live", creator |-> req[q].by, active |-> TRUE,
                 members |-> Add(Nobody, req[q].by)]]
          /\ req' = [req EXCEPT ![q].room = r, ![q].pc = "lobby"]
    BY DEF RoomStored
  <1>2. req[q] \in InFlight /\ UNCHANGED <<chat, early>> /\ Stored' = Stored
    <2>1. req[q].pc = "store" /\ UNCHANGED <<chat, early>>
      BY DEF RoomStored, At
    <2> QED  BY <1>0, <2>1 DEF Stored, Idle
  <1>3. /\ req'[q].pc = "lobby" /\ req'[q].room = r /\ req'[q].by = req[q].by
        /\ \A p \in Requests \ {q} : req'[p] = req[p]
    BY <1>0, <1>1, <1>2 DEF InFlight
  <1>4. /\ room'[r].stage = "live" /\ room'[r].creator = req[q].by
        /\ \A w \in Rooms \ {r} : room'[w] = room[w]
    BY <1>0, <1>1
  <1>5. \A p \in Requests \ {q} : req[p] # Idle => req[p].room # r
    BY <1>0, <1>1, RegistryAssumption DEF TypeInv, RoomNamed
  <1>6. \A k \in Stored : chat[k].room \in Rooms \ {r}
    BY <1>0, <1>1, ChatRooms DEF LobbyInv, Lobbies, ChatsNamed
  <1>7. \A w \in Rooms \ {r} : Hasty(w)' = Hasty(w) /\ Live(w)' = Live(w)
    BY <1>2, <1>4 DEF Hasty, Live
  <1>8. SoleCreator'
    <2> SUFFICES ASSUME NEW p \in Requests, NEW w \in Rooms,
                        At(p, "lobby")', req'[p].room = w
                 PROVE  /\ Hasty(w)' \/ Live(w)'
                        /\ \A o \in Requests \ {p} :
                              req'[o] # Idle /\ req'[o].room = w =>
                                 /\ req'[o].pc # "lobby"
                                 /\ <<w, req'[o].by>> \in early'
      BY DEF SoleCreator
    <2>1. CASE p = q
      BY <2>1, <1>3, <1>4, <1>5 DEF Live
    <2>2. CASE p # q
      <3>1. At(p, "lobby") /\ req'[p] = req[p] /\ req[p] # Idle
        BY <2>2, <1>3 DEF At, Idle
      <3>2. w # r
        BY <2>2, <3>1, <1>5
      <3>3. /\ Hasty(w) \/ Live(w)
            /\ \A o \in Requests \ {p} : req[o] # Idle /\ req[o].room = w =>
                  req[o].pc # "lobby" /\ <<w, req[o].by>> \in early
        BY <3>1 DEF LobbyInv, Lobbies, SoleCreator
      <3> QED  BY <1>2, <1>3, <1>7, <3>1, <3>2, <3>3
    <2> QED  BY <2>1, <2>2
  <1>9. ClearedFirst'
    <2> SUFFICES ASSUME NEW p \in Requests, NEW w \in Rooms,
                        At(p, "delete")', req'[p].room = w
                 PROVE  \/ Hasty(w)'
                        \/ \A k \in Stored : chat[k].room = w =>
                              chat[k].kind # "lobby"
      BY <1>2 DEF ClearedFirst
    <2>1. p # q /\ At(p, "delete") /\ req'[p] = req[p] /\ req[p] # Idle
      BY <1>3 DEF At, Idle
    <2>2. w # r
      BY <2>1, <1>5
    <2> QED
      BY <2>1, <2>2, <1>7 DEF LobbyInv, Lobbies, ClearedFirst
  <1>10. LobbyHasRoom'
    BY <1>2, <1>6, <1>7 DEF LobbyHasRoom, LobbyInv, Lobbies, Hasty
  <1>11. ChatsNamed'
    BY <1>2, <1>4, <1>6 DEF ChatsNamed, LobbyInv, Lobbies
  <1>12. Deleters'
    <2> SUFFICES ASSUME NEW p \in Requests, NEW w \in Rooms,
                        req'[p].pc \in {"lobby", "clear", "delete"},
                        req'[p].room = w
                 PROVE  room'[w].creator = req'[p].by
      BY DEF Deleters
    <2>1. CASE p = q
      BY <2>1, <1>3, <1>4
    <2>2. CASE p # q
      BY <2>2, <1>3, <1>4, <1>5 DEF LobbyInv, Lobbies, Deleters, Idle
    <2> QED  BY <2>1, <2>2
  <1> QED  BY <1>8, <1>9, <1>10, <1>11, <1>12 DEF Lobbies

(* A lobby that is stored.  A deletion of its room that is under way by    *)
(* then was begun too early.                                               *)
LEMMA LobbyStoredKeepsLobbies ==
    ASSUME LobbyInv, NEW q \in Requests, LobbyStored(q)
    PROVE  Lobbies'
  <1>0. /\ req \in [Requests -> InFlight \cup {Idle}]
        /\ chat \in [ChatIds -> Chats \cup {NoChat}]
        /\ TypeInv
    BY DEF LobbyInv, TypeInv, TypeOK
  <1> DEFINE r == req[q].room
  <1>1. PICK k \in ChatIds \ Stored :
          chat' = [chat EXCEPT ![k] =
             [room |-> r, kind |-> "lobby", members |-> Add(Nobody, req[q].by)]]
    BY DEF LobbyStored
  <1>2. /\ At(q, "lobby") /\ UNCHANGED <<room, early>>
        /\ req'[q] = Idle
        /\ \A p \in Requests \ {q} : req'[p] = req[p]
    BY <1>0 DEF LobbyStored, Answer
  <1>3. r \in Rooms /\ room[r].stage # "unused"
    BY <1>0, <1>2 DEF TypeInv, RoomNamed, At, Idle
  <1>4. /\ Hasty(r) \/ Live(r)
        /\ \A p \in Requests \ {q} : req[p] # Idle /\ req[p].room = r =>
              <<r, req[p].by>> \in early
    BY <1>2, <1>3 DEF LobbyInv, Lobbies, SoleCreator
  <1>5. /\ Stored' \subseteq Stored \cup {k}
        /\ \A j \in Stored' \ {k} : chat'[j] = chat[j]
        /\ chat'[k].room = r
    BY <1>0, <1>1 DEF Stored
  <1>6. \A w \in Rooms : Hasty(w)' = Hasty(w) /\ Live(w)' = Live(w)
    BY <1>2 DEF Hasty, Live
  <1> HIDE DEF r
  <1>7. SoleCreator'
    BY <1>2, <1>6 DEF SoleCreator, LobbyInv, Lobbies, At, Idle
  <1>8. ClearedFirst'
    <2> SUFFICES ASSUME NEW p \in Requests, NEW w \in Rooms,
                        At(p, "delete")', req'[p].room = w, ~Hasty(w),
                        NEW j \in Stored', chat'[j].room = w
                 PROVE  chat'[j].kind # "lobby"
      BY <1>6 DEF ClearedFirst
    <2>1. p # q /\ req'[p] = req[p] /\ req[p] # Idle /\ At(p, "delete")
      BY <1>2 DEF At, Idle
    <2>2. room[w].creator = req[p].by
      BY <2>1 DEF LobbyInv, Lobbies, Deleters, At
    <2>3. w # r
      BY <1>4, <2>1, <2>2 DEF Hasty
    <2>4. j \in Stored /\ chat'[j] = chat[j]
      BY <2>3, <1>5
    <2> QED  BY <2>1, <2>4 DEF LobbyInv, Lobbies, ClearedFirst
  <1>9. LobbyHasRoom'
    <2> SUFFICES ASSUME NEW j \in Stored', chat'[j].kind = "lobby"
                 PROVE  Live(chat[j].room)' \/ Hasty(chat[j].room)'
      BY DEF LobbyHasRoom, Hasty
    <2>1. CASE j = k
      BY <2>1, <1>3, <1>4, <1>5, <1>6
    <2>2. CASE j # k
      <3>1. j \in Stored /\ chat'[j] = chat[j] /\ chat[j].room \in Rooms
        BY <2>2, <1>0, <1>5, ChatRooms
      <3> QED  BY <3>1, <1>6 DEF LobbyHasRoom, LobbyInv, Lobbies, Hasty
    <2> QED  BY <2>1, <2>2
  <1>10. ChatsNamed'
    BY <1>2, <1>3, <1>5 DEF ChatsNamed, LobbyInv, Lobbies
  <1>11. Deleters'
    BY <1>2 DEF Deleters, LobbyInv, Lobbies, Idle
  <1> QED  BY <1>7, <1>8, <1>9, <1>10, <1>11 DEF Lobbies

(* A room's chats that are cleared.                                        *)
LEMMA ChatsClearedKeepsLobbies ==
    ASSUME LobbyInv, NEW q \in Requests, ChatsCleared(q)
    PROVE  Lobbies'
  <1>0. /\ req \in [Requests -> InFlight \cup {Idle}]
        /\ TypeInv
    BY DEF LobbyInv, TypeInv, TypeOK
  <1>1. /\ req[q].pc = "clear" /\ req[q] \in InFlight /\ req[q] # Idle
        /\ UNCHANGED <<room, early>>
        /\ req' = [req EXCEPT ![q].pc = "delete"]
    BY <1>0, InFlightType DEF ChatsCleared, At, Goto, Idle
  <1>2. /\ req'[q].pc = "delete" /\ req'[q].room = req[q].room
        /\ req'[q].by = req[q].by
        /\ \A p \in Requests \ {q} : req'[p] = req[p]
    BY <1>0, <1>1 DEF InFlight
  <1>3. \A k \in Stored' : /\ k \in Stored /\ chat'[k] = chat[k]
                          /\ chat[k].room # req[q].room
    BY DEF ChatsCleared, ChatsOf, Stored
  <1>4. \A w \in Rooms : Hasty(w)' = Hasty(w) /\ Live(w)' = Live(w)
    BY <1>1 DEF Hasty, Live
  <1>5. SoleCreator'
    <2> SUFFICES ASSUME NEW p \in Requests, NEW w \in Rooms,
                        At(p, "lobby")', req'[p].room = w
                 PROVE  /\ Hasty(w)' \/ Live(w)'
                        /\ \A o \in Requests \ {p} :
                              req'[o] # Idle /\ req'[o].room = w =>
                                 /\ req'[o].pc # "lobby"
                                 /\ <<w, req'[o].by>> \in early'
      BY DEF SoleCreator
    <2>1. p # q /\ req'[p] = req[p] /\ At(p, "lobby")
      BY <1>2 DEF At
    <2>2. /\ Hasty(w) \/ Live(w)
          /\ \A o \in Requests \ {p} : req[o] # Idle /\ req[o].room = w =>
                req[o].pc # "lobby" /\ <<w, req[o].by>> \in early
      BY <2>1 DEF LobbyInv, Lobbies, SoleCreator
    <2> QED  BY <1>1, <1>2, <1>4, <2>1, <2>2
  <1>6. ClearedFirst'
    BY <1>2, <1>3, <1>4 DEF ClearedFirst, LobbyInv, Lobbies, At
  <1>7. LobbyHasRoom'
    <2> SUFFICES ASSUME NEW k \in Stored', chat'[k].kind = "lobby"
                 PROVE  Live(chat[k].room)' \/ Hasty(chat[k].room)'
      BY <1>3 DEF LobbyHasRoom, Hasty
    <2>1. k \in Stored /\ chat[k].room \in Rooms
      BY <1>0, <1>3, ChatRooms
    <2> QED  BY <1>3, <1>4, <2>1 DEF LobbyHasRoom, LobbyInv, Lobbies, Hasty
  <1>8. ChatsNamed'
    BY <1>1, <1>3 DEF ChatsNamed, LobbyInv, Lobbies
  <1>9. Deleters'
    BY <1>1, <1>2 DEF Deleters, LobbyInv, Lobbies
  <1> QED  BY <1>5, <1>6, <1>7, <1>8, <1>9 DEF Lobbies

(* A room that is deleted: its chats were cleared, and a request that is   *)
(* still to store its lobby shows that the deletion was begun too early.   *)
LEMMA RoomDeletedKeepsLobbies ==
    ASSUME LobbyInv, NEW q \in Requests, RoomDeleted(q)
    PROVE  Lobbies'
  <1>0. /\ req \in [Requests -> InFlight \cup {Idle}]
        /\ room \in [Rooms -> RoomRecords]
        /\ TypeInv
    BY DEF LobbyInv, TypeInv, TypeOK
  <1> DEFINE r == req[q].room
  <1>1. /\ At(q, "delete") /\ r \in Rooms /\ UNCHANGED <<chat, early>>
        /\ Stored' = Stored
        /\ req'[q] = Idle /\ req[q] # Idle
        /\ \A p \in Requests \ {q} : req'[p] = req[p]
    BY <1>0 DEF RoomDeleted, Answer, At, TypeInv, RoomNamed, Idle, Stored
  <1>2. /\ \A w \in Rooms \ {r} : room'[w] = room[w]
        /\ room'[r].creator = room[r].creator /\ room'[r].stage = "gone"
    BY <1>0, <1>1 DEF RoomDeleted, RoomRecords
  <1>3. room[r].creator = req[q].by
    BY <1>1 DEF LobbyInv, Lobbies, Deleters, At
  <1> HIDE DEF r
  <1>4. /\ \A w \in Rooms : Hasty(w)' = Hasty(w)
        /\ \A w \in Rooms \ {r} : Live(w)' = Live(w)
    BY <1>1, <1>2 DEF Hasty, Live
  <1>5. SoleCreator'
    <2> SUFFICES ASSUME NEW p \in Requests, NEW w \in Rooms,
                        At(p, "lobby")', req'[p].room = w
                 PROVE  /\ Hasty(w)' \/ Live(w)'
                        /\ \A o \in Requests \ {p} :
                              req'[o] # Idle /\ req'[o].room = w =>
                                 /\ req'[o].pc # "lobby"
                                 /\ <<w, req'[o].by>> \in early'
      BY DEF SoleCreator
    <2>1. p # q /\ req'[p] = req[p] /\ At(p, "lobby")
      BY <1>1 DEF At, Idle
    <2>2. /\ Hasty(w) \/ Live(w)
          /\ \A o \in Requests \ {p} : req[o] # Idle /\ req[o].room = w =>
                req[o].pc # "lobby" /\ <<w, req[o].by>> \in early
      BY <2>1 DEF LobbyInv, Lobbies, SoleCreator
    <2>3. w = r => Hasty(w)
      BY <1>1, <1>3, <2>1, <2>2 DEF Hasty, r
    <2> QED  BY <1>1, <1>4, <2>1, <2>2, <2>3
  <1>6. ClearedFirst'
    BY <1>1, <1>4 DEF ClearedFirst, LobbyInv, Lobbies, At, Idle
  <1>7. LobbyHasRoom'
    <2> SUFFICES ASSUME NEW k \in Stored, chat[k].kind = "lobby"
                 PROVE  Live(chat[k].room)' \/ Hasty(chat[k].room)
      BY <1>0, <1>1, <1>4, ChatRooms DEF LobbyHasRoom, Hasty
    <2>1. chat[k].room \in Rooms
      BY <1>0, ChatRooms
    <2>2. Live(chat[k].room) \/ Hasty(chat[k].room)
      BY DEF LobbyInv, Lobbies, LobbyHasRoom, Hasty
    <2>3. chat[k].room = r => Hasty(r)
      BY <1>1 DEF LobbyInv, Lobbies, ClearedFirst, r
    <2> QED  BY <1>1, <1>4, <2>1, <2>2, <2>3
  <1>8. ChatsNamed'
    BY <1>0, <1>1, <1>2, ChatRooms DEF ChatsNamed, LobbyInv, Lobbies
  <1>9. Deleters'
    BY <1>1, <1>2 DEF Deleters, LobbyInv, Lobbies, Idle
  <1> QED  BY <1>5, <1>6, <1>7, <1>8, <1>9 DEF Lobbies

(* A chat that is stored by POST /rooms/:roomId/chats is no lobby.         *)
LEMMA ChatStoredKeepsLobbies ==
    ASSUME LobbyInv, NEW q \in Requests, ChatStored(q)
    PROVE  Lobbies'
  <1>0. /\ req \in [Requests -> InFlight \cup {Idle}]
        /\ chat \in [ChatIds -> Chats \cup {NoChat}]
        /\ TypeInv
    BY DEF LobbyInv, TypeInv, TypeOK
  <1>1. PICK k \in ChatIds \ Stored :
          chat' = [chat EXCEPT ![k] =
             [room |-> req[q].room, kind |-> req[q].kind,
              members |-> req[q].members]]
    BY DEF ChatStored
  <1>2. /\ UNCHANGED <<room, early>>
        /\ req'[q] = Idle
        /\ \A p \in Requests \ {q} : req'[p] = req[p]
        /\ req[q].kind # "lobby"
        /\ req[q].room \in Rooms /\ room[req[q].room].stage # "unused"
    BY <1>0, InFlightType
    DEF ChatStored, Answer, At, InFlight, TypeInv, RoomNamed, Idle
  <1>3. /\ chat'[k].kind # "lobby" /\ chat'[k].room = req[q].room
        /\ \A j \in Stored' \ {k} : j \in Stored /\ chat'[j] = chat[j]
    BY <1>0, <1>1, <1>2 DEF Stored
  <1>4. \A w \in Rooms : Hasty(w)' = Hasty(w) /\ Live(w)' = Live(w)
    BY <1>2 DEF Hasty, Live
  <1>5. SoleCreator'
    BY <1>2, <1>4 DEF SoleCreator, LobbyInv, Lobbies, At, Idle
  <1>6. ClearedFirst'
    BY <1>2, <1>3, <1>4 DEF ClearedFirst, LobbyInv, Lobbies, At, Idle
  <1>7. LobbyHasRoom'
    <2> SUFFICES ASSUME NEW j \in Stored', chat'[j].kind = "lobby"
                 PROVE  Live(chat[j].room)' \/ Hasty(chat[j].room)'
      BY DEF LobbyHasRoom, Hasty
    <2>1. j \in Stored /\ chat'[j] = chat[j] /\ chat[j].room \in Rooms
      BY <1>0, <1>3, ChatRooms
    <2> QED  BY <1>4, <2>1 DEF LobbyHasRoom, LobbyInv, Lobbies, Hasty
  <1>8. ChatsNamed'
    BY <1>2, <1>3 DEF ChatsNamed, LobbyInv, Lobbies
  <1>9. Deleters'
    BY <1>2 DEF Deleters, LobbyInv, Lobbies, Idle
  <1> QED  BY <1>5, <1>6, <1>7, <1>8, <1>9 DEF Lobbies

(* Every other step of a request in flight is quiet.                       *)
LEMMA OthersQuiet ==
    ASSUME LobbyInv, NEW q \in Requests,
           \/ RoomsCounted(q) \/ MembershipChecked(q) \/ MemberPushed(q)
           \/ MemberListed(q) \/ MemberPulled(q) \/ SettingSaved(q)
           \/ PrivateChatSought(q) \/ MembersGathered(q) \/ Abandoned(q)
    PROVE  Quiet(q)
  <1>0. /\ req \in [Requests -> InFlight \cup {Idle}]
        /\ room \in [Rooms -> RoomRecords]
        /\ chat \in [ChatIds -> Chats \cup {NoChat}]
        /\ req[q].pc # "idle" => req[q] \in InFlight /\ req[q] # Idle
    BY DEF LobbyInv, TypeInv, TypeOK, Idle
  <1>1. /\ \A p \in Requests \ {q} : req'[p] = req[p]
        /\ early' = early
        /\ \/ req'[q] = Idle
           \/ /\ req'[q].room = req[q].room /\ req'[q].by = req[q].by
              /\ req'[q].pc \in {"store", "push", "list", "gather", "chat"}
              /\ req[q] # Idle
    BY <1>0
    DEF RoomsCounted, MembershipChecked, MemberPushed, MemberListed,
        MemberPulled, SettingSaved, PrivateChatSought, MembersGathered,
        Abandoned, At, Goto, Answer, InFlight
  <1>2. req'[q].pc \notin {"lobby", "clear", "delete"}
    BY <1>1 DEF Idle
  <1>3. \A r \in Rooms : /\ room'[r].stage = room[r].stage
                         /\ room'[r].creator = room[r].creator
    BY <1>0
    DEF RoomsCounted, MembershipChecked, MemberPushed, MemberListed,
        MemberPulled, SettingSaved, PrivateChatSought, MembersGathered,
        Abandoned, RoomRecords
  <1>4. CASE UNCHANGED chat
    BY <1>1, <1>2, <1>3, <1>4 DEF Quiet, Stored
  <1>5. CASE MemberListed(q)
    <2>1. \A k \in ChatIds :
            \/ chat'[k] = chat[k]
            \/ /\ k \in Stored
               /\ chat'[k].room = chat[k].room
               /\ chat'[k].kind = chat[k].kind
      <3> SUFFICES ASSUME NEW k \in ChatIds, chat'[k] # chat[k]
                   PROVE  /\ k \in Stored
                          /\ chat'[k].room = chat[k].room
                          /\ chat'[k].kind = chat[k].kind
        OBVIOUS
      <3>1. /\ k \in ChatsOf(req[q].room)
            /\ chat'[k] = [chat[k] EXCEPT
                              !.members = Add(chat[k].members, req[q].by)]
        BY <1>5 DEF MemberListed
      <3>2. k \in Stored /\ chat[k] \in Chats
        BY <1>0, <3>1 DEF ChatsOf, Stored
      <3> QED  BY <3>1, <3>2 DEF Chats
    <2>2. Stored' \subseteq Stored
      BY <2>1 DEF Stored
    <2>3. \A k \in Stored' : /\ chat'[k].room = chat[k].room
                            /\ chat'[k].kind = chat[k].kind
      BY <2>1 DEF Stored
    <2> QED  BY <1>1, <1>2, <1>3, <2>2, <2>3 DEF Quiet
  <1> QED
    BY <1>4, <1>5
    DEF RoomsCounted, MembershipChecked, MemberPushed, MemberPulled,
        SettingSaved, PrivateChatSought, MembersGathered, Abandoned

LEMMA LobbiesInvariant == Spec => []LobbyInv
  <1>1. Init => Lobbies
    BY DEF Init, Lobbies, ChatsNamed, Deleters, SoleCreator, ClearedFirst,
           LobbyHasRoom, At, Idle, Stored
  <1>2. TypeInv /\ TypeInv' /\ Lobbies /\ [Next]_vars => Lobbies'
    <2> SUFFICES ASSUME LobbyInv, [Next]_vars
                 PROVE  Lobbies'
      BY DEF LobbyInv
    <2>1. CASE UNCHANGED vars
      BY <2>1
      DEF vars, LobbyInv, Lobbies, ChatsNamed, Deleters, SoleCreator,
          ClearedFirst, LobbyHasRoom, Hasty, At, Live, Stored
    <2>2. ASSUME NEW q \in Requests, Continue(q) \/ Abandoned(q)
          PROVE  Lobbies'
      BY <2>2, RoomStoredKeepsLobbies, LobbyStoredKeepsLobbies,
         ChatsClearedKeepsLobbies, RoomDeletedKeepsLobbies,
         ChatStoredKeepsLobbies, OthersQuiet, QuietKeepsLobbies
      DEF Continue
    <2> QED
      BY <2>1, <2>2, StartKeepsLobbies DEF Next
  <1> QED  BY <1>1, <1>2, TypeInvariant, PTL DEF Spec, LobbyInv

(* Whatever requests overlap and whichever of them stop halfway, a lobby   *)
(* outlives its room only if the creator acted on the room before its      *)
(* creation had ended (controller.ts 80-82, 257-258).                      *)
THEOREM LobbiesHaveRooms == Spec => []LobbyHasRoom
  BY LobbiesInvariant, PTL DEF LobbyInv, Lobbies


-----------------------------------------------------------------------------
(* Who the lobby lists                                                     *)

LobbiesOf(r) == {j \in ChatsOf(r) : chat[j].kind = "lobby"}

(* u is a member of r whose request is about to list it in the chats.      *)
AboutToList(r, u) ==
    \E q \in Requests : At(q, "list") /\ req[q].room = r /\ req[q].by = u

(* The room has its one lobby, which lists its members or is about to, save *)
(* those who came before it.                                               *)
Whole(r) ==
    \E k \in ChatsOf(r) :
        /\ LobbiesOf(r) = {k}
        /\ \A u \in Listing(room[r].members) \ Unlucky :
              \/ <<r, u>> \in early
              \/ u \in Listing(chat[k].members) \/ AboutToList(r, u)

(* Until its lobby is stored a room has none, and no member but the creator *)
(* and those who are early.                                                *)
Fresh ==
    \A q \in Requests, r \in Rooms : At(q, "lobby") /\ req[q].room = r =>
        /\ LobbiesOf(r) = {}
        /\ \A u \in Listing(room[r].members) :
              u = req[q].by \/ <<r, u>> \in early

Making(r) == Touched(r, {"lobby", "delete"})

Complete ==
    \A r \in Rooms :
        Live(r) /\ room[r].creator \notin Unlucky /\ ~Making(r) => Whole(r)

ListInv == LobbyInv /\ Fresh /\ Complete

(* What has to be kept of a room for it to stay whole.                     *)
Undisturbed(r) ==
    /\ early \subseteq early'
    /\ LobbiesOf(r)' = LobbiesOf(r)
    /\ \A j \in LobbiesOf(r) :
          Listing(chat[j].members) \subseteq Listing(chat'[j].members)
    /\ \A u \in Users \ Unlucky :
          AboutToList(r, u) =>
              \/ AboutToList(r, u)'
              \/ \A j \in LobbiesOf(r) : u \in Listing(chat'[j].members)
    /\ \A u \in Listing(room'[r].members) \ Listing(room[r].members) :
          AboutToList(r, u)'

LEMMA WholeKept ==
    ASSUME NEW r \in Rooms, Whole(r), Undisturbed(r)
    PROVE  Whole(r)'
  <1>1. PICK k \in ChatsOf(r) :
          /\ LobbiesOf(r) = {k}
          /\ \A u \in Listing(room[r].members) \ Unlucky :
                \/ <<r, u>> \in early
                \/ u \in Listing(chat[k].members) \/ AboutToList(r, u)
    BY DEF Whole
  <1>2. LobbiesOf(r)' = {k} /\ k \in ChatsOf(r)'
    BY <1>1 DEF Undisturbed, LobbiesOf
  <1>3. ASSUME NEW u \in Listing(room'[r].members) \ Unlucky
        PROVE  \/ <<r, u>> \in early'
               \/ u \in Listing(chat'[k].members) \/ AboutToList(r, u)'
    <2>1. u \in Users \ Unlucky
      BY DEF Listing
    <2> QED  BY <1>1, <2>1 DEF Undisturbed
  <1> QED  BY <1>2, <1>3 DEF Whole

(* A user who is added is listed, and nobody ceases to be.                 *)
LEMMA AddLists ==
    ASSUME NEW list \in Lists, NEW u \in Users
    PROVE  /\ Listing(list) \subseteq Listing(Add(list, u))
           /\ Listing(Add(list, u)) = Listing(list) \cup {u}
           /\ Listing(Add(Nobody, u)) = {u}
  BY RegistryAssumption DEF Lists, Listing, Add, Nobody

(* A request in flight changes its own room and its chats, or a room that  *)
(* it creates, and no other.                                               *)
LEMMA OnlyOwnRoom ==
    ASSUME TypeInv, NEW q \in Requests, Continue(q) \/ Abandoned(q),
           NEW r \in Rooms, r # req[q].room, room[r].stage # "unused"
    PROVE  /\ room'[r] = room[r]
           /\ \A k \in ChatIds :
                 /\ k \in ChatsOf(r) => chat'[k] = chat[k]
                 /\ k \in ChatsOf(r)' => chat'[k] = chat[k]
  <1>0. /\ req \in [Requests -> InFlight \cup {Idle}]
        /\ room \in [Rooms -> RoomRecords]
        /\ chat \in [ChatIds -> Chats \cup {NoChat}]
    BY DEF TypeInv, TypeOK
  <1>1. CASE UNCHANGED <<room, chat>>
    BY <1>1
  <1>2. CASE UNCHANGED chat /\ (RoomStored(q) \/ MemberPushed(q)
                   \/ MemberPulled(q) \/ SettingSaved(q) \/ RoomDeleted(q))
    BY <1>0, <1>2
    DEF RoomStored, MemberPushed, MemberPulled, SettingSaved, RoomDeleted
  <1>3. CASE LobbyStored(q) \/ ChatStored(q)
    <2>1. PICK k \in ChatIds \ Stored :
            /\ chat'[k].room = req[q].room
            /\ \A j \in ChatIds \ {k} : chat'[j] = chat[j]
      BY <1>0, <1>3 DEF LobbyStored, ChatStored
    <2>2. UNCHANGED room
      BY <1>3 DEF LobbyStored, ChatStored
    <2> QED  BY <2>1, <2>2 DEF ChatsOf, Stored
  <1>4. CASE MemberListed(q) \/ ChatsCleared(q)
    <2>1. /\ UNCHANGED room
          /\ \A k \in ChatIds \ ChatsOf(req[q].room) : chat'[k] = chat[k]
      BY <1>4 DEF MemberListed, ChatsCleared
    <2>2. \A k \in ChatsOf(req[q].room) : k \notin ChatsOf(r)
      BY DEF ChatsOf
    <2>3. \A k \in ChatsOf(req[q].room) : k \notin ChatsOf(r)'
      <3> SUFFICES ASSUME NEW k \in ChatsOf(req[q].room),
                          chat'[k] # NoChat
                   PROVE  chat'[k].room = chat[k].room
        BY DEF ChatsOf, Stored
      <3>1. chat[k] \in Chats /\ k \in ChatIds
        BY <1>0 DEF ChatsOf, Stored
      <3> QED  BY <1>4, <3>1 DEF MemberListed, ChatsCleared, Chats
    <2> QED  BY <2>1, <2>2, <2>3
  <1> QED
    BY <1>1, <1>2, <1>3, <1>4
    DEF Continue, Abandoned, RoomsCounted, RoomStored, MembershipChecked,
        MemberPushed, MemberPulled, SettingSaved, RoomDeleted,
        PrivateChatSought, MembersGathered

(* Only a request that begins is early.                                    *)
LEMMA EarlyKept ==
    ASSUME NEW q \in Requests, Continue(q) \/ Abandoned(q)
    PROVE  early' = early
  BY DEF Continue, Abandoned, RoomsCounted, RoomStored, LobbyStored,
     MembershipChecked, MemberPushed, MemberListed, MemberPulled,
     SettingSaved, ChatsCleared, RoomDeleted, PrivateChatSought,
     MembersGathered, ChatStored

(* So the lobbies of other rooms stay, and rooms that were whole stay so.  *)
LEMMA OtherRoomsKept ==
    ASSUME TypeInv, NEW q \in Requests, Continue(q) \/ Abandoned(q),
           NEW r \in Rooms, r # req[q].room, room[r].stage # "unused"
    PROVE  /\ room'[r] = room[r]
           /\ LobbiesOf(r)' = LobbiesOf(r)
           /\ Undisturbed(r)
  <1>1. /\ room'[r] = room[r]
        /\ \A k \in ChatIds :
              /\ k \in ChatsOf(r) => chat'[k] = chat[k]
              /\ k \in ChatsOf(r)' => chat'[k] = chat[k]
    BY OnlyOwnRoom
  <1>2. ChatsOf(r)' = ChatsOf(r)
    BY <1>1 DEF ChatsOf, Stored
  <1>3. \A k \in ChatsOf(r) : chat'[k] = chat[k]
    BY <1>1 DEF ChatsOf, Stored
  <1>4. LobbiesOf(r)' = LobbiesOf(r)
    BY <1>2, <1>3 DEF LobbiesOf
  <1>5. \A u \in Users : AboutToList(r, u) => AboutToList(r, u)'
    BY ContinueShape DEF AboutToList, At
  <1>6. \A k \in LobbiesOf(r) : chat'[k].members = chat[k].members
    BY <1>3 DEF LobbiesOf
  <1> QED  BY <1>1, <1>4, <1>5, <1>6, EarlyKept DEF Undisturbed

(* Nor does a request disturb its own room, unless it creates or deletes   *)
(* it: who is pushed is about to be listed, and is listed before the       *)
(* request ends.                                                           *)
LEMMA OwnRoomKept ==
    ASSUME TypeInv, NEW q \in Requests, NEW r \in Rooms, r = req[q].room,
           \/ MembershipChecked(q) \/ MemberPushed(q) \/ MemberListed(q)
           \/ MemberPulled(q) \/ SettingSaved(q) \/ PrivateChatSought(q)
           \/ MembersGathered(q) \/ ChatStored(q) \/ Abandoned(q)
    PROVE  Undisturbed(r)
  <1>0. /\ req \in [Requests -> InFlight \cup {Idle}]
        /\ room \in [Rooms -> RoomRecords]
        /\ chat \in [ChatIds -> Chats \cup {NoChat}]
    BY DEF TypeInv, TypeOK
  <1>1. \A p \in Requests \ {q} : req'[p] = req[p]
    BY ContinueShape DEF Continue
  <1>2. req[q] \in InFlight /\ early' = early
    BY <1>0
    DEF MembershipChecked, MemberPushed, MemberListed, MemberPulled,
        SettingSaved, PrivateChatSought, MembersGathered, ChatStored,
        Abandoned, At, Idle
  <1>3. ASSUME UNCHANGED chat
        PROVE  /\ LobbiesOf(r)' = LobbiesOf(r)
               /\ \A j \in LobbiesOf(r) : Listing(chat[j].members)
                                     \subseteq Listing(chat'[j].members)
    BY <1>3 DEF LobbiesOf, ChatsOf, Stored
  <1>4. CASE \/ MembershipChecked(q) \/ MemberPulled(q) \/ SettingSaved(q)
             \/ PrivateChatSought(q) \/ MembersGathered(q)
             \/ Abandoned(q)
    <2>1. UNCHANGED chat
      BY <1>4
      DEF MembershipChecked, MemberPulled, SettingSaved, PrivateChatSought,
          MembersGathered, Abandoned
    <2>2. At(q, "list") => req[q].by \in Unlucky
      BY <1>4
      DEF MembershipChecked, MemberPulled, SettingSaved, PrivateChatSought,
          MembersGathered, Abandoned, At
    <2>3. \A u \in Users \ Unlucky : AboutToList(r, u) => AboutToList(r, u)'
      BY <1>1, <2>2 DEF AboutToList, At
    <2>4. Listing(room'[r].members) \subseteq Listing(room[r].members)
      <3>1. CASE room'[r].members = room[r].members
        BY <3>1
      <3>2. CASE MemberPulled(q)
        <4>1. /\ room[r].members \in Lists /\ req[q].who \in Users
              /\ room'[r].members = Drop(room[r].members, req[q].who)
          BY <1>0, <1>2, <3>2 DEF MemberPulled, RoomRecords, InFlight
        <4> QED  BY <4>1 DEF Drop, Listing, Lists
      <3>3. CASE SettingSaved(q)
        BY <1>0, <3>3 DEF SettingSaved, RoomRecords
      <3> QED
        BY <1>4, <3>1, <3>2, <3>3
        DEF MembershipChecked, PrivateChatSought, MembersGathered, Abandoned
    <2> QED  BY <1>2, <1>3, <2>1, <2>3, <2>4 DEF Undisturbed
  <1>5. CASE MemberPushed(q)
    <2>1. /\ UNCHANGED chat /\ At(q, "push")
          /\ req'[q].pc = "list" /\ req'[q].room = r
          /\ req'[q].by = req[q].by
      BY <1>0, <1>2, <1>5 DEF MemberPushed, Goto, InFlight
    <2>2. /\ room[r].members \in Lists /\ req[q].by \in Users
          /\ room'[r].members = Add(room[r].members, req[q].by)
      BY <1>0, <1>2, <1>5 DEF MemberPushed, RoomRecords, InFlight
    <2>3. Listing(room'[r].members) = Listing(room[r].members)
                                         \cup {req[q].by}
      BY <2>2, AddLists
    <2>4. AboutToList(r, req[q].by)'
      BY <2>1 DEF AboutToList, At
    <2>5. \A u \in Users : AboutToList(r, u) => AboutToList(r, u)'
      BY <1>1, <2>1 DEF AboutToList, At
    <2> QED  BY <1>2, <1>3, <2>1, <2>3, <2>4, <2>5 DEF Undisturbed
  <1>6. CASE MemberListed(q)
    <2>1. UNCHANGED room /\ req[q].by \in Users
      BY <1>2, <1>6 DEF MemberListed, InFlight
    <2>2. \A k \in ChatIds :
            \/ chat'[k] = chat[k]
            \/ /\ k \in ChatsOf(r) /\ chat[k] \in Chats
               /\ chat'[k] = [chat[k] EXCEPT
                                 !.members = Add(chat[k].members, req[q].by)]
      BY <1>0, <1>6 DEF MemberListed, ChatsOf, Stored
    <2>3. \A k \in ChatIds :
            \/ chat'[k] = chat[k]
            \/ /\ chat[k] # NoChat /\ chat'[k] # NoChat
               /\ chat'[k].room = chat[k].room
               /\ chat'[k].kind = chat[k].kind
      <3> SUFFICES ASSUME NEW k \in ChatIds, chat'[k] # chat[k]
                   PROVE  /\ chat[k] # NoChat /\ chat'[k] # NoChat
                          /\ chat'[k].room = chat[k].room
                          /\ chat'[k].kind = chat[k].kind
        OBVIOUS
      <3>1. /\ k \in ChatsOf(r) /\ chat[k] \in Chats
            /\ chat'[k] = [chat[k] EXCEPT
                              !.members = Add(chat[k].members, req[q].by)]
        BY <2>2
      <3>2. chat'[k] \in Chats
        <4>1. Add(chat[k].members, req[q].by) \in Lists
          BY <2>1, <3>1, ListType DEF Chats
        <4> QED  BY <3>1, <4>1 DEF Chats
      <3> QED  BY <3>1, <3>2, NoChatAssumption DEF Chats, ChatsOf, Stored
    <2>4. LobbiesOf(r)' = LobbiesOf(r)
      BY <2>3 DEF LobbiesOf, ChatsOf, Stored
    <2>5. \A j \in LobbiesOf(r) :
            /\ chat[j].members \in Lists
            /\ chat'[j].members = Add(chat[j].members, req[q].by)
      BY <1>0, <1>6 DEF MemberListed, LobbiesOf, ChatsOf, Stored, Chats
    <2>6. \A j \in LobbiesOf(r) :
            Listing(chat'[j].members) = Listing(chat[j].members)
                                           \cup {req[q].by}
      BY <2>1, <2>5, AddLists
    <2>7. \A u \in Users \ {req[q].by} :
            AboutToList(r, u) => AboutToList(r, u)'
      BY <1>1 DEF AboutToList, At
    <2> QED  BY <1>2, <2>1, <2>4, <2>6, <2>7 DEF Undisturbed
  <1>7. CASE ChatStored(q)
    <2>1. PICK k \in ChatIds \ Stored :
            chat' = [chat EXCEPT ![k] =
               [room |-> req[q].room, kind |-> req[q].kind,
                members |-> req[q].members]]
      BY <1>7 DEF ChatStored
    <2>2. /\ UNCHANGED room /\ At(q, "chat")
          /\ chat'[k].kind # "lobby"
          /\ \A j \in ChatIds \ {k} : chat'[j] = chat[j]
      BY <1>0, <1>2, <1>7, <2>1 DEF ChatStored, InFlight
    <2>3. /\ LobbiesOf(r)' = LobbiesOf(r)
          /\ \A j \in LobbiesOf(r) : chat'[j] = chat[j]
      BY <2>2 DEF LobbiesOf, ChatsOf, Stored
    <2>4. \A u \in Users : AboutToList(r, u) => AboutToList(r, u)'
      BY <1>1, <2>2 DEF AboutToList, At
    <2> QED  BY <1>2, <2>2, <2>3, <2>4 DEF Undisturbed
  <1> QED  BY <1>4, <1>5, <1>6, <1>7

(* A request that begins leaves every lobby and every list as it is.       *)
LEMMA StartKeepsLists ==
    ASSUME ListInv, NEW q \in Requests, NEW u \in Users, Start(q, u)
    PROVE  Fresh' /\ Complete'
  <1>1. PICK step \in Steps, r \in Rooms \cup {NoRoom}, v \in Users,
             kind \in {"none", "public", "private", "group"} :
          /\ Begin(q, step, u, r, v, kind)
          /\ step \notin {"lobby", "delete", "list"}
    BY StartShape
  <1>2. /\ UNCHANGED <<room, chat>>
        /\ early \subseteq early'
        /\ req[q].pc = "idle"
        /\ req'[q] = [pc |-> step, by |-> u, room |-> r, who |-> v,
                      kind |-> kind, members |-> Nobody]
        /\ \A p \in Requests \ {q} : req'[p] = req[p]
    BY <1>1 DEF Begin, Idle, ListInv, LobbyInv, TypeInv, TypeOK
  <1>3. /\ \A w \in Rooms : LobbiesOf(w)' = LobbiesOf(w)
        /\ \A w \in Rooms : ChatsOf(w)' = ChatsOf(w)
    BY <1>2 DEF LobbiesOf, ChatsOf, Stored
  <1>4. Fresh'
    <2>1. \A p \in Requests : At(p, "lobby")' =>
                                  req'[p] = req[p] /\ At(p, "lobby")
      BY <1>1, <1>2 DEF At
    <2> QED  BY <1>2, <1>3, <2>1 DEF ListInv, Fresh
  <1>5. \A w \in Rooms, x \in Users : AboutToList(w, x)' = AboutToList(w, x)
    BY <1>1, <1>2 DEF AboutToList, At
  <1>6. \A w \in Rooms : Making(w)' = Making(w)
    BY <1>1, <1>2 DEF Making, Touched
  <1>7. Complete'
    <2> SUFFICES ASSUME NEW w \in Rooms, Whole(w) PROVE Whole(w)'
      BY <1>2, <1>6 DEF Complete, ListInv, Live
    <2>1. Undisturbed(w)
      BY <1>2, <1>3, <1>5 DEF Undisturbed
    <2> QED  BY <2>1, WholeKept
  <1> QED  BY <1>4, <1>7

(* A request comes to one of the three steps of a creator in two ways.     *)
LEMMA CreatorsSteps ==
    ASSUME TypeInv, NEW q \in Requests, Continue(q) \/ Abandoned(q),
           req'[q].pc \in {"lobby", "clear", "delete"}
    PROVE  RoomStored(q) \/ ChatsCleared(q)
  <1>1. req \in [Requests -> InFlight \cup {Idle}]
    BY DEF TypeInv, TypeOK
  <1>2. ASSUME Answer(q) PROVE FALSE
    BY <1>1, <1>2 DEF Answer, Idle
  <1>3. ASSUME NEW step \in {"store", "push", "list", "gather"},
               req[q].pc # "idle", Goto(q, step)
        PROVE  FALSE
    <2>1. req'[q].pc = step
      BY <1>1, <1>3, InFlightType DEF Goto, InFlight, TypeInv
    <2> QED  BY <2>1
  <1>4. ~MembersGathered(q)
    BY <1>1, InFlightType DEF MembersGathered, At, InFlight, TypeInv
  <1> QED
    BY <1>2, <1>3, <1>4
    DEF Continue, Abandoned, RoomsCounted, LobbyStored, MembershipChecked,
        MemberPushed, MemberListed, MemberPulled, SettingSaved, RoomDeleted,
        PrivateChatSought, ChatStored, At

(* A request about to list its user named the room when it began.          *)
LEMMA ListedRoom ==
    ASSUME TypeInv, NEW q \in Requests, Continue(q) \/ Abandoned(q),
           req'[q].pc = "list"
    PROVE  req'[q].room = req[q].room
  <1>1. req \in [Requests -> InFlight \cup {Idle}]
    BY DEF TypeInv, TypeOK
  <1>2. ASSUME Answer(q) PROVE FALSE
    BY <1>1, <1>2 DEF Answer, Idle
  <1>3. ~RoomStored(q)
    BY <1>1, InFlightType DEF RoomStored, At, InFlight, TypeInv
  <1>4. ~MembersGathered(q)
    BY <1>1, InFlightType DEF MembersGathered, At, InFlight, TypeInv
  <1>5. ASSUME NEW step, req[q].pc # "idle", Goto(q, step)
        PROVE  req'[q].room = req[q].room
    BY <1>1, <1>5, InFlightType DEF Goto, InFlight, TypeInv
  <1> QED
    BY <1>2, <1>3, <1>4, <1>5
    DEF Continue, Abandoned, RoomsCounted, LobbyStored, MembershipChecked,
        MemberPushed, MemberListed, MemberPulled, SettingSaved, ChatsCleared,
        RoomDeleted, PrivateChatSought, ChatStored, At

(* What the creation of a room leaves.                                     *)
LEMMA RoomStoredShape ==
    ASSUME TypeInv, NEW q \in Requests, RoomStored(q)
    PROVE  \E r \in Rooms :
             /\ room[r].stage = "unused"
             /\ room'[r].creator = req[q].by
             /\ Listing(room'[r].members) = {req[q].by}
             /\ \A w \in Rooms \ {r} : room'[w] = room[w]
             /\ req'[q].pc = "lobby" /\ req'[q].room = r
             /\ req'[q].by = req[q].by
             /\ UNCHANGED chat
  <1>1. /\ req \in [Requests -> InFlight \cup {Idle}]
        /\ room \in [Rooms -> RoomRecords]
    BY DEF TypeInv, TypeOK
  <1>2. req[q] \in InFlight
    BY <1>1 DEF RoomStored, At, Idle
  <1>3. PICK r \in Rooms :
          /\ room[r].stage = "unused"
          /\ room' = [room EXCEPT ![r] =
                [stage |-> "live", creator |-> req[q].by, active |-> TRUE,
                 members |-> Add(Nobody, req[q].by)]]
          /\ req' = [req EXCEPT ![q].room = r, ![q].pc = "lobby"]
    BY DEF RoomStored
  <1>4. /\ room'[r].creator = req[q].by
        /\ room'[r].members = Add(Nobody, req[q].by)
        /\ \A w \in Rooms \ {r} : room'[w] = room[w]
        /\ req'[q].pc = "lobby" /\ req'[q].room = r
        /\ req'[q].by = req[q].by
    BY <1>1, <1>2, <1>3 DEF InFlight
  <1>5. Listing(Add(Nobody, req[q].by)) = {req[q].by}
    BY <1>2, AddLists, ListType DEF InFlight
  <1> QED  BY <1>3, <1>4, <1>5 DEF RoomStored

(* Whoever becomes a member of a room that is being created is early.      *)
LEMMA ContinueKeepsFresh ==
    ASSUME ListInv, NEW q \in Requests, Continue(q) \/ Abandoned(q)
    PROVE  Fresh'
  <1>0. /\ req \in [Requests -> InFlight \cup {Idle}]
        /\ room \in [Rooms -> RoomRecords]
        /\ TypeInv
    BY DEF ListInv, LobbyInv, TypeInv, TypeOK
  <1>1. /\ \A p \in Requests \ {q} : req'[p] = req[p]
        /\ early' = early
    BY <1>0, ContinueShape, EarlyKept
  <1>2. ASSUME NEW r \in Rooms, At(q, "lobby")', req'[q].room = r
        PROVE  /\ LobbiesOf(r)' = {}
               /\ Listing(room'[r].members) = {req'[q].by}
    <2>1. RoomStored(q)
      <3>1. ~ChatsCleared(q)
        BY <1>0, <1>2, InFlightType
        DEF ChatsCleared, At, Goto, InFlight, TypeInv
      <3> QED  BY <1>0, <1>2, <3>1, CreatorsSteps DEF At
    <2>2. /\ room[r].stage = "unused"
          /\ Listing(room'[r].members) = {req[q].by}
          /\ req'[q].by = req[q].by
          /\ UNCHANGED chat
      BY <1>0, <1>2, <2>1, RoomStoredShape
    <2>3. LobbiesOf(r)' = {}
      BY <2>2 DEF LobbiesOf, ChatsOf, Stored, ChatsNamed, Lobbies, LobbyInv,
         ListInv
    <2> QED  BY <2>2, <2>3
  <1>3. ASSUME NEW p \in Requests \ {q}, At(p, "lobby"),
               NEW r \in Rooms, req[p].room = r
        PROVE  /\ LobbiesOf(r)' = {}
               /\ \A u \in Listing(room'[r].members) :
                     u = req[p].by \/ <<r, u>> \in early
    <2>1. /\ LobbiesOf(r) = {}
          /\ \A u \in Listing(room[r].members) :
                u = req[p].by \/ <<r, u>> \in early
          /\ \A o \in Requests \ {p} : req[o] # Idle /\ req[o].room = r =>
                req[o].pc # "lobby" /\ <<r, req[o].by>> \in early
          /\ room[r].stage # "unused"
      BY <1>0, <1>3
      DEF ListInv, Fresh, LobbyInv, Lobbies, SoleCreator, TypeInv, RoomNamed,
          At, Idle
    <2>2. CASE Undisturbed(r)
      <3>1. ASSUME NEW u \in Users, AboutToList(r, u)'
            PROVE  <<r, u>> \in early
        <4>1. PICK o \in Requests : /\ req'[o].pc = "list"
                                    /\ req'[o].room = r /\ req'[o].by = u
          BY <3>1 DEF AboutToList, At
        <4>2. o # p
          BY <1>1, <1>3, <4>1 DEF At
        <4>3. CASE o # q
          BY <1>1, <2>1, <4>1, <4>2, <4>3 DEF Idle
        <4>4. CASE o = q
          <5>1. req[q] # Idle /\ req'[q].by = req[q].by
            BY <1>0, <4>1, <4>4, ContinueShape DEF Idle
          <5>2. req[q].room = r
            BY <1>0, <4>1, <4>4, ListedRoom
          <5> QED  BY <2>1, <4>1, <4>2, <4>4, <5>1, <5>2
        <4> QED  BY <4>3, <4>4
      <3>2. Listing(room'[r].members) \subseteq Users
        BY DEF Listing
      <3> QED  BY <2>1, <2>2, <3>1, <3>2 DEF Undisturbed
    <2>3. CASE r # req[q].room
      BY <1>0, <2>1, <2>2, <2>3, OtherRoomsKept
    <2>4. CASE r = req[q].room
      <3>1. CASE \/ MembershipChecked(q) \/ MemberPushed(q)
                 \/ MemberListed(q) \/ MemberPulled(q) \/ SettingSaved(q)
                 \/ PrivateChatSought(q) \/ MembersGathered(q)
                 \/ ChatStored(q) \/ Abandoned(q)
        BY <1>0, <2>2, <2>4, <3>1, OwnRoomKept
      <3>2. CASE RoomsCounted(q) \/ RoomStored(q)
        BY <1>0, <2>4, <3>2, RegistryAssumption
        DEF RoomsCounted, RoomStored, At, TypeInv, RoomNamed, Idle
      <3>3. CASE LobbyStored(q)
        <4>1. req[q].pc = "lobby" /\ req[q] # Idle /\ q # p
          BY <3>3 DEF LobbyStored, At, Idle
        <4> QED  BY <2>1, <2>4, <4>1
      <3>4. CASE ChatsCleared(q)
        <4>1. UNCHANGED room /\ ChatsOf(r)' = {}
          BY <2>4, <3>4 DEF ChatsCleared, ChatsOf, Stored
        <4> QED  BY <2>1, <4>1 DEF LobbiesOf
      <3>5. CASE RoomDeleted(q)
        <4>1. UNCHANGED chat /\ room'[r].members = Nobody
          BY <1>0, <2>4, <3>5 DEF RoomDeleted, RoomRecords
        <4>2. Listing(Nobody) = {}
          BY DEF Listing, Nobody
        <4> QED  BY <2>1, <4>1, <4>2 DEF LobbiesOf, ChatsOf, Stored
      <3> QED
        BY <3>1, <3>2, <3>3, <3>4, <3>5 DEF Continue
    <2> QED  BY <2>3, <2>4
  <1> QED
    BY <1>1, <1>2, <1>3 DEF Fresh, At

(* Storing the lobby makes the room whole.                                 *)
LEMMA LobbyMakesWhole ==
    ASSUME ListInv, NEW q \in Requests, LobbyStored(q),
           NEW r \in Rooms, r = req[q].room
    PROVE  Whole(r)'
  <1>1. /\ At(q, "lobby") /\ req[q].by \in Users
        /\ chat \in [ChatIds -> Chats \cup {NoChat}]
    BY InFlightType
    DEF LobbyStored, At, ListInv, LobbyInv, TypeInv, TypeOK
  <1>2. PICK k \in ChatIds \ Stored :
          chat' = [chat EXCEPT ![k] =
             [room |-> req[q].room, kind |-> "lobby",
              members |-> Add(Nobody, req[q].by)]]
    BY DEF LobbyStored
  <1>3. /\ LobbiesOf(r) = {}
        /\ \A u \in Listing(room[r].members) :
              u = req[q].by \/ <<r, u>> \in early
    BY <1>1 DEF ListInv, Fresh
  <1>4. Nobody \in Lists /\ Add(Nobody, req[q].by) \in Lists
    BY <1>1, RegistryAssumption DEF Lists, Nobody, Add
  <1>5. /\ chat'[k] = [room |-> r, kind |-> "lobby",
                       members |-> Add(Nobody, req[q].by)]
        /\ \A j \in ChatIds \ {k} : chat'[j] = chat[j]
    BY <1>1, <1>2
  <1>6. chat'[k] # NoChat
    <2>1. chat'[k] \in Chats
      BY <1>4, <1>5 DEF Chats
    <2> QED  BY <2>1, NoChatAssumption
  <1>7. k \in ChatsOf(r)' /\ LobbiesOf(r)' = {k}
    BY <1>3, <1>5, <1>6 DEF LobbiesOf, ChatsOf, Stored
  <1>8. \A u \in Listing(room'[r].members) :
          u = req[q].by \/ <<r, u>> \in early'
    BY <1>3 DEF LobbyStored
  <1>9. Listing(chat'[k].members) = {req[q].by}
    BY <1>1, <1>4, <1>5, AddLists
  <1> QED  BY <1>7, <1>8, <1>9 DEF Whole

LEMMA ContinueKeepsComplete ==
    ASSUME ListInv, NEW q \in Requests, Continue(q) \/ Abandoned(q)
    PROVE  Complete'
  <1> SUFFICES ASSUME NEW r \in Rooms, Live(r)', ~Making(r)',
                      room'[r].creator \notin Unlucky
               PROVE  Whole(r)'
    BY DEF Complete
  <1>0. /\ req \in [Requests -> InFlight \cup {Idle}]
        /\ room \in [Rooms -> RoomRecords]
        /\ TypeInv
    BY DEF ListInv, LobbyInv, TypeInv, TypeOK
  <1>1. \A p \in Requests \ {q} : req'[p] = req[p]
    BY <1>0, ContinueShape
  <1>2. ASSUME room[r].stage = "unused" PROVE FALSE
    <2>1. ASSUME RoomStored(q) PROVE FALSE
      <3>1. PICK w \in Rooms :
              /\ \A v \in Rooms \ {w} : room'[v] = room[v]
              /\ req'[q].pc = "lobby" /\ req'[q].room = w
        BY <1>0, <2>1, RoomStoredShape
      <3>2. w = r
        BY <1>2, <3>1 DEF Live
      <3> QED  BY <3>1, <3>2 DEF Making, Touched
    <2>2. ~MemberPushed(q) /\ ~MemberPulled(q) /\ ~RoomDeleted(q)
      BY <1>0, <1>2 DEF MemberPushed, MemberPulled, RoomDeleted, Live,
         RoomRecords
    <2>3. ~SettingSaved(q)
      BY <1>0, <1>2 DEF SettingSaved, Live, RoomRecords
    <2>4. room' # room
      BY <1>2 DEF Live
    <2> QED
      BY <2>1, <2>2, <2>3, <2>4
      DEF Continue, Abandoned, RoomsCounted, LobbyStored, MembershipChecked,
          MemberListed, ChatsCleared, PrivateChatSought, MembersGathered,
          ChatStored
  <1>3. CASE r # req[q].room
    <2>1. room'[r] = room[r] /\ Undisturbed(r)
      BY <1>0, <1>2, <1>3, OtherRoomsKept
    <2>2. ~Making(r)
      BY <1>1, <1>3 DEF Making, Touched
    <2>3. Whole(r)
      BY <2>1, <2>2 DEF ListInv, Complete, Live
    <2> QED  BY <2>1, <2>3, WholeKept
  <1>4. CASE r = req[q].room
    <2>1. CASE LobbyStored(q)
      BY <1>4, <2>1, LobbyMakesWhole
    <2>2. CASE ChatsCleared(q)
      <3>1. req'[q].pc = "delete" /\ req'[q].room = r
        BY <1>0, <1>4, <2>2, InFlightType
        DEF ChatsCleared, At, Goto, InFlight, TypeInv
      <3> QED  BY <3>1 DEF Making, Touched
    <2>3. CASE RoomDeleted(q)
      BY <1>0, <1>4, <2>3 DEF RoomDeleted, Live, RoomRecords
    <2>4. CASE RoomsCounted(q) \/ RoomStored(q)
      BY <1>0, <1>4, <2>4, RegistryAssumption
      DEF RoomsCounted, RoomStored, At, TypeInv, RoomNamed, Idle
    <2>5. CASE \/ MembershipChecked(q) \/ MemberPushed(q) \/ MemberListed(q)
               \/ MemberPulled(q) \/ SettingSaved(q) \/ PrivateChatSought(q)
               \/ MembersGathered(q) \/ ChatStored(q) \/ Abandoned(q)
      <3>1. Undisturbed(r)
        BY <1>0, <1>4, <2>5, OwnRoomKept
      <3>2. /\ room'[r].stage = room[r].stage
            /\ room'[r].creator = room[r].creator
        BY <1>0, <2>5
        DEF MembershipChecked, MemberPushed, MemberListed, MemberPulled,
            SettingSaved, PrivateChatSought, MembersGathered, ChatStored,
            Abandoned, RoomRecords
      <3>3. req[q].pc \notin {"lobby", "delete"}
        <4> SUFFICES ASSUME req[q].pc \in {"lobby", "delete"} PROVE FALSE
          OBVIOUS
        <4>1. room[r].creator = req[q].by
          BY <1>4 DEF ListInv, LobbyInv, Lobbies, Deleters
        <4>2. Abandoned(q)
          BY <2>5
          DEF MembershipChecked, MemberPushed, MemberListed, MemberPulled,
              SettingSaved, PrivateChatSought, MembersGathered, ChatStored,
              At
        <4> QED  BY <3>2, <4>1, <4>2 DEF Abandoned
      <3>4. ~Making(r)
        BY <1>1, <3>3 DEF Making, Touched
      <3>5. Whole(r)
        BY <3>2, <3>4 DEF ListInv, Complete, Live
      <3> QED  BY <3>1, <3>5, WholeKept
    <2> QED  BY <2>1, <2>2, <2>3, <2>4, <2>5 DEF Continue
  <1> QED  BY <1>3, <1>4

(* Whatever requests overlap, a live room whose creator had no failing call *)
(* has one lobby, which lists everybody who is through joining, had no     *)
(* failing call and did not come before it (controller.ts 80-82, 135-136,  *)
(* 150-151).                                                               *)
THEOREM LobbyIsComplete == Spec => []LobbyListsMembers
  <1>1. Init => Fresh /\ Complete
    BY DEF Init, Fresh, Complete, At, Idle, Live
  <1>2. LobbyInv /\ Fresh /\ Complete /\ [Next]_vars
          => (Fresh /\ Complete)'
    <2> SUFFICES ASSUME ListInv, [Next]_vars
                 PROVE  Fresh' /\ Complete'
      BY DEF ListInv
    <2>1. CASE UNCHANGED vars
      <3>1. /\ \A r \in Rooms : LobbiesOf(r)' = LobbiesOf(r)
            /\ \A r \in Rooms : Making(r)' = Making(r)
            /\ \A r \in Rooms, u \in Users :
                  AboutToList(r, u)' = AboutToList(r, u)
        BY <2>1
        DEF vars, LobbiesOf, ChatsOf, Stored, Making, Touched, AboutToList,
            At
      <3>2. Complete'
        <4> SUFFICES ASSUME NEW r \in Rooms, Whole(r) PROVE Whole(r)'
          BY <2>1, <3>1 DEF vars, Complete, ListInv, Live
        <4>1. Undisturbed(r)
          BY <2>1, <3>1 DEF vars, Undisturbed
        <4> QED  BY <4>1, WholeKept
      <3> QED
        BY <2>1, <3>1, <3>2 DEF vars, ListInv, Fresh, At
    <2> QED
      BY <2>1, StartKeepsLists, ContinueKeepsFresh, ContinueKeepsComplete
      DEF Next
  <1>3. Complete => LobbyListsMembers
    BY DEF Complete, LobbyListsMembers, Making, Touched, Whole, LobbiesOf,
       AboutToList
  <1> QED  BY <1>1, <1>2, <1>3, LobbiesInvariant, PTL DEF Spec
=============================================================================
