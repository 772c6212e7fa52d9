--------------------------- MODULE VOfficeProofs ---------------------------
(***************************************************************************)
(* What holds in an office of any size: any number of users, connections,  *)
(* chairs, whiteboards, meetings and connects in progress.                 *)
(***************************************************************************)
EXTENDS VOffice, TLAPS

AMeeting == Command!MeetingRecords(Sessions, ChatIds)

-----------------------------------------------------------------------------
(* The commands on a meeting, one at a time.                               *)

(* MeetingAddUserCommand yields a meeting, keeps its fields in agreement,  *)
(* and never takes anybody out.                                            *)
LEMMA AddUserKeeps ==
    ASSUME NEW meeting \in AMeeting, NEW s \in Sessions
    PROVE  LET after == Command!AddUser(meeting, s)
           IN  /\ after \in AMeeting
               /\ Command!Consistent(meeting) => Command!Consistent(after)
               /\ meeting.connectedUser \subseteq after.connectedUser
               /\ after.connectedUser \subseteq meeting.connectedUser \cup {s}
               /\ after.isLocked = meeting.isLocked
               /\ after.chatId = meeting.chatId
    BY PresenceAssumption, OfficeAssumption
    DEF AMeeting, Command!MeetingRecords, Command!AddUser, Command!Consistent

(* MeetingRemoveUserCommand yields a meeting, keeps its fields in          *)
(* agreement, and lets nobody in.                                          *)
LEMMA RemoveUserKeeps ==
    ASSUME NEW meeting \in AMeeting, NEW s \in Sessions
    PROVE  LET after == Command!RemoveUser(meeting, s)
           IN  /\ after \in AMeeting
               /\ Command!Consistent(meeting) => Command!Consistent(after)
               /\ after.connectedUser \subseteq meeting.connectedUser
    BY PresenceAssumption, OfficeAssumption
    DEF AMeeting, Command!MeetingRecords, Command!RemoveUser,
        Command!EmptyMeeting, Command!Consistent

(* The lock commands yield a meeting and touch nothing but its lock.       *)
LEMMA SetLockKeeps ==
    ASSUME NEW meeting \in AMeeting, NEW s \in Sessions, NEW value \in BOOLEAN
    PROVE  LET after == Command!SetLock(meeting, s, value)
           IN  /\ after \in AMeeting
               /\ Command!Consistent(meeting) => Command!Consistent(after)
               /\ after.connectedUser = meeting.connectedUser
               /\ after.adminUser = meeting.adminUser
               /\ after.isLocked # meeting.isLocked => s = meeting.adminUser
    BY DEF AMeeting, Command!MeetingRecords, Command!SetLock, Command!Consistent

(* onLeave yields a meeting, keeps its fields in agreement, and the session *)
(* is neither in it nor its admin afterwards.                              *)
LEMMA DropUserKeeps ==
    ASSUME NEW meeting \in AMeeting, NEW s \in Sessions
    PROVE  LET after == Command!DropUser(meeting, s)
           IN  /\ after \in AMeeting
               /\ Command!Consistent(meeting) => Command!Consistent(after)
               /\ after.connectedUser = meeting.connectedUser \ {s}
               /\ after.isLocked = meeting.isLocked
               /\ Command!Consistent(meeting) => after.adminUser # s
    <1> DEFINE after == Command!DropUser(meeting, s)
    <1> USE PresenceAssumption, OfficeAssumption
        DEF AMeeting, Command!MeetingRecords, Command!DropUser
    <1>1. after \in AMeeting
        OBVIOUS
    <1>2. Command!Consistent(meeting) => Command!Consistent(after)
        BY DEF Command!Consistent
    <1>3. /\ after.connectedUser = meeting.connectedUser \ {s}
          /\ after.isLocked = meeting.isLocked
        OBVIOUS
    <1>4. Command!Consistent(meeting) => after.adminUser # s
        BY DEF Command!Consistent
    <1> QED
        BY <1>1, <1>2, <1>3, <1>4

-----------------------------------------------------------------------------
(* Every variable keeps its type, in an office of any size.                *)

LEMMA TypeInit == Init => TypeOK
    <1> SUFFICES ASSUME Init PROVE TypeOK
        OBVIOUS
    <1>1. PresenceTypeOK
        BY PresenceAssumption DEF Init, PresenceInit, PresenceTypeOK, Phases
    <1>2. Command!EmptyMeeting \in AMeeting
        BY DEF AMeeting, Command!EmptyMeeting, Command!MeetingRecords
    <1>3. NoEntries \in [Users -> Nat]
        BY DEF NoEntries
    <1> QED
        BY <1>1, <1>2, <1>3 DEF Init, TypeOK, AMeeting

LEMMA PresenceTypeStep ==
    ASSUME PresenceTypeOK, NEW s \in Sessions,
           \/ Join(s) \/ JoinWritten(s) \/ JoinRefused(s)
           \/ LeavePresence(s) \/ OfflineWritten(s)
    PROVE  PresenceTypeOK'
    <1> USE PresenceAssumption
        DEF PresenceTypeOK, Phases
    <1>1. CASE Join(s)
        BY <1>1 DEF Join
    <1>2. CASE JoinWritten(s)
        BY <1>2 DEF JoinWritten, JoinSettled
    <1>3. CASE JoinRefused(s)
        BY <1>3 DEF JoinRefused, JoinSettled
    <1>4. CASE LeavePresence(s)
        BY <1>4 DEF LeavePresence, Ends
    <1>5. CASE OfflineWritten(s)
        BY <1>5 DEF OfflineWritten
    <1> QED
        BY <1>1, <1>2, <1>3, <1>4, <1>5

(* A request in progress names a session, a meeting and an awaited answer. *)
LEMMA InProgressTyped ==
    ASSUME TypeOK, NEW r \in Requests, request[r].pc # "idle"
    PROVE  request[r] \in Connects
    BY DEF TypeOK, Connects, Idle

LEMMA TypeStep == TypeOK /\ [Next]_vars => TypeOK'
    <1> SUFFICES ASSUME TypeOK, [Next]_vars PROVE TypeOK'
        OBVIOUS
    <1> USE DEF TypeOK
    <1>1. ASSUME NEW s \in Sessions, Connection(s) PROVE TypeOK'
        <2>1. CASE Leave(s)
            <3>1. PresenceTypeOK'
                BY <2>1, PresenceTypeStep DEF Leave
            <3>2. \A m \in Meetings : Command!DropUser(meetings[m], s) \in AMeeting
                BY DropUserKeeps DEF AMeeting
            <3>3. meetings' \in [Meetings -> AMeeting]
                BY <2>1, <3>2 DEF Leave
            <3> QED
                BY <2>1, <3>1, <3>3 DEF Leave, AMeeting
        <2>2. CASE Arrive(s) \/ Arrived(s) \/ TurnedAway(s) \/ MarkedOffline(s)
            <3>1. PresenceTypeOK'
                BY <2>2, PresenceTypeStep
                DEF Arrive, Arrived, TurnedAway, MarkedOffline
            <3> QED
                BY <2>2, <3>1
                DEF Arrive, Arrived, TurnedAway, MarkedOffline,
                    furnitureVars, meetingVars
        <2> QED
            BY <1>1, <2>1, <2>2 DEF Connection
    <1>2. ASSUME NEW s \in Sessions, Furniture(s) PROVE TypeOK'
        <2>1. PresenceTypeOK' /\ UNCHANGED meetingVars
            BY <1>2 DEF Furniture, Chair, Whiteboard, ConnectToChair, DisconnectFromChair,
                        ConnectToWhiteboard, DisconnectFromWhiteboard,
                        presenceVars, PresenceTypeOK
        <2>2. chairs' \in [Chairs -> Sessions \cup {NoOne}]
            BY <1>2 DEF Furniture, Chair, Whiteboard, ConnectToChair, DisconnectFromChair,
                        ConnectToWhiteboard, DisconnectFromWhiteboard
        <2>3. whiteboards' \in [Whiteboards -> SUBSET Sessions]
            BY <1>2 DEF Furniture, Chair, Whiteboard, ConnectToChair, DisconnectFromChair,
                        ConnectToWhiteboard, DisconnectFromWhiteboard
        <2> QED
            BY <2>1, <2>2, <2>3 DEF meetingVars
    <1>3. ASSUME NEW s \in Sessions, NEW m \in Meetings, Meeting(s, m)
          PROVE  TypeOK'
        <2>1. UNCHANGED <<presenceVars, furnitureVars, entries>>
            BY <1>3 DEF Meeting, LockMeeting, UnlockMeeting,
                        DisconnectFromMeeting, ConnectToMeeting
        <2>2. /\ Command!SetLock(meetings[m], s, TRUE) \in AMeeting
              /\ Command!SetLock(meetings[m], s, FALSE) \in AMeeting
              /\ Command!RemoveUser(meetings[m], s) \in AMeeting
            BY SetLockKeeps, RemoveUserKeeps DEF AMeeting
        <2>3. meetings' \in [Meetings -> AMeeting]
            BY <1>3, <2>2 DEF Meeting, LockMeeting, UnlockMeeting, AMeeting,
                              DisconnectFromMeeting, ConnectToMeeting
        <2>4. request' \in [Requests -> Connects \cup {Idle}]
            <3>1. CASE UNCHANGED request
                BY <3>1
            <3>2. ASSUME NEW r \in Requests, NEW u \in Users,
                         ConnectToMeeting(r, s, m, u)
                  PROVE  request' \in [Requests -> Connects \cup {Idle}]
                BY <3>2 DEF ConnectToMeeting, Connects, Waiting
            <3> QED
                BY <1>3, <3>1, <3>2
                DEF Meeting, LockMeeting, UnlockMeeting, DisconnectFromMeeting
        <2> QED
            BY <2>1, <2>3, <2>4
            DEF AMeeting, presenceVars, furnitureVars, PresenceTypeOK
    <1>4. ASSUME NEW r \in Requests, Continuation(r) PROVE TypeOK'
        <2>1. UNCHANGED <<presenceVars, furnitureVars>>
            BY <1>4 DEF Continuation, UserFound, ChatCreated, ChatFound, ChatSaved
        <2>2. request[r] \in Connects
            BY <1>4, InProgressTyped
            DEF Continuation, UserFound, ChatCreated, ChatFound, ChatSaved
        <2> DEFINE s == request[r].session
                   m == request[r].meeting
                   u == request[r].user
        <2>3. s \in Sessions /\ m \in Meetings /\ u \in Users
            BY <2>2 DEF Connects
        <2>4. CASE UserFound(r) \/ ChatFound(r)
            <3>1. meetings[m].chatId \in ChatIds \cup {NoChat}
                BY <2>3 DEF Command!MeetingRecords
            <3>2. request' \in [Requests -> Connects \cup {Idle}]
                <4>1. /\ [request[r] EXCEPT !.pc = "create"] \in Connects
                      /\ [request[r] EXCEPT !.pc = "save"] \in Connects
                    BY <2>2 DEF Connects, Waiting
                <4>2. [request[r] EXCEPT !.pc = "find",
                           !.chat = meetings[m].chatId] \in Connects
                    BY <2>2, <3>1 DEF Connects, Waiting
                <4>3. PICK q \in Connects \cup {Idle} :
                          request' = [request EXCEPT ![r] = q]
                    BY <2>4, <4>1, <4>2 DEF UserFound, ChatFound
                <4> QED
                    BY <4>3
            <3> QED
                BY <2>4, <2>1, <3>2
                DEF UserFound, ChatFound, presenceVars, furnitureVars, PresenceTypeOK
        <2>5. CASE ChatCreated(r)
            <3>1. PICK c \in ChatIds :
                      /\ entries' = [entries EXCEPT ![c][u] = 1]
                      /\ meetings' = [meetings EXCEPT ![m] =
                             Command!AddUser([@ EXCEPT !.chatId = c], s)]
                BY <2>5 DEF ChatCreated
            <3>2. [meetings[m] EXCEPT !.chatId = c] \in AMeeting
                BY <2>3 DEF AMeeting, Command!MeetingRecords
            <3>3. Command!AddUser([meetings[m] EXCEPT !.chatId = c], s) \in AMeeting
                BY <2>3, <3>2, AddUserKeeps
            <3>4. meetings' \in [Meetings -> AMeeting]
                BY <2>3, <3>1, <3>3 DEF AMeeting
            <3>6. entries' \in [ChatIds -> [Users -> Nat]]
                BY <2>3, <3>1
            <3>7. request' \in [Requests -> Connects \cup {Idle}]
                BY <2>5 DEF ChatCreated
            <3> QED
                BY <2>1, <3>4, <3>6, <3>7
                DEF AMeeting, presenceVars, furnitureVars, PresenceTypeOK
        <2>6. CASE ChatSaved(r)
            <3>1. Command!AddUser(meetings[m], s) \in AMeeting
                BY <2>3, AddUserKeeps DEF AMeeting
            <3>2. meetings' \in [Meetings -> AMeeting]
                BY <2>6, <2>3, <3>1 DEF ChatSaved, AMeeting
            <3>4. entries' \in [ChatIds -> [Users -> Nat]]
                <4> DEFINE c == request[r].chat
                <4>1. entries' = [entries EXCEPT ![c][u] =
                          IF @ < MaxEntries THEN @ + 1 ELSE @]
                    BY <2>6 DEF ChatSaved
                <4>2. CASE c \in ChatIds
                    <5>1. entries[c] \in [Users -> Nat]
                        BY <4>2
                    <5>2. [entries[c] EXCEPT ![u] =
                              IF @ < MaxEntries THEN @ + 1 ELSE @] \in [Users -> Nat]
                        BY <5>1, <2>3
                    <5> QED
                        BY <4>1, <4>2, <5>2
                <4>3. CASE c \notin ChatIds
                    BY <4>1, <4>3
                <4> QED
                    BY <4>2, <4>3
            <3>5. request' \in [Requests -> Connects \cup {Idle}]
                BY <2>6 DEF ChatSaved
            <3> QED
                BY <2>1, <3>2, <3>4, <3>5
                DEF AMeeting, presenceVars, furnitureVars, PresenceTypeOK
        <2> QED
            BY <1>4, <2>4, <2>5, <2>6 DEF Continuation
    <1>5. ASSUME NEW r \in Requests, ConnectAbandoned(r) PROVE TypeOK'
        BY <1>5 DEF ConnectAbandoned, presenceVars, furnitureVars, PresenceTypeOK
    <1>6. CASE UNCHANGED vars
        BY <1>6 DEF vars, presenceVars, furnitureVars, meetingVars, PresenceTypeOK
    <1> QED
        BY <1>1, <1>2, <1>3, <1>4, <1>5, <1>6 DEF Next

(* The room's state, the database's and the requests in progress keep      *)
(* their types.                                                            *)
THEOREM TypeCorrect == Spec => []TypeOK
    <1>1. Init => TypeOK
        BY TypeInit
    <1>2. TypeOK /\ [Next]_vars => TypeOK'
        BY TypeStep
    <1> QED
        BY <1>1, <1>2, PTL DEF Spec

-----------------------------------------------------------------------------
(* Presence and seats.  That routing and seats are right rests on one fact *)
(* about the players: they are the connections Colyseus holds, so a client *)
(* that can send a message has a player.                                   *)

PresenceInv == PlayersAreConnections /\ RoutesToOwnPlayer /\ SeatsHoldPlayers

LEMMA PresenceInvInit == Init => PresenceInv
    BY PresenceAssumption
    DEF Init, PresenceInit, PresenceInv, PlayersAreConnections,
        RoutesToOwnPlayer, SeatsHoldPlayers

LEMMA PresenceInvStep ==
    ASSUME TypeOK, PresenceInv, [Next]_vars PROVE PresenceInv'
    <1> USE PresenceAssumption
        DEF PresenceInv, PlayersAreConnections, RoutesToOwnPlayer,
            SeatsHoldPlayers, TypeOK, PresenceTypeOK
    <1>1. ASSUME NEW s \in Sessions, Connection(s) PROVE PresenceInv'
        <2>1. CASE Arrive(s)
            BY <2>1 DEF Arrive, Join, furnitureVars
        <2>2. CASE Arrived(s)
            BY <2>2 DEF Arrived, JoinWritten, JoinSettled, furnitureVars
        <2>3. CASE TurnedAway(s)
            BY <2>3 DEF TurnedAway, JoinRefused, JoinSettled, furnitureVars
        <2>4. CASE MarkedOffline(s)
            BY <2>4 DEF MarkedOffline, OfflineWritten, furnitureVars
        <2>5. CASE Leave(s)
            <3>1. PlayersAreConnections'
                BY <2>5 DEF Leave, LeavePresence, Ends
            <3>2. RoutesToOwnPlayer'
                BY <2>5 DEF Leave, LeavePresence
            <3>3. SeatsHoldPlayers'
                BY <2>5 DEF Leave, LeavePresence
            <3> QED
                BY <3>1, <3>2, <3>3
        <2> QED
            BY <1>1, <2>1, <2>2, <2>3, <2>4, <2>5 DEF Connection
    <1>2. ASSUME NEW s \in Sessions, Furniture(s) PROVE PresenceInv'
        <2>1. s \in players /\ UNCHANGED presenceVars
            BY <1>2 DEF Furniture, Chair, Whiteboard, ConnectToChair, DisconnectFromChair,
                        ConnectToWhiteboard, DisconnectFromWhiteboard
        <2>2. SeatsHoldPlayers'
            <3>1. ASSUME NEW c \in Chairs,
                         ConnectToChair(s, c) \/ DisconnectFromChair(s, c)
                  PROVE  SeatsHoldPlayers'
                BY <3>1, <2>1
                DEF ConnectToChair, DisconnectFromChair, presenceVars
            <3>2. ASSUME NEW w \in Whiteboards,
                         ConnectToWhiteboard(s, w) \/ DisconnectFromWhiteboard(s, w)
                  PROVE  SeatsHoldPlayers'
                BY <3>2, <2>1
                DEF ConnectToWhiteboard, DisconnectFromWhiteboard, presenceVars
            <3> QED
                BY <1>2, <3>1, <3>2 DEF Furniture, Chair, Whiteboard
        <2> QED
            BY <2>1, <2>2 DEF presenceVars
    <1>3. CASE UNCHANGED <<presenceVars, furnitureVars>>
        BY <1>3 DEF presenceVars, furnitureVars
    <1>4. ASSUME NEW s \in Sessions, NEW m \in Meetings, Meeting(s, m)
          PROVE  UNCHANGED <<presenceVars, furnitureVars>>
        BY <1>4 DEF Meeting, LockMeeting, UnlockMeeting,
                    DisconnectFromMeeting, ConnectToMeeting
    <1>5. ASSUME NEW r \in Requests, Continuation(r) \/ ConnectAbandoned(r)
          PROVE  UNCHANGED <<presenceVars, furnitureVars>>
        BY <1>5 DEF Continuation, ConnectAbandoned,
                    UserFound, ChatCreated, ChatFound, ChatSaved
    <1> QED
        BY <1>1, <1>2, <1>3, <1>4, <1>5 DEF Next, vars

(* The invariant of presence holds in every reachable state.               *)
LEMMA PresenceInvariant == Spec => []PresenceInv
    <1>1. TypeOK /\ PresenceInv /\ [Next]_vars => PresenceInv'
        BY PresenceInvStep
    <1> QED
        BY <1>1, PresenceInvInit, TypeCorrect, PTL DEF Spec

(* A message is never routed to a session that has left, nor to another    *)
(* user's: what mapClients names is a player of that user.                 *)
THEOREM RoutingCorrect == Spec => []RoutesToOwnPlayer
    BY PresenceInvariant, PTL DEF PresenceInv

(* No chair and no whiteboard keeps a session that has left the room.      *)
THEOREM SeatsCorrect == Spec => []SeatsHoldPlayers
    BY PresenceInvariant, PTL DEF PresenceInv

(* A user's only connection is what the user is reached at while it lasts, *)
(* whatever the connections of others do and whoever fails.                *)
LEMMA SoleSessionStep ==
    ASSUME TypeOK, SoleSessionReachable, [Next]_vars
    PROVE  SoleSessionReachable'
    <1> USE PresenceAssumption DEF TypeOK, PresenceTypeOK
    <1>1. ASSUME NEW t \in Sessions, Connection(t),
                 NEW s \in Sessions, phase'[s] \in {"joining", "in"},
                 \A x \in Sessions \ {s} :
                     UserOf[x] = UserOf[s] => phase'[x] = "away"
          PROVE  mapClients'[UserOf[s]] = s
        <2>1. \A x \in Sessions : phase'[x] = "away" => phase[x] = "away"
            BY <1>1 DEF Connection, Arrive, Join, Arrived, JoinWritten, TurnedAway,
                        JoinRefused, JoinSettled, Leave, LeavePresence, Ends,
                        MarkedOffline, OfflineWritten
        <2>2. phase[s] \in {"joining", "in"} => mapClients[UserOf[s]] = s
            BY <1>1, <2>1 DEF SoleSessionReachable
        <2>3. CASE Arrive(t)
            <3>1. CASE t = s
                BY <2>3, <3>1 DEF Arrive, Join
            <3>2. CASE t # s
                <4>1. UserOf[t] # UserOf[s] /\ phase'[s] = phase[s]
                    BY <1>1, <2>3, <3>2 DEF Arrive, Join
                <4> QED
                    BY <1>1, <2>2, <2>3, <4>1 DEF Arrive, Join
            <3> QED
                BY <3>1, <3>2
        <2>4. CASE Leave(t)
            <3>1. t # s /\ phase'[t] # "away" /\ phase'[s] = phase[s]
                BY <1>1, <2>4 DEF Leave, LeavePresence, Ends
            <3>2. UserOf[t] # UserOf[s]
                BY <1>1, <3>1
            <3> QED
                BY <1>1, <2>2, <2>4, <3>1, <3>2 DEF Leave, LeavePresence
        <2>5. CASE Arrived(t) \/ TurnedAway(t) \/ MarkedOffline(t)
            <3>1. /\ phase[s] \in {"joining", "in"}
                  /\ mapClients' = mapClients
                BY <1>1, <2>5 DEF Arrived, JoinWritten, TurnedAway, JoinRefused,
                                  JoinSettled, MarkedOffline, OfflineWritten
            <3> QED
                BY <2>2, <3>1
        <2> QED
            BY <1>1, <2>3, <2>4, <2>5 DEF Connection
    <1>2. CASE UNCHANGED presenceVars
        BY <1>2 DEF presenceVars, SoleSessionReachable
    <1>3. ASSUME NEW s \in Sessions, Furniture(s)
          PROVE  UNCHANGED presenceVars
        BY <1>3 DEF Furniture, Chair, Whiteboard, ConnectToChair, DisconnectFromChair,
                    ConnectToWhiteboard, DisconnectFromWhiteboard
    <1>4. ASSUME NEW s \in Sessions, NEW m \in Meetings, Meeting(s, m)
          PROVE  UNCHANGED presenceVars
        BY <1>4 DEF Meeting, LockMeeting, UnlockMeeting,
                    DisconnectFromMeeting, ConnectToMeeting
    <1>5. ASSUME NEW r \in Requests, Continuation(r) \/ ConnectAbandoned(r)
          PROVE  UNCHANGED presenceVars
        BY <1>5 DEF Continuation, ConnectAbandoned,
                    UserFound, ChatCreated, ChatFound, ChatSaved
    <1>6. (\E t \in Sessions : Connection(t)) => SoleSessionReachable'
        BY <1>1 DEF SoleSessionReachable
    <1> QED
        BY <1>2, <1>3, <1>4, <1>5, <1>6 DEF Next, vars

(* A user with a single connection is reachable as long as it lasts, in an *)
(* office of any number of others.                                         *)
THEOREM SoleSessionsReached == Spec => []SoleSessionReachable
    <1>1. Init => SoleSessionReachable
        BY DEF Init, PresenceInit, SoleSessionReachable
    <1>2. TypeOK /\ SoleSessionReachable /\ [Next]_vars => SoleSessionReachable'
        BY SoleSessionStep
    <1> QED
        BY <1>1, <1>2, TypeCorrect, PTL DEF Spec

(* Whom the database shows online is accounted for by a connection, or by a *)
(* write that is still to come.                                            *)
LEMMA AccountedStep ==
    ASSUME TypeOK, OnlineIsAccountedFor, [Next]_vars
    PROVE  OnlineIsAccountedFor'
    <1> USE PresenceAssumption DEF TypeOK, PresenceTypeOK
    <1>1. ASSUME NEW t \in Sessions, Connection(t), NEW u \in Users,
                 online'[u], Departed(u, {"gone"})'
          PROVE  \/ Departed(u, {"in", "lost"})'
                 \/ \E s \in offlineWrites' : UserOf[s] = u
        <2>1. CASE Arrive(t)
            <3>1. /\ online[u] /\ Departed(u, {"gone"})
                  /\ \A s \in Sessions : phase[s] \in {"in", "lost"} =>
                        phase'[s] = phase[s]
                  /\ offlineWrites' = offlineWrites
                BY <1>1, <2>1 DEF Arrive, Join, Departed
            <3> QED
                BY <3>1 DEF OnlineIsAccountedFor, Departed
        <2>2. CASE Arrived(t)
            <3>1. CASE UserOf[t] = u
                <4>1. phase'[t] \in {"in", "lost"}
                    BY <2>2 DEF Arrived, JoinWritten, JoinSettled
                <4> QED
                    BY <3>1, <4>1 DEF Departed
            <3>2. CASE UserOf[t] # u
                <4>1. /\ online[u] /\ Departed(u, {"gone"})
                      /\ \A s \in Sessions : UserOf[s] = u => phase'[s] = phase[s]
                      /\ offlineWrites' = offlineWrites
                    BY <1>1, <2>2, <3>2
                    DEF Arrived, JoinWritten, JoinSettled, Departed
                <4> QED
                    BY <4>1 DEF OnlineIsAccountedFor, Departed
            <3> QED
                BY <3>1, <3>2
        <2>3. CASE TurnedAway(t)
            <3>1. /\ online[u] /\ Departed(u, {"gone"})
                  /\ \A s \in Sessions : phase[s] \in {"in", "lost"} =>
                        phase'[s] = phase[s]
                  /\ offlineWrites' = offlineWrites
                BY <1>1, <2>3 DEF TurnedAway, JoinRefused, JoinSettled, Departed
            <3> QED
                BY <3>1 DEF OnlineIsAccountedFor, Departed
        <2>4. CASE Leave(t)
            <3>1. CASE UserOf[t] = u
                BY <2>4, <3>1 DEF Leave, LeavePresence
            <3>2. CASE UserOf[t] # u
                <4>1. /\ online[u] /\ Departed(u, {"gone"})
                      /\ \A s \in Sessions : UserOf[s] = u => phase'[s] = phase[s]
                      /\ offlineWrites \subseteq offlineWrites'
                    BY <1>1, <2>4, <3>2 DEF Leave, LeavePresence, Ends, Departed
                <4> QED
                    BY <4>1 DEF OnlineIsAccountedFor, Departed
            <3> QED
                BY <3>1, <3>2
        <2>5. CASE MarkedOffline(t)
            <3>1. /\ UserOf[t] # u /\ phase' = phase
                  /\ online[u] /\ Departed(u, {"gone"})
                  /\ offlineWrites' = offlineWrites \ {t}
                BY <1>1, <2>5 DEF MarkedOffline, OfflineWritten, Departed
            <3> QED
                BY <3>1 DEF OnlineIsAccountedFor, Departed
        <2> QED
            BY <1>1, <2>1, <2>2, <2>3, <2>4, <2>5 DEF Connection
    <1>2. CASE UNCHANGED presenceVars
        BY <1>2 DEF presenceVars, OnlineIsAccountedFor, Departed
    <1>3. ASSUME NEW s \in Sessions, Furniture(s)
          PROVE  UNCHANGED presenceVars
        BY <1>3 DEF Furniture, Chair, Whiteboard, ConnectToChair, DisconnectFromChair,
                    ConnectToWhiteboard, DisconnectFromWhiteboard
    <1>4. ASSUME NEW s \in Sessions, NEW m \in Meetings, Meeting(s, m)
          PROVE  UNCHANGED presenceVars
        BY <1>4 DEF Meeting, LockMeeting, UnlockMeeting,
                    DisconnectFromMeeting, ConnectToMeeting
    <1>5. ASSUME NEW r \in Requests, Continuation(r) \/ ConnectAbandoned(r)
          PROVE  UNCHANGED presenceVars
        BY <1>5 DEF Continuation, ConnectAbandoned,
                    UserFound, ChatCreated, ChatFound, ChatSaved
    <1>6. (\E t \in Sessions : Connection(t)) => OnlineIsAccountedFor'
        BY <1>1 DEF OnlineIsAccountedFor
    <1> QED
        BY <1>2, <1>3, <1>4, <1>5, <1>6 DEF Next, vars

(* In an office of any size, a user one of whose connections has left is   *)
(* shown online only for a connection or while a write is under way.       *)
THEOREM OnlineAccounted == Spec => []OnlineIsAccountedFor
    <1>1. Init => OnlineIsAccountedFor
        BY DEF Init, PresenceInit, OnlineIsAccountedFor, Departed
    <1>2. TypeOK /\ OnlineIsAccountedFor /\ [Next]_vars => OnlineIsAccountedFor'
        BY AccountedStep
    <1> QED
        BY <1>1, <1>2, TypeCorrect, PTL DEF Spec

-----------------------------------------------------------------------------
(* Meetings.  Whatever the step, a meeting changes by one command.         *)

LEMMA MeetingStep ==
    ASSUME TypeOK, [Next]_vars, NEW m \in Meetings
    PROVE  \/ meetings'[m] = meetings[m]
           \/ \E s \in Sessions :
                 \/ Leave(s) /\ meetings'[m] = Command!DropUser(meetings[m], s)
                 \/ \E value \in BOOLEAN :
                       meetings'[m] = Command!SetLock(meetings[m], s, value)
                 \/ meetings'[m] = Command!RemoveUser(meetings[m], s)
                 \/ meetings'[m] = Command!AddUser(meetings[m], s)
                 \/ \E c \in ChatIds : meetings'[m] =
                       Command!AddUser([meetings[m] EXCEPT !.chatId = c], s)
    <1> USE DEF TypeOK
    <1>1. ASSUME NEW s \in Sessions, Leave(s)
          PROVE  meetings'[m] = Command!DropUser(meetings[m], s)
        BY <1>1 DEF Leave
    <1>2. ASSUME NEW s \in Sessions, NEW n \in Meetings, Meeting(s, n)
          PROVE  \/ meetings'[m] = meetings[m]
                 \/ meetings'[m] = Command!SetLock(meetings[m], s, TRUE)
                 \/ meetings'[m] = Command!SetLock(meetings[m], s, FALSE)
                 \/ meetings'[m] = Command!RemoveUser(meetings[m], s)
        BY <1>2 DEF Meeting, LockMeeting, UnlockMeeting,
                    DisconnectFromMeeting, ConnectToMeeting
    <1>3. ASSUME NEW r \in Requests, ChatCreated(r)
          PROVE  \/ meetings'[m] = meetings[m]
                 \/ \E s \in Sessions, c \in ChatIds : meetings'[m] =
                       Command!AddUser([meetings[m] EXCEPT !.chatId = c], s)
        <2>1. request[r].session \in Sessions
            BY <1>3, InProgressTyped DEF ChatCreated, Connects
        <2> QED
            BY <1>3, <2>1 DEF ChatCreated
    <1>4. ASSUME NEW r \in Requests, ChatSaved(r)
          PROVE  \/ meetings'[m] = meetings[m]
                 \/ \E s \in Sessions :
                       meetings'[m] = Command!AddUser(meetings[m], s)
        <2>1. request[r].session \in Sessions
            BY <1>4, InProgressTyped DEF ChatSaved, Connects
        <2> QED
            BY <1>4, <2>1 DEF ChatSaved
    <1>5. \/ UNCHANGED meetings
          \/ \E s \in Sessions : Leave(s)
          \/ \E s \in Sessions, n \in Meetings : Meeting(s, n)
          \/ \E r \in Requests : ChatCreated(r) \/ ChatSaved(r)
        BY DEF Next, vars, meetingVars, Connection, Furniture, Chair, Whiteboard, Continuation,
               Arrive, Arrived, TurnedAway, MarkedOffline, ConnectToChair,
               DisconnectFromChair, ConnectToWhiteboard,
               DisconnectFromWhiteboard, UserFound, ChatFound, ConnectAbandoned
    <1> QED
        BY <1>1, <1>2, <1>3, <1>4, <1>5

(* Giving a meeting another chat leaves its other fields in agreement.     *)
LEMMA NewChatKeeps ==
    ASSUME NEW meeting \in AMeeting, NEW c \in ChatIds
    PROVE  LET after == [meeting EXCEPT !.chatId = c]
           IN  /\ after \in AMeeting
               /\ Command!Consistent(meeting) => Command!Consistent(after)
               /\ after.connectedUser = meeting.connectedUser
               /\ after.isLocked = meeting.isLocked
               /\ after.adminUser = meeting.adminUser
    BY DEF AMeeting, Command!MeetingRecords, Command!Consistent

LEMMA ConsistentStep ==
    ASSUME TypeOK, MeetingConsistent, [Next]_vars PROVE MeetingConsistent'
    <1> SUFFICES ASSUME NEW m \in Meetings PROVE Command!Consistent(meetings'[m])
        BY DEF MeetingConsistent, Command!Consistent
    <1>1. meetings[m] \in AMeeting /\ Command!Consistent(meetings[m])
        BY DEF TypeOK, AMeeting, MeetingConsistent
    <1>2. ASSUME NEW s \in Sessions
          PROVE  /\ Command!Consistent(Command!DropUser(meetings[m], s))
                 /\ Command!Consistent(Command!RemoveUser(meetings[m], s))
                 /\ Command!Consistent(Command!AddUser(meetings[m], s))
        BY <1>1, AddUserKeeps, RemoveUserKeeps, DropUserKeeps
    <1>3. ASSUME NEW s \in Sessions, NEW value \in BOOLEAN
          PROVE  Command!Consistent(Command!SetLock(meetings[m], s, value))
        BY <1>1, SetLockKeeps
    <1>4. ASSUME NEW s \in Sessions, NEW c \in ChatIds
          PROVE  Command!Consistent(
                     Command!AddUser([meetings[m] EXCEPT !.chatId = c], s))
        BY <1>1, NewChatKeeps, AddUserKeeps
    <1>5. CASE meetings'[m] = meetings[m]
        BY <1>1, <1>5
    <1> QED
        BY <1>2, <1>3, <1>4, <1>5, MeetingStep

(* In every meeting of every office: open exactly while somebody is in it, *)
(* without an admin exactly while nobody is, and an admin is a participant. *)
THEOREM MeetingsConsistent == Spec => []MeetingConsistent
    <1>1. Init => MeetingConsistent
        BY DEF Init, MeetingConsistent, Command!Consistent, Command!EmptyMeeting
    <1>2. TypeOK /\ MeetingConsistent /\ [Next]_vars => MeetingConsistent'
        BY ConsistentStep
    <1> QED
        BY <1>1, <1>2, TypeCorrect, PTL DEF Spec

-----------------------------------------------------------------------------
(* Locks and admins: what one command may change of a meeting.             *)

Lawful(before, after) ==
    /\ before.isLocked => after.connectedUser \subseteq before.connectedUser
    /\ after.isLocked # before.isLocked =>
          \/ after.connectedUser = {}
          \/ /\ before.adminUser \in before.connectedUser
             /\ after.adminUser = before.adminUser
    /\ before.adminUser \in Sessions /\ after.adminUser # before.adminUser =>
          before.adminUser \notin after.connectedUser

LEMMA CommandsLawful ==
    ASSUME NEW meeting \in AMeeting, Command!Consistent(meeting),
           NEW s \in Sessions
    PROVE  /\ Lawful(meeting, Command!DropUser(meeting, s))
           /\ Lawful(meeting, Command!RemoveUser(meeting, s))
           /\ Lawful(meeting, Command!AddUser(meeting, s))
           /\ \A value \in BOOLEAN : Lawful(meeting, Command!SetLock(meeting, s, value))
    <1> USE PresenceAssumption, OfficeAssumption
        DEF AMeeting, Command!MeetingRecords, Command!Consistent, Lawful
    <1>1. Lawful(meeting, Command!DropUser(meeting, s))
        BY DEF Command!DropUser
    <1>2. Lawful(meeting, Command!RemoveUser(meeting, s))
        BY DEF Command!RemoveUser, Command!EmptyMeeting
    <1>3. Lawful(meeting, Command!AddUser(meeting, s))
        BY DEF Command!AddUser
    <1>4. \A value \in BOOLEAN : Lawful(meeting, Command!SetLock(meeting, s, value))
        BY DEF Command!SetLock
    <1> QED
        BY <1>1, <1>2, <1>3, <1>4

LEMMA StepLawful ==
    ASSUME TypeOK, MeetingConsistent, [Next]_vars, NEW m \in Meetings
    PROVE  Lawful(meetings[m], meetings'[m])
    <1>1. meetings[m] \in AMeeting /\ Command!Consistent(meetings[m])
        BY DEF TypeOK, AMeeting, MeetingConsistent
    <1>2. ASSUME NEW s \in Sessions, NEW c \in ChatIds
          PROVE  Lawful(meetings[m],
                        Command!AddUser([meetings[m] EXCEPT !.chatId = c], s))
        <2> DEFINE given == [meetings[m] EXCEPT !.chatId = c]
        <2>1. /\ given \in AMeeting
              /\ Command!Consistent(given)
              /\ given.connectedUser = meetings[m].connectedUser
              /\ given.isLocked = meetings[m].isLocked
              /\ given.adminUser = meetings[m].adminUser
            BY <1>1, NewChatKeeps
        <2>2. Lawful(given, Command!AddUser(given, s))
            BY <2>1, CommandsLawful
        <2> QED
            BY <2>1, <2>2 DEF Lawful
    <1>3. CASE meetings'[m] = meetings[m]
        BY <1>3 DEF Lawful
    <1> QED
        BY <1>1, <1>2, <1>3, MeetingStep, CommandsLawful

LEMMA LawfulAlways ==
    Spec => [][\A m \in Meetings : Lawful(meetings[m], meetings'[m])]_vars
    <1>1. TypeOK /\ MeetingConsistent /\ [Next]_vars =>
              [\A m \in Meetings : Lawful(meetings[m], meetings'[m])]_vars
        BY StepLawful
    <1> QED
        BY <1>1, TypeCorrect, MeetingsConsistent, PTL DEF Spec

(* No step of any handler lets anybody into a locked meeting.              *)
THEOREM LockHolds == Spec => LockedAdmitsNobody
    <1>1. [\A m \in Meetings : Lawful(meetings[m], meetings'[m])]_vars =>
          [\A m \in Meetings : meetings[m].isLocked =>
              meetings'[m].connectedUser \subseteq meetings[m].connectedUser]_vars
        BY DEF Lawful
    <1> QED
        BY <1>1, LawfulAlways, PTL DEF LockedAdmitsNobody

(* The lock turns only at its admin's hand, or lapses with the meeting.    *)
THEOREM LockBelongsToAdmin == Spec => LockIsTheAdmins
    <1>1. [\A m \in Meetings : Lawful(meetings[m], meetings'[m])]_vars =>
          [\A m \in Meetings : meetings'[m].isLocked # meetings[m].isLocked =>
              \/ meetings'[m].connectedUser = {}
              \/ /\ meetings[m].adminUser \in meetings[m].connectedUser
                 /\ meetings'[m].adminUser = meetings[m].adminUser]_vars
        BY DEF Lawful
    <1> QED
        BY <1>1, LawfulAlways, PTL DEF LockIsTheAdmins

(* An admin is replaced only once out of the meeting.                      *)
THEOREM AdminKeepsOffice == Spec => AdminStaysAdmin
    <1>1. [\A m \in Meetings : Lawful(meetings[m], meetings'[m])]_vars =>
          [\A m \in Meetings :
              /\ meetings[m].adminUser \in Sessions
              /\ meetings'[m].adminUser # meetings[m].adminUser
              => meetings[m].adminUser \notin meetings'[m].connectedUser]_vars
        BY DEF Lawful
    <1> QED
        BY <1>1, LawfulAlways, PTL DEF AdminStaysAdmin

-----------------------------------------------------------------------------
(* The meetings implement MeetingRooms.                                    *)

Charge(meeting) ==
    IF meeting.adminUser \in Sessions THEN meeting.adminUser ELSE NoOne

RoomStep == [Room!Next]_(Room!vars)

(* What a room shows of a step that changes one meeting.                   *)
LEMMA OneMeeting ==
    ASSUME NEW n \in Meetings,
           \A m \in Meetings \ {n} : meetings'[m] = meetings[m]
    PROVE  /\ insideOf' = [insideOf EXCEPT ![n] = meetings'[n].connectedUser]
           /\ chargeOf' = [chargeOf EXCEPT ![n] = Charge(meetings'[n])]
           /\ lockedOf' = [lockedOf EXCEPT ![n] = meetings'[n].isLocked]
           /\ insideOf[n] = meetings[n].connectedUser
           /\ chargeOf[n] = Charge(meetings[n])
           /\ lockedOf[n] = meetings[n].isLocked
    <1> DEFINE after == meetings'[n]
    <1>1. \A m \in Meetings : meetings'[m] = IF m = n THEN after ELSE meetings[m]
        OBVIOUS
    <1> HIDE DEF after
    <1>2. insideOf' = [insideOf EXCEPT ![n] = after.connectedUser]
        <2>1. insideOf' = [m \in Meetings |-> meetings'[m].connectedUser]
            BY DEF insideOf
        <2>2. insideOf' = [m \in Meetings |-> IF m = n THEN after.connectedUser
                                              ELSE meetings[m].connectedUser]
            BY <1>1, <2>1
        <2> QED
            BY <2>2 DEF insideOf
    <1>3. chargeOf' = [chargeOf EXCEPT ![n] = Charge(after)]
        <2>1. chargeOf' = [m \in Meetings |-> Charge(meetings'[m])]
            BY DEF chargeOf, Charge
        <2>2. chargeOf = [m \in Meetings |-> Charge(meetings[m])]
            BY DEF chargeOf, Charge
        <2>3. chargeOf' = [m \in Meetings |-> IF m = n THEN Charge(after)
                                              ELSE Charge(meetings[m])]
            BY <1>1, <2>1
        <2> QED
            BY <2>2, <2>3
    <1>4. lockedOf' = [lockedOf EXCEPT ![n] = after.isLocked]
        <2>1. lockedOf' = [m \in Meetings |-> meetings'[m].isLocked]
            BY DEF lockedOf
        <2>2. lockedOf' = [m \in Meetings |-> IF m = n THEN after.isLocked
                                              ELSE meetings[m].isLocked]
            BY <1>1, <2>1
        <2> QED
            BY <2>2 DEF lockedOf
    <1>5. /\ insideOf[n] = meetings[n].connectedUser
          /\ chargeOf[n] = Charge(meetings[n])
          /\ lockedOf[n] = meetings[n].isLocked
        BY DEF insideOf, chargeOf, lockedOf, Charge
    <1> QED
        BY <1>2, <1>3, <1>4, <1>5 DEF after

(* A step that changes nothing of what a room shows.                       *)
LEMMA NothingShown ==
    ASSUME \A m \in Meetings :
               /\ meetings'[m].connectedUser = meetings[m].connectedUser
               /\ meetings'[m].isLocked = meetings[m].isLocked
               /\ meetings'[m].adminUser = meetings[m].adminUser
    PROVE  UNCHANGED Room!vars
    BY DEF Room!vars, insideOf, chargeOf, lockedOf

(* AddUser lets a session in, or changes nothing that a room shows.        *)
LEMMA AddUserInRooms ==
    ASSUME TypeOK, NEW n \in Meetings, NEW s \in Sessions, NEW meeting \in AMeeting,
           meeting.connectedUser = meetings[n].connectedUser,
           meeting.isLocked = meetings[n].isLocked,
           meeting.adminUser = meetings[n].adminUser,
           meetings' = [meetings EXCEPT ![n] = Command!AddUser(meeting, s)]
    PROVE  Room!Enter(n, s) \/ UNCHANGED Room!vars
    <1> DEFINE after == Command!AddUser(meeting, s)
    <1>1. CASE s \in meeting.connectedUser \/ meeting.isLocked
        <2>1. \A m \in Meetings :
                  /\ meetings'[m].connectedUser = meetings[m].connectedUser
                  /\ meetings'[m].isLocked = meetings[m].isLocked
                  /\ meetings'[m].adminUser = meetings[m].adminUser
            BY <1>1 DEF Command!AddUser, TypeOK
        <2> QED
            BY <2>1, NothingShown
    <1>2. CASE ~(s \in meeting.connectedUser \/ meeting.isLocked)
        <2>1. /\ after.connectedUser = meetings[n].connectedUser \cup {s}
              /\ after.isLocked = meetings[n].isLocked
              /\ Charge(after) = IF meetings[n].connectedUser = {} THEN s
                                 ELSE Charge(meetings[n])
            BY <1>2 DEF Command!AddUser, Charge, AMeeting, Command!MeetingRecords
        <2>2. /\ meetings'[n] = after
              /\ \A m \in Meetings \ {n} : meetings'[m] = meetings[m]
            BY DEF TypeOK
        <2> HIDE DEF after
        <2>3. ~lockedOf[n]
            BY <1>2, <2>2, OneMeeting
        <2>4. insideOf' = [insideOf EXCEPT ![n] = @ \cup {s}]
            BY <2>1, <2>2, OneMeeting
        <2>5. chargeOf' = [chargeOf EXCEPT ![n] = IF insideOf[n] = {} THEN s ELSE @]
            BY <2>1, <2>2, OneMeeting
        <2>6. UNCHANGED lockedOf
            <3>1. lockedOf' = [lockedOf EXCEPT ![n] = lockedOf[n]]
                BY <2>1, <2>2, OneMeeting
            <3> QED
                BY <3>1 DEF lockedOf
        <2> QED
            BY <2>3, <2>4, <2>5, <2>6 DEF Room!Enter
    <1> QED
        BY <1>1, <1>2

(* The lock commands turn the lock, if the admin is there to turn it.      *)
LEMMA SetLockInRooms ==
    ASSUME TypeOK, MeetingConsistent, NEW n \in Meetings, NEW s \in Sessions,
           NEW value \in BOOLEAN,
           meetings' = [meetings EXCEPT ![n] = Command!SetLock(meetings[n], s, value)]
    PROVE  Room!TurnLock(n) \/ UNCHANGED Room!vars
    <1> USE DEF TypeOK, Command!MeetingRecords
    <1>1. CASE s # meetings[n].adminUser \/ value = meetings[n].isLocked
        <2>1. \A m \in Meetings :
                  /\ meetings'[m].connectedUser = meetings[m].connectedUser
                  /\ meetings'[m].isLocked = meetings[m].isLocked
                  /\ meetings'[m].adminUser = meetings[m].adminUser
            BY <1>1 DEF Command!SetLock
        <2> QED
            BY <2>1, NothingShown
    <1>2. CASE s = meetings[n].adminUser /\ value # meetings[n].isLocked
        <2>1. meetings' = [meetings EXCEPT ![n] = [@ EXCEPT !.isLocked = value]]
            BY <1>2 DEF Command!SetLock
        <2>2. value = ~meetings[n].isLocked
            BY <1>2
        <2>3. meetings[n].adminUser \in meetings[n].connectedUser
            BY <1>2, PresenceAssumption, OfficeAssumption
            DEF MeetingConsistent, Command!Consistent
        <2>4. chargeOf[n] \in insideOf[n]
            BY <1>2, <2>3 DEF chargeOf, insideOf
        <2>5. \A m \in Meetings :
                  /\ meetings'[m].connectedUser = meetings[m].connectedUser
                  /\ meetings'[m].adminUser = meetings[m].adminUser
            BY <2>1
        <2>6. UNCHANGED <<insideOf, chargeOf>>
            BY <2>5 DEF insideOf, chargeOf
        <2>7. lockedOf' = [lockedOf EXCEPT ![n] = ~@]
            <3>1. /\ meetings'[n].isLocked = ~meetings[n].isLocked
                  /\ \A m \in Meetings \ {n} : meetings'[m] = meetings[m]
                BY <2>1, <2>2
            <3> QED
                BY <3>1, OneMeeting
        <2> QED
            BY <2>4, <2>6, <2>7 DEF Room!TurnLock
    <1> QED
        BY <1>1, <1>2

(* The reset of an emptied meeting, as a room shows it.                    *)
LEMMA ResetInRooms ==
    ASSUME TypeOK, NEW n \in Meetings,
           meetings' = [meetings EXCEPT ![n] = Command!EmptyMeeting]
    PROVE  /\ insideOf' = [insideOf EXCEPT ![n] = {}]
           /\ chargeOf' = [chargeOf EXCEPT ![n] = NoOne]
           /\ lockedOf' = [lockedOf EXCEPT ![n] = FALSE]
    <1>1. /\ Command!EmptyMeeting.connectedUser = {}
          /\ Charge(Command!EmptyMeeting) = NoOne
          /\ Command!EmptyMeeting.isLocked = FALSE
        BY PresenceAssumption DEF Command!EmptyMeeting, Charge
    <1>2. /\ meetings'[n] = Command!EmptyMeeting
          /\ \A m \in Meetings \ {n} : meetings'[m] = meetings[m]
        BY DEF TypeOK
    <1> QED
        BY <1>1, <1>2, OneMeeting

(* MeetingRemoveUserCommand ends the meeting, or lets one depart from it.  *)
LEMMA RemoveUserInRooms ==
    ASSUME TypeOK, MeetingConsistent, NEW n \in Meetings, NEW s \in Sessions,
           meetings' = [meetings EXCEPT ![n] = Command!RemoveUser(meetings[n], s)]
    PROVE  RoomStep
    <1> DEFINE was == meetings[n]
    <1>1. was \in AMeeting /\ Command!Consistent(was)
        BY DEF TypeOK, AMeeting, MeetingConsistent
    <1>2. CASE ~was.isOpen \/ s \notin was.connectedUser
        BY <1>2, NothingShown DEF Command!RemoveUser, RoomStep, TypeOK
    <1>3. CASE was.isOpen /\ s \in was.connectedUser /\ s = was.adminUser
        <2>1. meetings' = [meetings EXCEPT ![n] = Command!EmptyMeeting]
            BY <1>3 DEF Command!RemoveUser
        <2>2. chargeOf[n] \in insideOf[n]
            BY <1>3 DEF chargeOf, insideOf
        <2>3. Room!End(n)
            BY <2>1, <2>2, ResetInRooms DEF Room!End
        <2> QED
            BY <2>3 DEF RoomStep, Room!Next
    <1>4. CASE was.isOpen /\ s # was.adminUser /\ was.connectedUser = {s}
        <2>1. meetings' = [meetings EXCEPT ![n] = Command!EmptyMeeting]
            BY <1>4 DEF Command!RemoveUser
        <2>2. insideOf[n] = {s}
            BY <1>4 DEF insideOf
        <2>3. insideOf' = [m \in Meetings |-> IF m \in {n} THEN insideOf[m] \ {s}
                                              ELSE insideOf[m]]
            BY <2>1, <2>2, ResetInRooms DEF insideOf
        <2>4. chargeOf' = [m \in Meetings |->
                  IF m \in {n} /\ (chargeOf[m] = s \/ insideOf[m] = {s}) THEN NoOne
                  ELSE chargeOf[m]]
            <3>1. chargeOf' = [m \in Meetings |-> IF m = n THEN NoOne
                                                  ELSE chargeOf[m]]
                BY <2>1, ResetInRooms DEF chargeOf
            <3> QED
                BY <2>2, <3>1
        <2>5. lockedOf' = [m \in Meetings |-> lockedOf[m] /\ m \notin {n}]
            <3>1. \A m \in Meetings : lockedOf[m] \in BOOLEAN
                BY DEF lockedOf, TypeOK, Command!MeetingRecords
            <3>2. \A m \in Meetings : lockedOf'[m] = (lockedOf[m] /\ m \notin {n})
                BY <2>1, <3>1, ResetInRooms DEF lockedOf
            <3> QED
                BY <3>2 DEF lockedOf
        <2>6. Room!Depart(s, {n}, {n})
            BY <2>2, <2>3, <2>4, <2>5 DEF Room!Depart
        <2> QED
            BY <2>6 DEF RoomStep, Room!Next
    <1>5. CASE /\ was.isOpen /\ s # was.adminUser
               /\ s \in was.connectedUser /\ was.connectedUser # {s}
        <2>1. was.connectedUser \ {s} # {}
            BY <1>5
        <2>2. meetings' = [meetings EXCEPT ![n] =
                  [@ EXCEPT !.connectedUser = was.connectedUser \ {s}]]
            BY <1>5, <2>1 DEF Command!RemoveUser
        <2>3. /\ insideOf[n] = was.connectedUser
              /\ chargeOf[n] # s
            BY <1>5, PresenceAssumption DEF insideOf, chargeOf
        <2>4. /\ meetings'[n].connectedUser = was.connectedUser \ {s}
              /\ meetings'[n].adminUser = was.adminUser
              /\ meetings'[n].isLocked = was.isLocked
              /\ \A m \in Meetings \ {n} : meetings'[m] = meetings[m]
            BY <1>1, <2>2 DEF TypeOK, AMeeting, Command!MeetingRecords
        <2>5. insideOf' = [m \in Meetings |-> IF m \in {n} THEN insideOf[m] \ {s}
                                              ELSE insideOf[m]]
            BY <2>4 DEF insideOf
        <2>6. chargeOf' = [m \in Meetings |->
                  IF m \in {n} /\ (chargeOf[m] = s \/ insideOf[m] = {s}) THEN NoOne
                  ELSE chargeOf[m]]
            BY <1>5, <2>3, <2>4 DEF chargeOf
        <2>7. lockedOf' = [m \in Meetings |-> lockedOf[m] /\ m \notin {}]
            BY <2>4 DEF lockedOf, TypeOK, Command!MeetingRecords
        <2>8. Room!Depart(s, {n}, {})
            BY <1>5, <2>3, <2>5, <2>6, <2>7 DEF Room!Depart
        <2> QED
            BY <2>8 DEF RoomStep, Room!Next
    <1> QED
        BY <1>2, <1>3, <1>4, <1>5

(* onLeave lets one depart from every meeting at once.                     *)
LEMMA LeaveInRooms ==
    ASSUME TypeOK, MeetingConsistent, NEW s \in Sessions, Leave(s)
    PROVE  RoomStep
    <1> USE DEF TypeOK, Command!MeetingRecords
    <1> DEFINE from == {m \in Meetings : s \in meetings[m].connectedUser}
    <1>1. ASSUME NEW m \in Meetings
          PROVE  /\ meetings'[m].connectedUser =
                        IF m \in from THEN meetings[m].connectedUser \ {s}
                        ELSE meetings[m].connectedUser
                 /\ meetings'[m].isLocked = meetings[m].isLocked
                 /\ m \notin from => meetings'[m] = meetings[m]
        BY DEF Leave, Command!DropUser
    <1>2. ASSUME NEW m \in from
          PROVE  meetings'[m].adminUser =
                    IF meetings[m].connectedUser = {s} THEN NoOne
                    ELSE IF meetings[m].adminUser = s THEN Undefined
                    ELSE meetings[m].adminUser
        BY DEF Leave, Command!DropUser
    <1>3. insideOf' = [m \in Meetings |-> IF m \in from THEN insideOf[m] \ {s}
                                          ELSE insideOf[m]]
        BY <1>1 DEF insideOf
    <1>4. chargeOf' = [m \in Meetings |->
              IF m \in from /\ (chargeOf[m] = s \/ insideOf[m] = {s}) THEN NoOne
              ELSE chargeOf[m]]
        <2>1. ASSUME NEW m \in Meetings
              PROVE  chargeOf'[m] =
                  IF m \in from /\ (chargeOf[m] = s \/ insideOf[m] = {s}) THEN NoOne
                  ELSE chargeOf[m]
            BY <1>1, <1>2, PresenceAssumption, OfficeAssumption
            DEF chargeOf, insideOf
        <2> QED
            BY <2>1 DEF chargeOf
    <1>5. lockedOf' = [m \in Meetings |-> lockedOf[m] /\ m \notin {}]
        BY <1>1 DEF lockedOf
    <1>6. Room!Depart(s, from, {})
        BY <1>3, <1>4, <1>5 DEF Room!Depart, insideOf
    <1> QED
        BY <1>6 DEF RoomStep, Room!Next

LEMMA StepInRooms == TypeOK /\ MeetingConsistent /\ [Next]_vars => RoomStep
    <1> SUFFICES ASSUME TypeOK, MeetingConsistent, [Next]_vars PROVE RoomStep
        OBVIOUS
    <1>1. CASE UNCHANGED meetings
        BY <1>1, NothingShown DEF RoomStep
    <1>2. ASSUME NEW s \in Sessions, NEW n \in Meetings, Meeting(s, n)
          PROVE  RoomStep
        <2>1. CASE LockMeeting(s, n) \/ UnlockMeeting(s, n)
            BY <2>1, SetLockInRooms
            DEF LockMeeting, UnlockMeeting, RoomStep, Room!Next
        <2>2. CASE DisconnectFromMeeting(s, n)
            BY <2>2, RemoveUserInRooms DEF DisconnectFromMeeting
        <2>3. CASE \E r \in Requests, u \in Users : ConnectToMeeting(r, s, n, u)
            BY <1>1, <2>3 DEF ConnectToMeeting
        <2> QED
            BY <1>2, <2>1, <2>2, <2>3 DEF Meeting
    <1>3. ASSUME NEW r \in Requests, ChatCreated(r) PROVE RoomStep
        <2> DEFINE n == request[r].meeting
                   s == request[r].session
        <2>1. n \in Meetings /\ s \in Sessions
            BY <1>3, InProgressTyped DEF ChatCreated, Connects
        <2>2. PICK c \in ChatIds : meetings' = [meetings EXCEPT ![n] =
                  Command!AddUser([meetings[n] EXCEPT !.chatId = c], s)]
            BY <1>3 DEF ChatCreated
        <2>3. meetings[n] \in AMeeting
            BY <2>1 DEF TypeOK, AMeeting
        <2> DEFINE given == [meetings[n] EXCEPT !.chatId = c]
        <2> HIDE DEF n, s
        <2>4. /\ given \in AMeeting
              /\ given.connectedUser = meetings[n].connectedUser
              /\ given.isLocked = meetings[n].isLocked
              /\ given.adminUser = meetings[n].adminUser
            BY <2>3, NewChatKeeps
        <2>5. meetings' = [meetings EXCEPT ![n] = Command!AddUser(given, s)]
            BY <2>2
        <2> HIDE DEF given
        <2>6. Room!Enter(n, s) \/ UNCHANGED Room!vars
            BY <2>1, <2>4, <2>5, AddUserInRooms
        <2> QED
            BY <2>1, <2>6 DEF RoomStep, Room!Next
    <1>4. ASSUME NEW r \in Requests, ChatSaved(r) PROVE RoomStep
        <2> DEFINE n == request[r].meeting
                   s == request[r].session
        <2>1. n \in Meetings /\ s \in Sessions
            BY <1>4, InProgressTyped DEF ChatSaved, Connects
        <2>2. meetings' = [meetings EXCEPT ![n] = Command!AddUser(meetings[n], s)]
            BY <1>4 DEF ChatSaved
        <2>3. meetings[n] \in AMeeting
            BY <2>1 DEF TypeOK, AMeeting
        <2> HIDE DEF n, s
        <2>4. Room!Enter(n, s) \/ UNCHANGED Room!vars
            BY <2>1, <2>2, <2>3, AddUserInRooms
        <2> QED
            BY <2>1, <2>4 DEF RoomStep, Room!Next
    <1>5. \/ UNCHANGED meetings
          \/ \E s \in Sessions : Leave(s)
          \/ \E s \in Sessions, n \in Meetings : Meeting(s, n)
          \/ \E r \in Requests : ChatCreated(r) \/ ChatSaved(r)
        BY DEF Next, vars, meetingVars, Connection, Furniture, Chair, Whiteboard, Continuation,
               Arrive, Arrived, TurnedAway, MarkedOffline, ConnectToChair,
               DisconnectFromChair, ConnectToWhiteboard,
               DisconnectFromWhiteboard, UserFound, ChatFound, ConnectAbandoned
    <1> QED
        BY <1>1, <1>2, <1>3, <1>4, <1>5, LeaveInRooms

(* Every office, of any size, implements MeetingRooms.                     *)
THEOREM OfficeImplementsRooms == Spec => MeetingsAreRooms
    <1>1. Init => Room!Init
        BY PresenceAssumption
        DEF Init, Room!Init, Command!EmptyMeeting, insideOf, chargeOf, lockedOf
    <1>2. TypeOK /\ MeetingConsistent /\ [Next]_vars => [Room!Next]_(Room!vars)
        BY StepInRooms DEF RoomStep
    <1> QED
        BY <1>1, <1>2, TypeCorrect, MeetingsConsistent, PTL
        DEF Spec, Room!Spec, MeetingsAreRooms

-----------------------------------------------------------------------------
(* Meetings that everybody leaves with DISCONNECT_FROM_MEETING.            *)

SteadyInv ==
    \A m \in Meetings :
        /\ meetings[m].connectedUser = {} => meetings[m] = Command!EmptyMeeting
        /\ meetings[m].adminUser # Undefined

Steady(meeting) ==
    /\ meeting.connectedUser = {} => meeting = Command!EmptyMeeting
    /\ meeting.adminUser # Undefined

LEMMA SteadyCommands ==
    ASSUME NEW meeting \in AMeeting, Command!Consistent(meeting), Steady(meeting),
           NEW s \in Sessions
    PROVE  /\ Steady(Command!RemoveUser(meeting, s))
           /\ Steady(Command!AddUser(meeting, s))
           /\ \A value \in BOOLEAN : Steady(Command!SetLock(meeting, s, value))
           /\ \A c \in ChatIds :
                 Steady(Command!AddUser([meeting EXCEPT !.chatId = c], s))
    <1> USE PresenceAssumption, OfficeAssumption
        DEF AMeeting, Command!MeetingRecords, Command!Consistent, Steady,
            Command!EmptyMeeting
    <1>1. Steady(Command!RemoveUser(meeting, s))
        BY DEF Command!RemoveUser
    <1>2. Steady(Command!AddUser(meeting, s))
        BY DEF Command!AddUser
    <1>3. \A value \in BOOLEAN : Steady(Command!SetLock(meeting, s, value))
        BY DEF Command!SetLock
    <1>4. ASSUME NEW c \in ChatIds
          PROVE  Steady(Command!AddUser([meeting EXCEPT !.chatId = c], s))
        BY DEF Command!AddUser
    <1> QED
        BY <1>1, <1>2, <1>3, <1>4

(* A connection that has dropped has dropped for good, and only Leave lets *)
(* one drop.                                                               *)
LEMMA DroppedStep ==
    ASSUME TypeOK, [Next]_vars, NobodyDropped'
    PROVE  NobodyDropped /\ \A s \in Sessions : ~Leave(s)
    <1> USE DEF TypeOK, PresenceTypeOK, NobodyDropped
    <1>1. ASSUME NEW s \in Sessions, Leave(s) PROVE FALSE
        BY <1>1 DEF Leave, LeavePresence, Ends
    <1>2. ASSUME NEW s \in Sessions, Arrive(s) PROVE NobodyDropped
        BY <1>2 DEF Arrive, Join
    <1>3. ASSUME NEW s \in Sessions, Arrived(s) \/ TurnedAway(s)
          PROVE  NobodyDropped
        BY <1>3 DEF Arrived, TurnedAway, JoinWritten, JoinRefused, JoinSettled
    <1>4. \/ UNCHANGED phase
          \/ \E s \in Sessions :
                Leave(s) \/ Arrive(s) \/ Arrived(s) \/ TurnedAway(s)
        BY DEF Next, vars, presenceVars, Connection, Furniture, Chair, Whiteboard, Meeting,
               Continuation, MarkedOffline, OfflineWritten, ConnectToChair,
               DisconnectFromChair, ConnectToWhiteboard,
               DisconnectFromWhiteboard, LockMeeting, UnlockMeeting,
               DisconnectFromMeeting, ConnectToMeeting, ConnectAbandoned,
               UserFound, ChatCreated, ChatFound, ChatSaved
    <1> QED
        BY <1>1, <1>2, <1>3, <1>4

LEMMA SteadyStep ==
    ASSUME TypeOK, MeetingConsistent, NobodyDropped => SteadyInv, [Next]_vars,
           NobodyDropped'
    PROVE  SteadyInv'
    <1> SUFFICES ASSUME NEW m \in Meetings PROVE Steady(meetings'[m])
        BY DEF SteadyInv, Steady
    <1>1. NobodyDropped /\ \A s \in Sessions : ~Leave(s)
        BY DroppedStep
    <1>2. /\ meetings[m] \in AMeeting
          /\ Command!Consistent(meetings[m])
          /\ Steady(meetings[m])
        BY <1>1 DEF TypeOK, AMeeting, MeetingConsistent, SteadyInv, Steady
    <1> QED
        BY <1>1, <1>2, MeetingStep, SteadyCommands

LEMMA SteadyUntilDropped == Spec => [](NobodyDropped => SteadyInv)
    <1>1. Init => SteadyInv
        BY OfficeAssumption DEF Init, SteadyInv, Command!EmptyMeeting
    <1>2. TypeOK /\ MeetingConsistent /\ (NobodyDropped => SteadyInv) /\ [Next]_vars
              => (NobodyDropped => SteadyInv)'
        BY SteadyStep
    <1> QED
        BY <1>1, <1>2, TypeCorrect, MeetingsConsistent, PTL DEF Spec

(* Until a connection drops, a meeting that has emptied is as new.         *)
THEOREM SteadyMeetingsReset == Spec => []EmptyMeetingIsReset
    <1>1. (NobodyDropped => SteadyInv) => EmptyMeetingIsReset
        BY DEF SteadyInv, EmptyMeetingIsReset
    <1> QED
        BY <1>1, SteadyUntilDropped, PTL

(* Until a connection drops, an open meeting has its admin among its users. *)
THEOREM SteadyMeetingsHaveAdmin == Spec => []AdminUntilDropped
    <1>1. (NobodyDropped => SteadyInv) /\ MeetingConsistent => AdminUntilDropped
        BY DEF SteadyInv, MeetingConsistent, Command!Consistent,
               OpenMeetingHasAdmin, AdminUntilDropped
    <1> QED
        BY <1>1, SteadyUntilDropped, MeetingsConsistent, PTL

-----------------------------------------------------------------------------
(* Whoever is in a meeting is in a chat.  The invariant needs to know that *)
(* a request about to append to a member list has a chat to append to.     *)

ChatFetched ==
    \A r \in Requests : request[r].pc \in {"find", "save"} =>
        request[r].chat \in ChatIds

LEMMA ChatFetchedStep ==
    ASSUME TypeOK, ChatFetched, [Next]_vars PROVE ChatFetched'
    <1> USE DEF ChatFetched
    <1>1. CASE UNCHANGED request
        BY <1>1
    <1>2. ASSUME NEW s \in Sessions, NEW m \in Meetings, Meeting(s, m)
          PROVE  ChatFetched'
        <2>1. ASSUME NEW r \in Requests, NEW u \in Users,
                     ConnectToMeeting(r, s, m, u)
              PROVE  ChatFetched'
            BY <2>1 DEF ConnectToMeeting, TypeOK
        <2> QED
            BY <1>1, <1>2, <2>1 DEF Meeting, LockMeeting, UnlockMeeting,
                                    DisconnectFromMeeting
    <1>3. ASSUME NEW r \in Requests, UserFound(r) PROVE ChatFetched'
        <2>1. request[r] \in Connects
            BY <1>3, InProgressTyped DEF UserFound
        <2>2. meetings[request[r].meeting].chatId \in ChatIds \cup {NoChat}
            BY <2>1 DEF TypeOK, Connects, Command!MeetingRecords
        <2>3. ASSUME NEW q \in Requests, request'[q].pc \in {"find", "save"}
              PROVE  request'[q].chat \in ChatIds
            <3>1. CASE q = r
                BY <1>3, <2>1, <2>2, <2>3, <3>1 DEF UserFound, TypeOK, Connects, Idle
            <3>2. CASE q # r
                BY <1>3, <2>3, <3>2 DEF UserFound, TypeOK
            <3> QED
                BY <3>1, <3>2
        <2> QED
            BY <2>3
    <1>4. ASSUME NEW r \in Requests, ChatFound(r) PROVE ChatFetched'
        <2>1. request[r] \in Connects
            BY <1>4, InProgressTyped DEF ChatFound
        <2>2. ASSUME NEW q \in Requests, request'[q].pc \in {"find", "save"}
              PROVE  request'[q].chat \in ChatIds
            <3>1. CASE q = r
                BY <1>4, <2>1, <3>1 DEF ChatFound, TypeOK, Connects
            <3>2. CASE q # r
                BY <1>4, <2>2, <3>2 DEF ChatFound, TypeOK
            <3> QED
                BY <3>1, <3>2
        <2> QED
            BY <2>2
    <1>5. ASSUME NEW r \in Requests,
                 ChatCreated(r) \/ ChatSaved(r) \/ ConnectAbandoned(r)
          PROVE  ChatFetched'
        BY <1>5 DEF ChatCreated, ChatSaved, ConnectAbandoned, TypeOK, Idle
    <1>6. ASSUME NEW s \in Sessions, Connection(s) \/ Furniture(s)
          PROVE  UNCHANGED request
        BY <1>6 DEF Connection, Furniture, Chair, Whiteboard, Leave, Arrive, Arrived, TurnedAway,
            MarkedOffline, ConnectToChair, DisconnectFromChair,
            ConnectToWhiteboard, DisconnectFromWhiteboard, meetingVars
    <1> QED
        BY <1>1, <1>2, <1>3, <1>4, <1>5, <1>6
        DEF Next, Continuation, vars, meetingVars

(* A client that names its own account is waited for under that account.   *)
NamesOwn ==
    \A r \in Requests :
        InProgress(r) /\ request[r].session \in Candid =>
            request[r].user = UserOf[request[r].session]

LEMMA NamesOwnStep ==
    ASSUME TypeOK, NamesOwn, [Next]_vars PROVE NamesOwn'
    <1> USE DEF TypeOK, NamesOwn, InProgress, Waiting
    <1>1. CASE UNCHANGED request
        BY <1>1
    <1>2. ASSUME NEW s \in Sessions, NEW m \in Meetings, NEW r \in Requests,
                 NEW u \in Users, ConnectToMeeting(r, s, m, u)
          PROVE  NamesOwn'
        BY <1>2 DEF ConnectToMeeting
    <1>3. ASSUME NEW r \in Requests, Continuation(r) PROVE NamesOwn'
        <2>1. request[r] \in Connects
            BY <1>3, InProgressTyped
            DEF Continuation, UserFound, ChatCreated, ChatFound, ChatSaved
        <2>2. \A q \in Requests \ {r} : request'[q] = request[q]
            BY <1>3 DEF Continuation, UserFound, ChatCreated, ChatFound, ChatSaved
        <2>3. \/ request'[r] = Idle
              \/ /\ request'[r].session = request[r].session
                 /\ request'[r].user = request[r].user
            <3>1. CASE UserFound(r)
                BY <2>1, <3>1 DEF UserFound, Connects
            <3>2. CASE ChatFound(r)
                BY <2>1, <3>2 DEF ChatFound, Connects
            <3>3. CASE ChatCreated(r) \/ ChatSaved(r)
                BY <3>3 DEF ChatCreated, ChatSaved
            <3> QED
                BY <1>3, <3>1, <3>2, <3>3 DEF Continuation
        <2>4. InProgress(r)
            BY <2>1 DEF Connects
        <2> QED
            BY <2>2, <2>3, <2>4 DEF Idle
    <1>4. ASSUME NEW r \in Requests, ConnectAbandoned(r) PROVE NamesOwn'
        BY <1>4 DEF ConnectAbandoned, Idle
    <1>5. \/ UNCHANGED request
          \/ \E s \in Sessions, m \in Meetings, r \in Requests, u \in Users :
                ConnectToMeeting(r, s, m, u)
          \/ \E r \in Requests : Continuation(r) \/ ConnectAbandoned(r)
        BY DEF Next, vars, meetingVars, Connection, Furniture, Chair, Whiteboard, Meeting,
               Arrive, Arrived, TurnedAway, MarkedOffline, Leave,
               ConnectToChair, DisconnectFromChair, ConnectToWhiteboard,
               DisconnectFromWhiteboard, LockMeeting, UnlockMeeting,
               DisconnectFromMeeting
    <1> QED
        BY <1>1, <1>2, <1>3, <1>4, <1>5

(* Member lists only grow.                                                 *)
LEMMA EntriesGrow ==
    ASSUME TypeOK, [Next]_vars, NEW c \in ChatIds, NEW u \in Users
    PROVE  entries'[c][u] >= entries[c][u] \/ entries'[c][u] = 1
    <1> USE DEF TypeOK
    <1>1. CASE UNCHANGED entries
        BY <1>1
    <1>2. ASSUME NEW r \in Requests, ChatCreated(r)
          PROVE  entries'[c][u] >= entries[c][u] \/ entries'[c][u] = 1
        BY <1>2 DEF ChatCreated
    <1>3. ASSUME NEW r \in Requests, ChatSaved(r)
          PROVE  entries'[c][u] >= entries[c][u] \/ entries'[c][u] = 1
        BY <1>3 DEF ChatSaved
    <1>4. \/ UNCHANGED entries
          \/ \E r \in Requests : ChatCreated(r) \/ ChatSaved(r)
        BY DEF Next, vars, meetingVars, Connection, Furniture, Chair, Whiteboard, Meeting,
               Continuation, Arrive, Arrived, TurnedAway, MarkedOffline, Leave,
               ConnectToChair, DisconnectFromChair, ConnectToWhiteboard,
               DisconnectFromWhiteboard, LockMeeting, UnlockMeeting,
               DisconnectFromMeeting, ConnectToMeeting, ConnectAbandoned,
               UserFound, ChatFound
    <1> QED
        BY <1>1, <1>2, <1>3, <1>4

(* Whoever a step lets into a meeting is in a chat by then.                *)
LEMMA NewcomersAreInAChat ==
    ASSUME TypeOK, ChatFetched, NamesOwn, [Next]_vars, NEW m \in Meetings,
           NEW s \in (meetings'[m].connectedUser \ meetings[m].connectedUser)
                         \cap Candid
    PROVE  \E c \in ChatIds : entries'[c][UserOf[s]] > 0
    <1> USE DEF TypeOK
    <1>1. meetings[m] \in AMeeting
        BY DEF AMeeting
    <1>2. ASSUME NEW r \in Requests, ChatCreated(r)
          PROVE  \E c \in ChatIds : entries'[c][UserOf[s]] > 0
        <2> DEFINE t == request[r].session
                   u == request[r].user
        <2>1. t \in Sessions /\ u \in Users /\ InProgress(r)
            BY <1>2, InProgressTyped DEF ChatCreated, Connects, InProgress
        <2>2. PICK c \in ChatIds :
                  /\ entries' = [entries EXCEPT ![c][u] = 1]
                  /\ meetings' = [meetings EXCEPT ![request[r].meeting] =
                         Command!AddUser([@ EXCEPT !.chatId = c], t)]
            BY <1>2 DEF ChatCreated
        <2>3. meetings'[m] = Command!AddUser([meetings[m] EXCEPT !.chatId = c], t)
            BY <2>2
        <2>4. s = t
            <3> DEFINE given == [meetings[m] EXCEPT !.chatId = c]
            <3>1. given \in AMeeting /\ given.connectedUser = meetings[m].connectedUser
                BY <1>1, NewChatKeeps
            <3>2. meetings'[m].connectedUser \subseteq given.connectedUser \cup {t}
                BY <2>1, <2>3, <3>1, AddUserKeeps
            <3> QED
                BY <3>1, <3>2
        <2>5. UserOf[s] = u
            BY <2>1, <2>4 DEF NamesOwn
        <2>6. entries'[c][UserOf[s]] = 1
            BY <2>1, <2>2, <2>5
        <2> QED
            BY <2>6
    <1>3. ASSUME NEW r \in Requests, ChatSaved(r)
          PROVE  \E c \in ChatIds : entries'[c][UserOf[s]] > 0
        <2> DEFINE t == request[r].session
                   c == request[r].chat
                   u == request[r].user
        <2>1. /\ t \in Sessions /\ c \in ChatIds /\ u \in Users
              /\ InProgress(r)
            BY <1>3, InProgressTyped
            DEF ChatSaved, Connects, ChatFetched, InProgress
        <2>2. meetings'[m] \in {meetings[m], Command!AddUser(meetings[m], t)}
            BY <1>3 DEF ChatSaved
        <2>3. s = t
            BY <1>1, <2>1, <2>2, AddUserKeeps
        <2>4. UserOf[s] = u
            BY <2>1, <2>3 DEF NamesOwn
        <2>5. entries'[c][UserOf[s]] =
                  IF entries[c][UserOf[s]] < MaxEntries
                  THEN entries[c][UserOf[s]] + 1 ELSE entries[c][UserOf[s]]
            BY <1>3, <2>1, <2>3, <2>4 DEF ChatSaved
        <2>6. entries[c][UserOf[s]] \in Nat
            BY <2>1, <2>4
        <2>7. entries'[c][UserOf[s]] > 0
            BY <2>5, <2>6, EntriesAssumption
        <2> QED
            BY <2>1, <2>7
    <1>4. ASSUME NEW t \in Sessions, Leave(t) PROVE FALSE
        <2>1. meetings'[m] = Command!DropUser(meetings[m], t)
            BY <1>4 DEF Leave
        <2> QED
            BY <1>1, <2>1, DropUserKeeps
    <1>5. ASSUME NEW t \in Sessions, NEW n \in Meetings, Meeting(t, n)
          PROVE  FALSE
        <2>1. \/ meetings'[m] = meetings[m]
              \/ meetings'[m] = Command!SetLock(meetings[m], t, TRUE)
              \/ meetings'[m] = Command!SetLock(meetings[m], t, FALSE)
              \/ meetings'[m] = Command!RemoveUser(meetings[m], t)
            BY <1>5 DEF Meeting, LockMeeting, UnlockMeeting,
                        DisconnectFromMeeting, ConnectToMeeting
        <2>2. /\ Command!SetLock(meetings[m], t, TRUE).connectedUser
                     = meetings[m].connectedUser
              /\ Command!SetLock(meetings[m], t, FALSE).connectedUser
                     = meetings[m].connectedUser
            BY <1>1, SetLockKeeps
        <2>3. Command!RemoveUser(meetings[m], t).connectedUser
                  \subseteq meetings[m].connectedUser
            BY <1>1, RemoveUserKeeps
        <2> QED
            BY <2>1, <2>2, <2>3
    <1>6. \/ UNCHANGED meetings
          \/ \E t \in Sessions : Leave(t)
          \/ \E t \in Sessions, n \in Meetings : Meeting(t, n)
          \/ \E r \in Requests : ChatCreated(r) \/ ChatSaved(r)
        BY DEF Next, vars, meetingVars, Connection, Furniture, Chair, Whiteboard, Continuation,
               Arrive, Arrived, TurnedAway, MarkedOffline, ConnectToChair,
               DisconnectFromChair, ConnectToWhiteboard,
               DisconnectFromWhiteboard, UserFound, ChatFound, ConnectAbandoned
    <1> QED
        BY <1>2, <1>3, <1>4, <1>5, <1>6

LEMMA AdmittedStep ==
    ASSUME TypeOK, TypeOK', ChatFetched, NamesOwn, AdmittedAreInAChat, [Next]_vars
    PROVE  AdmittedAreInAChat'
    <1> SUFFICES ASSUME NEW m \in Meetings,
                        NEW s \in meetings'[m].connectedUser \cap Candid
                 PROVE  \E c \in ChatIds : entries'[c][UserOf[s]] > 0
        BY DEF AdmittedAreInAChat
    <1>1. CASE s \notin meetings[m].connectedUser
        BY <1>1, NewcomersAreInAChat
    <1>2. CASE s \in meetings[m].connectedUser
        <2>1. PICK c \in ChatIds : entries[c][UserOf[s]] > 0
            BY <1>2 DEF AdmittedAreInAChat
        <2>2. s \in Sessions
            BY <1>2 DEF TypeOK, Command!MeetingRecords
        <2>3. UserOf[s] \in Users
            BY <2>2, PresenceAssumption
        <2>4. entries[c][UserOf[s]] \in Nat /\ entries'[c][UserOf[s]] \in Nat
            BY <2>3 DEF TypeOK
        <2>5. entries'[c][UserOf[s]] > 0
            <3>1. entries'[c][UserOf[s]] >= entries[c][UserOf[s]]
                      \/ entries'[c][UserOf[s]] = 1
                BY <2>3, EntriesGrow
            <3> QED
                BY <2>1, <2>4, <3>1
        <2> QED
            BY <2>5
    <1> QED
        BY <1>1, <1>2

(* The user of a client that names its own account is listed in a group    *)
(* chat while the client is in a meeting, whatever the other clients name. *)
THEOREM MeetingUsersChat == Spec => []AdmittedAreInAChat
    <1>1. Init => ChatFetched /\ NamesOwn /\ AdmittedAreInAChat
        BY DEF Init, ChatFetched, NamesOwn, InProgress, Waiting,
               AdmittedAreInAChat, Idle, Command!EmptyMeeting
    <1>2. TypeOK /\ ChatFetched /\ [Next]_vars => ChatFetched'
        BY ChatFetchedStep
    <1>3. TypeOK /\ NamesOwn /\ [Next]_vars => NamesOwn'
        BY NamesOwnStep
    <1>4. TypeOK /\ TypeOK' /\ ChatFetched /\ NamesOwn /\ AdmittedAreInAChat
              /\ [Next]_vars => AdmittedAreInAChat'
        BY AdmittedStep
    <1> QED
        BY <1>1, <1>2, <1>3, <1>4, TypeCorrect, PTL DEF Spec

=============================================================================
