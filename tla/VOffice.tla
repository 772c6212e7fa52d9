------------------------------ MODULE VOffice ------------------------------
(***************************************************************************)
(* The office room of rooms/VOffice.ts: presence, chairs, whiteboards,     *)
(* meetings, and the group chat that connecting to a meeting creates or    *)
(* joins.                                                                  *)
(*                                                                         *)
(* Every handler but one runs to its end without waiting, so it is one     *)
(* action.  CONNECT_TO_MEETING waits for the database up to three times;   *)
(* an invocation of it in progress is a request, whose pc names the answer *)
(* it is waiting for, and each of its stretches between two awaits is an   *)
(* action.  It captures the client, not the player, and nothing stops it   *)
(* when that client leaves.                                                *)
(***************************************************************************)
EXTENDS OfficePresence

CONSTANTS Chairs, Whiteboards, Meetings,
          ChatIds,    \* ids the database may give to a new chat
          Requests,   \* one per invocation of CONNECT_TO_MEETING in progress
          Undefined, NoChat,
          Candid,     \* sessions whose client names its own account
          MaxEntries  \* bound: a user's entries in a member list are counted so far

ASSUME OfficeAssumption ==
    /\ Undefined \notin Sessions
    /\ Undefined # NoOne
    /\ NoChat \notin ChatIds
    /\ Candid \subseteq Sessions

ASSUME EntriesAssumption == MaxEntries \in Nat \ {0}

VARIABLES
    chairs,       \* chairs[c].connectedUser
    whiteboards,  \* whiteboards[w].connectedUser
    meetings,     \* see MeetingCommands
    entries,      \* entries[c][u]: how often u is listed in members of chat c
    request       \* the invocations of CONNECT_TO_MEETING in progress

furnitureVars == <<chairs, whiteboards>>
meetingVars == <<meetings, entries, request>>
vars == <<presenceVars, furnitureVars, meetingVars>>

Command == INSTANCE MeetingCommands

(* The meetings as MeetingRooms describes them: an admin who is not a      *)
(* session is nobody.                                                      *)
insideOf == [m \in Meetings |-> meetings[m].connectedUser]
chargeOf == [m \in Meetings |-> IF meetings[m].adminUser \in Sessions
                                THEN meetings[m].adminUser ELSE NoOne]
lockedOf == [m \in Meetings |-> meetings[m].isLocked]

Room == INSTANCE MeetingRooms WITH
    Nobody <- NoOne, inside <- insideOf, charge <- chargeOf, locked <- lockedOf

Waiting == {"user", "create", "find", "save"}

(* session is the client that is let in, user the account that its message *)
(* names, which the chat lists.                                            *)
Connects == [pc : Waiting, session : Sessions, user : Users, meeting : Meetings,
             chat : ChatIds \cup {NoChat}]

Idle == [pc |-> "idle"]

InProgress(r) == request[r].pc \in Waiting

NoEntries == [u \in Users |-> 0]

Exists(c) == entries[c] # NoEntries

TypeOK ==
    /\ PresenceTypeOK
    /\ chairs \in [Chairs -> Sessions \cup {NoOne}]
    /\ whiteboards \in [Whiteboards -> SUBSET Sessions]
    /\ meetings \in [Meetings -> Command!MeetingRecords(Sessions, ChatIds)]
    /\ entries \in [ChatIds -> [Users -> Nat]]
    /\ request \in [Requests -> Connects \cup {Idle}]

(* onCreate puts the furniture of the map in place.                        *)
Init ==
    /\ PresenceInit
    /\ chairs = [c \in Chairs |-> NoOne]
    /\ whiteboards = [w \in Whiteboards |-> {}]
    /\ meetings = [m \in Meetings |-> Command!EmptyMeeting]
    /\ entries = [c \in ChatIds |-> NoEntries]
    /\ request = [r \in Requests |-> Idle]

-----------------------------------------------------------------------------
(* Connections                                                             *)

Arrive(s) == Join(s) /\ UNCHANGED <<furnitureVars, meetingVars>>
Arrived(s) == JoinWritten(s) /\ UNCHANGED <<furnitureVars, meetingVars>>
TurnedAway(s) == JoinRefused(s) /\ UNCHANGED <<furnitureVars, meetingVars>>
MarkedOffline(s) == OfflineWritten(s) /\ UNCHANGED <<furnitureVars, meetingVars>>

(* Variant: the chairs are forgotten.                                      *)
LeaveSeated(s) ==
    /\ LeavePresence(s)
    /\ whiteboards' = [w \in Whiteboards |-> whiteboards[w] \ {s}]
    /\ meetings' = [m \in Meetings |-> Command!DropUser(meetings[m], s)]
    /\ UNCHANGED <<chairs, entries, request>>

(* onLeave: the session is struck from all it was connected to.            *)
Leave(s) ==
    /\ LeavePresence(s)
    /\ chairs' = [c \in Chairs |-> IF chairs[c] = s THEN NoOne ELSE chairs[c]]
    /\ whiteboards' = [w \in Whiteboards |-> whiteboards[w] \ {s}]
    /\ meetings' = [m \in Meetings |-> Command!DropUser(meetings[m], s)]
    /\ UNCHANGED <<entries, request>>

-----------------------------------------------------------------------------
(* Chairs and whiteboards                                                  *)

ConnectToChair(s, c) ==
    /\ phase[s] = "in"
    /\ chairs[c] = NoOne
    /\ chairs' = [chairs EXCEPT ![c] = s]
    /\ UNCHANGED <<presenceVars, whiteboards, meetingVars>>

(* ChairRemoveUserCommand does not ask who sits on the chair.              *)
DisconnectFromChair(s, c) ==
    /\ phase[s] = "in"
    /\ chairs' = [chairs EXCEPT ![c] = NoOne]
    /\ UNCHANGED <<presenceVars, whiteboards, meetingVars>>

ConnectToWhiteboard(s, w) ==
    /\ phase[s] = "in"
    /\ whiteboards' = [whiteboards EXCEPT ![w] = @ \cup {s}]
    /\ UNCHANGED <<presenceVars, chairs, meetingVars>>

DisconnectFromWhiteboard(s, w) ==
    /\ phase[s] = "in"
    /\ whiteboards' = [whiteboards EXCEPT ![w] = @ \ {s}]
    /\ UNCHANGED <<presenceVars, chairs, meetingVars>>

-----------------------------------------------------------------------------
(* Meetings: the handlers that do not wait                                 *)

LockMeeting(s, m) ==
    /\ phase[s] = "in"
    /\ meetings' = [meetings EXCEPT ![m] = Command!SetLock(@, s, TRUE)]
    /\ UNCHANGED <<presenceVars, furnitureVars, entries, request>>

UnlockMeeting(s, m) ==
    /\ phase[s] = "in"
    /\ meetings' = [meetings EXCEPT ![m] = Command!SetLock(@, s, FALSE)]
    /\ UNCHANGED <<presenceVars, furnitureVars, entries, request>>

DisconnectFromMeeting(s, m) ==
    /\ phase[s] = "in"
    /\ meetings' = [meetings EXCEPT ![m] = Command!RemoveUser(@, s)]
    /\ UNCHANGED <<presenceVars, furnitureVars, entries, request>>

-----------------------------------------------------------------------------
(* Meetings: CONNECT_TO_MEETING, stretch by stretch                        *)

(* The account u is the client's own word: nothing compares it with the    *)
(* account that the session was authenticated for.                         *)
ConnectToMeeting(r, s, m, u) ==
    /\ phase[s] = "in"
    /\ s \in Candid => u = UserOf[s]
    /\ request[r] = Idle
    /\ request' = [request EXCEPT ![r] =
           [pc |-> "user", session |-> s, user |-> u, meeting |-> m,
            chat |-> NoChat]]
    /\ UNCHANGED <<presenceVars, furnitureVars, meetings, entries>>

(* The user is found.  The meeting is looked at as it is now: nobody in it *)
(* means a new chat, otherwise the chat whose id it has now is fetched, and *)
(* without an id the handler gives up.                                     *)
UserFound(r) ==
    LET meeting == meetings[request[r].meeting]
    IN  /\ request[r].pc = "user"
        /\ request' = [request EXCEPT ![r] =
               IF meeting.connectedUser = {}
               THEN [@ EXCEPT !.pc = "create"]
               ELSE IF meeting.chatId = NoChat
                    THEN Idle
                    ELSE [@ EXCEPT !.pc = "find", !.chat = meeting.chatId]]
        /\ UNCHANGED <<presenceVars, furnitureVars, meetings, entries>>

(* The new chat is stored, with the named user as its only member; its id goes *)
(* into the meeting whatever has happened there meanwhile, and then        *)
(* MeetingAddUserCommand decides who is let in.                            *)
ChatCreated(r) ==
    /\ request[r].pc = "create"
    /\ \E c \in {d \in ChatIds : ~Exists(d)} :
         /\ entries' = [entries EXCEPT ![c][request[r].user] = 1]
         /\ meetings' = [meetings EXCEPT ![request[r].meeting] =
                Command!AddUser([@ EXCEPT !.chatId = c], request[r].session)]
    /\ request' = [request EXCEPT ![r] = Idle]
    /\ UNCHANGED <<presenceVars, furnitureVars>>

(* Variant: the client is let in before the member list is stored.         *)
ChatFoundAndIn(r) ==
    /\ request[r].pc = "find"
    /\ request' = [request EXCEPT ![r].pc = "save"]
    /\ meetings' = [meetings EXCEPT ![request[r].meeting] =
           Command!AddUser(@, request[r].session)]
    /\ UNCHANGED <<presenceVars, furnitureVars, entries>>

(* The chat is found.  The search of its members for the named user (line  *)
(* 136) compares the ObjectId that the database returned with the string   *)
(* that the message carried, which === never takes for the same value, so  *)
(* the user is appended every time.                                        *)
ChatFound(r) ==
    /\ request[r].pc = "find"
    /\ request' = [request EXCEPT ![r].pc = "save"]
    /\ UNCHANGED <<presenceVars, furnitureVars, meetings, entries>>

(* The appended member list is stored (mongoose sends it as a $push, so    *)
(* concurrent appends add up), and then the client is let in or not.       *)
ChatSaved(r) ==
    LET c == request[r].chat
        s == request[r].session
    IN  /\ request[r].pc = "save"
        /\ entries' = [entries EXCEPT ![c][request[r].user] =
               IF @ < MaxEntries THEN @ + 1 ELSE @]
        /\ meetings' = [meetings EXCEPT ![request[r].meeting] =
               Command!AddUser(@, s)]
        /\ request' = [request EXCEPT ![r] = Idle]
        /\ UNCHANGED <<presenceVars, furnitureVars>>

(* The handler ends early: no such user, no such chat, or the database     *)
(* refuses the call it is waiting for.                                     *)
ConnectAbandoned(r) ==
    /\ InProgress(r)
    /\ request' = [request EXCEPT ![r] = Idle]
    /\ UNCHANGED <<presenceVars, furnitureVars, meetings, entries>>

-----------------------------------------------------------------------------
Connection(s) ==
    Arrive(s) \/ Arrived(s) \/ TurnedAway(s) \/ Leave(s) \/ MarkedOffline(s)

Chair(s, c) == ConnectToChair(s, c) \/ DisconnectFromChair(s, c)

Whiteboard(s, w) == ConnectToWhiteboard(s, w) \/ DisconnectFromWhiteboard(s, w)

Furniture(s) ==
    (\E c \in Chairs : Chair(s, c)) \/ (\E w \in Whiteboards : Whiteboard(s, w))

Meeting(s, m) ==
    \/ LockMeeting(s, m)
    \/ UnlockMeeting(s, m)
    \/ DisconnectFromMeeting(s, m)
    \/ \E r \in Requests, u \in Users : ConnectToMeeting(r, s, m, u)

Continuation(r) ==
    UserFound(r) \/ ChatCreated(r) \/ ChatFound(r) \/ ChatSaved(r)

Next ==
    \/ \E s \in Sessions : Connection(s) \/ Furniture(s)
    \/ \E s \in Sessions, m \in Meetings : Meeting(s, m)
    \/ \E r \in Requests : Continuation(r) \/ ConnectAbandoned(r)

Spec == Init /\ [][Next]_vars

(* The database answers every call in the end, one way or the other.       *)
(* Clients owe nothing.                                                    *)
Fairness ==
    /\ \A s \in Sessions : WF_vars(Arrived(s)) /\ WF_vars(MarkedOffline(s))
    /\ \A r \in Requests : WF_vars(Continuation(r) \/ ConnectAbandoned(r))

FairSpec == Spec /\ Fairness

-----------------------------------------------------------------------------
(* Properties                                                              *)

(* Chairs and whiteboards hold players only: whatever order arrivals,      *)
(* departures and refused joins take, no seat is kept by a session that    *)
(* onLeave has seen off (VOffice.ts 421-425, 438-442).                     *)
SeatsHoldPlayers ==
    /\ \A c \in Chairs : chairs[c] # NoOne => chairs[c] \in players
    /\ \A w \in Whiteboards : whiteboards[w] \subseteq players

(* The fields of a meeting agree with one another, although the commands   *)
(* and onLeave each maintain them by hand, and a connect may finish long   *)
(* after the checks it began with (MeetingUpdateArrayCommand.ts 47-54,     *)
(* 65-77, VOffice.ts 427-436).                                             *)
MeetingConsistent == \A m \in Meetings : Command!Consistent(meetings[m])

(* Every step of the office, a departure that strikes a session from       *)
(* several meetings and a connect that ends long after it began included,  *)
(* is a step that MeetingRooms allows, or does not show in its terms       *)
(* (MeetingUpdateArrayCommand.ts 42-96, VOffice.ts 426-437).               *)
MeetingsAreRooms == Room!Spec

(* The user of a client that names its own account is a member of a group  *)
(* chat while the client is in a meeting, whichever way the handler of     *)
(* CONNECT_TO_MEETING took and whatever ran in between, connects of other  *)
(* clients that name any account included: the member list is stored       *)
(* before the session is let in (VOffice.ts 117-120, 143-152).             *)
AdmittedAreInAChat ==
    \A m \in Meetings : \A s \in meetings[m].connectedUser \cap Candid :
        \E c \in ChatIds : entries[c][UserOf[s]] > 0

(* The same of every client, whatever account its messages name            *)
(* (VOffice.ts 100, 111, 141).                                             *)
EveryoneIsInAChat ==
    \A m \in Meetings : \A s \in meetings[m].connectedUser :
        \E c \in ChatIds : entries[c][UserOf[s]] > 0

(* A locked meeting admits nobody, a connect whose checks ran before the   *)
(* lock included (MeetingUpdateArrayCommand.ts 48).                        *)
LockedAdmitsNobody ==
    [][\A m \in Meetings : meetings[m].isLocked =>
          meetings'[m].connectedUser \subseteq meetings[m].connectedUser]_vars

(* The lock is the admin's: it is turned only while the admin is in the    *)
(* meeting and remains its admin, or lapses as the meeting empties         *)
(* (MeetingUpdateArrayCommand.ts 69-74, 85, 93).                           *)
LockIsTheAdmins ==
    [][\A m \in Meetings : meetings'[m].isLocked # meetings[m].isLocked =>
          \/ meetings'[m].connectedUser = {}
          \/ /\ meetings[m].adminUser \in meetings[m].connectedUser
             /\ meetings'[m].adminUser = meetings[m].adminUser]_vars

(* Nobody takes the admin's place while the admin is in the meeting.       *)
AdminStaysAdmin ==
    [][\A m \in Meetings :
          /\ meetings[m].adminUser \in Sessions
          /\ meetings'[m].adminUser # meetings[m].adminUser
          => meetings[m].adminUser \notin meetings'[m].connectedUser]_vars

(* Nobody has lost the connection: all participants left their meetings    *)
(* with DISCONNECT_FROM_MEETING so far.                                    *)
NobodyDropped == \A s \in Sessions : phase[s] \notin {"gone", "early", "lost"}

(* Every meeting is as new once it has emptied: unlocked and without the   *)
(* chat of its last session (MeetingUpdateArrayCommand.ts 69-74), however  *)
(* the connects in progress interleave, until a connection drops.          *)
EmptyMeetingIsReset ==
    NobodyDropped =>
        \A m \in Meetings : meetings[m].connectedUser = {} =>
            meetings[m] = Command!EmptyMeeting

(* Somebody is in charge of every open meeting (VOffice.ts 429).           *)
OpenMeetingHasAdmin ==
    \A m \in Meetings : meetings[m].isOpen =>
        meetings[m].adminUser \in meetings[m].connectedUser

(* The same until a connection drops.                                      *)
AdminUntilDropped == NobodyDropped => OpenMeetingHasAdmin

(* An empty meeting lets the next comer in (VOffice.ts 94).                *)
EmptyMeetingUnlocked ==
    \A m \in Meetings :
        meetings[m].connectedUser = {} => ~meetings[m].isLocked

(* Only players of the room are in its meetings (VOffice.ts 187).          *)
ParticipantsArePlayers ==
    \A m \in Meetings : meetings[m].connectedUser \subseteq players

(* A meeting gets a new chat only if no one is in it (VOffice.ts 104).     *)
NewChatOnlyIfEmpty ==
    [][\A m \in Meetings :
          /\ meetings'[m].chatId # meetings[m].chatId
          /\ meetings'[m].chatId # NoChat
          => meetings[m].connectedUser = {}]_vars

(* An open meeting has the chat that its next comer is to join; without it *)
(* the handler turns every comer away unheard (VOffice.ts 94, 133).        *)
OpenMeetingHasChat ==
    \A m \in Meetings : meetings[m].isOpen => meetings[m].chatId # NoChat

(* No chat lists a user twice (rooms/controller.ts 431).                   *)
ListedOnce == \A c \in ChatIds : \A u \in Users : entries[c][u] <= 1
=============================================================================
