--------------------------- MODULE OfficePlayers ---------------------------
(***************************************************************************)
(* The players of an office and what their clients change about them       *)
(* (rooms/VOffice.ts 236-287), and the end and the restart of the process  *)
(* that holds the office.                                                  *)
(*                                                                         *)
(* Choosing a character waits for the database; every other change is a    *)
(* copy of the message.  Nothing catches the rejection of a promise that   *)
(* nobody waits for: Node 18 raises it as an uncaught exception, Colyseus  *)
(* sees its clients off and ends the process, and docker-compose starts a  *)
(* new one.  The new process begins with an empty office on the database   *)
(* that the old one has left.                                              *)
(***************************************************************************)
EXTENDS OfficePresence

CONSTANTS Characters,
          NoCharacter,
          Reports,     \* what a client may report of itself: 0 is the default
          Lookups,     \* bound: characters looked up at once
          MaxStops     \* bound: ends of the process

ASSUME PlayersAssumption ==
    /\ NoCharacter \notin Characters
    /\ 0 \in Reports
    /\ MaxStops \in Nat

VARIABLES
    player,   \* player[s]: the attributes of the player of session s
    lookup,   \* the invocations of UPDATE_PLAYER_CHARACTER_ID in progress
    running,  \* the process is up
    stops,    \* how often it has ended
    before    \* the sessions that an earlier process has seen

attributeVars == <<player, lookup>>
processVars == <<running, stops, before>>
vars == <<presenceVars, attributeVars, processVars>>

(* report stands for all that a client says of itself without a lookup:    *)
(* place, animation, name, meeting status, media flags.                    *)
Attributes ==
    [characterId : Characters \cup {NoCharacter},
     characterAvatar : Characters \cup {NoCharacter}, report : Reports]

NewPlayer ==
    [characterId |-> NoCharacter, characterAvatar |-> NoCharacter, report |-> 0]

Idle == [session |-> NoOne, id |-> NoCharacter]

TypeOK ==
    /\ PresenceTypeOK
    /\ player \in [Sessions -> Attributes]
    /\ lookup \in [Lookups -> [session : Sessions, id : Characters] \cup {Idle}]
    /\ running \in BOOLEAN
    /\ stops \in 0..MaxStops
    /\ before \subseteq Sessions

Init ==
    /\ PresenceInit
    /\ player = [s \in Sessions |-> NewPlayer]
    /\ lookup = [r \in Lookups |-> Idle]
    /\ running = TRUE
    /\ stops = 0
    /\ before = {}

-----------------------------------------------------------------------------
(* Connections                                                             *)

Arrive(s) ==
    /\ running
    /\ Join(s)
    /\ player' = [player EXCEPT ![s] = NewPlayer]
    /\ UNCHANGED <<lookup, processVars>>

Arrived(s) == running /\ JoinWritten(s) /\ UNCHANGED <<attributeVars, processVars>>
TurnedAway(s) == running /\ JoinRefused(s) /\ UNCHANGED <<attributeVars, processVars>>
Leave(s) == running /\ LeavePresence(s) /\ UNCHANGED <<attributeVars, processVars>>
MarkedOffline(s) ==
    running /\ OfflineWritten(s) /\ UNCHANGED <<attributeVars, processVars>>

-----------------------------------------------------------------------------
(* Attributes                                                              *)

(* UPDATE_PLAYER, UPDATE_PLAYER_NAME, UPDATE_PLAYER_MEETING_STATUS,        *)
(* READY_TO_CONNECT, MEDIA_CONNECTED: the player takes what the message    *)
(* says.                                                                   *)
Report(s, v) ==
    /\ running
    /\ phase[s] = "in"
    /\ s \in players
    /\ player' = [player EXCEPT ![s].report = v]
    /\ UNCHANGED <<presenceVars, lookup, processVars>>

(* MEDIA_STREAM_CHANGE: a client counts a change of any player's stream.   *)
StreamChanged(s, t, v) ==
    /\ running
    /\ phase[s] = "in"
    /\ t \in players
    /\ player' = [player EXCEPT ![t].report = v]
    /\ UNCHANGED <<presenceVars, lookup, processVars>>

(* Variant: the id is shown at once, the avatar when it is known.          *)
ChooseCharacterShown(r, s, c) ==
    /\ running
    /\ phase[s] = "in"
    /\ lookup[r] = Idle
    /\ lookup' = [lookup EXCEPT ![r] = [session |-> s, id |-> c]]
    /\ player' = [player EXCEPT ![s].characterId = c]
    /\ UNCHANGED <<presenceVars, processVars>>

(* UPDATE_PLAYER_CHARACTER_ID up to its await.                             *)
ChooseCharacter(r, s, c) ==
    /\ running
    /\ phase[s] = "in"
    /\ lookup[r] = Idle
    /\ lookup' = [lookup EXCEPT ![r] = [session |-> s, id |-> c]]
    /\ UNCHANGED <<presenceVars, player, processVars>>

(* The character is found, and the player still there takes it.            *)
CharacterFound(r) ==
    LET s == lookup[r].session
    IN  /\ running
        /\ lookup[r] # Idle
        /\ s \in players
        /\ player' = [player EXCEPT ![s].characterId = lookup[r].id,
                                    ![s].characterAvatar = lookup[r].id]
        /\ lookup' = [lookup EXCEPT ![r] = Idle]
        /\ UNCHANGED <<presenceVars, processVars>>

(* No such character.                                                      *)
CharacterUnknown(r) ==
    /\ running
    /\ lookup[r] # Idle
    /\ lookup' = [lookup EXCEPT ![r] = Idle]
    /\ UNCHANGED <<presenceVars, player, processVars>>

-----------------------------------------------------------------------------
(* The process                                                             *)

(* The writes that the old process had under way, and those it starts as it *)
(* sees the sessions of leaving off, may each be carried out or be lost.   *)
MayBeLeft(shown, leaving) ==
    \A u \in Users : shown[u] # online[u] =>
        IF shown[u]
        THEN Departed(u, {"joining", "early"})
        ELSE \E s \in leaving \cup offlineWrites : UserOf[s] = u

Stop(leaving) ==
    /\ running
    /\ stops < MaxStops
    /\ running' = FALSE
    /\ stops' = stops + 1
    /\ online' \in {shown \in [Users -> BOOLEAN] : MayBeLeft(shown, leaving)}
    /\ before' = {s \in Sessions : phase[s] # "away"}
    /\ phase' = [s \in Sessions |-> IF s \in before' THEN "gone" ELSE "away"]
    /\ players' = {}
    /\ mapClients' = [u \in Users |-> NoOne]
    /\ offlineWrites' = {}
    /\ player' = [s \in Sessions |-> NewPlayer]
    /\ lookup' = [r \in Lookups |-> Idle]

(* The process is killed, or the machine fails: nobody is seen off.        *)
Killed == Stop({})

SeenOff == {s \in Sessions : phase[s] \in {"joining", "in"}}

(* The character is found and the player gone: the assignment throws.      *)
CharacterFoundTooLate(r) ==
    /\ lookup[r] # Idle
    /\ lookup[r].session \notin players
    /\ Stop(SeenOff)

(* The database refuses the search for a character.                        *)
CharacterRefused(r) == lookup[r] # Idle /\ Stop(SeenOff)

(* The database refuses the write of online:false.                         *)
OfflineRefused == offlineWrites # {} /\ Stop(SeenOff)

Restart ==
    /\ ~running
    /\ running' = TRUE
    /\ UNCHANGED <<presenceVars, attributeVars, stops, before>>

-----------------------------------------------------------------------------
Connection(s) ==
    Arrive(s) \/ Arrived(s) \/ TurnedAway(s) \/ Leave(s) \/ MarkedOffline(s)

Message(s) ==
    \/ \E v \in Reports : Report(s, v)
    \/ \E t \in Sessions, v \in Reports : StreamChanged(s, t, v)
    \/ \E r \in Lookups, c \in Characters : ChooseCharacter(r, s, c)

Answer(r) == CharacterFound(r) \/ CharacterUnknown(r)

Ending ==
    \/ Killed
    \/ OfflineRefused
    \/ \E r \in Lookups : CharacterFoundTooLate(r) \/ CharacterRefused(r)

Next ==
    \/ \E s \in Sessions : Connection(s) \/ Message(s)
    \/ \E r \in Lookups : Answer(r)
    \/ Ending
    \/ Restart

(* The database answers while the process is up; docker-compose restarts   *)
(* it.  Clients owe nothing, and nothing owes a crash.                     *)
Fairness ==
    /\ \A s \in Sessions : WF_vars(Arrived(s)) /\ WF_vars(MarkedOffline(s))
    /\ \A r \in Lookups : WF_vars(Answer(r))
    /\ WF_vars(Restart)

Spec == Init /\ [][Next]_vars /\ Fairness

-----------------------------------------------------------------------------
(* Properties                                                              *)

(* The two attributes that choosing a character changes belong together,   *)
(* whatever lookups of one player are under way at once (VOffice.ts        *)
(* 255-261).                                                               *)
LooksPaired ==
    \A s \in players : player[s].characterAvatar = player[s].characterId

(* A user whose one connection of this life of the process is open and     *)
(* acknowledged is shown as online, whatever an earlier process has left   *)
(* behind or had under way (VOffice.ts 372, 419).                          *)
PresentAreShown ==
    \A s \in Sessions :
        /\ phase[s] = "in"
        /\ \A t \in Sessions \ ({s} \cup before) :
               UserOf[t] = UserOf[s] => phase[t] = "away"
        => online[UserOf[s]]

(* What a stopped process leaves wrong is put right by the user's next     *)
(* visit: a user one of whose connections to this process has left is, in  *)
(* the end, shown as online only if another is there, or ended while its   *)
(* onJoin was waiting (VOffice.ts 372, 419).                               *)
VisitorsGoOffline ==
    \A u \in Users :
        <>[](/\ online[u]
             /\ \E s \in Sessions \ before : UserOf[s] = u /\ phase[s] = "gone"
             => Departed(u, {"in", "lost"}))
=============================================================================
