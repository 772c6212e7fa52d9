------------------------ MODULE OfficePlayersProofs ------------------------
(***************************************************************************)
(* What holds of the players of an office for any number of connections,   *)
(* lookups and ends of the process: that the attributes of a look belong   *)
(* together, and that whoever is there alone is shown.                     *)
(***************************************************************************)
EXTENDS OfficePlayers, TLAPS

(* What connections and the process do to presence.                        *)
Presence(s) ==
    \/ Join(s) \/ JoinWritten(s) \/ JoinRefused(s)
    \/ LeavePresence(s) \/ OfflineWritten(s)

Stops == \E leaving \in SUBSET Sessions : Stop(leaving)

Quiet == UNCHANGED <<presenceVars, before>>

(* Every step is one of presence, one that changes what is known of a      *)
(* player and nothing of presence, an end of the process or its restart.   *)
LEMMA NextKinds ==
    ASSUME Next
    PROVE  \/ \E s \in Sessions :
                Presence(s) /\ UNCHANGED <<lookup, processVars>>
                /\ player' \in {player, [player EXCEPT ![s] = NewPlayer]}
           \/ Quiet /\ UNCHANGED processVars
              /\ \/ \E s \in Sessions : Message(s)
                 \/ \E r \in Lookups : Answer(r)
           \/ Stops
           \/ Restart /\ Quiet
  <1>1. ASSUME NEW s \in Sessions, Connection(s)
        PROVE  Presence(s) /\ UNCHANGED <<lookup, processVars>>
               /\ player' \in {player, [player EXCEPT ![s] = NewPlayer]}
    BY <1>1
    DEF Connection, Arrive, Arrived, TurnedAway, Leave, MarkedOffline,
        Presence, attributeVars
  <1>2. ASSUME NEW s \in Sessions, Message(s)
        PROVE  Quiet /\ UNCHANGED processVars
    BY <1>2
    DEF Message, Report, StreamChanged, ChooseCharacter, Quiet, processVars
  <1>3. ASSUME NEW r \in Lookups, Answer(r)
        PROVE  Quiet /\ UNCHANGED processVars
    BY <1>3
    DEF Answer, CharacterFound, CharacterUnknown, Quiet, processVars
  <1>4. Ending => Stops
    <2>1. {} \in SUBSET Sessions /\ SeenOff \in SUBSET Sessions
      BY DEF SeenOff
    <2> QED
      BY <2>1
      DEF Ending, Killed, OfflineRefused, CharacterFoundTooLate,
          CharacterRefused, Stops
  <1>5. Restart => Quiet
    BY DEF Restart, Quiet
  <1> QED  BY <1>1, <1>2, <1>3, <1>4, <1>5 DEF Next

-----------------------------------------------------------------------------
(* Typing                                                                  *)

LEMMA TypeInit == Init => TypeOK
  BY PresenceAssumption, PlayersAssumption
  DEF Init, PresenceInit, TypeOK, PresenceTypeOK, Phases, NewPlayer,
      Attributes, Idle

LEMMA PresenceTypeStep ==
    ASSUME PresenceTypeOK, NEW s \in Sessions, Presence(s)
    PROVE  PresenceTypeOK'
  <1> USE PresenceAssumption DEF PresenceTypeOK, Phases
  <1>1. CASE Join(s)
    BY <1>1 DEF Join
  <1>2. CASE JoinWritten(s)
    BY <1>2 DEF JoinWritten, JoinSettled
  <1>3. CASE JoinRefused(s)
    BY <1>3 DEF JoinRefused, JoinSettled
  <1>4. CASE LeavePresence(s)
    BY <1>4 DEF LeavePresence, Ends
  <1>5. CASE OfflineWritten(s)
    BY <1>5 DEF OfflineWritten
  <1> QED  BY <1>1, <1>2, <1>3, <1>4, <1>5 DEF Presence

(* What a message or an answer does to the players and the lookups.        *)
LEMMA AttributeTypeStep ==
    ASSUME TypeOK,
           \/ \E s \in Sessions : Message(s)
           \/ \E r \in Lookups : Answer(r)
    PROVE  /\ player' \in [Sessions -> Attributes]
           /\ lookup' \in [Lookups -> [session : Sessions, id : Characters] \cup {Idle}]
  <1>1. \A s \in Sessions : player[s] \in Attributes
    BY DEF TypeOK
  <1>2. ASSUME NEW t \in Sessions, NEW v \in Reports,
               player' = [player EXCEPT ![t].report = v]
        PROVE  player' \in [Sessions -> Attributes]
    <2>1. [player[t] EXCEPT !.report = v] \in Attributes
      BY <1>1 DEF Attributes
    <2> QED  BY <1>2, <2>1 DEF TypeOK
  <1>3. ASSUME NEW s \in Sessions, Message(s)
        PROVE  /\ player' \in [Sessions -> Attributes]
               /\ lookup' \in [Lookups -> [session : Sessions, id : Characters] \cup {Idle}]
    <2>1. CASE \E v \in Reports : Report(s, v)
      BY <1>2, <2>1 DEF Report, TypeOK
    <2>2. CASE \E t \in Sessions, v \in Reports : StreamChanged(s, t, v)
      BY <1>2, <2>2 DEF StreamChanged, TypeOK
    <2>3. CASE \E r \in Lookups, c \in Characters : ChooseCharacter(r, s, c)
      BY <2>3 DEF ChooseCharacter, TypeOK
    <2> QED  BY <1>3, <2>1, <2>2, <2>3 DEF Message
  <1>4. ASSUME NEW r \in Lookups, Answer(r)
        PROVE  /\ player' \in [Sessions -> Attributes]
               /\ lookup' \in [Lookups -> [session : Sessions, id : Characters] \cup {Idle}]
    <2>1. CASE CharacterFound(r)
      <3> DEFINE s == lookup[r].session
                 c == lookup[r].id
      <3>1. lookup[r] \in [session : Sessions, id : Characters]
        BY <2>1 DEF CharacterFound, TypeOK
      <3>2. s \in Sessions /\ c \in Characters
        BY <3>1
      <3>3. [player[s] EXCEPT !.characterId = c, !.characterAvatar = c] \in Attributes
        BY <1>1, <3>2 DEF Attributes
      <3> QED  BY <2>1, <3>3 DEF CharacterFound, TypeOK
    <2>2. CASE CharacterUnknown(r)
      BY <2>2 DEF CharacterUnknown, TypeOK
    <2> QED  BY <1>4, <2>1, <2>2 DEF Answer
  <1> QED  BY <1>3, <1>4

(* What the end of the process leaves.                                     *)
LEMMA StopShape ==
    ASSUME TypeOK, Stops
    PROVE  /\ before' = {s \in Sessions : phase[s] # "away"}
           /\ \A s \in Sessions : phase'[s] = IF s \in before' THEN "gone" ELSE "away"
           /\ phase' \in [Sessions -> Phases]
           /\ players' = {} /\ offlineWrites' = {}
           /\ mapClients' = [u \in Users |-> NoOne]
           /\ online' \in [Users -> BOOLEAN]
           /\ player' = [s \in Sessions |-> NewPlayer]
           /\ lookup' = [r \in Lookups |-> Idle]
           /\ running' \in BOOLEAN /\ stops' \in 0..MaxStops
  <1>1. PICK leaving \in SUBSET Sessions : Stop(leaving)
    BY DEF Stops
  <1>2. /\ before' = {s \in Sessions : phase[s] # "away"}
        /\ phase' = [s \in Sessions |-> IF s \in before' THEN "gone" ELSE "away"]
        /\ players' = {} /\ offlineWrites' = {}
        /\ mapClients' = [u \in Users |-> NoOne]
        /\ player' = [s \in Sessions |-> NewPlayer]
        /\ lookup' = [r \in Lookups |-> Idle]
    BY <1>1 DEF Stop
  <1>3. online' \in [Users -> BOOLEAN]
    BY <1>1 DEF Stop
  <1>4. running' \in BOOLEAN /\ stops' \in 0..MaxStops
    <2>1. running' = FALSE /\ stops' = stops + 1 /\ stops < MaxStops
      BY <1>1 DEF Stop
    <2>2. stops \in 0..MaxStops
      BY DEF TypeOK
    <2>3. running' \in BOOLEAN
      BY <2>1
    <2>4. stops' \in 0..MaxStops
      BY <2>1, <2>2, PlayersAssumption
    <2> QED  BY <2>3, <2>4
  <1>5. phase' \in [Sessions -> Phases]
    BY <1>2 DEF Phases
  <1> QED  BY <1>2, <1>3, <1>4, <1>5

LEMMA TypeStep == TypeOK /\ [Next]_vars => TypeOK'
  <1> SUFFICES ASSUME TypeOK, [Next]_vars PROVE TypeOK'
    OBVIOUS
  <1>0. NewPlayer \in Attributes
    BY PlayersAssumption DEF NewPlayer, Attributes
  <1>1. CASE UNCHANGED vars
    BY <1>1 DEF vars, presenceVars, attributeVars, processVars, TypeOK, PresenceTypeOK
  <1>2. ASSUME NEW s \in Sessions, Presence(s), UNCHANGED <<lookup, processVars>>,
               player' \in {player, [player EXCEPT ![s] = NewPlayer]}
        PROVE  TypeOK'
    <2>1. PresenceTypeOK'
      BY <1>2, PresenceTypeStep DEF TypeOK
    <2> QED  BY <1>0, <1>2, <2>1 DEF TypeOK, processVars
  <1>3. CASE /\ Quiet /\ UNCHANGED processVars
             /\ \/ \E s \in Sessions : Message(s)
                \/ \E r \in Lookups : Answer(r)
    <2>1. PresenceTypeOK'
      BY <1>3 DEF TypeOK, PresenceTypeOK, Quiet, presenceVars
    <2> QED  BY <1>3, <2>1, AttributeTypeStep DEF TypeOK, processVars
  <1>4. CASE Stops
    <2>1. PresenceTypeOK'
      BY <1>4, StopShape DEF PresenceTypeOK
    <2>2. /\ player' \in [Sessions -> Attributes]
          /\ lookup' \in [Lookups -> [session : Sessions, id : Characters] \cup {Idle}]
          /\ running' \in BOOLEAN /\ stops' \in 0..MaxStops
          /\ before' \subseteq Sessions
      BY <1>0, <1>4, StopShape
    <2> QED  BY <2>1, <2>2 DEF TypeOK
  <1>5. CASE Restart
    BY <1>5 DEF Restart, TypeOK, PresenceTypeOK, presenceVars, attributeVars
  <1> QED  BY <1>1, <1>2, <1>3, <1>4, <1>5, NextKinds

(* Every variable of OfficePlayers keeps its type, restarts included.      *)
THEOREM TypeCorrect == Spec => []TypeOK
  BY TypeInit, TypeStep, PTL DEF Spec

-----------------------------------------------------------------------------
(* Looks                                                                   *)

(* Whether or not the player is in the room.                               *)
AllPaired ==
    \A s \in Sessions : player[s].characterAvatar = player[s].characterId

LEMMA PairedStep == TypeOK /\ AllPaired /\ [Next]_vars => AllPaired'
  <1> SUFFICES ASSUME TypeOK, AllPaired, [Next]_vars PROVE AllPaired'
    OBVIOUS
  <1>0. /\ NewPlayer.characterAvatar = NewPlayer.characterId
        /\ \A s \in Sessions : player[s] \in Attributes
    BY DEF NewPlayer, TypeOK
  <1>1. CASE UNCHANGED player
    BY <1>1 DEF AllPaired
  <1>2. ASSUME NEW s \in Sessions, player' = [player EXCEPT ![s] = NewPlayer]
        PROVE  AllPaired'
    BY <1>0, <1>2 DEF AllPaired, TypeOK
  <1>3. ASSUME NEW t \in Sessions, NEW v \in Reports,
               player' = [player EXCEPT ![t].report = v]
        PROVE  AllPaired'
    BY <1>0, <1>3 DEF AllPaired, TypeOK, Attributes
  <1>4. ASSUME NEW r \in Lookups, CharacterFound(r)
        PROVE  AllPaired'
    <2>1. PICK s \in Sessions, c \in Characters :
            player' = [player EXCEPT ![s].characterId = c, ![s].characterAvatar = c]
      <3>1. lookup[r] \in [session : Sessions, id : Characters]
        BY <1>4 DEF CharacterFound, TypeOK
      <3> QED  BY <1>4, <3>1 DEF CharacterFound
    <2> QED  BY <1>0, <2>1 DEF AllPaired, TypeOK, Attributes
  <1>5. Stops => AllPaired'
    BY <1>0, StopShape DEF AllPaired
  <1>6. ASSUME NEW s \in Sessions, Message(s)
        PROVE  \/ UNCHANGED player
               \/ \E t \in Sessions, v \in Reports :
                    player' = [player EXCEPT ![t].report = v]
    BY <1>6 DEF Message, Report, StreamChanged, ChooseCharacter
  <1>7. ASSUME NEW r \in Lookups, Answer(r)
        PROVE  UNCHANGED player \/ CharacterFound(r)
    BY <1>7 DEF Answer, CharacterUnknown
  <1>8. UNCHANGED vars \/ Restart => UNCHANGED player
    BY DEF vars, attributeVars, Restart
  <1> QED
    BY <1>1, <1>2, <1>3, <1>4, <1>5, <1>6, <1>7, <1>8, NextKinds

(* However many lookups of one player are under way, its character and its *)
(* avatar are those of one answer.                                         *)
THEOREM LooksCorrect == Spec => []LooksPaired
  <1>1. Init => AllPaired
    BY DEF Init, AllPaired, NewPlayer
  <1>2. TypeOK /\ AllPaired => LooksPaired
    BY DEF TypeOK, PresenceTypeOK, AllPaired, LooksPaired
  <1> QED  BY <1>1, <1>2, PairedStep, TypeCorrect, PTL DEF Spec

-----------------------------------------------------------------------------
(* Presence                                                                *)

(* The sessions of earlier processes are gone, and what is being written   *)
(* of departures is of this one's.                                         *)
BeforeAreGone ==
    /\ \A s \in before : phase[s] = "gone"
    /\ \A s \in offlineWrites : s \notin before /\ phase[s] \in {"gone", "early", "lost"}

LEMMA BeforeStep == TypeOK /\ BeforeAreGone /\ [Next]_vars => BeforeAreGone'
  <1> SUFFICES ASSUME TypeOK, BeforeAreGone, [Next]_vars PROVE BeforeAreGone'
    OBVIOUS
  <1> USE DEF BeforeAreGone, TypeOK, PresenceTypeOK
  <1>1. CASE Quiet
    BY <1>1 DEF Quiet, presenceVars
  <1>2. ASSUME NEW s \in Sessions, Presence(s), before' = before
        PROVE  BeforeAreGone'
    <2>1. CASE Join(s)
      BY <1>2, <2>1 DEF Join
    <2>2. CASE JoinWritten(s)
      BY <1>2, <2>2 DEF JoinWritten, JoinSettled
    <2>3. CASE JoinRefused(s)
      BY <1>2, <2>3 DEF JoinRefused, JoinSettled
    <2>4. CASE LeavePresence(s)
      BY <1>2, <2>4 DEF LeavePresence, Ends
    <2>5. CASE OfflineWritten(s)
      BY <1>2, <2>5 DEF OfflineWritten
    <2> QED  BY <1>2, <2>1, <2>2, <2>3, <2>4, <2>5 DEF Presence
  <1>3. CASE Stops
    BY <1>3, StopShape
  <1>4. UNCHANGED vars => Quiet
    BY DEF vars, processVars, Quiet
  <1> QED  BY <1>1, <1>2, <1>3, <1>4, NextKinds DEF processVars

LEMMA ShownStep ==
    TypeOK /\ BeforeAreGone /\ PresentAreShown /\ [Next]_vars => PresentAreShown'
  <1> SUFFICES ASSUME TypeOK, BeforeAreGone, PresentAreShown, [Next]_vars
               PROVE  PresentAreShown'
    OBVIOUS
  <1>1. CASE Quiet
    BY <1>1 DEF Quiet, presenceVars, PresentAreShown
  <1>2. CASE Stops
    BY <1>2, StopShape DEF PresentAreShown
  <1>3. ASSUME NEW t \in Sessions, Presence(t), before' = before,
               NEW s \in Sessions, phase'[s] = "in",
               \A x \in Sessions \ ({s} \cup before') :
                   UserOf[x] = UserOf[s] => phase'[x] = "away"
        PROVE  online'[UserOf[s]]
    <2> USE DEF TypeOK, PresenceTypeOK
    <2>0. UserOf[s] \in Users /\ UserOf[t] \in Users
      BY PresenceAssumption
    <2>1. \A x \in Sessions : phase'[x] = "away" => phase[x] = "away"
      BY <1>3
      DEF Presence, Join, JoinWritten, JoinRefused, JoinSettled, LeavePresence,
          Ends, OfflineWritten
    <2>2. phase[s] = "in" => online[UserOf[s]]
      BY <1>3, <2>1 DEF PresentAreShown
    <2>3. CASE JoinWritten(t)
      <3>1. CASE s = t
        BY <2>0, <2>3, <3>1 DEF JoinWritten
      <3>2. CASE s # t
        BY <1>3, <2>0, <2>2, <2>3, <3>2 DEF JoinWritten, JoinSettled
      <3> QED  BY <3>1, <3>2
    <2>4. CASE OfflineWritten(t)
      <3>1. phase[s] = "in" /\ t # s
        BY <1>3, <2>4 DEF OfflineWritten, BeforeAreGone
      <3>2. UserOf[t] # UserOf[s]
        BY <1>3, <2>1, <2>4, <3>1 DEF OfflineWritten, BeforeAreGone
      <3> QED  BY <2>0, <2>2, <2>4, <3>1, <3>2 DEF OfflineWritten
    <2>5. CASE Join(t) \/ JoinRefused(t) \/ LeavePresence(t)
      <3>1. phase[s] = "in" /\ online' = online
        BY <1>3, <2>5 DEF Join, JoinRefused, JoinSettled, LeavePresence, Ends
      <3> QED  BY <2>2, <3>1
    <2> QED  BY <1>3, <2>3, <2>4, <2>5 DEF Presence
  <1>4. UNCHANGED vars => Quiet
    BY DEF vars, processVars, Quiet
  <1> QED
    BY <1>1, <1>2, <1>3, <1>4, NextKinds DEF PresentAreShown, processVars

(* A user who is there with one connection is shown, whatever an earlier   *)
(* process had under way when it ended.                                    *)
THEOREM PresentShown == Spec => []PresentAreShown
  <1>1. Init => BeforeAreGone /\ PresentAreShown
    BY DEF Init, PresenceInit, BeforeAreGone, PresentAreShown
  <1> QED  BY <1>1, BeforeStep, ShownStep, TypeCorrect, PTL DEF Spec
=============================================================================
