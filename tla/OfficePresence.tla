--------------------------- MODULE OfficePresence ---------------------------
(***************************************************************************)
(* Who is in the office: the part of the Colyseus room (rooms/VOffice.ts)  *)
(* that onJoin and onLeave keep, and the member's online flag that they    *)
(* write to the database.                                                  *)
(*                                                                         *)
(* A session is one connection of one user; a user may hold several (two   *)
(* tabs, a reload whose old connection has not closed yet).  The room is   *)
(* one object of a single-threaded program: handlers interleave only where *)
(* they wait for the database.                                             *)
(***************************************************************************)
EXTENDS Naturals, FiniteSets

CONSTANTS Users,        \* accounts, all members of the room
          Sessions,     \* connections; a session id is never used twice
          UserOf,       \* the account a session was authenticated for
          Leavers,      \* the sessions whose connection may end
          JoinFailers,  \* the sessions whose write in onJoin may be refused
          StoredOnline, \* what the database may show of a member at first
          NoOne         \* no session: the empty string, a missing map entry

ASSUME PresenceAssumption ==
    /\ UserOf \in [Sessions -> Users]
    /\ Leavers \subseteq Sessions
    /\ JoinFailers \subseteq Sessions
    /\ StoredOnline \subseteq BOOLEAN
    /\ NoOne \notin Sessions

VARIABLES
    phase,         \* phase[s]: how far Colyseus has taken connection s
    players,       \* the keys of state.players
    mapClients,    \* state.mapClients: the session a user is reached at
    online,        \* members.$.online of each user in the database
    offlineWrites  \* sessions whose online:false write is on its way

presenceVars == <<phase, players, mapClients, online, offlineWrites>>

(* early: ended while onJoin waits; lost: the same, and onJoin is through. *)
Phases == {"away", "joining", "in", "gone", "refused", "early", "lost"}

PresenceTypeOK ==
    /\ phase \in [Sessions -> Phases]
    /\ players \subseteq Sessions
    /\ mapClients \in [Users -> Sessions \cup {NoOne}]
    /\ online \in [Users -> BOOLEAN]
    /\ offlineWrites \subseteq Sessions

(* The office opens on whatever RoomService.joinRoom and earlier lives of  *)
(* the office have stored: a new member is stored as online.               *)
PresenceInit ==
    /\ phase = [s \in Sessions |-> "away"]
    /\ players = {}
    /\ mapClients = [u \in Users |-> NoOne]
    /\ online \in [Users -> StoredOnline]
    /\ offlineWrites = {}

(* Variant: the player is reachable only after the database has answered.  *)
JoinUnmapped(s) ==
    /\ phase[s] = "away"
    /\ phase' = [phase EXCEPT ![s] = "joining"]
    /\ players' = players \cup {s}
    /\ UNCHANGED <<mapClients, online, offlineWrites>>

(* onJoin up to its await: the player is visible before the database is    *)
(* told.                                                                   *)
Join(s) ==
    /\ phase[s] = "away"
    /\ phase' = [phase EXCEPT ![s] = "joining"]
    /\ players' = players \cup {s}
    /\ mapClients' = [mapClients EXCEPT ![UserOf[s]] = s]
    /\ UNCHANGED <<online, offlineWrites>>

(* onJoin ends, for a connection that may itself have ended meanwhile.     *)
JoinSettled(s, outcome) ==
    /\ phase[s] \in {"joining", "early"}
    /\ phase' = [phase EXCEPT ![s] = IF @ = "joining" THEN outcome ELSE "lost"]

(* Variant: only the date of the visit is stored.                          *)
JoinWrittenDateOnly(s) ==
    /\ JoinSettled(s, "in")
    /\ UNCHANGED <<players, mapClients, online, offlineWrites>>

(* The write of onJoin is acknowledged; from here on the client's messages *)
(* are accepted.                                                           *)
JoinWritten(s) ==
    /\ JoinSettled(s, "in")
    /\ online' = [online EXCEPT ![UserOf[s]] = TRUE]
    /\ UNCHANGED <<players, mapClients, offlineWrites>>

(* The write of onJoin is refused: Colyseus drops a client whose onJoin    *)
(* throws and never calls onLeave for it, so what the first half of onJoin *)
(* did stays.                                                              *)
JoinRefused(s) ==
    /\ s \in JoinFailers
    /\ JoinSettled(s, "refused")
    /\ UNCHANGED <<players, mapClients, online, offlineWrites>>

(* Colyseus calls onLeave as soon as the connection has ended, while onJoin *)
(* waits as well as after it.                                              *)
Ends(s) ==
    /\ s \in Leavers
    /\ phase[s] \in {"joining", "in"}
    /\ phase' = [phase EXCEPT ![s] = IF @ = "in" THEN "gone" ELSE "early"]

(* Variant: the user's entry in mapClients is forgotten.                   *)
LeavePresenceMapped(s) ==
    /\ Ends(s)
    /\ players' = players \ {s}
    /\ offlineWrites' = offlineWrites \cup {s}
    /\ UNCHANGED <<mapClients, online>>

(* Variant: the database is told only if another player is left.           *)
LeavePresenceUntold(s) ==
    /\ Ends(s)
    /\ players' = players \ {s}
    /\ mapClients' = [mapClients EXCEPT ![UserOf[s]] = NoOne]
    /\ offlineWrites' = IF players' = {} THEN offlineWrites
                        ELSE offlineWrites \cup {s}
    /\ UNCHANGED online

(* What onLeave does to presence.  mapClients.delete is keyed by the user, *)
(* whichever session it holds; the write of online:false is not awaited.   *)
LeavePresence(s) ==
    /\ Ends(s)
    /\ players' = players \ {s}
    /\ mapClients' = [mapClients EXCEPT ![UserOf[s]] = NoOne]
    /\ offlineWrites' = offlineWrites \cup {s}
    /\ UNCHANGED online

OfflineWritten(s) ==
    /\ s \in offlineWrites
    /\ offlineWrites' = offlineWrites \ {s}
    /\ online' = [online EXCEPT ![UserOf[s]] = FALSE]
    /\ UNCHANGED <<phase, players, mapClients>>

-----------------------------------------------------------------------------
(* A private or group message is routed through mapClients (VOffice.ts     *)
(* 346-353 and 402-412).  What it names is a session that has a player of  *)
(* that very user: a message is never routed to a session that has left,   *)
(* nor to somebody else's.                                                 *)
RoutesToOwnPlayer ==
    \A u \in Users :
        mapClients[u] # NoOne =>
            /\ mapClients[u] \in players
            /\ UserOf[mapClients[u]] = u

(* A user with a single connection is reachable as long as it lasts: no    *)
(* departure of another user, and no failure, takes the entry away.        *)
SoleSessionReachable ==
    \A s \in Sessions :
        /\ phase[s] \in {"joining", "in"}
        /\ \A t \in Sessions \ {s} : UserOf[t] = UserOf[s] => phase[t] = "away"
        => mapClients[UserOf[s]] = s

(* The players of the room are the sessions that Colyseus holds, and those *)
(* it refused after onJoin had already announced them.                     *)
PlayersAreConnections ==
    players = {s \in Sessions : phase[s] \in {"joining", "in", "refused"}}

Departed(u, how) == \E s \in Sessions : UserOf[s] = u /\ phase[s] \in how

(* A user one of whose connections has left is shown online only while     *)
(* another is there, while the write that a departure sent is under way,   *)
(* or for a connection that ended while its onJoin was waiting, in         *)
(* whatever order the writes of several connections are carried out        *)
(* (VOffice.ts 372, 419).                                                  *)
OnlineIsAccountedFor ==
    \A u \in Users :
        online[u] /\ Departed(u, {"gone"}) =>
            \/ Departed(u, {"in", "lost"})
            \/ \E s \in offlineWrites : UserOf[s] = u

(* The write of online:false is not awaited, and may be overtaken by other *)
(* joins of the user; in the end the database shows a user one of whose    *)
(* connections has left as online only if another is there, or ended while *)
(* its onJoin was waiting (VOffice.ts 372, 419).                           *)
DepartedGoOffline ==
    \A u \in Users :
        <>[](online[u] /\ Departed(u, {"gone"}) => Departed(u, {"in", "lost"}))

(* The same of connections that ended while onJoin was waiting: the two    *)
(* writes are under way at once, and online:true may be the later one      *)
(* (VOffice.ts 372, 419).                                                  *)
LostGoOffline ==
    \A u \in Users :
        <>[](online[u] /\ Departed(u, {"gone", "lost"}) => Departed(u, {"in"}))
=============================================================================
