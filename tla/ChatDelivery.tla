---------------------------- MODULE ChatDelivery ----------------------------
(***************************************************************************)
(* Chat messages in the office: the handler of ADD_CHAT_MESSAGE in         *)
(* rooms/VOffice.ts, the member lists it reads, and the history that a     *)
(* client loads over HTTP after it has joined (rooms/controller.ts).       *)
(*                                                                         *)
(* The handler waits for the chat and then for the message to be stored;   *)
(* it delivers to the member list as it was when the chat was read, through *)
(* mapClients as it is at delivery.                                        *)
(***************************************************************************)
EXTENDS OfficePresence, Integers, Sequences, FiniteSets

CONSTANTS Chats,
          Messages,    \* one per invocation of the handler
          MaxEntries   \* bound: entries of one user in one member list

ASSUME DeliveryAssumption == MaxEntries \in Nat \ {0}

VARIABLES
    entries,   \* entries[c][u]: how often u is listed in members of chat c
    handler,   \* handler[x]: the invocation that message x is
    log,       \* log[c]: the stored messages of a chat, oldest first
    inbox,     \* inbox[s]: the ADD_CHAT_MESSAGE events sent to connection s
    loadedAt   \* loadedAt[s][c]: length of the log when s loaded it,
               \*   or NotLoaded

chatVars == <<entries, handler, log, inbox, loadedAt>>
vars == <<presenceVars, chatVars>>

NotLoaded == -1

Unsent == [pc |-> "unsent"]

(* members is the document that the handler has in hand.                   *)
Handlers ==
    [pc : {"find", "store", "deliver", "done", "rejected"}, from : Sessions,
     chat : Chats, members : [Users -> Nat]] \cup {Unsent}

TypeOK ==
    /\ PresenceTypeOK
    /\ entries \in [Chats -> [Users -> Nat]]
    /\ handler \in [Messages -> Handlers]
    /\ log \in [Chats -> Seq(Messages)]
    /\ inbox \in [Sessions -> Seq(Messages)]
    /\ loadedAt \in [Sessions -> [Chats -> Nat \cup {NotLoaded}]]

NoEntries == [u \in Users |-> 0]

(* Every user may or may not be a member of every chat to begin with.      *)
Init ==
    /\ PresenceInit
    /\ entries \in [Chats -> [Users -> {0, 1}]]
    /\ handler = [x \in Messages |-> Unsent]
    /\ log = [c \in Chats |-> <<>>]
    /\ inbox = [s \in Sessions |-> <<>>]
    /\ loadedAt = [s \in Sessions |-> [c \in Chats |-> NotLoaded]]

-----------------------------------------------------------------------------
Presence(s) ==
    /\ \/ Join(s) \/ JoinWritten(s) \/ JoinRefused(s)
       \/ LeavePresence(s) \/ OfflineWritten(s)
    /\ UNCHANGED chatVars

(* chat.members.push and save: by the handler of CONNECT_TO_MEETING or by  *)
(* ChatService.addMember.                                                  *)
MemberAdded(c, u) ==
    /\ entries[c][u] < MaxEntries
    /\ entries' = [entries EXCEPT ![c][u] = @ + 1]
    /\ UNCHANGED <<presenceVars, handler, log, inbox, loadedAt>>

(* ChatService.deleteMember pulls every entry of the user.                 *)
MemberDeleted(c, u) ==
    /\ entries[c][u] > 0
    /\ entries' = [entries EXCEPT ![c][u] = 0]
    /\ UNCHANGED <<presenceVars, handler, log, inbox, loadedAt>>

(* A client that has joined loads a chat: the newest hundred messages of   *)
(* it, which is all of them here.                                          *)
LoadMessages(s, c) ==
    /\ phase[s] = "in"
    /\ loadedAt' = [loadedAt EXCEPT ![s][c] = Len(log[c])]
    /\ UNCHANGED <<presenceVars, entries, handler, log, inbox>>

-----------------------------------------------------------------------------
(* ADD_CHAT_MESSAGE, stretch by stretch                                    *)

SendMessage(x, s, c) ==
    /\ phase[s] = "in"
    /\ handler[x] = Unsent
    /\ handler' = [handler EXCEPT ![x] =
           [pc |-> "find", from |-> s, chat |-> c, members |-> NoEntries]]
    /\ UNCHANGED <<presenceVars, entries, log, inbox, loadedAt>>

(* The chat is read.  The sender's player is looked up only now: if it has *)
(* left, player.id throws and the handler rejects.                         *)
ChatRead(x) ==
    /\ handler[x].pc = "find"
    /\ handler' = [handler EXCEPT
           ![x].members = entries[handler[x].chat],
           ![x].pc = IF handler[x].from \in players THEN "store" ELSE "rejected"]
    /\ UNCHANGED <<presenceVars, entries, log, inbox, loadedAt>>

MessageStored(x) ==
    /\ handler[x].pc = "store"
    /\ log' = [log EXCEPT ![handler[x].chat] = Append(@, x)]
    /\ handler' = [handler EXCEPT ![x].pc = "deliver"]
    /\ UNCHANGED <<presenceVars, entries, inbox, loadedAt>>

(* Whether an event for its user arrives at s: mapClients names s and      *)
(* Colyseus still holds the connection.                                    *)
Reached(s) == mapClients[UserOf[s]] = s /\ phase[s] \in {"joining", "in"}

(* One send for every entry of the member list, all in one go.             *)
Copies(x, n) == [i \in 1..n |-> x]

(* Variant: the events are sent from a callback each, one per turn.        *)
DeliveredOneByOne(x) ==
    /\ handler[x].pc = "deliver"
    /\ \E u \in Users :
         /\ handler[x].members[u] > 0
         /\ inbox' = [s \in Sessions |->
                IF UserOf[s] = u /\ Reached(s)
                THEN inbox[s] \o Copies(x, handler[x].members[u]) ELSE inbox[s]]
         /\ handler' = [handler EXCEPT ![x].members[u] = 0,
                ![x].pc = IF \A v \in Users \ {u} : handler[x].members[v] = 0
                          THEN "done" ELSE "deliver"]
    /\ UNCHANGED <<presenceVars, entries, log, loadedAt>>

(* Variant: the message is delivered first and stored afterwards.          *)
DeliveredEarly(x) ==
    /\ handler[x].pc = "store"
    /\ inbox' = [s \in Sessions |->
           IF Reached(s)
           THEN inbox[s] \o Copies(x, handler[x].members[UserOf[s]])
           ELSE inbox[s]]
    /\ handler' = [handler EXCEPT ![x].pc = "done"]
    /\ UNCHANGED <<presenceVars, entries, log, loadedAt>>

(* Variant: the message is broadcast to the office.                        *)
DeliveredToAll(x) ==
    /\ handler[x].pc = "deliver"
    /\ inbox' = [s \in Sessions |->
           IF Reached(s) THEN Append(inbox[s], x) ELSE inbox[s]]
    /\ handler' = [handler EXCEPT ![x].pc = "done"]
    /\ UNCHANGED <<presenceVars, entries, log, loadedAt>>

Delivered(x) ==
    /\ handler[x].pc = "deliver"
    /\ inbox' = [s \in Sessions |->
           IF Reached(s)
           THEN inbox[s] \o Copies(x, handler[x].members[UserOf[s]])
           ELSE inbox[s]]
    /\ handler' = [handler EXCEPT ![x].pc = "done"]
    /\ UNCHANGED <<presenceVars, entries, log, loadedAt>>

(* No such chat, or the database refuses a call.                           *)
SendFails(x) ==
    /\ handler[x].pc \in {"find", "store"}
    /\ handler' = [handler EXCEPT ![x].pc = "rejected"]
    /\ UNCHANGED <<presenceVars, entries, log, inbox, loadedAt>>

Handle(x) == ChatRead(x) \/ MessageStored(x) \/ Delivered(x)

Next ==
    \/ \E s \in Sessions : Presence(s)
    \/ \E c \in Chats, u \in Users : MemberAdded(c, u) \/ MemberDeleted(c, u)
    \/ \E s \in Sessions, c \in Chats : LoadMessages(s, c)
    \/ \E x \in Messages, s \in Sessions, c \in Chats : SendMessage(x, s, c)
    \/ \E x \in Messages : Handle(x) \/ SendFails(x)

Spec == Init /\ [][Next]_vars

-----------------------------------------------------------------------------
(* Properties                                                              *)

Elements(seq) == {seq[i] : i \in DOMAIN seq}

(* What a client is shown is in the history too, so that whoever loads it  *)
(* later sees the same (VOffice.ts 327): no event overtakes its message.   *)
ShownIsStored ==
    \A s \in Sessions : \A x \in Elements(inbox[s]) :
        x \in Elements(log[handler[x].chat])

(* Connections agree on the order of the messages they are both shown,     *)
(* although handlers overlap and senders differ (VOffice.ts 346-353).      *)
SameOrderForAll ==
    \A s, t \in Sessions :
        \A i, j \in DOMAIN inbox[s] : \A k, l \in DOMAIN inbox[t] :
            /\ inbox[s][i] # inbox[s][j]
            /\ inbox[s][i] = inbox[t][k]
            /\ inbox[s][j] = inbox[t][l]
            => (i < j <=> k < l)

Position(c, x) == CHOOSE i \in DOMAIN log[c] : log[c][i] = x

SoleSession(s) ==
    \A t \in Sessions \ {s} : UserOf[t] = UserOf[s] => phase[t] = "away"

(* A client that joins, and then loads a chat, misses no message of it: one *)
(* stored before is loaded and one stored after is sent to it, as long as  *)
(* this is its user's only connection and the user was listed when the     *)
(* message was handled (VOffice.ts 368-371, 346-353, controller.ts 397-422).*)
NothingMissed ==
    \A s \in Sessions, x \in Messages :
        /\ phase[s] = "in"
        /\ SoleSession(s)
        /\ handler[x].pc = "done"
        /\ handler[x].members[UserOf[s]] > 0
        /\ loadedAt[s][handler[x].chat] # NotLoaded
        => \/ Position(handler[x].chat, x) <= loadedAt[s][handler[x].chat]
           \/ x \in Elements(inbox[s])

(* A message is shown to members of its chat only, and no more often than  *)
(* the chat lists them when the handler reads it (VOffice.ts 346-353).     *)
ShownAsListed ==
    \A s \in Sessions, x \in Messages :
        LET copies == {i \in DOMAIN inbox[s] : inbox[s][i] = x}
        IN  copies # {} =>
                Cardinality(copies) <= handler[x].members[UserOf[s]]

(* The sender is not among those who are shown its message (VOffice.ts 322, *)
(* 345).                                                                   *)
NotShownToSender ==
    \A s \in Sessions : \A x \in Elements(inbox[s]) : handler[x].from # s
=============================================================================
