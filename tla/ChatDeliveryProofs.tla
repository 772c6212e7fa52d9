------------------------- MODULE ChatDeliveryProofs -------------------------
(***************************************************************************)
(* What holds of chat messages in the office for any number of connections, *)
(* chats and messages, and of entries in the member lists: that an event   *)
(* is in the history, in one order for all, as often as its user is        *)
(* listed, and that a client alone of its user misses none.                *)
(***************************************************************************)
EXTENDS ChatDelivery, FiniteSetTheorems, SequenceTheorems, TLAPS

-----------------------------------------------------------------------------
(* Sequences                                                               *)

(* Where a message stands in an inbox.                                     *)
Places(seq, x) == {i \in DOMAIN seq : seq[i] = x}

LEMMA CopiesType ==
    ASSUME NEW x \in Messages, NEW n \in Nat
    PROVE  /\ Copies(x, n) \in Seq(Messages)
           /\ Len(Copies(x, n)) = n
           /\ \A i \in 1..n : Copies(x, n)[i] = x
  BY DEF Copies

(* What sending n copies of a message does to an inbox.                    *)
LEMMA Sent ==
    ASSUME NEW seq \in Seq(Messages), NEW x \in Messages, NEW n \in Nat
    PROVE  LET longer == seq \o Copies(x, n) IN
           /\ longer \in Seq(Messages)
           /\ DOMAIN seq = 1..Len(seq) /\ Len(seq) \in Nat
           /\ DOMAIN longer = 1..(Len(seq) + n)
           /\ \A i \in DOMAIN seq : longer[i] = seq[i]
           /\ \A i \in (Len(seq) + 1)..(Len(seq) + n) : longer[i] = x
  <1> DEFINE longer == seq \o Copies(x, n)
  <1>1. Copies(x, n) \in Seq(Messages) /\ Len(Copies(x, n)) = n
    BY CopiesType
  <1>2. /\ longer \in Seq(Messages)
        /\ Len(longer) = Len(seq) + n
        /\ \A i \in 1..(Len(seq) + n) : longer[i] =
             IF i <= Len(seq) THEN seq[i] ELSE Copies(x, n)[i - Len(seq)]
    BY <1>1, ConcatProperties
  <1>3. /\ Len(seq) \in Nat
        /\ DOMAIN seq = 1..Len(seq)
        /\ DOMAIN longer = 1..Len(longer)
    BY <1>2, LenProperties
  <1>4. \A i \in DOMAIN seq : longer[i] = seq[i]
    BY <1>2, <1>3
  <1>5. \A i \in (Len(seq) + 1)..(Len(seq) + n) : longer[i] = x
    <2> TAKE i \in (Len(seq) + 1)..(Len(seq) + n)
    <2>1. i \in 1..(Len(seq) + n) /\ ~(i <= Len(seq)) /\ i - Len(seq) \in 1..n
      BY <1>3
    <2> QED  BY <1>2, <2>1, CopiesType
  <1> QED  BY <1>2, <1>3, <1>4, <1>5

LEMMA Appended ==
    ASSUME NEW seq \in Seq(Messages), NEW x \in Messages
    PROVE  /\ Append(seq, x) \in Seq(Messages)
           /\ Len(seq) \in Nat
           /\ DOMAIN seq = 1..Len(seq)
           /\ DOMAIN Append(seq, x) = 1..(Len(seq) + 1)
           /\ \A i \in DOMAIN seq : Append(seq, x)[i] = seq[i]
           /\ Append(seq, x)[Len(seq) + 1] = x
  <1>1. /\ Append(seq, x) \in Seq(Messages)
        /\ Len(Append(seq, x)) = Len(seq) + 1
        /\ \A i \in 1..Len(seq) : Append(seq, x)[i] = seq[i]
        /\ Append(seq, x)[Len(seq) + 1] = x
    BY AppendProperties
  <1> QED  BY <1>1, LenProperties

-----------------------------------------------------------------------------
(* The inductive invariant                                                 *)

(* The history of a chat holds its messages whose handlers have stored     *)
(* them, each of them, and each once.                                      *)
StoredBy == {"deliver", "done"}

LogHoldsStored ==
    \A c \in Chats : \A i \in DOMAIN log[c] :
        /\ handler[log[c][i]].pc \in StoredBy
        /\ handler[log[c][i]].chat = c

StoredIsInLog ==
    \A x \in Messages : handler[x].pc \in StoredBy =>
        \E i \in DOMAIN log[handler[x].chat] : log[handler[x].chat][i] = x

LogHoldsOnce ==
    \A c \in Chats : \A i, j \in DOMAIN log[c] :
        log[c][i] = log[c][j] => i = j

(* A message is shown by its handler's last step, and not before.          *)
ShownWhenDone ==
    \A s \in Sessions, x \in Messages :
        handler[x].pc # "done" => Places(inbox[s], x) = {}

ShownByEntry ==
    \A s \in Sessions, x \in Messages :
        handler[x].pc = "done" =>
            Cardinality(Places(inbox[s], x)) <= handler[x].members[UserOf[s]]

(* Only a client that has joined has loaded a chat.                        *)
LoadedInside ==
    \A s \in Sessions, c \in Chats :
        loadedAt[s][c] # NotLoaded => phase[s] \in {"in", "gone"}

(* NothingMissed, with the place of the message named.                     *)
NoneMissed ==
    \A s \in Sessions, x \in Messages :
        /\ phase[s] = "in"
        /\ SoleSession(s)
        /\ handler[x].pc = "done"
        /\ handler[x].members[UserOf[s]] > 0
        /\ loadedAt[s][handler[x].chat] # NotLoaded
        => \/ \E i \in DOMAIN log[handler[x].chat] :
                /\ log[handler[x].chat][i] = x
                /\ i <= loadedAt[s][handler[x].chat]
           \/ Places(inbox[s], x) # {}

IInv ==
    /\ TypeOK /\ SoleSessionReachable
    /\ LogHoldsStored /\ StoredIsInLog /\ LogHoldsOnce
    /\ ShownWhenDone /\ ShownByEntry /\ SameOrderForAll
    /\ LoadedInside /\ NoneMissed

-----------------------------------------------------------------------------
(* What the steps do                                                       *)

LEMMA HandlerType ==
    ASSUME TypeOK, NEW x \in Messages, handler[x].pc # "unsent"
    PROVE  /\ handler[x] \in Handlers \ {Unsent}
           /\ handler[x].from \in Sessions
           /\ handler[x].chat \in Chats
           /\ handler[x].members \in [Users -> Nat]
  BY DEF TypeOK, Handlers, Unsent

(* The handler of x changes, and no other.                                 *)
Only(x) ==
    /\ handler' \in [Messages -> Handlers]
    /\ \A y \in Messages \ {x} : handler'[y] = handler[y]

(* The handler of x moves, and has not stored the message, before or after. *)
Prepares(x) ==
    /\ Only(x)
    /\ handler[x].pc \notin StoredBy
    /\ handler'[x].pc \notin StoredBy
    /\ UNCHANGED <<presenceVars, log, inbox, loadedAt>>

Stores(x) ==
    LET c == handler[x].chat IN
    /\ Only(x)
    /\ c \in Chats
    /\ handler[x].pc \notin StoredBy
    /\ handler'[x].pc = "deliver" /\ handler'[x].chat = c
    /\ log' \in [Chats -> Seq(Messages)]
    /\ log'[c] = Append(log[c], x)
    /\ \A d \in Chats \ {c} : log'[d] = log[d]
    /\ UNCHANGED <<presenceVars, inbox, loadedAt>>

Delivers(x) ==
    /\ Only(x)
    /\ handler[x].pc = "deliver"
    /\ handler'[x].pc = "done"
    /\ handler'[x].chat = handler[x].chat
    /\ handler[x].chat \in Chats
    /\ handler'[x].members = handler[x].members
    /\ handler[x].members \in [Users -> Nat]
    /\ inbox' \in [Sessions -> Seq(Messages)]
    /\ \A s \in Sessions : inbox'[s] =
         IF Reached(s)
         THEN inbox[s] \o Copies(x, handler[x].members[UserOf[s]])
         ELSE inbox[s]
    /\ UNCHANGED <<presenceVars, log, loadedAt>>

LEMMA HandlerKinds ==
    ASSUME TypeOK, NEW x \in Messages,
           \/ \E s \in Sessions, c \in Chats : SendMessage(x, s, c)
           \/ Handle(x) \/ SendFails(x)
    PROVE  Prepares(x) \/ Stores(x) \/ Delivers(x)
  <1>1. ASSUME NEW r \in Handlers, handler' = [handler EXCEPT ![x] = r]
        PROVE  Only(x) /\ handler'[x] = r
    BY <1>1 DEF TypeOK, Only
  <1>2. ASSUME NEW s \in Sessions, NEW c \in Chats, SendMessage(x, s, c)
        PROVE  Prepares(x)
    <2> DEFINE r == [pc |-> "find", from |-> s, chat |-> c,
                     members |-> NoEntries]
    <2>1. r \in Handlers /\ r.pc = "find"
      BY DEF Handlers, NoEntries
    <2>2. handler' = [handler EXCEPT ![x] = r]
      BY <1>2 DEF SendMessage
    <2> HIDE DEF r
    <2>3. Only(x) /\ handler'[x].pc = "find"
      BY <1>1, <2>1, <2>2
    <2>4. handler[x].pc = "unsent"
      BY <1>2 DEF SendMessage, Unsent
    <2>5. UNCHANGED <<presenceVars, log, inbox, loadedAt>>
      BY <1>2 DEF SendMessage
    <2> QED  BY <2>3, <2>4, <2>5 DEF Prepares, StoredBy
  <1>3. ASSUME handler[x].pc # "unsent",
               NEW pc \in {"find", "store", "deliver", "done", "rejected"}
        PROVE  /\ [handler[x] EXCEPT !.pc = pc] \in Handlers
               /\ [handler[x] EXCEPT !.pc = pc].pc = pc
               /\ [handler[x] EXCEPT !.pc = pc].chat = handler[x].chat
               /\ [handler[x] EXCEPT !.pc = pc].members = handler[x].members
    BY <1>3, HandlerType DEF Handlers
  <1>4. CASE SendFails(x)
    <2>1. handler[x].pc \in {"find", "store"}
      BY <1>4 DEF SendFails
    <2>2. handler' = [handler EXCEPT ![x] =
                         [handler[x] EXCEPT !.pc = "rejected"]]
      BY <1>4 DEF SendFails, TypeOK
    <2>3. Only(x) /\ handler'[x].pc = "rejected"
      BY <1>1, <1>3, <2>1, <2>2
    <2> QED  BY <1>4, <2>1, <2>3 DEF SendFails, Prepares, StoredBy
  <1>5. CASE ChatRead(x)
    <2>1. handler[x].pc = "find" /\ handler[x] \in Handlers \ {Unsent}
      BY <1>5, HandlerType DEF ChatRead
    <2> DEFINE m == entries[handler[x].chat]
               pc == IF handler[x].from \in players
                     THEN "store" ELSE "rejected"
    <2>2. m \in [Users -> Nat]
      BY <2>1, HandlerType DEF TypeOK
    <2>3. handler' = [handler EXCEPT ![x] =
                         [handler[x] EXCEPT !.members = m, !.pc = pc]]
      BY <1>5 DEF ChatRead, TypeOK
    <2>4. pc \in {"store", "rejected"}
      OBVIOUS
    <2> HIDE DEF m, pc
    <2>5. /\ [handler[x] EXCEPT !.members = m, !.pc = pc] \in Handlers
          /\ [handler[x] EXCEPT !.members = m, !.pc = pc].pc = pc
      BY <2>1, <2>2, <2>4 DEF Handlers
    <2>6. Only(x) /\ handler'[x].pc \in {"store", "rejected"}
      BY <1>1, <2>3, <2>4, <2>5
    <2> QED  BY <1>5, <2>1, <2>6 DEF ChatRead, Prepares, StoredBy
  <1>6. CASE MessageStored(x)
    <2> DEFINE c == handler[x].chat
    <2>1. handler[x].pc = "store" /\ c \in Chats
      BY <1>6, HandlerType DEF MessageStored
    <2>2. handler' = [handler EXCEPT ![x] =
                         [handler[x] EXCEPT !.pc = "deliver"]]
      BY <1>6 DEF MessageStored, TypeOK
    <2>3. /\ Only(x)
          /\ handler'[x].pc = "deliver" /\ handler'[x].chat = c
      BY <1>1, <1>3, <2>1, <2>2
    <2>4. log[c] \in Seq(Messages)
      BY <2>1 DEF TypeOK
    <2>5. Append(log[c], x) \in Seq(Messages)
      BY <2>4, Appended
    <2>6. log' = [log EXCEPT ![c] = Append(log[c], x)]
      BY <1>6 DEF MessageStored
    <2>7. /\ log' \in [Chats -> Seq(Messages)]
          /\ log'[c] = Append(log[c], x)
          /\ \A d \in Chats \ {c} : log'[d] = log[d]
      BY <2>1, <2>5, <2>6 DEF TypeOK
    <2> QED  BY <1>6, <2>1, <2>3, <2>7 DEF MessageStored, Stores, StoredBy
  <1>7. CASE Delivered(x)
    <2>1. /\ handler[x].pc = "deliver" /\ handler[x].chat \in Chats
          /\ handler[x].members \in [Users -> Nat]
      BY <1>7, HandlerType DEF Delivered
    <2>2. handler' = [handler EXCEPT ![x] = [handler[x] EXCEPT !.pc = "done"]]
      BY <1>7 DEF Delivered, TypeOK
    <2>3. /\ Only(x)
          /\ handler'[x].pc = "done"
          /\ handler'[x].chat = handler[x].chat
          /\ handler'[x].members = handler[x].members
      BY <1>1, <1>3, <2>1, <2>2
    <2>4. ASSUME NEW s \in Sessions
          PROVE  inbox[s] \o Copies(x, handler[x].members[UserOf[s]])
                     \in Seq(Messages)
      <3>1. /\ handler[x].members[UserOf[s]] \in Nat
            /\ inbox[s] \in Seq(Messages)
        BY <2>1, PresenceAssumption DEF TypeOK
      <3> QED  BY <3>1, Sent
    <2>5. inbox' = [s \in Sessions |->
             IF Reached(s)
             THEN inbox[s] \o Copies(x, handler[x].members[UserOf[s]])
             ELSE inbox[s]]
      BY <1>7 DEF Delivered
    <2>6. /\ inbox' \in [Sessions -> Seq(Messages)]
          /\ \A s \in Sessions : inbox'[s] =
               IF Reached(s)
               THEN inbox[s] \o Copies(x, handler[x].members[UserOf[s]])
               ELSE inbox[s]
      BY <2>4, <2>5 DEF TypeOK
    <2> QED  BY <1>7, <2>1, <2>3, <2>6 DEF Delivered, Delivers
  <1> QED  BY <1>2, <1>4, <1>5, <1>6, <1>7 DEF Handle

(* Every step is of one of these kinds.                                    *)
LEMMA NextKinds ==
    ASSUME TypeOK, Next
    PROVE  \/ \E s \in Sessions : Presence(s)
           \/ /\ entries' \in [Chats -> [Users -> Nat]]
              /\ UNCHANGED <<presenceVars, handler, log, inbox, loadedAt>>
           \/ \E s \in Sessions, c \in Chats : LoadMessages(s, c)
           \/ \E x \in Messages :
                /\ Prepares(x) \/ Stores(x) \/ Delivers(x)
                /\ entries' = entries
  <1>1. ASSUME NEW c \in Chats, NEW u \in Users,
               MemberAdded(c, u) \/ MemberDeleted(c, u)
        PROVE  /\ entries' \in [Chats -> [Users -> Nat]]
               /\ UNCHANGED <<presenceVars, handler, log, inbox, loadedAt>>
    <2>1. entries[c] \in [Users -> Nat] /\ entries[c][u] \in Nat
      BY DEF TypeOK
    <2>2. /\ [entries[c] EXCEPT ![u] = entries[c][u] + 1] \in [Users -> Nat]
          /\ [entries[c] EXCEPT ![u] = 0] \in [Users -> Nat]
      BY <2>1
    <2>3. PICK list \in [Users -> Nat] : entries' = [entries EXCEPT ![c] = list]
      BY <1>1, <2>2 DEF MemberAdded, MemberDeleted, TypeOK
    <2>4. entries' \in [Chats -> [Users -> Nat]]
      BY <2>3 DEF TypeOK
    <2> QED  BY <1>1, <2>4 DEF MemberAdded, MemberDeleted
  <1>2. ASSUME NEW x \in Messages,
               \/ \E s \in Sessions, c \in Chats : SendMessage(x, s, c)
               \/ Handle(x) \/ SendFails(x)
        PROVE  entries' = entries
    BY <1>2
    DEF SendMessage, Handle, SendFails, ChatRead, MessageStored, Delivered
  <1> QED  BY <1>1, <1>2, HandlerKinds DEF Next

-----------------------------------------------------------------------------
(* Presence                                                                *)

LEMMA PresenceTypeStep ==
    ASSUME PresenceTypeOK, NEW s \in Sessions, Presence(s)
    PROVE  PresenceTypeOK'
  <1> USE PresenceAssumption DEF PresenceTypeOK, Phases
  <1>1. CASE Join(s)
    BY <1>1 DEF Join
  <1>2. CASE JoinWritten(s)
    BY <1>2 DEF JoinWritten, JoinSettled
  <1>3. CASE JoinRefused(s)
    BY <1>3 DEF JoinRefused, JoinSettled
  <1>4. CASE LeavePresence(s)
    BY <1>4 DEF LeavePresence, Ends
  <1>5. CASE OfflineWritten(s)
    BY <1>5 DEF OfflineWritten
  <1> QED  BY <1>1, <1>2, <1>3, <1>4, <1>5 DEF Presence

(* A connection that has not come yet had not come before; and one that    *)
(* has been let in stays in or goes.                                       *)
LEMMA PhasesMove ==
    ASSUME PresenceTypeOK, NEW t \in Sessions, Presence(t),
           NEW s \in Sessions
    PROVE  /\ phase'[s] = "away" => phase[s] = "away"
           /\ phase[s] \in {"in", "gone"} => phase'[s] \in {"in", "gone"}
           /\ phase'[s] = "in" => phase[s] \in {"in", "joining"}
  BY DEF Presence, Join, JoinWritten, JoinRefused, JoinSettled, LeavePresence,
         Ends, OfflineWritten, PresenceTypeOK

LEMMA SoleStays ==
    ASSUME PresenceTypeOK, NEW t \in Sessions, Presence(t),
           NEW s \in Sessions, SoleSession(s)'
    PROVE  SoleSession(s)
  BY PhasesMove DEF SoleSession

LEMMA SoleSessionStep ==
    ASSUME PresenceTypeOK, SoleSessionReachable,
           NEW t \in Sessions, Presence(t)
    PROVE  SoleSessionReachable'
  <1> USE PresenceAssumption DEF PresenceTypeOK
  <1> SUFFICES ASSUME NEW s \in Sessions, phase'[s] \in {"joining", "in"},
                      \A x \in Sessions \ {s} :
                          UserOf[x] = UserOf[s] => phase'[x] = "away"
               PROVE  mapClients'[UserOf[s]] = s
    BY DEF SoleSessionReachable
  <1>1. phase[s] \in {"joining", "in"} => mapClients[UserOf[s]] = s
    BY PhasesMove DEF SoleSessionReachable
  <1>2. CASE Join(t)
    <2>1. CASE t = s
      BY <1>2, <2>1 DEF Join
    <2>2. CASE t # s
      <3>1. UserOf[t] # UserOf[s] /\ phase'[s] = phase[s]
        BY <1>2, <2>2 DEF Join
      <3> QED  BY <1>1, <1>2, <3>1 DEF Join
    <2> QED  BY <2>1, <2>2
  <1>3. CASE LeavePresence(t)
    <2>1. t # s /\ phase'[t] # "away" /\ phase'[s] = phase[s]
      BY <1>3 DEF LeavePresence, Ends
    <2>2. UserOf[t] # UserOf[s]
      BY <2>1
    <2> QED  BY <1>1, <1>3, <2>1, <2>2 DEF LeavePresence
  <1>4. CASE JoinWritten(t) \/ JoinRefused(t) \/ OfflineWritten(t)
    <2>1. phase[s] \in {"joining", "in"} /\ mapClients' = mapClients
      BY <1>4 DEF JoinWritten, JoinRefused, JoinSettled, OfflineWritten
    <2> QED  BY <1>1, <2>1
  <1> QED  BY <1>2, <1>3, <1>4 DEF Presence

-----------------------------------------------------------------------------
(* Each part of the invariant is preserved                                 *)

LEMMA StepTypeOK ==
    ASSUME TypeOK, Next
    PROVE  TypeOK'
  <1>1. CASE \E s \in Sessions : Presence(s)
    <2>1. PresenceTypeOK' /\ UNCHANGED chatVars
      BY <1>1, PresenceTypeStep DEF TypeOK, Presence
    <2> QED  BY <2>1 DEF TypeOK, chatVars
  <1>2. ASSUME UNCHANGED presenceVars
        PROVE  PresenceTypeOK'
    BY <1>2 DEF TypeOK, PresenceTypeOK, presenceVars
  <1>3. CASE /\ entries' \in [Chats -> [Users -> Nat]]
             /\ UNCHANGED <<presenceVars, handler, log, inbox, loadedAt>>
    BY <1>2, <1>3 DEF TypeOK
  <1>4. ASSUME NEW s \in Sessions, NEW c \in Chats, LoadMessages(s, c)
        PROVE  TypeOK'
    <2>1. Len(log[c]) \in Nat
      BY LenProperties DEF TypeOK
    <2>2. loadedAt' \in [Sessions -> [Chats -> Nat \cup {NotLoaded}]]
      BY <1>4, <2>1 DEF LoadMessages, TypeOK
    <2> QED  BY <1>2, <1>4, <2>2 DEF LoadMessages, TypeOK
  <1>5. ASSUME NEW x \in Messages, entries' = entries,
               Prepares(x) \/ Stores(x) \/ Delivers(x)
        PROVE  TypeOK'
    BY <1>2, <1>5 DEF TypeOK, Prepares, Stores, Delivers, Only
  <1> QED  BY <1>1, <1>3, <1>4, <1>5, NextKinds

(* What has been stored stays so, in its chat and at its place.            *)
LEMMA StoredLasts ==
    ASSUME TypeOK, Next, NEW x \in Messages, handler[x].pc \in StoredBy
    PROVE  /\ handler'[x].pc \in StoredBy
           /\ handler'[x].chat = handler[x].chat
           /\ handler[x].chat \in Chats
           /\ handler[x].pc = "done" => handler'[x] = handler[x]
  <1>1. handler[x].chat \in Chats
    BY HandlerType DEF StoredBy
  <1>2. ASSUME NEW y \in Messages, Prepares(y) \/ Stores(y) \/ Delivers(y)
        PROVE  /\ handler'[x].pc \in StoredBy
               /\ handler'[x].chat = handler[x].chat
               /\ handler[x].pc = "done" => handler'[x] = handler[x]
    BY <1>2 DEF Prepares, Stores, Delivers, Only, StoredBy
  <1>3. ASSUME UNCHANGED handler
        PROVE  /\ handler'[x].pc \in StoredBy
               /\ handler'[x].chat = handler[x].chat
               /\ handler[x].pc = "done" => handler'[x] = handler[x]
    BY <1>3
  <1> QED
    BY <1>1, <1>2, <1>3, NextKinds DEF Presence, chatVars, LoadMessages

LEMMA LogGrows ==
    ASSUME TypeOK, Next, NEW c \in Chats
    PROVE  \A i \in DOMAIN log[c] : i \in DOMAIN log'[c] /\ log'[c][i] = log[c][i]
  <1>1. ASSUME NEW x \in Messages, Stores(x), handler[x].chat = c
        PROVE  \A i \in DOMAIN log[c] :
                 i \in DOMAIN log'[c] /\ log'[c][i] = log[c][i]
    <2>1. log[c] \in Seq(Messages) /\ log'[c] = Append(log[c], x)
      BY <1>1 DEF Stores, TypeOK
    <2> QED  BY <2>1, Appended
  <1>2. \/ log'[c] = log[c]
        \/ \E x \in Messages : Stores(x) /\ handler[x].chat = c
    BY NextKinds
    DEF Presence, chatVars, LoadMessages, Prepares, Stores, Delivers
  <1> QED  BY <1>1, <1>2

LEMMA StepLog ==
    ASSUME TypeOK, Next, LogHoldsStored, StoredIsInLog, LogHoldsOnce
    PROVE  LogHoldsStored' /\ StoredIsInLog' /\ LogHoldsOnce'
  <1>1. ASSUME UNCHANGED log, NEW c \in Chats
        PROVE  /\ \A i \in DOMAIN log'[c] :
                    /\ handler'[log'[c][i]].pc \in StoredBy
                    /\ handler'[log'[c][i]].chat = c
               /\ \A i, j \in DOMAIN log'[c] :
                    log'[c][i] = log'[c][j] => i = j
    <2>1. \A i \in DOMAIN log[c] : log[c][i] \in Messages
      BY ElementOfSeq, LenProperties DEF TypeOK
    <2>2. \A i \in DOMAIN log[c] :
            /\ handler[log[c][i]].pc \in StoredBy
            /\ handler[log[c][i]].chat = c
      BY DEF LogHoldsStored
    <2>3. \A i, j \in DOMAIN log[c] : log[c][i] = log[c][j] => i = j
      BY DEF LogHoldsOnce
    <2> QED  BY <1>1, <2>1, <2>2, <2>3, StoredLasts
  <1>2. ASSUME NEW x \in Messages, Stores(x), NEW c \in Chats
        PROVE  /\ \A i \in DOMAIN log'[c] :
                    /\ handler'[log'[c][i]].pc \in StoredBy
                    /\ handler'[log'[c][i]].chat = c
               /\ \A i, j \in DOMAIN log'[c] :
                    log'[c][i] = log'[c][j] => i = j
    <2>1. log[c] \in Seq(Messages)
      BY DEF TypeOK
    <2>2. \A i \in DOMAIN log[c] : log[c][i] \in Messages
      BY <2>1, ElementOfSeq, LenProperties
    <2>3. \A i \in DOMAIN log[c] :
            /\ handler[log[c][i]].pc \in StoredBy
            /\ handler[log[c][i]].chat = c
      BY DEF LogHoldsStored
    <2>4. \A i, j \in DOMAIN log[c] : log[c][i] = log[c][j] => i = j
      BY DEF LogHoldsOnce
    <2>5. \A i \in DOMAIN log[c] :
            /\ handler'[log[c][i]].pc \in StoredBy
            /\ handler'[log[c][i]].chat = c
      BY <2>2, <2>3, StoredLasts
    <2>6. CASE c # handler[x].chat
      <3>1. log'[c] = log[c]
        BY <1>2, <2>6 DEF Stores
      <3> QED  BY <2>4, <2>5, <3>1
    <2>7. CASE c = handler[x].chat
      <3>1. log'[c] = Append(log[c], x)
        BY <1>2, <2>7 DEF Stores
      <3>2. /\ Len(log[c]) \in Nat
            /\ DOMAIN log[c] = 1..Len(log[c])
            /\ DOMAIN log'[c] = 1..(Len(log[c]) + 1)
            /\ \A i \in DOMAIN log[c] : log'[c][i] = log[c][i]
            /\ log'[c][Len(log[c]) + 1] = x
        BY <2>1, <3>1, Appended
      <3>3. \A i \in DOMAIN log[c] : log[c][i] # x
        BY <1>2, <2>3 DEF Stores
      <3>4. /\ handler'[x].pc \in StoredBy
            /\ handler'[x].chat = c
        BY <1>2, <2>7 DEF Stores, StoredBy
      <3>5. \A i \in DOMAIN log'[c] :
              i \in DOMAIN log[c] \/ i = Len(log[c]) + 1
        BY <3>2
      <3>6. \A i \in DOMAIN log'[c] :
              /\ handler'[log'[c][i]].pc \in StoredBy
              /\ handler'[log'[c][i]].chat = c
        BY <2>5, <3>2, <3>4, <3>5
      <3>7. \A i, j \in DOMAIN log'[c] : log'[c][i] = log'[c][j] => i = j
        BY <2>4, <3>2, <3>3, <3>5
      <3> QED  BY <3>6, <3>7
    <2> QED  BY <2>6, <2>7
  <1>3. UNCHANGED log \/ \E x \in Messages : Stores(x)
    BY NextKinds DEF Presence, chatVars, LoadMessages, Prepares, Delivers
  <1>4. LogHoldsStored' /\ LogHoldsOnce'
    <2>1. CASE UNCHANGED log
      BY <1>1, <2>1 DEF LogHoldsStored, LogHoldsOnce
    <2>2. CASE \E x \in Messages : Stores(x)
      BY <1>2, <2>2 DEF LogHoldsStored, LogHoldsOnce
    <2> QED  BY <1>3, <2>1, <2>2
  <1>5. StoredIsInLog'
    <2> SUFFICES ASSUME NEW x \in Messages, handler'[x].pc \in StoredBy
                 PROVE  \E i \in DOMAIN log'[handler'[x].chat] :
                            log'[handler'[x].chat][i] = x
      BY DEF StoredIsInLog
    <2>1. CASE handler[x].pc \in StoredBy
      <3>1. PICK i \in DOMAIN log[handler[x].chat] :
              log[handler[x].chat][i] = x
        BY <2>1 DEF StoredIsInLog
      <3>2. /\ handler[x].chat \in Chats
            /\ handler'[x].chat = handler[x].chat
        BY <2>1, StoredLasts
      <3> QED  BY <3>1, <3>2, LogGrows
    <2>2. CASE handler[x].pc \notin StoredBy
      <3>1. Stores(x)
        <4>1. ASSUME NEW y \in Messages,
                     Prepares(y) \/ Stores(y) \/ Delivers(y)
              PROVE  Stores(x)
          BY <2>2, <4>1 DEF Prepares, Stores, Delivers, Only, StoredBy
        <4> QED
          BY <2>2, <4>1, NextKinds DEF Presence, chatVars, LoadMessages
      <3> DEFINE c == handler[x].chat
      <3>2. /\ log[c] \in Seq(Messages)
            /\ log'[c] = Append(log[c], x)
            /\ handler'[x].chat = c
        BY <3>1 DEF Stores, TypeOK
      <3> HIDE DEF c
      <3>3. /\ Len(log[c]) + 1 \in DOMAIN log'[c]
            /\ log'[c][Len(log[c]) + 1] = x
        BY <3>2, Appended
      <3> QED  BY <3>2, <3>3
    <2> QED  BY <2>1, <2>2
  <1> QED  BY <1>4, <1>5

(* What one delivery does to one inbox, of k events: n copies of x come    *)
(* last, as many as there are entries if the connection is reached.        *)
ComesLast(x, s, k, n) ==
    /\ n <= handler[x].members[UserOf[s]]
    /\ Reached(s) => n = handler[x].members[UserOf[s]]
    /\ DOMAIN inbox[s] = 1..k
    /\ DOMAIN inbox'[s] = 1..(k + n)
    /\ \A i \in 1..k : inbox'[s][i] = inbox[s][i]
    /\ \A i \in (k + 1)..(k + n) : inbox'[s][i] = x
    /\ \A i \in 1..k : inbox[s][i] # x

LEMMA DeliveredTo ==
    ASSUME TypeOK, ShownWhenDone, NEW x \in Messages, Delivers(x),
           NEW s \in Sessions
    PROVE  \E n \in Nat, k \in Nat : ComesLast(x, s, k, n)
  <1> DEFINE m == handler[x].members[UserOf[s]]
             k == Len(inbox[s])
  <1>1. m \in Nat /\ inbox[s] \in Seq(Messages)
    BY PresenceAssumption DEF Delivers, TypeOK
  <1>2. k \in Nat /\ DOMAIN inbox[s] = 1..k
    BY <1>1, LenProperties
  <1>3. \A i \in 1..k : inbox[s][i] # x
    BY <1>2 DEF ShownWhenDone, Delivers, Places
  <1>4. CASE Reached(s)
    <2>1. inbox'[s] = inbox[s] \o Copies(x, m)
      BY <1>4 DEF Delivers
    <2>2. /\ DOMAIN inbox'[s] = 1..(k + m)
          /\ \A i \in 1..k : inbox'[s][i] = inbox[s][i]
          /\ \A i \in (k + 1)..(k + m) : inbox'[s][i] = x
      <3> DEFINE seq == inbox[s]
      <3>1. seq \in Seq(Messages) /\ m \in Nat /\ k = Len(seq)
        BY <1>1
      <3> HIDE DEF seq, m
      <3>2. /\ DOMAIN seq = 1..Len(seq)
            /\ DOMAIN (seq \o Copies(x, m)) = 1..(Len(seq) + m)
            /\ \A i \in DOMAIN seq : (seq \o Copies(x, m))[i] = seq[i]
            /\ \A i \in (Len(seq) + 1)..(Len(seq) + m) :
                 (seq \o Copies(x, m))[i] = x
        BY <3>1, Sent
      <3> QED  BY <2>1, <3>1, <3>2 DEF seq
    <2> HIDE DEF m, k
    <2>3. m <= m
      BY <1>1
    <2> QED  BY <1>1, <1>2, <1>3, <2>2, <2>3 DEF m, ComesLast
  <1>5. CASE ~Reached(s)
    <2>1. inbox'[s] = inbox[s]
      BY <1>5 DEF Delivers
    <2> HIDE DEF k
    <2>2. 0 <= m /\ k + 0 = k /\ (k + 1)..k = {}
      BY <1>1, <1>2
    <2> QED  BY <1>2, <1>3, <1>5, <2>1, <2>2 DEF ComesLast
  <1> QED  BY <1>4, <1>5

LEMMA InboxKinds ==
    ASSUME TypeOK, Next
    PROVE  UNCHANGED inbox \/ \E x \in Messages : Delivers(x)
  BY NextKinds DEF Presence, chatVars, LoadMessages, Prepares, Stores

LEMMA DoneBy ==
    ASSUME TypeOK, Next, NEW x \in Messages, handler'[x].pc = "done"
    PROVE  \/ Delivers(x)
           \/ handler[x].pc = "done" /\ handler'[x] = handler[x]
  <1>1. ASSUME NEW y \in Messages, Prepares(y) \/ Stores(y) \/ Delivers(y)
        PROVE  Delivers(x) \/ handler'[x] = handler[x]
    <2>1. CASE y = x
      BY <1>1, <2>1 DEF Prepares, Stores, StoredBy
    <2>2. CASE y # x
      BY <1>1, <2>2 DEF Prepares, Stores, Delivers, Only
    <2> QED  BY <2>1, <2>2
  <1>2. \/ handler' = handler
        \/ \E y \in Messages : Prepares(y) \/ Stores(y) \/ Delivers(y)
    BY NextKinds DEF Presence, chatVars, LoadMessages
  <1> QED  BY <1>1, <1>2

LEMMA StepShown ==
    ASSUME TypeOK, Next, ShownWhenDone, ShownByEntry
    PROVE  ShownWhenDone' /\ ShownByEntry'
  <1>1. ASSUME NEW s \in Sessions, NEW x \in Messages,
               NEW y \in Messages, y # x, Delivers(y)
        PROVE  Places(inbox'[s], x) = Places(inbox[s], x)
    <2>1. PICK n \in Nat, k \in Nat : ComesLast(y, s, k, n)
      BY <1>1, DeliveredTo
    <2>2. \A i \in 1..(k + n) : i \in 1..k \/ i \in (k + 1)..(k + n)
      OBVIOUS
    <2>3. 1..k \subseteq 1..(k + n)
      OBVIOUS
    <2> QED  BY <1>1, <2>1, <2>2, <2>3 DEF Places, ComesLast
  <1>2. ASSUME NEW s \in Sessions, NEW x \in Messages,
               handler'[x].pc # "done"
        PROVE  Places(inbox'[s], x) = {}
    <2>1. handler[x].pc # "done"
      BY <1>2, StoredLasts DEF StoredBy
    <2>2. Places(inbox[s], x) = {}
      BY <2>1 DEF ShownWhenDone
    <2>3. ~Delivers(x)
      BY <1>2 DEF Delivers
    <2> QED  BY <1>1, <2>2, <2>3, InboxKinds
  <1>3. ASSUME NEW s \in Sessions, NEW x \in Messages,
               handler'[x].pc = "done"
        PROVE  Cardinality(Places(inbox'[s], x))
                   <= handler'[x].members[UserOf[s]]
    <2>1. CASE handler[x].pc = "done" /\ handler'[x] = handler[x]
      <3>1. ~Delivers(x)
        BY <2>1 DEF Delivers
      <3>2. Places(inbox'[s], x) = Places(inbox[s], x)
        BY <1>1, <3>1, InboxKinds
      <3> QED  BY <2>1, <3>2 DEF ShownByEntry
    <2>2. CASE Delivers(x)
      <3>1. PICK n \in Nat, k \in Nat : ComesLast(x, s, k, n)
        BY <2>2, DeliveredTo
      <3>2. Places(inbox'[s], x) = (k + 1)..(k + n)
        <4>1. \A i \in 1..(k + n) : i \in 1..k \/ i \in (k + 1)..(k + n)
          OBVIOUS
        <4>2. (k + 1)..(k + n) \subseteq 1..(k + n)
          OBVIOUS
        <4> QED  BY <3>1, <4>1, <4>2 DEF Places, ComesLast
      <3>3. k + 1 \in Int /\ k + n \in Int
        OBVIOUS
      <3>4. Cardinality((k + 1)..(k + n)) =
                IF k + 1 > k + n THEN 0 ELSE (k + n) - (k + 1) + 1
        BY <3>3, FS_Interval
      <3>5. Cardinality((k + 1)..(k + n)) = n
        BY <3>4
      <3> QED  BY <2>2, <3>1, <3>2, <3>5 DEF Delivers, ComesLast
    <2> QED  BY <1>3, <2>1, <2>2, DoneBy
  <1> QED  BY <1>2, <1>3 DEF ShownWhenDone, ShownByEntry

LEMMA StepSameOrder ==
    ASSUME TypeOK, Next, ShownWhenDone, SameOrderForAll
    PROVE  SameOrderForAll'
  <1>1. CASE UNCHANGED inbox
    BY <1>1 DEF SameOrderForAll
  <1>2. ASSUME NEW x \in Messages, Delivers(x)
        PROVE  SameOrderForAll'
    <2> SUFFICES ASSUME NEW s \in Sessions, NEW t \in Sessions,
                        NEW i \in DOMAIN inbox'[s], NEW j \in DOMAIN inbox'[s],
                        NEW k \in DOMAIN inbox'[t], NEW l \in DOMAIN inbox'[t],
                        inbox'[s][i] # inbox'[s][j],
                        inbox'[s][i] = inbox'[t][k],
                        inbox'[s][j] = inbox'[t][l]
                 PROVE  i < j <=> k < l
      BY DEF SameOrderForAll
    <2>1. PICK n \in Nat, a \in Nat : ComesLast(x, s, a, n)
      BY <1>2, DeliveredTo
    <2>2. PICK m \in Nat, b \in Nat : ComesLast(x, t, b, m)
      BY <1>2, DeliveredTo
    <2>3. /\ i \in 1..a \/ i \in (a + 1)..(a + n)
          /\ j \in 1..a \/ j \in (a + 1)..(a + n)
          /\ k \in 1..b \/ k \in (b + 1)..(b + m)
          /\ l \in 1..b \/ l \in (b + 1)..(b + m)
      BY <2>1, <2>2 DEF ComesLast
    <2>4. CASE i \in 1..a /\ j \in 1..a
      <3>1. k \in 1..b /\ l \in 1..b
        BY <2>1, <2>2, <2>3, <2>4 DEF ComesLast
      <3>2. /\ inbox[s][i] # inbox[s][j]
            /\ inbox[s][i] = inbox[t][k]
            /\ inbox[s][j] = inbox[t][l]
        BY <2>1, <2>2, <2>4, <3>1 DEF ComesLast
      <3> QED
        BY <2>1, <2>2, <2>4, <3>1, <3>2 DEF SameOrderForAll, ComesLast
    <2>5. CASE i \in 1..a /\ j \in (a + 1)..(a + n)
      <3>1. k \in 1..b /\ l \in (b + 1)..(b + m)
        BY <2>1, <2>2, <2>3, <2>5 DEF ComesLast
      <3> QED  BY <2>5, <3>1
    <2>6. CASE i \in (a + 1)..(a + n) /\ j \in 1..a
      <3>1. k \in (b + 1)..(b + m) /\ l \in 1..b
        BY <2>1, <2>2, <2>3, <2>6 DEF ComesLast
      <3> QED  BY <2>6, <3>1
    <2>7. CASE i \in (a + 1)..(a + n) /\ j \in (a + 1)..(a + n)
      BY <2>1, <2>7 DEF ComesLast
    <2> QED  BY <2>3, <2>4, <2>5, <2>6, <2>7
  <1> QED  BY <1>1, <1>2, InboxKinds

LEMMA StepLoadedInside ==
    ASSUME TypeOK, Next, LoadedInside
    PROVE  LoadedInside'
  <1>1. CASE \E t \in Sessions : Presence(t)
    <2>1. UNCHANGED loadedAt
      BY <1>1 DEF Presence, chatVars
    <2> QED  BY <1>1, <2>1, PhasesMove DEF LoadedInside, TypeOK
  <1>2. ASSUME NEW t \in Sessions, NEW c \in Chats, LoadMessages(t, c)
        PROVE  LoadedInside'
    BY <1>2 DEF LoadMessages, LoadedInside, TypeOK, presenceVars
  <1>3. CASE UNCHANGED <<presenceVars, loadedAt>>
    BY <1>3 DEF LoadedInside, presenceVars
  <1> QED
    BY <1>1, <1>2, <1>3, NextKinds DEF Prepares, Stores, Delivers

LEMMA StepNoneMissed ==
    ASSUME IInv, Next
    PROVE  NoneMissed'
  <1> SUFFICES ASSUME NEW s \in Sessions, NEW x \in Messages,
                      phase'[s] = "in", SoleSession(s)',
                      handler'[x].pc = "done",
                      handler'[x].members[UserOf[s]] > 0,
                      loadedAt'[s][handler'[x].chat] # NotLoaded
               PROVE  \/ \E i \in DOMAIN log'[handler'[x].chat] :
                           /\ log'[handler'[x].chat][i] = x
                           /\ i <= loadedAt'[s][handler'[x].chat]
                      \/ Places(inbox'[s], x) # {}
    BY DEF NoneMissed
  <1>0. TypeOK
    BY DEF IInv
  <1>1. CASE Delivers(x)
    <2>1. UNCHANGED presenceVars /\ handler'[x].members = handler[x].members
      BY <1>1 DEF Delivers
    <2>2. phase[s] = "in" /\ SoleSession(s)
      BY <2>1 DEF presenceVars, SoleSession
    <2>3. Reached(s)
      BY <2>2 DEF IInv, SoleSessionReachable, SoleSession, Reached
    <2>4. PICK n \in Nat, k \in Nat : ComesLast(x, s, k, n)
      BY <1>0, <1>1, DeliveredTo DEF IInv
    <2>5. k + 1 \in (k + 1)..(k + n) /\ k + 1 \in 1..(k + n)
      BY <2>1, <2>3, <2>4 DEF ComesLast
    <2>6. k + 1 \in Places(inbox'[s], x)
      BY <2>4, <2>5 DEF Places, ComesLast
    <2> QED  BY <2>6
  <1>2. CASE ~Delivers(x)
    <2>1. handler[x].pc = "done" /\ handler'[x] = handler[x]
      BY <1>0, <1>2, DoneBy
    <2> DEFINE c == handler[x].chat
    <2>2. c \in Chats /\ handler'[x].chat = c
      BY <1>0, <2>1, HandlerType
    <2>3. PICK i \in DOMAIN log[c] : log[c][i] = x
      BY <2>1 DEF IInv, StoredIsInLog, StoredBy
    <2>4. i \in DOMAIN log'[c] /\ log'[c][i] = x
      BY <1>0, <2>2, <2>3, LogGrows
    <2>5. ASSUME Places(inbox[s], x) # {}
          PROVE  Places(inbox'[s], x) # {}
      <3>1. CASE UNCHANGED inbox
        BY <2>5, <3>1
      <3>2. ASSUME NEW y \in Messages, Delivers(y)
            PROVE  Places(inbox'[s], x) # {}
        <4>1. PICK n \in Nat, k \in Nat : ComesLast(y, s, k, n)
          BY <1>0, <3>2, DeliveredTo DEF IInv
        <4>2. PICK g \in 1..k : inbox[s][g] = x
          BY <2>5, <4>1 DEF Places, ComesLast
        <4>3. g \in 1..(k + n)
          OBVIOUS
        <4>4. g \in Places(inbox'[s], x)
          BY <4>1, <4>2, <4>3 DEF Places, ComesLast
        <4> QED  BY <4>4
      <3> QED  BY <1>0, <3>1, <3>2, InboxKinds
    <2>6. ASSUME phase[s] = "in", SoleSession(s),
                 loadedAt'[s][c] = loadedAt[s][c]
          PROVE  \/ \E g \in DOMAIN log'[c] :
                      log'[c][g] = x /\ g <= loadedAt'[s][c]
                 \/ Places(inbox'[s], x) # {}
      <3>1. /\ handler[x].members[UserOf[s]] > 0
            /\ loadedAt[s][c] # NotLoaded
        BY <2>1, <2>2, <2>6
      <3>2. \/ \E g \in DOMAIN log[c] : log[c][g] = x /\ g <= loadedAt[s][c]
            \/ Places(inbox[s], x) # {}
        BY <2>1, <2>6, <3>1 DEF IInv, NoneMissed
      <3> QED  BY <1>0, <2>2, <2>5, <2>6, <3>2, LogGrows
    <2>7. CASE \E t \in Sessions : Presence(t)
      <3>1. loadedAt' = loadedAt
        BY <2>7 DEF Presence, chatVars
      <3>2. PresenceTypeOK
        BY <1>0 DEF TypeOK
      <3>3. SoleSession(s)
        BY <2>7, <3>2, SoleStays
      <3>4. phase[s] \in {"in", "joining"}
        BY <2>7, <3>2, PhasesMove
      <3>5. phase[s] \in {"in", "gone"}
        BY <2>2, <3>1 DEF IInv, LoadedInside
      <3> QED  BY <2>2, <2>6, <3>1, <3>3, <3>4, <3>5
    <2>8. ASSUME UNCHANGED presenceVars
          PROVE  phase[s] = "in" /\ SoleSession(s)
      BY <2>8 DEF presenceVars, SoleSession
    <2>9. ASSUME NEW t \in Sessions, NEW d \in Chats, LoadMessages(t, d)
          PROVE  \/ \E g \in DOMAIN log'[c] :
                      log'[c][g] = x /\ g <= loadedAt'[s][c]
                 \/ Places(inbox'[s], x) # {}
      <3>1. UNCHANGED presenceVars
        BY <2>9 DEF LoadMessages
      <3>2. CASE t = s /\ d = c
        <4>1. loadedAt'[s][c] = Len(log[c])
          BY <1>0, <2>2, <2>9, <3>2 DEF LoadMessages, TypeOK
        <4>2. DOMAIN log[c] = 1..Len(log[c]) /\ Len(log[c]) \in Nat
          BY <1>0, <2>2, LenProperties DEF TypeOK
        <4>3. i <= loadedAt'[s][c]
          BY <2>3, <4>1, <4>2
        <4> QED  BY <2>4, <4>3
      <3>3. CASE ~(t = s /\ d = c)
        <4>1. loadedAt'[s][c] = loadedAt[s][c]
          BY <1>0, <2>2, <2>9, <3>3 DEF LoadMessages, TypeOK
        <4> QED  BY <2>6, <2>8, <3>1, <4>1
      <3> QED  BY <3>2, <3>3
    <2>10. CASE UNCHANGED <<presenceVars, loadedAt>>
      BY <2>2, <2>6, <2>8, <2>10
    <2>11. \/ \E t \in Sessions : Presence(t)
           \/ \E t \in Sessions, d \in Chats : LoadMessages(t, d)
           \/ UNCHANGED <<presenceVars, loadedAt>>
      BY <1>0, NextKinds DEF Prepares, Stores, Delivers
    <2> QED  BY <2>2, <2>7, <2>9, <2>10, <2>11
  <1> QED  BY <1>1, <1>2

-----------------------------------------------------------------------------
(* The theorems                                                            *)

LEMMA InitIInv == Init => IInv
  <1> SUFFICES ASSUME Init PROVE IInv
    OBVIOUS
  <1>1. PresenceTypeOK /\ SoleSessionReachable
    BY PresenceAssumption
    DEF Init, PresenceInit, PresenceTypeOK, Phases, SoleSessionReachable
  <1>2. /\ entries \in [Chats -> [Users -> Nat]]
        /\ handler \in [Messages -> Handlers]
        /\ log \in [Chats -> Seq(Messages)]
        /\ inbox \in [Sessions -> Seq(Messages)]
        /\ loadedAt \in [Sessions -> [Chats -> Nat \cup {NotLoaded}]]
    <2>1. entries \in [Chats -> [Users -> Nat]]
      BY DEF Init
    <2>2. <<>> \in Seq(Messages)
      BY EmptySeq
    <2> QED  BY <2>1, <2>2 DEF Init, Handlers
  <1>3. /\ \A x \in Messages : handler[x].pc = "unsent"
        /\ \A c \in Chats : DOMAIN log[c] = {}
        /\ \A s \in Sessions : DOMAIN inbox[s] = {}
        /\ \A s \in Sessions, c \in Chats : loadedAt[s][c] = NotLoaded
    BY DEF Init, Unsent
  <1>4. TypeOK
    BY <1>1, <1>2 DEF TypeOK
  <1>5. LogHoldsStored /\ StoredIsInLog /\ LogHoldsOnce
    BY <1>3 DEF LogHoldsStored, StoredIsInLog, LogHoldsOnce, StoredBy
  <1>6. ShownWhenDone /\ ShownByEntry /\ SameOrderForAll
    BY <1>3 DEF ShownWhenDone, ShownByEntry, SameOrderForAll, Places
  <1>7. LoadedInside /\ NoneMissed
    BY <1>3 DEF LoadedInside, NoneMissed
  <1> QED  BY <1>1, <1>4, <1>5, <1>6, <1>7 DEF IInv

LEMMA StepIInv == IInv /\ [Next]_vars => IInv'
  <1> SUFFICES ASSUME IInv, [Next]_vars PROVE IInv'
    OBVIOUS
  <1>1. CASE Next
    <2>1. SoleSessionReachable'
      <3>1. CASE \E t \in Sessions : Presence(t)
        BY <3>1, SoleSessionStep DEF IInv, TypeOK
      <3>2. CASE UNCHANGED presenceVars
        BY <3>2 DEF IInv, SoleSessionReachable, presenceVars
      <3>3. \/ \E t \in Sessions : Presence(t)
            \/ UNCHANGED presenceVars
        BY <1>1, NextKinds DEF IInv, LoadMessages, Prepares, Stores, Delivers
      <3> QED  BY <3>1, <3>2, <3>3
    <2> QED
      BY <1>1, <2>1, StepTypeOK, StepLog, StepShown, StepSameOrder,
         StepLoadedInside, StepNoneMissed DEF IInv
  <1>2. CASE UNCHANGED vars
    <2> USE <1>2 DEF IInv, vars, presenceVars, chatVars
    <2>1. TypeOK' /\ SoleSessionReachable'
      BY DEF TypeOK, PresenceTypeOK, SoleSessionReachable
    <2>2. LogHoldsStored' /\ StoredIsInLog' /\ LogHoldsOnce'
      BY DEF LogHoldsStored, StoredIsInLog, LogHoldsOnce
    <2>3. ShownWhenDone' /\ ShownByEntry' /\ SameOrderForAll'
      BY DEF ShownWhenDone, ShownByEntry, SameOrderForAll
    <2>4. LoadedInside' /\ NoneMissed'
      BY DEF LoadedInside, NoneMissed, SoleSession
    <2> QED  BY <2>1, <2>2, <2>3, <2>4
  <1> QED  BY <1>1, <1>2

(* The inductive invariant holds.                                          *)
THEOREM Invariance == Spec => []IInv
  BY InitIInv, StepIInv, PTL DEF Spec

(* The variables keep their types.                                         *)
THEOREM TypeCorrect == Spec => []TypeOK
  <1>1. IInv => TypeOK
    BY DEF IInv
  <1> QED  BY <1>1, Invariance, PTL

(* What a client is shown is in the history too (VOffice.ts 327).          *)
THEOREM ShownStored == Spec => []ShownIsStored
  <1>1. IInv => ShownIsStored
    <2> SUFFICES ASSUME IInv, NEW s \in Sessions,
                        NEW x \in Elements(inbox[s])
                 PROVE  x \in Elements(log[handler[x].chat])
      BY DEF ShownIsStored
    <2>1. PICK i \in DOMAIN inbox[s] : inbox[s][i] = x
      BY DEF Elements
    <2>2. x \in Messages
      BY <2>1, ElementOfSeq, LenProperties DEF IInv, TypeOK
    <2>3. handler[x].pc = "done"
      BY <2>1, <2>2 DEF IInv, ShownWhenDone, Places
    <2> QED  BY <2>2, <2>3 DEF IInv, StoredIsInLog, StoredBy, Elements
  <1> QED  BY <1>1, Invariance, PTL

(* Connections agree on the order of the messages they are both shown      *)
(* (VOffice.ts 346-353).                                                   *)
THEOREM SameOrder == Spec => []SameOrderForAll
  <1>1. IInv => SameOrderForAll
    BY DEF IInv
  <1> QED  BY <1>1, Invariance, PTL

(* A message is shown to members of its chat only, and no more often than  *)
(* the chat lists them (VOffice.ts 346-353).                               *)
THEOREM ShownListed == Spec => []ShownAsListed
  <1>1. IInv => ShownAsListed
    <2> SUFFICES ASSUME IInv, NEW s \in Sessions, NEW x \in Messages,
                        {i \in DOMAIN inbox[s] : inbox[s][i] = x} # {}
                 PROVE  Cardinality({i \in DOMAIN inbox[s] : inbox[s][i] = x})
                            <= handler[x].members[UserOf[s]]
      BY DEF ShownAsListed
    <2>1. handler[x].pc = "done"
      BY DEF IInv, ShownWhenDone, Places
    <2> QED  BY <2>1 DEF IInv, ShownByEntry, Places
  <1> QED  BY <1>1, Invariance, PTL

(* A client that joins and then loads a chat misses no message of it, if   *)
(* its user has no other connection and was listed (VOffice.ts 346-353,    *)
(* 368-371, controller.ts 397-422).                                        *)
THEOREM NothingIsMissed == Spec => []NothingMissed
  <1>1. IInv => NothingMissed
    <2> SUFFICES ASSUME IInv, NEW s \in Sessions, NEW x \in Messages,
                        phase[s] = "in", SoleSession(s),
                        handler[x].pc = "done",
                        handler[x].members[UserOf[s]] > 0,
                        loadedAt[s][handler[x].chat] # NotLoaded
                 PROVE  \/ Position(handler[x].chat, x)
                               <= loadedAt[s][handler[x].chat]
                        \/ x \in Elements(inbox[s])
      BY DEF NothingMissed
    <2> DEFINE c == handler[x].chat
    <2>1. CASE Places(inbox[s], x) # {}
      BY <2>1 DEF Places, Elements
    <2>2. ASSUME NEW i \in DOMAIN log[c], log[c][i] = x,
                 i <= loadedAt[s][c]
          PROVE  Position(c, x) <= loadedAt[s][c]
      <3>1. c \in Chats
        BY HandlerType DEF IInv
      <3>2. \A j \in DOMAIN log[c] : log[c][j] = x => j = i
        BY <2>2, <3>1 DEF IInv, LogHoldsOnce
      <3>3. Position(c, x) = i
        BY <2>2, <3>2 DEF Position
      <3> QED  BY <2>2, <3>3
    <2> QED  BY <2>1, <2>2 DEF IInv, NoneMissed
  <1> QED  BY <1>1, Invariance, PTL
=============================================================================
